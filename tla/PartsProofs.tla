---------------------------- MODULE PartsProofs ----------------------------
(***************************************************************************)
(* The six components that MCParts checks in one run: a behaviour of that  *)
(* run is a behaviour of each of them, so the theorems about a component   *)
(* hold in it, and the type invariant of the run follows from theirs.      *)
(***************************************************************************)
EXTENDS MCParts, SourceOrdersProofs, CacheFreshnessProofs, ReportStoreProofs,
        OperatorInputsProofs

\* The components that count orders look at the same ones: each sees the other's
\* source move as its own.
LEMMA SourceMoves ==
  ASSUME TableNext \/ ChecksumNext
  PROVE  Place \/ ComeOfAge \/ UNCHANGED sourceVars
<1> USE DEF sourceVars
<1>1. CASE TableNext
  BY <1>1 DEF TableNext, Backfill, Check, NextSecond, SelectAll, SelectIds, InsertRows,
              AbandonBackfill, ResetTable, Merge, CountSource, CountTarget, EndCount
<1>2. CASE ChecksumNext
  BY <1>2 DEF ChecksumNext, Write, Fault, Refresh, StartCheck, ReadSourceBuckets,
              ReadTargetBuckets, ReadSourceRows, ReadTargetRows, EndCheck, Reindex, RepairDone
<1> QED
  BY <1>1, <1>2

LEMMA PartsBegin ==
  Init => TableInit /\ ChecksumInit /\ CacheInit /\ StoreInit /\ FanoutInit /\ SelectionInit
<1> SUFFICES ASSUME Init PROVE SelectionInit
  BY DEF Init
<1>1. <<>> \in SeqOf(Policies, MaxPolicies)
  <2>1. <<>> \in [1..0 -> Policies] /\ 0 \in 0..MaxPolicies
    BY SelectionAssumption
  <2> QED
    BY <2>1 DEF SeqOf
<1> QED
  BY <1>1 DEF Init, SelectionInit

\* A step of a component is a step of that component and leaves the others alone,
\* but for the two that share the orders.
LEMMA PartsStep ==
  ASSUME [Next]_vars
  PROVE  /\ [TableNext]_TableVars
         /\ [ChecksumNext]_ChecksumVars
         /\ [CacheNext]_cacheVars
         /\ [StoreNext]_storeVars
         /\ [FanoutNext]_fanoutVars
         /\ [SelectionNext]_selectionVars
<1> USE DEF TableVars, ChecksumVars
<1>1. CASE TableNext /\ UNCHANGED <<part, checksumVars, cacheVars, storeVars, fanoutVars,
                                    selectionVars>>
  <2>1. [ChecksumNext]_ChecksumVars
    BY <1>1, SourceMoves DEF ChecksumNext
  <2> QED
    BY <1>1, <2>1
<1>2. CASE ChecksumNext /\ UNCHANGED <<part, tableVars, cacheVars, storeVars, fanoutVars,
                                       selectionVars>>
  <2>1. [TableNext]_TableVars
    BY <1>2, SourceMoves DEF TableNext
  <2> QED
    BY <1>2, <2>1
<1>3. CASE CacheNext /\ UNCHANGED <<part, sourceVars, tableVars, checksumVars, storeVars,
                                    fanoutVars, selectionVars>>
  BY <1>3
<1>4. CASE StoreNext /\ UNCHANGED <<part, sourceVars, tableVars, checksumVars, cacheVars,
                                    fanoutVars, selectionVars>>
  BY <1>4
<1>5. CASE FanoutNext /\ UNCHANGED <<part, sourceVars, tableVars, checksumVars, cacheVars,
                                     storeVars, selectionVars>>
  BY <1>5
<1>6. CASE SelectionNext /\ UNCHANGED <<part, sourceVars, tableVars, checksumVars, cacheVars,
                                        storeVars, fanoutVars>>
  BY <1>6
<1>7. CASE UNCHANGED vars
  BY <1>7 DEF vars
<1> QED
  BY <1>1, <1>2, <1>3, <1>4, <1>5, <1>6, <1>7 DEF Next

\* What the joint run does to the variables of a component is what the component
\* does alone: no part is checked under assumptions that another part makes true.
\* (clickhouse.py, checksum.py, redis.py, report_store.py and the operator's watch
\* and policy code share no state but the orders in Postgres)
THEOREM PartsAreIndependent ==
  Spec => TableSpec /\ ChecksumSpec /\ CacheSpec /\ StoreSpec /\ FanoutSpec /\ SelectionSpec
BY PartsBegin, PartsStep, PTL
   DEF Spec, TableSpec, ChecksumSpec, CacheSpec, StoreSpec, FanoutSpec, SelectionSpec,
       TableVars, ChecksumVars

\* Every part keeps its type in the joint run, whichever part a behaviour is about.
\* (the counts of a clickhouse-aggregate report, the buckets of a checksum report,
\* the documents read for a TTL check, the files of a report directory, the work
\* queue of the operator and the mode of a repair Job)
THEOREM PartsTypeCorrect == Spec => []TypeOK
<1>1. /\ TableTypeOK /\ ChecksumTypeOK /\ CacheTypeOK /\ StoreTypeOK /\ FanoutTypeOK
      /\ SelectionTypeOK
      => TypeOK
  BY DEF TypeOK
<1> QED
  BY <1>1, PartsAreIndependent, TableTyped, ChecksumTyped, CacheIsTyped, StoreIsTyped,
     FanoutIsTyped, SelectionTyped, PTL
=============================================================================
