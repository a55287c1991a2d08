------------------------------ MODULE MCParts ------------------------------
(***************************************************************************)
(* Instances of AnalyticsTable, ChecksumCheck, CacheFreshness, ReportStore,*)
(* WatchFanout and RepairPolicySelection for TLC, in one run.  They are    *)
(* independent of one another: part says which of them a behaviour is      *)
(* about, the others stay as they are initially.                           *)
(***************************************************************************)
EXTENDS AnalyticsTable, ChecksumCheck, CacheFreshness, ReportStore,
        WatchFanout, RepairPolicySelection

CONSTANTS k1, r1, r2, r3, i1, v1, v2, d1, s1

MCKeys == {k1}
MCReports == {r1, r2, r3}
MCInvariants == {i1}
MCViews == {v1, v2}
MCDataSources == {d1}
MCSecrets == {s1}

\* Orders 1 and 2 share a bucket, 3 has its own.
MCPrefix == [o \in Orders |-> IF o < 3 THEN "a" ELSE "b"]

\* Two processes on one host, and a Pod.
MCDirectory == [r \in MCReports |-> IF r = r3 THEN "pod" ELSE "host"]

VARIABLE part
vars == <<part, sourceVars, tableVars, checksumVars, cacheVars, storeVars,
          fanoutVars, selectionVars>>

\* Where a part may begin in several ways, the behaviours of other parts take one.
\* The Invariant begins with a DerivedView of any kind; the other DerivedView, to
\* which an edit may lead it, refers to everything there is.
Init ==
    /\ part \in {"table", "checksum", "cache", "store", "fanout", "selection"}
    /\ TableInit /\ ChecksumInit /\ CacheInit /\ StoreInit
    /\ part # "cache" => ~run.skips
    /\ viewRef = [i \in MCInvariants |-> v1]
    /\ part # "fanout" => /\ views = [v \in MCViews |-> NoSpec]
                          /\ secretOf = [d \in MCDataSources |-> None]
    /\ FanoutInit
    /\ part = "fanout" => views[v2] = [source |-> d1, target |-> s1, pipeline |-> None]
    /\ IF part = "selection" THEN SelectionInit ELSE policies = <<>> /\ repair = NoRepair

Next ==
    \/ /\ part = "table"
       /\ TableNext
       /\ UNCHANGED <<part, checksumVars, cacheVars, storeVars, fanoutVars, selectionVars>>
    \/ /\ part = "checksum"
       /\ ChecksumNext
       /\ UNCHANGED <<part, tableVars, cacheVars, storeVars, fanoutVars, selectionVars>>
    \/ /\ part = "cache"
       /\ CacheNext
       /\ UNCHANGED <<part, sourceVars, tableVars, checksumVars, storeVars, fanoutVars,
                      selectionVars>>
    \/ /\ part = "store"
       /\ StoreNext
       /\ UNCHANGED <<part, sourceVars, tableVars, checksumVars, cacheVars, fanoutVars,
                      selectionVars>>
    \/ /\ part = "fanout"
       /\ FanoutNext
       /\ UNCHANGED <<part, sourceVars, tableVars, checksumVars, cacheVars, storeVars,
                      selectionVars>>
    \/ /\ part = "selection"
       /\ SelectionNext
       /\ UNCHANGED <<part, sourceVars, tableVars, checksumVars, cacheVars, storeVars,
                      fanoutVars>>

Spec == Init /\ [][Next]_vars

\* Every part is well typed in the behaviours that are about it.
TypeOK ==
    /\ part = "table" => TableTypeOK
    /\ part = "checksum" => ChecksumTypeOK
    /\ part = "cache" => CacheTypeOK
    /\ part = "store" => StoreTypeOK
    /\ part = "fanout" => FanoutTypeOK
    /\ part = "selection" => SelectionTypeOK
=============================================================================
