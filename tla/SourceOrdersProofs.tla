------------------------- MODULE SourceOrdersProofs -------------------------
(***************************************************************************)
(* Theorems about the two checks that count the orders of SourceOrders:    *)
(* AnalyticsTable for every number of orders and backfills, ChecksumCheck  *)
(* for any orders, buckets and faults.                                     *)
(***************************************************************************)
EXTENDS AnalyticsTable, ChecksumCheck, FiniteSetTheorems, TLAPS

-----------------------------------------------------------------------------
(* AnalyticsTable: what the actions keep.                                  *)

TableVars == <<sourceVars, tableVars>>

LEMMA RowsFinite ==
  ASSUME rows \subseteq Orders \X Loads, NEW cut \in Nat
  PROVE  /\ IsFiniteSet(Counted(cut))
         /\ Cardinality(Counted(cut)) \in Nat
<1>1. IsFiniteSet(Orders) /\ IsFiniteSet(Loads)
  BY MaxOrdersAssumption, AnalyticsAssumption, FS_Interval DEF Orders, Loads
<1>2. IsFiniteSet(Orders \X Loads)
  BY <1>1, FS_Product
<1>3. Counted(cut) \in SUBSET (Orders \X Loads)
  BY DEF Counted
<1> QED
  BY <1>2, <1>3, FS_Subset, FS_CardinalityType

LEMMA TableInitType == TableInit => TableTypeOK
BY MaxOrdersAssumption, AnalyticsAssumption
   DEF TableInit, TableTypeOK, SourceInit, SourceTypeOK, NoLoad, NoCount, Orders

LEMMA TableStepType == TableTypeOK /\ [TableNext]_TableVars => TableTypeOK'
<1> SUFFICES ASSUME TableTypeOK, [TableNext]_TableVars PROVE TableTypeOK'
  OBVIOUS
<1> USE MaxOrdersAssumption, AnalyticsAssumption DEF TableTypeOK, SourceTypeOK
<1>1. CASE (Place \/ ComeOfAge) /\ UNCHANGED tableVars
  BY <1>1 DEF Place, ComeOfAge, tableVars
<1>2. CASE NextSecond
  BY <1>2 DEF NextSecond, sourceVars
<1>3. ASSUME NEW skip \in BOOLEAN, SelectAll(skip) PROVE TableTypeOK'
  <2>1. Selected \subseteq Orders
    BY DEF Selected, Orders
  <2>2. loading' \in [busy : BOOLEAN, orders : SUBSET Orders, upto : 0..placed]
    BY <1>3, <2>1 DEF SelectAll
  <2> QED
    BY <1>3, <2>2 DEF SelectAll, sourceVars
<1>4. ASSUME NEW ids \in SUBSET Orders, SelectIds(ids) PROVE TableTypeOK'
  <2>1. loading' \in [busy : BOOLEAN, orders : SUBSET Orders, upto : 0..placed]
    BY <1>4 DEF SelectIds
  <2> QED
    BY <1>4, <2>1 DEF SelectIds, sourceVars
<1>5. CASE InsertRows
  <2>1. loading' \in [busy : BOOLEAN, orders : SUBSET Orders, upto : 0..placed]
    BY <1>5 DEF InsertRows, NoLoad
  <2>2. loads' \in 0..MaxLoads /\ sinceReset' \in 0..loads' /\ loaded' \in 0..placed
    BY <1>5 DEF InsertRows
  <2>3. rows' \subseteq Orders \X Loads
    <3>1. loading.orders \X {loads + 1} \subseteq Orders \X Loads
      BY <1>5 DEF InsertRows, Loads
    <3> QED
      BY <1>5, <3>1 DEF InsertRows
  <2>4. count' \in [stage : {"idle", "source", "done"}, source : 0..aged',
                    target : Nat, cut : 0..aged',
                    lacking : SUBSET Orders, loads : 0..loads', loaded : 0..placed']
    BY <1>5, <2>2 DEF InsertRows, sourceVars
  <2> QED
    BY <1>5, <2>1, <2>2, <2>3, <2>4 DEF InsertRows, sourceVars
<1>6. CASE AbandonBackfill
  BY <1>6 DEF AbandonBackfill, NoLoad, sourceVars
<1>7. CASE ResetTable
  BY <1>7 DEF ResetTable, sourceVars
<1>8. CASE Merge
  BY <1>8 DEF Merge, sourceVars
<1>9. CASE CountSource
  <2>1. count' \in [stage : {"idle", "source", "done"}, source : 0..aged,
                    target : Nat, cut : 0..aged,
                    lacking : SUBSET Orders, loads : 0..loads, loaded : 0..placed]
    <3>1. count' = [stage |-> "source", source |-> aged, target |-> 0, cut |-> 0,
                    lacking |-> {}, loads |-> 0, loaded |-> 0]
      BY <1>9 DEF CountSource, NoCount
    <3> QED
      BY <3>1
  <2> QED
    BY <1>9, <2>1 DEF CountSource, sourceVars
<1>10. CASE CountTarget
  <2>1. Cardinality(Counted(agedThisSecond)) \in Nat
    BY RowsFinite
  <2>2. {o \in 1..count.source : \A row \in rows : row[1] # o} \subseteq Orders
    BY DEF Orders
  <2>3. count' \in [stage : {"idle", "source", "done"}, source : 0..aged,
                    target : Nat, cut : 0..aged,
                    lacking : SUBSET Orders, loads : 0..loads, loaded : 0..placed]
    BY <1>10, <2>1, <2>2 DEF CountTarget
  <2> QED
    BY <1>10, <2>3 DEF CountTarget, sourceVars
<1>11. CASE EndCount
  BY <1>11 DEF EndCount, NoCount, sourceVars
<1>12. CASE UNCHANGED TableVars
  BY <1>12 DEF TableVars, sourceVars, tableVars
<1> QED
  BY <1>1, <1>2, <1>3, <1>4, <1>5, <1>6, <1>7, <1>8, <1>9, <1>10, <1>11, <1>12
     DEF TableNext, Backfill, Check

\* Every reachable state is well typed.  (analytics.py, checker.py)
THEOREM TableTyped == TableSpec => []TableTypeOK
BY TableInitType, TableStepType, PTL DEF TableSpec, TableVars
-----------------------------------------------------------------------------
(* What the rows of the table stand for.                                   *)

LoadInv ==
    /\ \A o \in 1..loaded : \E row \in rows : row[1] = o
    /\ \A o \in 1..loading.upto : o \in loading.orders
    /\ sinceReset = 0 => rows = {}
    /\ sinceReset <= 1 => \A a, b \in rows : a[2] = b[2]

TableInv == TableTypeOK /\ LoadInv /\ DeficitMeansUnloaded /\ OneLoadCountsTruly

LEMMA LoadStep == TableTypeOK /\ LoadInv /\ [TableNext]_TableVars => LoadInv'
<1> SUFFICES ASSUME TableTypeOK, LoadInv, [TableNext]_TableVars PROVE LoadInv'
  OBVIOUS
<1> USE DEF LoadInv
<1>1. CASE (Place \/ ComeOfAge) /\ UNCHANGED tableVars
  BY <1>1 DEF tableVars
<1>2. CASE NextSecond
  BY <1>2 DEF NextSecond
<1>3. ASSUME NEW skip \in BOOLEAN, SelectAll(skip) PROVE LoadInv'
  BY <1>3 DEF SelectAll, Selected
<1>4. ASSUME NEW ids \in SUBSET Orders, SelectIds(ids) PROVE LoadInv'
  BY <1>4 DEF SelectIds
<1>5. CASE InsertRows
  <2>1. \A o \in 1..loading'.upto : o \in loading'.orders
    BY <1>5 DEF InsertRows, NoLoad
  <2>2. CASE loading.orders = {}
    BY <1>5, <2>1, <2>2 DEF InsertRows
  <2>3. CASE loading.orders # {}
    <3>1. /\ rows' = rows \union (loading.orders \X {loads + 1})
          /\ sinceReset' = sinceReset + 1
          /\ loaded' = IF loading.upto > loaded THEN loading.upto ELSE loaded
      BY <1>5, <2>3 DEF InsertRows
    <3>2. \A o \in 1..loaded' : \E row \in rows' : row[1] = o
      <4> SUFFICES ASSUME NEW o \in 1..loaded' PROVE \E row \in rows' : row[1] = o
        OBVIOUS
      <4>1. CASE o \in loading.orders
        <5>1. <<o, loads + 1>> \in rows'
          BY <3>1, <4>1
        <5> QED
          BY <5>1
      <4>2. CASE o \notin loading.orders
        <5>1. o \in 1..loaded
          BY <3>1, <4>2 DEF TableTypeOK, SourceTypeOK
        <5> QED
          BY <3>1, <5>1
      <4> QED
        BY <4>1, <4>2
    <3>3. sinceReset' # 0
      BY <3>1 DEF TableTypeOK
    <3>4. ASSUME sinceReset' <= 1 PROVE \A a, b \in rows' : a[2] = b[2]
      <4>1. rows = {}
        BY <3>1, <3>4, AnalyticsAssumption DEF TableTypeOK
      <4> QED
        BY <3>1, <4>1
    <3> QED
      BY <2>1, <3>2, <3>3, <3>4
  <2> QED
    BY <2>2, <2>3
<1>6. CASE AbandonBackfill
  BY <1>6 DEF AbandonBackfill, NoLoad
<1>7. CASE ResetTable
  BY <1>7 DEF ResetTable
<1>8. CASE Merge
  <2>1. PICK old \in rows, new \in rows :
          old[1] = new[1] /\ old[2] < new[2] /\ rows' = rows \ {old}
    BY <1>8 DEF Merge
  <2>2. old # new
    BY <2>1 DEF TableTypeOK, Loads
  <2>3. \A o \in 1..loaded : \E row \in rows' : row[1] = o
    <3> SUFFICES ASSUME NEW o \in 1..loaded PROVE \E row \in rows' : row[1] = o
      OBVIOUS
    <3>1. PICK row \in rows : row[1] = o
      OBVIOUS
    <3> QED
      BY <2>1, <2>2, <3>1
  <2> QED
    BY <1>8, <2>1, <2>3 DEF Merge
<1>9. CASE CountSource
  BY <1>9 DEF CountSource
<1>10. CASE CountTarget
  BY <1>10 DEF CountTarget
<1>11. CASE EndCount
  BY <1>11 DEF EndCount
<1>12. CASE UNCHANGED TableVars
  BY <1>12 DEF TableVars, tableVars
<1> QED
  BY <1>1, <1>2, <1>3, <1>4, <1>5, <1>6, <1>7, <1>8, <1>9, <1>10, <1>11, <1>12
     DEF TableNext, Backfill, Check

\* n orders that have rows of age make a count of at least n.
LEMMA LoadedAreCounted ==
  ASSUME rows \subseteq Orders \X Loads, NEW n \in Nat, NEW cut \in Nat, n <= cut,
         \A o \in 1..n : \E row \in rows : row[1] = o
  PROVE  n <= Cardinality(Counted(cut))
<1> DEFINE g == [o \in 1..n |-> CHOOSE row \in rows : row[1] = o]
<1>1. \A o \in 1..n : g[o] \in rows /\ g[o][1] = o
  OBVIOUS
<1>2. \A o \in 1..n : g[o] \in Counted(cut)
  BY <1>1 DEF Counted
<1>3. g \in Injection(1..n, Counted(cut))
  BY <1>1, <1>2 DEF Injection, IsInjective
<1>4. IsFiniteSet(Counted(cut))
  BY RowsFinite
<1>5. Cardinality(1..n) <= Cardinality(Counted(cut))
  BY <1>3, <1>4, FS_Injection
<1>6. Cardinality(1..n) = n
  BY FS_Interval
<1> QED
  BY <1>5, <1>6

\* The rows of one load are at most as many as the orders, and if they are as many,
\* every order has one.
LEMMA OneLoadCounted ==
  ASSUME rows \subseteq Orders \X Loads, NEW n \in Nat, NEW cut \in Nat, cut <= n,
         \A a, b \in rows : a[2] = b[2]
  PROVE  /\ Cardinality(Counted(cut)) <= n
         /\ Cardinality(Counted(cut)) = n => \A o \in 1..n : \E row \in rows : row[1] = o
<1> DEFINE f == [row \in Counted(cut) |-> row[1]]
<1>1. \A row \in Counted(cut) : row[1] \in 1..n
  <2> SUFFICES ASSUME NEW row \in Counted(cut) PROVE row[1] \in 1..n
    OBVIOUS
  <2>1. row \in Orders \X Loads /\ row[1] <= cut
    BY DEF Counted
  <2>2. row[1] \in Nat /\ row[1] >= 1
    BY <2>1, MaxOrdersAssumption DEF Orders
  <2> QED
    BY <2>1, <2>2
<1>2. \A a, b \in Counted(cut) : a[1] = b[1] => a = b
  <2> SUFFICES ASSUME NEW a \in Counted(cut), NEW b \in Counted(cut), a[1] = b[1]
               PROVE  a = b
    OBVIOUS
  <2>1. a \in Orders \X Loads /\ b \in Orders \X Loads /\ a[2] = b[2]
    BY DEF Counted
  <2>2. a = <<a[1], a[2]>> /\ b = <<b[1], b[2]>>
    BY <2>1
  <2> QED
    BY <2>1, <2>2
<1>3. f \in Injection(Counted(cut), 1..n)
  BY <1>1, <1>2 DEF Injection, IsInjective
<1>4. IsFiniteSet(1..n) /\ Cardinality(1..n) = n
  BY FS_Interval
<1>5. /\ Cardinality(Counted(cut)) <= n
      /\ Cardinality(Counted(cut)) = n => f \in Surjection(Counted(cut), 1..n)
  BY <1>3, <1>4, FS_Injection
<1>6. f \in Surjection(Counted(cut), 1..n) => \A o \in 1..n : \E row \in rows : row[1] = o
  BY DEF Surjection, Counted
<1> QED
  BY <1>5, <1>6

LEMMA VerdictStep ==
  TableInv /\ [TableNext]_TableVars => DeficitMeansUnloaded' /\ OneLoadCountsTruly'
<1> SUFFICES ASSUME TableInv, [TableNext]_TableVars
             PROVE  DeficitMeansUnloaded' /\ OneLoadCountsTruly'
  OBVIOUS
<1> USE DEF TableInv
<1>1. CASE CountTarget
  <2> DEFINE cut == agedThisSecond
  <2>1. /\ count'.source = count.source /\ count'.cut = cut
        /\ count'.target = Cardinality(Counted(cut))
        /\ count'.lacking = {o \in 1..count.source : \A row \in rows : row[1] # o}
        /\ count'.loads = sinceReset /\ count'.loaded = loaded
    BY <1>1 DEF CountTarget, TableTypeOK
  <2>2. count.source \in Nat /\ cut \in Nat /\ rows \subseteq Orders \X Loads
        /\ loaded \in Nat /\ sinceReset \in Nat
    BY MaxOrdersAssumption, AnalyticsAssumption DEF TableTypeOK, SourceTypeOK
  <2>3. Cardinality(Counted(cut)) \in Nat
    BY <2>2, RowsFinite
  <2>4. ASSUME count.source <= loaded, count.source <= cut
        PROVE  count.source <= Cardinality(Counted(cut))
    <3>1. \A o \in 1..count.source : \E row \in rows : row[1] = o
      BY <2>2, <2>4 DEF LoadInv
    <3> QED
      BY <2>2, <2>4, <3>1, LoadedAreCounted
  <2>5. ASSUME sinceReset <= 1, cut <= count.source
        PROVE  /\ Cardinality(Counted(cut)) <= count.source
               /\ Cardinality(Counted(cut)) = count.source
                    => \A o \in 1..count.source : \E row \in rows : row[1] = o
    <3>1. \A a, b \in rows : a[2] = b[2]
      BY <2>5 DEF LoadInv
    <3> QED
      BY <2>2, <2>5, <3>1, OneLoadCounted
  <2>6. DeficitMeansUnloaded'
    BY <2>1, <2>2, <2>3, <2>4 DEF DeficitMeansUnloaded
  <2>7. OneLoadCountsTruly'
    BY <2>1, <2>2, <2>3, <2>5 DEF OneLoadCountsTruly
  <2> QED
    BY <2>6, <2>7
<1>2. CASE CountSource
  BY <1>2 DEF CountSource, NoCount, DeficitMeansUnloaded, OneLoadCountsTruly, TableTypeOK
<1>3. CASE EndCount
  BY <1>3 DEF EndCount, NoCount, DeficitMeansUnloaded, OneLoadCountsTruly
<1>4. CASE UNCHANGED count
  BY <1>4 DEF DeficitMeansUnloaded, OneLoadCountsTruly
<1> QED
  BY <1>1, <1>2, <1>3, <1>4
     DEF TableNext, Backfill, Check, NextSecond, SelectAll, SelectIds, InsertRows,
         AbandonBackfill, ResetTable, Merge, TableVars, tableVars

LEMMA TableInductive == TableSpec => []TableInv
<1>1. TableInit => TableInv
  BY TableInitType
     DEF TableInit, SourceInit, TableInv, LoadInv, DeficitMeansUnloaded, OneLoadCountsTruly,
         NoCount, NoLoad
<1>2. TableInv /\ [TableNext]_TableVars => TableInv'
  BY TableStepType, LoadStep, VerdictStep DEF TableInv
<1> QED
  BY <1>1, <1>2, PTL DEF TableSpec, TableVars

\* A table that lacks rows lacks them because no complete load was to bring them, or
\* the count was cut off early: for any number of orders, backfills, truncates and
\* merges, in any order.  (analytics.py: backfill_orders_analytics)
THEOREM DeficitIsUnloaded == TableSpec => []DeficitMeansUnloaded
BY TableInductive, PTL DEF TableInv

\* One load since the last truncate counts truly.  (analytics.py: reset_table,
\* backfill_orders_analytics, paid_order_summary)
THEOREM OneLoadIsExact == TableSpec => []OneLoadCountsTruly
BY TableInductive, PTL DEF TableInv

-----------------------------------------------------------------------------
(* ChecksumCheck: types.                                                   *)

ChecksumVars == <<sourceVars, checksumVars>>

Checks(n) == [stage : Stages, cut : 0..n, counted : 0..n,
              seen : [Orders -> Contents], again : [Orders -> Contents],
              differing : SUBSET Buckets,
              rows : SUBSET (1..n), listed : SUBSET (1..n), todo : SUBSET (1..n)]

LEMMA TypeIs ==
  ChecksumTypeOK <=> /\ SourceTypeOK
                     /\ index \in [Orders -> Contents]
                     /\ visible \in [Orders -> Contents]
                     /\ faults \in 0..MaxFaults
                     /\ check \in Checks(aged)
                     /\ disturbed \in BOOLEAN
BY DEF ChecksumTypeOK, Checks

LEMMA NoCheckType == ASSUME NEW n \in Nat PROVE NoCheck \in Checks(n)
BY DEF NoCheck, NoDocuments, Checks, Stages, Contents

LEMMA ChecksGrow == ASSUME NEW n \in Nat, NEW c \in Checks(n) PROVE c \in Checks(n + 1)
BY DEF Checks

LEMMA ChecksumInitType == ChecksumInit => ChecksumTypeOK
<1> SUFFICES ASSUME ChecksumInit PROVE ChecksumTypeOK
  OBVIOUS
<1>1. SourceTypeOK
  BY MaxOrdersAssumption DEF ChecksumInit, SourceInit, SourceTypeOK
<1>2. check \in Checks(aged)
  <2>1. check = NoCheck /\ aged = 0
    BY DEF ChecksumInit, SourceInit
  <2>2. NoCheck \in Checks(0)
    BY NoCheckType
  <2> QED
    BY <2>1, <2>2
<1>3. NoDocuments \in [Orders -> Contents]
  BY DEF NoDocuments, Contents
<1>4. index \in [Orders -> Contents] /\ visible \in [Orders -> Contents]
  BY <1>3 DEF ChecksumInit
<1>5. faults \in 0..MaxFaults
  BY ChecksumAssumption DEF ChecksumInit
<1>6. disturbed \in BOOLEAN
  BY DEF ChecksumInit
<1> QED
  BY <1>1, <1>2, <1>4, <1>5, <1>6, TypeIs

LEMMA ChecksumStepType == ChecksumTypeOK /\ [ChecksumNext]_ChecksumVars => ChecksumTypeOK'
<1> SUFFICES ASSUME ChecksumTypeOK, [ChecksumNext]_ChecksumVars PROVE ChecksumTypeOK'
  OBVIOUS
<1>a. /\ placed \in 0..MaxOrders /\ aged \in 0..placed /\ aged \in Nat
      /\ index \in [Orders -> Contents] /\ visible \in [Orders -> Contents]
      /\ faults \in 0..MaxFaults /\ check \in Checks(aged) /\ disturbed \in BOOLEAN
  BY MaxOrdersAssumption DEF ChecksumTypeOK, Checks, SourceTypeOK
<1>b. ASSUME UNCHANGED sourceVars, index' \in [Orders -> Contents],
             visible' \in [Orders -> Contents], faults' \in 0..MaxFaults,
             check' \in Checks(aged), disturbed' \in BOOLEAN
      PROVE  ChecksumTypeOK'
  BY <1>a, <1>b DEF ChecksumTypeOK, Checks, SourceTypeOK, sourceVars
<1>c. aged \in 0..MaxOrders
  BY <1>a, MaxOrdersAssumption
<1>1. CASE (Place \/ ComeOfAge) /\ UNCHANGED checksumVars
  <2>1. SourceTypeOK'
    BY <1>a, <1>1, MaxOrdersAssumption DEF Place, ComeOfAge, SourceTypeOK
  <2>2. check' \in Checks(aged')
    BY <1>a, <1>1, ChecksGrow DEF Place, ComeOfAge, checksumVars
  <2> QED
    BY <1>a, <1>1, <2>1, <2>2 DEF ChecksumTypeOK, Checks, checksumVars
<1>2. ASSUME NEW o \in Orders, Write(o) PROVE ChecksumTypeOK'
  <2>1. index' \in [Orders -> Contents]
    BY <1>a, <1>2 DEF Write, Contents
  <2> QED
    BY <1>a, <1>b, <1>2, <2>1 DEF Write
<1>3. ASSUME NEW o \in Orders, NEW content \in Contents, Fault(o, content)
      PROVE  ChecksumTypeOK'
  <2>1. index' \in [Orders -> Contents] /\ faults' \in 0..MaxFaults
    BY <1>a, <1>3, ChecksumAssumption DEF Fault
  <2> QED
    BY <1>a, <1>b, <1>3, <2>1 DEF Fault
<1>4. CASE Refresh
  BY <1>a, <1>b, <1>4 DEF Refresh
<1>5. CASE StartCheck
  <2>1. check' = [stage |-> "started", cut |-> aged, counted |-> 0, seen |-> NoDocuments,
                  again |-> NoDocuments, differing |-> {}, rows |-> {}, listed |-> {},
                  todo |-> {}]
    BY <1>5 DEF StartCheck, NoCheck
  <2>a. NoDocuments \in [Orders -> Contents]
    BY DEF NoDocuments, Contents
  <2>2. check' \in Checks(aged)
    BY <1>a, <2>1, <2>a DEF Checks, Stages
  <2> QED
    BY <1>a, <1>b, <1>5, <2>2 DEF StartCheck
<1>6. CASE ReadSourceBuckets
  <2>1. check' = [check EXCEPT !.stage = "source", !.counted = aged]
    BY <1>6 DEF ReadSourceBuckets
  <2>a. "source" \in Stages /\ aged \in 0..aged
    BY <1>a DEF Stages
  <2>b. check' \in Checks(aged)
    BY <1>a, <2>1, <2>a DEF Checks
  <2> QED
    BY <1>a, <1>b, <1>6, <2>b DEF ReadSourceBuckets
<1>7. CASE ReadTargetBuckets
  <2>1. Differing(check.counted, visible, check.cut) \subseteq Buckets
    BY DEF Differing
  <2>2. check' \in Checks(aged)
    BY <1>a, <1>7, <2>1 DEF ReadTargetBuckets, Checks, Stages
  <2> QED
    BY <1>a, <1>b, <1>7, <2>2 DEF ReadTargetBuckets
<1>8. CASE ReadSourceRows
  <2>1. check' \in Checks(aged)
    BY <1>a, <1>8 DEF ReadSourceRows, Eligible, Checks, Stages
  <2> QED
    BY <1>a, <1>b, <1>8, <2>1 DEF ReadSourceRows
<1>9. CASE ReadTargetRows
  <2>1. Listed(check.rows, visible, check.cut) \subseteq 1..aged
    BY <1>a DEF Listed, Checks
  <2>2. check' \in Checks(aged)
    BY <1>a, <1>9, <2>1 DEF ReadTargetRows, Checks, Stages
  <2> QED
    BY <1>a, <1>b, <1>9, <2>2 DEF ReadTargetRows
<1>10. CASE EndCheck
  BY <1>a, <1>b, <1>10, NoCheckType DEF EndCheck
<1>11. ASSUME NEW o \in Orders, Reindex(o) PROVE ChecksumTypeOK'
  <2>1. index' \in [Orders -> Contents] /\ visible' = index'
    BY <1>a, <1>11 DEF Reindex, Contents
  <2>2. check' \in Checks(aged)
    BY <1>a, <1>11 DEF Reindex, Checks
  <2> QED
    BY <1>a, <1>b, <1>11, <2>1, <2>2 DEF Reindex
<1>12. CASE RepairDone
  <2>1. check' \in Checks(aged)
    BY <1>a, <1>12 DEF RepairDone, Checks, Stages
  <2> QED
    BY <1>a, <1>b, <1>12, <2>1 DEF RepairDone
<1>13. CASE UNCHANGED ChecksumVars
  BY <1>13 DEF ChecksumVars, sourceVars, checksumVars, ChecksumTypeOK, SourceTypeOK
<1> QED
  BY <1>1, <1>2, <1>3, <1>4, <1>5, <1>6, <1>7, <1>8, <1>9, <1>10, <1>11, <1>12, <1>13
     DEF ChecksumNext

\* Every reachable state is well typed.  (checker.py, search.py)
THEOREM ChecksumTyped == ChecksumSpec => []ChecksumTypeOK
BY ChecksumInitType, ChecksumStepType, PTL DEF ChecksumSpec, ChecksumVars

-----------------------------------------------------------------------------
(* What the reads of a check have to do with each other, and what a repair *)
(* has left to do.                                                         *)

ReadInv ==
    /\ check.stage \in {"source", "target", "rows", "done", "repaired"}
          => check.cut <= check.counted
    /\ check.stage \in {"target", "rows", "done", "repaired"}
          => check.differing = Differing(check.counted, check.seen, check.cut)
    /\ check.stage \in {"rows", "done", "repaired"}
          => \A o \in 1..check.counted : Prefix[o] \in check.differing => o \in check.rows
    /\ check.stage \in {"done", "repaired"}
          => check.listed = Listed(check.rows, check.again, check.cut)

RepairInv ==
    /\ check.stage \in {"done", "repaired"} /\ ~disturbed
          => \A o \in check.rows \ check.todo : visible[o] = "same" /\ index[o] = "same"
    /\ check.stage = "repaired" => check.todo = {}

ChecksumInv == ChecksumTypeOK /\ ReadInv /\ RepairInv

LEMMA ReadStep == ChecksumTypeOK /\ ReadInv /\ [ChecksumNext]_ChecksumVars => ReadInv'
<1> SUFFICES ASSUME ChecksumTypeOK, ReadInv, [ChecksumNext]_ChecksumVars PROVE ReadInv'
  OBVIOUS
<1>a. check \in Checks(aged) /\ aged \in Nat
  BY MaxOrdersAssumption DEF ChecksumTypeOK, Checks, SourceTypeOK
<1>1. CASE UNCHANGED check
  BY <1>1 DEF ReadInv
<1>2. CASE StartCheck
  <2>1. check'.stage = "started"
    BY <1>2 DEF StartCheck, NoCheck
  <2> QED
    BY <2>1 DEF ReadInv
<1>3. CASE ReadSourceBuckets
  <2>1. check'.stage = "source" /\ check'.counted = aged /\ check'.cut = check.cut
    BY <1>a, <1>3 DEF ReadSourceBuckets, Checks
  <2>2. check.cut <= aged
    BY <1>a DEF Checks
  <2> QED
    BY <2>1, <2>2 DEF ReadInv
<1>4. CASE ReadTargetBuckets
  <2>1. /\ check.stage = "source" /\ check'.stage = "target" /\ check'.seen = visible
        /\ check'.counted = check.counted /\ check'.cut = check.cut
        /\ check'.differing = Differing(check.counted, visible, check.cut)
    BY <1>a, <1>4 DEF ReadTargetBuckets, Checks
  <2> QED
    BY <2>1 DEF ReadInv
<1>5. CASE ReadSourceRows
  <2>1. /\ check.stage = "target" /\ check'.stage = "rows" /\ check'.seen = check.seen
        /\ check'.counted = check.counted /\ check'.cut = check.cut
        /\ check'.differing = check.differing
        /\ check'.rows = {o \in 1..aged : Prefix[o] \in check.differing}
    BY <1>a, <1>5 DEF ReadSourceRows, Eligible, Checks
  <2>2. check.counted \in 0..aged
    BY <1>a DEF Checks
  <2>3. \A o \in 1..check.counted : o \in 1..aged
    BY <1>a, <2>2
  <2> QED
    BY <2>1, <2>3 DEF ReadInv
<1>6. CASE ReadTargetRows
  <2>1. /\ check.stage = "rows" /\ check'.stage = "done" /\ check'.seen = check.seen
        /\ check'.counted = check.counted /\ check'.cut = check.cut
        /\ check'.differing = check.differing /\ check'.rows = check.rows
        /\ check'.again = visible
        /\ check'.listed = Listed(check.rows, visible, check.cut)
    BY <1>a, <1>6 DEF ReadTargetRows, Checks
  <2> QED
    BY <2>1 DEF ReadInv
<1>7. CASE EndCheck
  <2>1. check'.stage = "idle"
    BY <1>7 DEF EndCheck, NoCheck
  <2> QED
    BY <2>1 DEF ReadInv
<1>8. CASE (\E o \in Orders : Reindex(o)) \/ RepairDone
  <2>1. /\ check.stage = "done" /\ check'.stage \in {"done", "repaired"}
        /\ check'.seen = check.seen
        /\ check'.counted = check.counted /\ check'.cut = check.cut
        /\ check'.differing = check.differing /\ check'.rows = check.rows
        /\ check'.again = check.again /\ check'.listed = check.listed
    BY <1>a, <1>8 DEF Reindex, RepairDone, Checks
  <2> QED
    BY <2>1 DEF ReadInv
<1> QED
  BY <1>1, <1>2, <1>3, <1>4, <1>5, <1>6, <1>7, <1>8
     DEF ChecksumNext, Write, Fault, Refresh, checksumVars, ChecksumVars

LEMMA RepairStep == ChecksumInv /\ [ChecksumNext]_ChecksumVars => RepairInv'
<1> SUFFICES ASSUME ChecksumTypeOK, ReadInv, RepairInv, [ChecksumNext]_ChecksumVars
             PROVE  RepairInv'
  BY DEF ChecksumInv
<1>a. /\ check \in Checks(aged) /\ aged \in Nat /\ \A o \in 1..aged : o \in Orders
      /\ index \in [Orders -> Contents] /\ visible \in [Orders -> Contents]
  BY MaxOrdersAssumption DEF ChecksumTypeOK, Checks, SourceTypeOK, Orders
<1>b. \A o \in check.rows : o \in Orders
  BY <1>a DEF Checks
<1>1. CASE UNCHANGED <<check, index, visible, disturbed>>
  BY <1>1 DEF RepairInv
<1>2. ASSUME NEW o \in Orders, Write(o) PROVE RepairInv'
  <2>1. \A p \in Orders : index[p] = "same" => index'[p] = "same"
    BY <1>a, <1>2 DEF Write
  <2> QED
    BY <1>b, <1>2, <2>1 DEF Write, RepairInv
<1>3. ASSUME NEW o \in Orders, NEW content \in Contents, Fault(o, content)
      PROVE  RepairInv'
  BY <1>3 DEF Fault, RepairInv
<1>4. CASE Refresh
  BY <1>4 DEF Refresh, RepairInv
<1>5. CASE check'.stage \notin {"done", "repaired"}
  BY <1>5 DEF RepairInv
<1>6. CASE ReadTargetRows
  <2>1. /\ check'.stage = "done" /\ check'.rows = check.rows
        /\ check'.todo = Listed(check.rows, visible, check.cut)
        /\ disturbed' = (index # visible) /\ UNCHANGED <<index, visible>>
    BY <1>a, <1>6 DEF ReadTargetRows, Checks
  <2>2. \A o \in check.rows \ Listed(check.rows, visible, check.cut) : visible[o] = "same"
    BY <1>a, <1>b DEF Listed, Found, Contents
  <2> QED
    BY <2>1, <2>2 DEF RepairInv
<1>7. ASSUME NEW o \in Orders, Reindex(o) PROVE RepairInv'
  <2>1. /\ check.stage = "done" /\ check'.stage = "done" /\ check'.rows = check.rows
        /\ check'.todo = check.todo \ {o} /\ disturbed' = disturbed
    BY <1>a, <1>7 DEF Reindex, Checks
  <2>2. \A p \in Orders : p = o \/ index[p] = "same"
                         => index'[p] = "same" /\ visible'[p] = "same"
    BY <1>a, <1>7 DEF Reindex
  <2> QED
    BY <1>b, <2>1, <2>2 DEF RepairInv
<1>8. CASE RepairDone
  <2>1. /\ check.stage = "done" /\ check'.rows = check.rows
        /\ check.todo = {} /\ check'.todo = check.todo
        /\ UNCHANGED <<index, visible, disturbed>>
    BY <1>a, <1>8 DEF RepairDone, Checks
  <2> QED
    BY <2>1 DEF RepairInv
<1>9. CASE StartCheck \/ ReadSourceBuckets \/ ReadTargetBuckets \/ ReadSourceRows \/ EndCheck
  <2>1. EndCheck => check'.stage = "idle"
    BY DEF EndCheck, NoCheck
  <2>5. StartCheck => check'.stage = "started"
    BY DEF StartCheck, NoCheck
  <2>2. ReadSourceBuckets => check'.stage = "source"
    BY <1>a DEF ReadSourceBuckets, Checks
  <2>3. ReadTargetBuckets => check'.stage = "target"
    BY <1>a DEF ReadTargetBuckets, Checks
  <2>4. ReadSourceRows => check'.stage = "rows"
    BY <1>a DEF ReadSourceRows, Checks
  <2> QED
    BY <1>5, <1>9, <2>1, <2>2, <2>3, <2>4, <2>5
<1> QED
  BY <1>1, <1>2, <1>3, <1>4, <1>6, <1>7, <1>8, <1>9 DEF ChecksumNext, checksumVars, ChecksumVars

-----------------------------------------------------------------------------
(* Buckets that agree, and buckets that do not.                            *)

Of(b, documents, cut, contents) ==
    {o \in Found(documents, cut) : Prefix[o] = b /\ documents[o] \in contents}

LEMMA SummaryIs ==
  ASSUME NEW b, NEW documents, NEW cut
  PROVE  TargetSummary(b, documents, cut) =
           [count |-> Cardinality(Of(b, documents, cut, Contents)),
            surplus |-> Cardinality(Of(b, documents, cut, {"more"}))
                          - Cardinality(Of(b, documents, cut, {"less"}))]
BY DEF TargetSummary, Of

LEMMA OfFinite ==
  ASSUME NEW b, NEW documents, NEW cut \in Nat, NEW contents
  PROVE  /\ IsFiniteSet(Of(b, documents, cut, contents))
         /\ Of(b, documents, cut, contents) \subseteq 1..cut
<1>1. Of(b, documents, cut, contents) \subseteq 1..cut
  BY DEF Of, Found
<1>2. IsFiniteSet(1..cut)
  BY FS_Interval
<1> QED
  BY <1>1, <1>2, FS_Subset

LEMMA SourceFinite ==
  ASSUME NEW b, NEW n \in Nat
  PROVE  IsFiniteSet({o \in 1..n : Prefix[o] = b})
<1>1. IsFiniteSet(1..n) /\ {o \in 1..n : Prefix[o] = b} \subseteq 1..n
  BY FS_Interval
<1> QED
  BY <1>1, FS_Subset

LEMMA CheckBounds ==
  ASSUME ChecksumTypeOK, ReadInv, check.stage = "done"
  PROVE  /\ check.cut \in Nat /\ check.counted \in Nat /\ check.cut <= check.counted
         /\ \A o \in 1..check.counted : o \in Orders
         /\ check.seen \in [Orders -> Contents]
         /\ check.differing = Differing(check.counted, check.seen, check.cut)
<1>1. aged \in 0..MaxOrders
  BY MaxOrdersAssumption DEF ChecksumTypeOK, SourceTypeOK
<1>2. check.cut \in 0..aged /\ check.counted \in 0..aged
      /\ check.seen \in [Orders -> Contents]
  BY DEF ChecksumTypeOK
<1> QED
  BY <1>1, <1>2, MaxOrdersAssumption DEF ReadInv, Orders

LEMMA HealthyFromReads == ChecksumTypeOK /\ ReadInv => HealthyHasEveryOrder
<1> SUFFICES ASSUME ChecksumTypeOK, ReadInv, check.stage = "done", Healthy,
                    NEW o \in 1..check.counted
             PROVE  /\ check.seen[o] # "absent"
                    /\ check.seen[o] \in {"more", "less"}
                          => \E p \in 1..check.counted :
                                /\ Prefix[p] = Prefix[o]
                                /\ check.seen[p] \in {"more", "less"} \ {check.seen[o]}
  BY DEF HealthyHasEveryOrder
<1> DEFINE b == Prefix[o]
           S == {p \in 1..check.counted : Prefix[p] = b}
           T(contents) == Of(b, check.seen, check.cut, contents)
<1>1. /\ check.cut \in Nat /\ check.counted \in Nat /\ check.cut <= check.counted
      /\ \A p \in 1..check.counted : p \in Orders
      /\ check.seen \in [Orders -> Contents]
      /\ check.differing = Differing(check.counted, check.seen, check.cut)
  BY CheckBounds
<1>2. SourceSummary(b, check.counted) = TargetSummary(b, check.seen, check.cut)
  <2>1. b \in Buckets
    BY <1>1 DEF Buckets
  <2>2. b \notin Differing(check.counted, check.seen, check.cut)
    BY <1>1 DEF Healthy
  <2> QED
    BY <2>1, <2>2 DEF Differing
<1>3. /\ Cardinality(S) = Cardinality(T(Contents))
      /\ 0 = Cardinality(T({"more"})) - Cardinality(T({"less"}))
  BY <1>2, SummaryIs DEF SourceSummary
<1>4. /\ IsFiniteSet(S) /\ IsFiniteSet(T({"more"})) /\ IsFiniteSet(T({"less"}))
      /\ T(Contents) \subseteq S
      /\ T({"more"}) \subseteq S /\ T({"less"}) \subseteq S
  <2>1. \A contents : IsFiniteSet(T(contents)) /\ T(contents) \subseteq 1..check.cut
    BY <1>1, OfFinite
  <2>2. \A p \in 1..check.cut : p \in 1..check.counted
    BY <1>1
  <2>3. \A contents : \A p \in T(contents) : Prefix[p] = b
    BY DEF Of
  <2> QED
    BY <1>1, <2>1, <2>2, <2>3, SourceFinite
<1>5. o \in T(Contents)
  <2>1. T(Contents) = S
    BY <1>3, <1>4, FS_Subset
  <2> QED
    BY <2>1
<1>6. check.seen[o] # "absent"
  BY <1>5 DEF Of, Found
<1>7. T({"more"}) = {} <=> T({"less"}) = {}
  <2>1. /\ Cardinality(T({"more"})) \in Nat /\ Cardinality(T({"less"})) \in Nat
    BY <1>4, FS_CardinalityType
  <2>2. Cardinality(T({"more"})) = Cardinality(T({"less"}))
    BY <1>3, <2>1
  <2> QED
    BY <1>4, <2>2, FS_EmptySet
<1>8. CASE check.seen[o] = "more"
  <2>1. o \in T({"more"})
    BY <1>5, <1>8 DEF Of
  <2>2. PICK p \in T({"less"}) : TRUE
    BY <1>7, <2>1
  <2>3. p \in S /\ check.seen[p] = "less"
    BY <1>4, <2>2 DEF Of
  <2> QED
    BY <1>6, <1>8, <2>3
<1>9. CASE check.seen[o] = "less"
  <2>1. o \in T({"less"})
    BY <1>5, <1>9 DEF Of
  <2>2. PICK p \in T({"more"}) : TRUE
    BY <1>7, <2>1
  <2>3. p \in S /\ check.seen[p] = "more"
    BY <1>4, <2>2 DEF Of
  <2> QED
    BY <1>6, <1>9, <2>3
<1> QED
  BY <1>6, <1>8, <1>9

LEMMA MismatchFromReads == ChecksumTypeOK /\ ReadInv => MismatchNamesAnOrder
<1> SUFFICES ASSUME ChecksumTypeOK, ReadInv, check.stage = "done",
                    check.again = check.seen, check.listed = {},
                    NEW b \in check.differing
             PROVE  FALSE
  BY DEF MismatchNamesAnOrder
<1> DEFINE S == {p \in 1..check.counted : Prefix[p] = b}
           T(contents) == Of(b, check.seen, check.cut, contents)
<1>1. /\ check.cut \in Nat /\ check.counted \in Nat /\ check.cut <= check.counted
      /\ \A p \in 1..check.counted : p \in Orders
      /\ check.seen \in [Orders -> Contents]
      /\ check.differing = Differing(check.counted, check.seen, check.cut)
  BY CheckBounds
<1>2. SourceSummary(b, check.counted) # TargetSummary(b, check.seen, check.cut)
  BY <1>1 DEF Differing
<1>3. \A p \in S : p \in Found(check.seen, check.cut) /\ check.seen[p] \notin Wrong
  <2>1. \A p \in S : p \in check.rows
    BY DEF ReadInv
  <2>2. Listed(check.rows, check.seen, check.cut) = {}
    BY DEF ReadInv
  <2> QED
    BY <2>1, <2>2 DEF Listed
<1>4. \A contents : T(contents) \subseteq S
  <2>1. \A contents : T(contents) \subseteq 1..check.cut
    BY <1>1, OfFinite
  <2>2. \A p \in 1..check.cut : p \in 1..check.counted
    BY <1>1
  <2>3. \A contents : \A p \in T(contents) : Prefix[p] = b
    BY DEF Of
  <2> QED
    BY <2>1, <2>2, <2>3
<1>5. T(Contents) = S
  <2>1. S \subseteq T(Contents)
    BY <1>1, <1>3 DEF Of
  <2> QED
    BY <1>4, <2>1
<1>6. T({"more"}) = {} /\ T({"less"}) = {}
  <2>1. \A contents : \A p \in T(contents) : check.seen[p] \in contents
    BY DEF Of
  <2> QED
    BY <1>3, <1>4, <2>1 DEF Wrong
<1>7. Cardinality({}) = 0
  BY FS_EmptySet
<1>8. TargetSummary(b, check.seen, check.cut) = [count |-> Cardinality(S), surplus |-> 0]
  <2>1. Cardinality(T({"more"})) - Cardinality(T({"less"})) = 0
    BY <1>6, <1>7
  <2> QED
    BY <1>5, <2>1, SummaryIs
<1> QED
  BY <1>2, <1>8 DEF SourceSummary

LEMMA ChecksumInductive == ChecksumSpec => []ChecksumInv
<1>1. ChecksumInit => ChecksumInv
  <2> SUFFICES ASSUME ChecksumInit PROVE ChecksumInv
    OBVIOUS
  <2>1. check.stage = "idle"
    BY DEF ChecksumInit, NoCheck
  <2> QED
    BY <2>1, ChecksumInitType DEF ChecksumInv, ReadInv, RepairInv
<1>2. ChecksumInv /\ [ChecksumNext]_ChecksumVars => ChecksumInv'
  BY ChecksumStepType, ReadStep, RepairStep DEF ChecksumInv
<1> QED
  BY <1>1, <1>2, PTL DEF ChecksumSpec, ChecksumVars

\* A Healthy report overlooks no missing document and no lone wrong amount, for any
\* number of orders and buckets.  (checker.py: check_paid_orders_checksum)
THEOREM HealthyIsComplete == ChecksumSpec => []HealthyHasEveryOrder
BY ChecksumInductive, HealthyFromReads, PTL DEF ChecksumInv

\* A bucket that differs leads to an order to repair.  (merkle.py:
\* mismatched_bucket_keys; invariants.py: compare_paid_order_checksum_buckets)
THEOREM MismatchIsNamed == ChecksumSpec => []MismatchNamesAnOrder
BY ChecksumInductive, MismatchFromReads, PTL DEF ChecksumInv

\* A finished direct reindex leaves every order of its buckets indexed.
\* (repair.py: repair_from_payload)
THEOREM ReindexRestores == ChecksumSpec => []RepairRestoresBuckets
<1>1. ChecksumInv => RepairRestoresBuckets
  BY DEF ChecksumInv, RepairInv, RepairRestoresBuckets
<1> QED
  BY <1>1, ChecksumInductive, PTL
=============================================================================
