--------------------------- MODULE AnalyticsTable ---------------------------
(***************************************************************************)
(* The ClickHouse table of paid orders, the backfill that loads it, and    *)
(* the clickhouse-aggregate check that compares it with Postgres.          *)
(*                                                                         *)
(* The table is a ReplacingMergeTree: a backfill adds rows and replaces    *)
(* none, and a merge, at a time of ClickHouse's choosing, leaves one row   *)
(* per order.  The check counts rows as they stand.  It asks Postgres and  *)
(* then ClickHouse, each by its own clock, and ClickHouse's now() is a     *)
(* whole second.                                                           *)
(*                                                                         *)
(* Only the counts are modelled, not the sums of the amounts: two reports  *)
(* that differ in a sum only are alike here.                               *)
(***************************************************************************)
EXTENDS SourceOrders

CONSTANTS SkipEvery,          \* --skip-every-paid of a backfill with the bug
          MaxLoads            \* bound: backfills that insert

ASSUME AnalyticsAssumption == SkipEvery \in Nat \ {0} /\ MaxLoads \in Nat

VARIABLES agedThisSecond,     \* what was of age when the present second began
          rows,               \* table rows: <<order, backfill that wrote it>>
          loading,            \* rows a backfill has built and not inserted
          loads,              \* backfills that have inserted, ever
          sinceReset,         \* history: backfills inserted since a truncate
          loaded,             \* history: 1..loaded are in by a full backfill
          count               \* the check: its stage and what it has counted;
                              \* history: the counted orders without a row, and
                              \* sinceReset and loaded, when it read the table

tableVars == <<agedThisSecond, rows, loading, loads, sinceReset, loaded, count>>

Loads == 1..MaxLoads
NoLoad == [busy |-> FALSE, orders |-> {}, upto |-> 0]
NoCount == [stage |-> "idle", source |-> 0, target |-> 0, cut |-> 0,
            lacking |-> {}, loads |-> 0, loaded |-> 0]

TableTypeOK ==
    /\ SourceTypeOK
    /\ agedThisSecond \in 0..aged
    /\ rows \subseteq Orders \X Loads
    /\ loading \in [busy : BOOLEAN, orders : SUBSET Orders, upto : 0..placed]
    /\ loads \in 0..MaxLoads
    /\ sinceReset \in 0..loads
    /\ loaded \in 0..placed
    /\ count \in [stage : {"idle", "source", "done"}, source : 0..aged,
                  target : Nat, cut : 0..aged,
                  lacking : SUBSET Orders, loads : 0..loads, loaded : 0..placed]

TableInit ==
    /\ SourceInit
    /\ agedThisSecond = 0
    /\ rows = {}
    /\ loading = NoLoad
    /\ loads = 0
    /\ sinceReset = 0
    /\ loaded = 0
    /\ count = NoCount

-----------------------------------------------------------------------------
\* The backfill.

BadSelected == 1..aged                    \* waits for the lag like the check

\* fetch_paid_orders with max_lag_seconds = 0: every paid order.
Selected == 1..placed

Skipped(orders) == {o \in orders : o % SkipEvery = 0}

\* backfill_orders_analytics without ids, with or without the simulated bug.
SelectAll(skip) ==
    /\ ~loading.busy
    /\ Selected # {}
    /\ loading' = IF skip
                  THEN [busy |-> TRUE, orders |-> Selected \ Skipped(Selected), upto |-> 0]
                  ELSE [busy |-> TRUE, orders |-> Selected, upto |-> placed]
    /\ UNCHANGED <<sourceVars, agedThisSecond, rows, loads, sinceReset, loaded, count>>

\* ... with the ids of a report: a clickhouse-backfill repair.
SelectIds(ids) ==
    /\ ~loading.busy
    /\ ids # {} /\ ids \subseteq 1..placed
    /\ loading' = [busy |-> TRUE, orders |-> ids, upto |-> 0]
    /\ UNCHANGED <<sourceVars, agedThisSecond, rows, loads, sinceReset, loaded, count>>

\* One INSERT carries all rows of the backfill.  A backfill without rows
\* inserts nothing.
InsertRows ==
    /\ loading.busy
    /\ loads < MaxLoads
    /\ loading' = NoLoad
    /\ IF loading.orders = {}
       THEN UNCHANGED <<rows, loads, sinceReset, loaded>>
       ELSE /\ rows' = rows \union (loading.orders \X {loads + 1})
            /\ loads' = loads + 1
            /\ sinceReset' = sinceReset + 1
            /\ loaded' = IF loading.upto > loaded THEN loading.upto ELSE loaded
    /\ UNCHANGED <<sourceVars, agedThisSecond, count>>

\* The process ends between its SELECT and its INSERT.
AbandonBackfill ==
    /\ loading.busy
    /\ loading' = NoLoad
    /\ UNCHANGED <<sourceVars, agedThisSecond, rows, loads, sinceReset, loaded, count>>

\* analytics-init --reset.
ResetTable ==
    /\ rows # {}
    /\ rows' = {}
    /\ sinceReset' = 0
    /\ loaded' = 0
    /\ UNCHANGED <<sourceVars, agedThisSecond, loading, loads, count>>

\* ClickHouse merges parts: of two rows of an order the later one stays.
Merge ==
    \E old, new \in rows :
       /\ old[1] = new[1] /\ old[2] < new[2]
       /\ rows' = rows \ {old}
       /\ UNCHANGED <<sourceVars, agedThisSecond, loading, loads, sinceReset, loaded, count>>

-----------------------------------------------------------------------------
\* The check.

CountSource ==
    /\ count.stage = "idle"
    /\ count' = [NoCount EXCEPT !.stage = "source", !.source = aged]
    /\ UNCHANGED <<sourceVars, agedThisSecond, rows, loading, loads, sinceReset, loaded>>

BadCounted(cut) == rows                   \* without the age condition
Counted(cut) == {row \in rows : row[1] <= cut}

CountTarget ==
    /\ count.stage = "source"
    /\ LET cut == agedThisSecond IN
       count' = [count EXCEPT !.stage = "done",
                              !.cut = cut,
                              !.target = Cardinality(Counted(cut)),
                              !.lacking = {o \in 1..count.source : \A row \in rows : row[1] # o},
                              !.loads = sinceReset,
                              !.loaded = loaded]
    /\ UNCHANGED <<sourceVars, agedThisSecond, rows, loading, loads, sinceReset, loaded>>

\* The verdict is published; the next check begins afresh.
EndCount ==
    /\ count.stage = "done"
    /\ count' = NoCount
    /\ UNCHANGED <<sourceVars, agedThisSecond, rows, loading, loads, sinceReset, loaded>>

NextSecond ==
    /\ agedThisSecond # aged
    /\ agedThisSecond' = aged
    /\ UNCHANGED <<sourceVars, rows, loading, loads, sinceReset, loaded, count>>

Backfill ==
    \/ \E skip \in BOOLEAN : SelectAll(skip)
    \/ \E ids \in SUBSET Orders : SelectIds(ids)
    \/ InsertRows
    \/ AbandonBackfill

Check == CountSource \/ CountTarget \/ EndCount

TableNext ==
    \/ (Place \/ ComeOfAge) /\ UNCHANGED tableVars
    \/ NextSecond
    \/ Backfill
    \/ ResetTable
    \/ Merge
    \/ Check

TableSpec == TableInit /\ [][TableNext]_<<sourceVars, tableVars>>

-----------------------------------------------------------------------------
\* A count that is too low is never the fault of merges, of duplicates or of a
\* backfill that raced with new orders, a truncate or its own crash: there is an
\* order that no complete backfill since the last truncate was to load, or one
\* that came of age within the second ClickHouse's clock stood at.
\* (analytics.py: backfill_orders_analytics, reset_table, paid_order_summary)
DeficitMeansUnloaded ==
    count.stage = "done" /\ count.target < count.source
        => count.source > count.loaded \/ count.source > count.cut

\* One load counts truly.  If at most one backfill has written since the last
\* truncate, and no order came of age between the two reads, then the table's
\* count is at most the source's, and equal counts mean that every counted order
\* has its row.  With a second backfill neither holds: its rows are counted
\* twice until ClickHouse merges them, and may stand in for missing ones.
\* (checker.py: check_paid_orders_clickhouse_aggregate; analytics.py)
OneLoadCountsTruly ==
    count.stage = "done" /\ count.loads <= 1 /\ count.cut <= count.source
        => /\ count.target <= count.source
           /\ count.target = count.source => count.lacking = {}
=============================================================================
