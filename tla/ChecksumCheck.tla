--------------------------- MODULE ChecksumCheck ---------------------------
(***************************************************************************)
(* The checksum check of the OpenSearch index and the direct reindex that  *)
(* repairs what it lists.                                                  *)
(*                                                                         *)
(* The check compares one fingerprint per bucket of order ids and then     *)
(* reads the rows of the buckets that differ: four reads of two systems,   *)
(* while orders come of age and documents arrive.  It cuts the target off  *)
(* at checked_at minus the lag, the source at the database's own now()     *)
(* minus the lag, and it sees the index as of its last refresh.  The       *)
(* clocks of the worker and of the database are taken to agree.            *)
(*                                                                         *)
(* A document is absent, the same as its order, or wrong: one unit of the  *)
(* amount too many or too few (the smallest differences, which can cancel  *)
(* out), or in a field no fingerprint holds, the currency.  All orders     *)
(* have one amount and one version, so that a bucket's sums differ by its  *)
(* count and by the surplus of its wrong amounts.  A document with a       *)
(* status other than paid is outside every query: absent.                  *)
(***************************************************************************)
EXTENDS SourceOrders

CONSTANTS Prefix,             \* the bucket of each order
          MaxFaults           \* bound: documents lost or made wrong

ASSUME ChecksumAssumption == MaxFaults \in Nat

VARIABLES index,              \* the documents as written
          visible,            \* the documents as of the last refresh
          faults,             \* documents lost or made wrong so far
          check,              \* the check: its stage and what it has read
          disturbed           \* history: a fault that the last read of the
                              \* present check could not see

checksumVars == <<index, visible, faults, check, disturbed>>

Wrong == {"more", "less", "currency"}
Contents == {"absent", "same"} \union Wrong
Buckets == {Prefix[o] : o \in Orders}
Stages == {"idle", "started", "source", "target", "rows", "done", "repaired"}
NoDocuments == [o \in Orders |-> "absent"]

NoCheck == [stage |-> "idle", cut |-> 0, counted |-> 0, seen |-> NoDocuments,
            again |-> NoDocuments, differing |-> {}, rows |-> {}, listed |-> {}, todo |-> {}]

ChecksumTypeOK ==
    /\ SourceTypeOK
    /\ index \in [Orders -> Contents]
    /\ visible \in [Orders -> Contents]
    /\ faults \in 0..MaxFaults
    /\ check \in [stage : Stages, cut : 0..aged, counted : 0..aged,
                  seen : [Orders -> Contents], again : [Orders -> Contents], differing : SUBSET Buckets,
                  rows : SUBSET (1..aged), listed : SUBSET (1..aged), todo : SUBSET (1..aged)]
    /\ disturbed \in BOOLEAN

ChecksumInit ==
    /\ SourceInit
    /\ index = NoDocuments
    /\ visible = NoDocuments
    /\ faults = 0
    /\ check = NoCheck
    /\ disturbed = FALSE

-----------------------------------------------------------------------------
\* The index.

\* The pipeline writes the document of a paid order, now or much later.
Write(o) ==
    /\ o <= placed /\ index[o] = "absent"
    /\ index' = [index EXCEPT ![o] = "same"]
    /\ UNCHANGED <<sourceVars, visible, faults, check, disturbed>>

\* A document is lost or made wrong.
Fault(o, content) ==
    /\ faults < MaxFaults
    /\ index[o] = "same" /\ content # "same"
    /\ index' = [index EXCEPT ![o] = content]
    /\ faults' = faults + 1
    /\ disturbed' = TRUE
    /\ UNCHANGED <<sourceVars, visible, check>>

Refresh ==
    /\ visible # index
    /\ visible' = index
    /\ UNCHANGED <<sourceVars, index, faults, check, disturbed>>

-----------------------------------------------------------------------------
\* The check.

StartCheck ==
    /\ check.stage = "idle"
    /\ check' = [NoCheck EXCEPT !.stage = "started", !.cut = aged]
    /\ UNCHANGED <<sourceVars, index, visible, faults, disturbed>>

\* The summaries that Postgres computes.
ReadSourceBuckets ==
    /\ check.stage = "started"
    /\ check' = [check EXCEPT !.stage = "source", !.counted = aged]
    /\ UNCHANGED <<sourceVars, index, visible, faults, disturbed>>

\* The documents a search with updated_before finds; without it, all of them.
BadFound(documents, cut) == {o \in Orders : documents[o] # "absent"}
Found(documents, cut) == {o \in 1..cut : documents[o] # "absent"}

\* count and sums of one bucket of the source, and of the target.
SourceSummary(bucket, upto) ==
    [count |-> Cardinality({o \in 1..upto : Prefix[o] = bucket}), surplus |-> 0]

TargetSummary(bucket, documents, cut) ==
    LET of(contents) == {o \in Found(documents, cut) :
                            Prefix[o] = bucket /\ documents[o] \in contents}
    IN  [count   |-> Cardinality(of(Contents)),
         surplus |-> Cardinality(of({"more"})) - Cardinality(of({"less"}))]

\* compare_bucket_summaries over the buckets of either side.
Differing(upto, documents, cut) ==
    {b \in Buckets : SourceSummary(b, upto) # TargetSummary(b, documents, cut)}

ReadTargetBuckets ==
    /\ check.stage = "source"
    /\ check' = [check EXCEPT !.stage = "target",
                              !.seen = visible,
                              !.differing = Differing(check.counted, visible, check.cut)]
    /\ UNCHANGED <<sourceVars, index, visible, faults, disturbed>>

\* fetch_paid_orders_by_id_prefix of db.py; no query without prefixes.  Without
\* updated_before, young orders are among the rows.
BadEligible(prefixes) == {o \in 1..placed : Prefix[o] \in prefixes}
Eligible(prefixes) == {o \in 1..aged : Prefix[o] \in prefixes}

ReadSourceRows ==
    /\ check.stage = "target"
    /\ check' = [check EXCEPT !.stage = "rows",
                              !.rows = Eligible(check.differing)]
    /\ UNCHANGED <<sourceVars, index, visible, faults, disturbed>>

\* Rows that are missing or stale in the documents of the differing buckets.
BadListed(rows, documents, cut) ==
    {o \in rows : o \notin Found(documents, cut) \/ documents[o] \in {"more", "less"}}
Listed(rows, documents, cut) ==
    {o \in rows : o \notin Found(documents, cut) \/ documents[o] \in Wrong}

\* The last read and the report.
ReadTargetRows ==
    /\ check.stage = "rows"
    /\ check' = [check EXCEPT !.stage = "done",
                              !.listed = Listed(check.rows, visible, check.cut),
                              !.todo = Listed(check.rows, visible, check.cut),
                              !.again = visible]
    /\ disturbed' = (index # visible)
    /\ UNCHANGED <<sourceVars, index, visible, faults>>

Healthy == check.differing = {} /\ check.listed = {}

\* The report is left as it is, or its repair is over; the next check starts.
EndCheck ==
    /\ check.stage \in {"done", "repaired"}
    /\ check.stage = "done" => check.todo = check.listed
    /\ check' = NoCheck
    /\ UNCHANGED <<sourceVars, index, visible, faults, disturbed>>

-----------------------------------------------------------------------------
\* The repair.

\* direct-reindex writes the listed orders from the source, one by one, and
\* refreshes the index with each.
Reindex(o) ==
    /\ check.stage = "done" /\ o \in check.todo
    /\ index' = [index EXCEPT ![o] = "same"]
    /\ visible' = index'
    /\ check' = [check EXCEPT !.todo = @ \ {o}]
    /\ UNCHANGED <<sourceVars, faults, disturbed>>

RepairDone ==
    /\ check.stage = "done" /\ check.todo = {} /\ check.listed # {}
    /\ check' = [check EXCEPT !.stage = "repaired"]
    /\ UNCHANGED <<sourceVars, index, visible, faults, disturbed>>

ChecksumNext ==
    \/ (Place \/ ComeOfAge) /\ UNCHANGED checksumVars
    \/ \E o \in Orders : Write(o) \/ Reindex(o)
    \/ \E o \in Orders, content \in Contents : Fault(o, content)
    \/ Refresh
    \/ StartCheck
    \/ ReadSourceBuckets
    \/ ReadTargetBuckets
    \/ ReadSourceRows
    \/ ReadTargetRows
    \/ EndCheck
    \/ RepairDone

ChecksumSpec == ChecksumInit /\ [][ChecksumNext]_<<sourceVars, checksumVars>>

-----------------------------------------------------------------------------
\* A Healthy report overlooks no missing document: every order that Postgres
\* counted was in the index when the buckets were read, though the two sides were
\* cut off and read at different times, and a wrong amount it overlooks is
\* cancelled out by another one of its bucket.
\* (checker.py: check_paid_orders_checksum; merkle.py: compare_bucket_summaries)
HealthyHasEveryOrder ==
    check.stage = "done" /\ Healthy
        => \A o \in 1..check.counted :
              /\ check.seen[o] # "absent"
              /\ check.seen[o] \in {"more", "less"}
                    => \E p \in 1..check.counted :
                          /\ Prefix[p] = Prefix[o]
                          /\ check.seen[p] \in {"more", "less"} \ {check.seen[o]}

\* A bucket that differs leads to an order: unless a refresh came between the two
\* reads of the index, the report of a mismatch lists an order that a repair can
\* take up, also when the bucket differs only because an order came of age.
\* (merkle.py: mismatched_bucket_keys; invariants.py:
\* compare_paid_order_checksum_buckets; repair.py: repair_order_ids)
MismatchNamesAnOrder ==
    check.stage = "done" /\ check.differing # {} /\ check.again = check.seen
        => check.listed # {}

\* A direct reindex finishes what it is given: when it is over, every order of the
\* buckets that differed has its document again, whatever the pipeline wrote
\* meanwhile, unless a fault happened that the check could not see.
\* (repair.py: repair_from_payload, search.py: index_order)
RepairRestoresBuckets ==
    check.stage = "repaired" /\ ~disturbed
        => \A o \in check.rows : visible[o] = "same"
=============================================================================
