--------------------------- MODULE OrderPipeline ---------------------------
(***************************************************************************)
(* The order pipeline and the checks of its derived view: the generators   *)
(* that insert an order with its outbox row, publish the event and record  *)
(* its offset (generator.py, events.py, db.py), the indexer that consumes  *)
(* the topic into the search index (indexer.py, search.py), the direct     *)
(* reindex (repair.py), and the existence and aggregate checks with the    *)
(* CDC frontier that says how far their reading was bounded (checker.py).  *)
(*                                                                         *)
(* The topic has one partition.  An order is written once and, outside the *)
(* injection of freshness drift, never changes, so it stands for its row,  *)
(* its event and its document.  Each call to Postgres, Kafka or OpenSearch *)
(* is a step of its own: no two of them share a transaction.  A process    *)
(* that dies takes no further step; what its death undoes is an action.    *)
(***************************************************************************)
EXTENDS Integers, Sequences, FiniteSets

CONSTANTS
  Orders,     \* orders the generators may insert
  Paid,       \* those inserted with status paid
  SkipEvery,  \* --skip-every-paid of the indexer, 0 for an indexer without it
  MaxStream   \* bound: messages in the topic

ASSUME PipelineAssumption ==
  /\ IsFiniteSet(Orders)
  /\ Paid \subseteq Orders
  /\ SkipEvery \in Nat
  /\ MaxStream \in Nat

NoOffset == -1
Offsets == Nat \cup {NoOffset}

Kinds == {"indexed", "aggregate"}
Statuses == {"bounded", "partial", "unavailable"}
Sources == {"lsn", "outbox", "stream", "target"}

(***************************************************************************)
(* A check between two of its calls: what it will read next, the rows that *)
(* were old enough when the aggregate check noted checked_at (boundary),   *)
(* the end offset of the topic, the source and target orders it read, the  *)
(* source orders that had no document to be found then (lacking), and the  *)
(* eligible outbox rows with the published ones among them.                *)
(***************************************************************************)
Stages == {"idle", "source", "target", "outbox", "frontier"}
Idle == [stage |-> "idle", kind |-> "indexed", boundary |-> {}, end |-> 0, source |-> {},
         target |-> {}, lacking |-> {}, eligible |-> {}, published |-> {}]
Checks == [stage : Stages, kind : Kinds, boundary : SUBSET Orders, end : Nat,
           source : SUBSET Orders, target : SUBSET Orders, lacking : SUBSET Orders,
           eligible : SUBSET Orders, published : SUBSET Orders]

(***************************************************************************)
(* A report: whether the aggregates differ (aggregate) and the status of   *)
(* its frontier; the orders it names as missing (existence) go to reported.*)
(* Three fields are history: lacking, the orders an aggregate check found  *)
(* in Postgres that were not yet old enough at its boundary (young), and   *)
(* the outbox rows a bounded frontier vouches for (settled).               *)
(***************************************************************************)
NoReport == [kind |-> "none", status |-> "none", mismatch |-> FALSE,
             lacking |-> {}, young |-> {}, settled |-> {}]
Reports == [kind : Kinds, status : Statuses, mismatch : BOOLEAN,
            lacking : SUBSET Orders, young : SUBSET Orders, settled : SUBSET Orders]

VARIABLES
  progress,   \* of an order: "none", then "inserted", "acked", "recorded"
  offset,     \* of an order: the offset its producer was told, NoOffset before
  agedRows,   \* orders whose updated_at is older than max_lag_seconds
  agedEvents, \* orders whose outbox row's created_at is
  stream,     \* the topic; the message at offset k is stream[k + 1]
  committed,  \* committed offset of the indexer's group: the next message
  written,    \* the document of the message at committed has been written
  paidSeen,   \* paid_seen of the running indexer
  docs,       \* orders with a document: what mget sees
  docOffset,  \* dataguard_offset of a document, NoOffset if it has none
  visible,    \* orders with a document a search sees: those of the last refresh
  visOffset,  \* the dataguard_offset a search sees
  check,      \* the running check
  report,     \* the last report, until the next check starts
  reported,   \* orders that a report on file names as missing
  skipped     \* history: offsets committed on purpose without a document

source == <<progress, offset, agedRows, agedEvents>>
indexer == <<committed, written, paidSeen, skipped>>
index == <<docs, docOffset, visible, visOffset>>
vars == <<source, stream, indexer, index, check, report, reported>>

Init ==
  /\ progress = [o \in Orders |-> "none"]
  /\ offset = [o \in Orders |-> NoOffset]
  /\ agedRows = {} /\ agedEvents = {}
  /\ stream = <<>>
  /\ committed = 0 /\ written = FALSE /\ paidSeen = 0 /\ skipped = {}
  /\ docs = {} /\ visible = {}
  /\ docOffset = [o \in Orders |-> NoOffset]
  /\ visOffset = [o \in Orders |-> NoOffset]
  /\ check = Idle /\ report = NoReport /\ reported = {}

----------------------------------------------------------------------------
(***************************************************************************)
(* Generators, each between two of its calls for an order.  Row and outbox *)
(* row are one transaction.  A send whose acknowledgement is lost is       *)
(* repeated by the client, so an event may be in the topic twice; nothing  *)
(* publishes an outbox row again after its generator died.                 *)
(***************************************************************************)
Insert(o) ==
  /\ progress[o] = "none"
  /\ progress' = [progress EXCEPT ![o] = "inserted"]
  /\ UNCHANGED <<offset, agedRows, agedEvents, stream, indexer, index, check, report, reported>>

Publish(o) ==
  /\ progress[o] = "inserted"
  /\ Len(stream) < MaxStream
  /\ stream' = Append(stream, o)
  /\ \/ /\ progress' = [progress EXCEPT ![o] = "acked"]
        /\ offset' = [offset EXCEPT ![o] = Len(stream)]
     \/ UNCHANGED <<progress, offset>>
  /\ UNCHANGED <<agedRows, agedEvents, indexer, index, check, report, reported>>

Record(o) ==
  /\ progress[o] = "acked"
  /\ progress' = [progress EXCEPT ![o] = "recorded"]
  /\ UNCHANGED <<offset, agedRows, agedEvents, stream, indexer, index, check, report, reported>>

(***************************************************************************)
(* max_lag_seconds pass.  A row's updated_at is taken before its outbox    *)
(* row's created_at, so the row becomes eligible first.                    *)
(***************************************************************************)
AgeRow(o) ==
  /\ progress[o] # "none" /\ o \notin agedRows
  /\ agedRows' = agedRows \cup {o}
  /\ UNCHANGED <<progress, offset, agedEvents, stream, indexer, index, check, report, reported>>

AgeEvent(o) ==
  /\ o \in agedRows \ agedEvents
  /\ agedEvents' = agedEvents \cup {o}
  /\ UNCHANGED <<progress, offset, agedRows, stream, indexer, index, check, report, reported>>

----------------------------------------------------------------------------
(***************************************************************************)
(* The indexer commits after every message, so its position between two    *)
(* messages is the committed offset.  When it ends, on an idle topic, at   *)
(* max_messages or by dying, the next run begins at the committed offset   *)
(* with paid_seen = 0.                                                     *)
(***************************************************************************)
HasMessage == ~written /\ committed < Len(stream)
Message == stream[committed + 1]
PaidSeen == paidSeen + (IF Message \in Paid THEN 1 ELSE 0)
SkipsMessage ==
  /\ Message \in Paid
  /\ SkipEvery > 0
  /\ PaidSeen % SkipEvery = 0

\* Wrong on purpose: a failed write is swallowed and the message then committed.
BadIndexOrder ==
  /\ HasMessage /\ ~SkipsMessage
  /\ written' = TRUE
  /\ paidSeen' = PaidSeen
  /\ UNCHANGED <<source, stream, committed, skipped, index, check, report, reported>>

IndexOrder ==
  /\ HasMessage /\ ~SkipsMessage
  /\ docs' = docs \cup {Message}
  /\ docOffset' = [docOffset EXCEPT ![Message] = committed]
  /\ written' = TRUE
  /\ paidSeen' = PaidSeen
  /\ UNCHANGED <<source, stream, committed, skipped, visible, visOffset, check, report, reported>>

\* Wrong on purpose: the committed position is one too far.
BadCommit ==
  /\ written
  /\ committed' = committed + 2
  /\ written' = FALSE
  /\ UNCHANGED <<source, stream, paidSeen, skipped, index, check, report, reported>>

Commit ==
  /\ written
  /\ committed' = committed + 1
  /\ written' = FALSE
  /\ UNCHANGED <<source, stream, paidSeen, skipped, index, check, report, reported>>

SkipPaid ==
  /\ HasMessage /\ SkipsMessage
  /\ committed' = committed + 1
  /\ skipped' = skipped \cup {committed}
  /\ paidSeen' = PaidSeen
  /\ UNCHANGED <<source, stream, written, index, check, report, reported>>

RestartIndexer ==
  /\ written \/ paidSeen # 0
  /\ written' = FALSE
  /\ paidSeen' = 0
  /\ UNCHANGED <<source, stream, committed, skipped, index, check, report, reported>>

(***************************************************************************)
(* refresh_interval: from time to time searches see what was written.      *)
(***************************************************************************)
Refresh ==
  /\ <<visible, visOffset>> # <<docs, docOffset>>
  /\ visible' = docs /\ visOffset' = docOffset
  /\ UNCHANGED <<source, stream, indexer, docs, docOffset, check, report, reported>>

----------------------------------------------------------------------------
(***************************************************************************)
(* check_paid_orders_indexed and check_paid_orders_aggregate, one call     *)
(* after the other.  Both note checked_at and read the topic's offsets,    *)
(* select paid rows that are old enough by the database's clock, read the  *)
(* target, and then collect the outbox and target halves of the frontier.  *)
(***************************************************************************)
StartCheck(kind) ==
  /\ check.stage = "idle"
  /\ check' = [Idle EXCEPT !.stage = "source", !.kind = kind, !.end = Len(stream),
                           !.boundary = IF kind = "aggregate" THEN agedRows ELSE {}]
  /\ report' = NoReport
  /\ UNCHANGED <<source, stream, indexer, index, reported>>

FetchPaidOrders == Paid \cap agedRows

ReadSource ==
  /\ check.stage = "source"
  /\ check' = [check EXCEPT !.stage = "target", !.source = FetchPaidOrders]
  /\ UNCHANGED <<source, stream, indexer, index, report, reported>>

(***************************************************************************)
(* The existence check gets the documents of its rows by id; the aggregate *)
(* check searches for paid documents with updated_at before the boundary.  *)
(***************************************************************************)
Found == IF check.kind = "indexed" THEN docs ELSE visible
\* Wrong on purpose: the search is not filtered by the boundary.
BadTargetOrders ==
  IF check.kind = "indexed" THEN check.source \cap docs ELSE Paid \cap visible

TargetOrders ==
  IF check.kind = "indexed"
  THEN check.source \cap docs
  ELSE Paid \cap visible \cap check.boundary

ReadTarget ==
  /\ check.stage = "target"
  /\ check' = [check EXCEPT !.stage = "outbox", !.target = TargetOrders,
                            !.lacking = check.source \ Found]
  /\ UNCHANGED <<source, stream, indexer, index, report, reported>>

ReadOutbox ==
  /\ check.stage = "outbox"
  /\ check' = [check EXCEPT !.stage = "frontier", !.eligible = agedEvents,
                            !.published = {o \in agedEvents : progress[o] = "recorded"}]
  /\ UNCHANGED <<source, stream, indexer, index, report, reported>>

(***************************************************************************)
(* build_cdc_frontier.  The largest applied offset covers a published one  *)
(* exactly if some visible document's offset does.  The code goes on when  *)
(* the read of a piece of evidence fails, and does not use its value: the  *)
(* choice of what failed (gaps) may therefore wait until here.             *)
(***************************************************************************)
\* Wrong on purpose: unpublished outbox rows do not count against the frontier.
BadAllPublished == TRUE

AllPublished == check.eligible \subseteq check.published

StreamCovers ==
  /\ Cardinality(check.published) <= check.end
  /\ \A o \in check.published : offset[o] < check.end

\* Wrong on purpose: the last published event need not have been applied.
BadTargetCovers ==
  \A o \in check.published : \E d \in visible : visOffset[d] + 1 >= offset[o]

TargetCovers ==
  \A o \in check.published : \E d \in visible : visOffset[d] >= offset[o]

FrontierStatus(gaps) ==
  IF {"lsn", "outbox", "stream"} \subseteq gaps THEN "unavailable"
  ELSE IF gaps = {} /\ AllPublished /\ StreamCovers /\ TargetCovers THEN "bounded"
  ELSE "partial"

AggregateMismatch == Cardinality(check.source) # Cardinality(check.target)

Young == IF check.kind = "aggregate" THEN check.source \ check.boundary ELSE {}

(***************************************************************************)
(* An aggregate report names no orders.                                    *)
(***************************************************************************)
FinishCheck ==
  /\ check.stage = "frontier"
  /\ \E gaps \in SUBSET Sources : LET status == FrontierStatus(gaps) IN
       report' =
         [kind |-> check.kind, status |-> status,
          mismatch |-> check.kind = "aggregate" /\ AggregateMismatch,
          lacking |-> check.lacking, young |-> Young,
          settled |-> IF status = "bounded" THEN check.eligible ELSE {}]
  /\ reported' = IF check.kind = "indexed"
                 THEN reported \cup (check.source \ check.target) ELSE reported
  /\ check' = Idle
  /\ UNCHANGED <<source, stream, indexer, index>>

(***************************************************************************)
(* A read of rows or documents fails, or the process dies: no report.      *)
(***************************************************************************)
AbandonCheck ==
  /\ check.stage # "idle"
  /\ check' = Idle
  /\ UNCHANGED <<source, stream, indexer, index, report, reported>>

----------------------------------------------------------------------------
(***************************************************************************)
(* Direct reindex.  A repair is started with the path of any report and    *)
(* writes its orders one by one, so at any time it may be about to write   *)
(* any order that some report named.  It replaces a document, offset       *)
(* evidence included, and refreshes the index.                             *)
(***************************************************************************)
Reindex(o) ==
  /\ o \in reported
  /\ docs' = docs \cup {o}
  /\ docOffset' = [docOffset EXCEPT ![o] = NoOffset]
  /\ visible' = docs' /\ visOffset' = docOffset'
  /\ UNCHANGED <<source, stream, indexer, check, report, reported>>

----------------------------------------------------------------------------
Generator == \E o \in Orders : Insert(o) \/ Publish(o) \/ Record(o)
Time == \E o \in Orders : AgeRow(o) \/ AgeEvent(o)
Indexer == IndexOrder \/ Commit \/ SkipPaid \/ RestartIndexer \/ Refresh
Checker ==
  \/ \E kind \in Kinds : StartCheck(kind)
  \/ ReadSource \/ ReadTarget \/ ReadOutbox \/ FinishCheck \/ AbandonCheck
Repair == \E o \in Orders : Reindex(o)

Next == Generator \/ Time \/ Indexer \/ Checker \/ Repair

Spec == Init /\ [][Next]_vars

----------------------------------------------------------------------------
(***************************************************************************)
(* Every variable keeps the shape the code gives it; in particular the     *)
(* read position never runs past the end of the topic.                     *)
(***************************************************************************)
TypeOK ==
  /\ progress \in [Orders -> {"none", "inserted", "acked", "recorded"}]
  /\ offset \in [Orders -> Offsets]
  /\ agedRows \subseteq Orders /\ agedEvents \subseteq Orders
  /\ stream \in Seq(Orders)
  /\ committed \in 0 .. Len(stream)
  /\ written \in BOOLEAN /\ paidSeen \in Nat
  /\ skipped \subseteq Nat
  /\ docs \subseteq Orders /\ visible \subseteq Orders
  /\ docOffset \in [Orders -> Offsets] /\ visOffset \in [Orders -> Offsets]
  /\ check \in Checks
  /\ report \in Reports \cup {NoReport}
  /\ reported \subseteq Orders

(***************************************************************************)
(* Nothing is passed over unseen: an offset that the group has committed,  *)
(* or that lies at or below the offset of any document, belongs to an      *)
(* order with a document or was skipped on purpose.  This is what makes a  *)
(* largest applied offset mean something: indexing before committing, with *)
(* restarts, redelivery, producer retries and repairs in between.          *)
(***************************************************************************)
Delivered(k) == k \in skipped \/ stream[k + 1] \in docs
NothingPassedOver ==
  \A k \in 0 .. Len(stream) - 1 :
    (k < committed \/ \E d \in docs : docOffset[d] >= k) => Delivered(k)

(***************************************************************************)
(* A report whose frontier is bounded speaks about a settled past: every   *)
(* eligible outbox row it counted has been delivered to the index or been  *)
(* skipped, whatever was read before and after (build_cdc_frontier).       *)
(***************************************************************************)
BoundedMeansDelivered ==
  \A o \in report.settled : o \in docs \/ offset[o] \in skipped

(***************************************************************************)
(* Equal counts are not a coincidence: when the aggregate check finds no   *)
(* mismatch, every order it counted in Postgres had a document to be       *)
(* found.  No surplus on one side hides a loss on the other.               *)
(***************************************************************************)
MatchingCountsMeanComplete ==
  report.kind = "aggregate" /\ ~report.mismatch => report.lacking = {}

(***************************************************************************)
(* And different counts are never unexplained: when the aggregate check    *)
(* reports a mismatch, some order it counted in Postgres had no document   *)
(* to be found, or came of age after the check had noted its boundary.     *)
(***************************************************************************)
MismatchIsExplained ==
  report.mismatch => report.lacking \cup report.young # {}

(***************************************************************************)
(* The pipeline implements OrderFeed: whatever producers, restarts,        *)
(* refreshes, lost evidence and half-finished checks do, a reader of the   *)
(* index and of a report's frontier sees only steps of that feed           *)
(* (generate_orders, run_indexer, repair_from_payload,                     *)
(* build_cdc_frontier).                                                    *)
(***************************************************************************)
Placed == {o \in Orders : progress[o] # "none"}
Feed == INSTANCE OrderFeed
  WITH placed <- Placed, log <- stream, next <- committed, passed <- skipped,
       shown <- docs, vouched <- report.settled

ImplementsOrderFeed == Feed!Spec

(***************************************************************************)
(* Different counts are drift: when the aggregate check reports a          *)
(* mismatch, some order it counted in Postgres had no document to be       *)
(* found.  The code breaks this: the search is filtered with the boundary  *)
(* noted at the start, the source query with its own later clock, so an    *)
(* order that comes of age between the two is counted on one side only.    *)
(***************************************************************************)
MismatchMeansDrift ==
  report.mismatch => report.lacking # {}
=============================================================================
