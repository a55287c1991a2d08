------------------------ MODULE OrderPipelineProofs ------------------------
(***************************************************************************)
(* Theorems about OrderPipeline for every number of orders, every skip     *)
(* interval and every length of the topic.                                 *)
(***************************************************************************)
EXTENDS OrderPipeline, FiniteSetTheorems, TLAPS

(***************************************************************************)
(* TypeOK is not inductive: committing moves the read position, and only a *)
(* message that is in the topic can have been written.                     *)
(***************************************************************************)
WrittenIsInStream == written => committed < Len(stream)
TypeInv == TypeOK /\ WrittenIsInStream

LEMMA InitType == Init => TypeInv
<1> SUFFICES ASSUME Init PROVE TypeInv
  OBVIOUS
<1>1. check \in Checks
  BY DEF Init, Idle, Checks, Stages, Kinds
<1>2. stream \in Seq(Orders) /\ committed \in 0 .. Len(stream)
  <2>1. stream = <<>> /\ committed = 0
    BY DEF Init
  <2> QED
    BY <2>1
<1>3. /\ progress \in [Orders -> {"none", "inserted", "acked", "recorded"}]
      /\ offset \in [Orders -> Offsets]
      /\ docOffset \in [Orders -> Offsets] /\ visOffset \in [Orders -> Offsets]
  BY DEF Init, Offsets
<1>4. /\ agedRows \subseteq Orders /\ agedEvents \subseteq Orders
      /\ written = FALSE /\ paidSeen \in Nat /\ skipped \subseteq Nat
      /\ docs \subseteq Orders /\ visible \subseteq Orders
      /\ report \in Reports \cup {NoReport} /\ reported \subseteq Orders
  BY DEF Init
<1> QED
  BY <1>1, <1>2, <1>3, <1>4 DEF TypeInv, TypeOK, WrittenIsInStream

LEMMA GeneratorType == ASSUME TypeInv, Generator PROVE TypeInv'
<1> USE DEF TypeInv, TypeOK, WrittenIsInStream
<1>1. PICK o \in Orders : Insert(o) \/ Publish(o) \/ Record(o)
  BY DEF Generator
<1>2. CASE Insert(o)
  BY <1>2 DEF Insert, indexer, index
<1>3. CASE Publish(o)
  <2>1. stream' \in Seq(Orders) /\ Len(stream') = Len(stream) + 1
    BY <1>3 DEF Publish
  <2>2. Len(stream) \in Nat /\ Len(stream) \in Offsets
    BY DEF Offsets
  <2>3. progress' \in [Orders -> {"none", "inserted", "acked", "recorded"}]
    BY <1>3 DEF Publish
  <2>4. offset' \in [Orders -> Offsets]
    BY <1>3, <2>2 DEF Publish
  <2>5. committed' \in 0 .. Len(stream') /\ (written' => committed' < Len(stream'))
    BY <1>3, <2>1, <2>2 DEF Publish, indexer
  <2> QED
    BY <1>3, <2>1, <2>3, <2>4, <2>5 DEF Publish, indexer, index
<1>4. CASE Record(o)
  BY <1>4 DEF Record, indexer, index
<1> QED
  BY <1>1, <1>2, <1>3, <1>4

LEMMA TimeType == ASSUME TypeInv, Time PROVE TypeInv'
<1> USE DEF TypeInv, TypeOK, WrittenIsInStream
<1>1. PICK o \in Orders : AgeRow(o) \/ AgeEvent(o)
  BY DEF Time
<1>2. CASE AgeRow(o)
  BY <1>2 DEF AgeRow, indexer, index
<1>3. CASE AgeEvent(o)
  BY <1>3 DEF AgeEvent, indexer, index
<1> QED
  BY <1>1, <1>2, <1>3

LEMMA MessageType ==
  ASSUME TypeOK, HasMessage
  PROVE  /\ Message \in Orders
         /\ committed \in Nat /\ Len(stream) \in Nat /\ committed < Len(stream)
         /\ Message = stream[committed + 1]
BY DEF TypeOK, HasMessage, Message

LEMMA PaidSeenType == ASSUME TypeOK PROVE PaidSeen \in Nat
BY DEF TypeOK, PaidSeen

LEMMA IndexerType == ASSUME TypeInv, Indexer PROVE TypeInv'
<1> USE DEF TypeInv, TypeOK, WrittenIsInStream
<1>0. committed \in Nat /\ Len(stream) \in Nat
  OBVIOUS
<1>1. CASE IndexOrder
  <2>1. docs' \subseteq Orders
    BY <1>1, MessageType DEF IndexOrder
  <2>2. docOffset' \in [Orders -> Offsets]
    BY <1>1, MessageType DEF IndexOrder, Offsets
  <2>3. paidSeen' \in Nat /\ (written' => committed' < Len(stream'))
    BY <1>1, MessageType, PaidSeenType DEF IndexOrder
  <2> QED
    BY <1>1, <2>1, <2>2, <2>3 DEF IndexOrder, source
<1>2. CASE Commit
  <2>1. committed' \in 0 .. Len(stream) /\ written' = FALSE
    BY <1>0, <1>2 DEF Commit
  <2> QED
    BY <1>2, <2>1 DEF Commit, source, index
<1>3. CASE SkipPaid
  <2>1. committed' \in 0 .. Len(stream) /\ skipped' \subseteq Nat
    BY <1>3, MessageType DEF SkipPaid
  <2>2. paidSeen' \in Nat /\ written' = FALSE
    BY <1>3, PaidSeenType DEF SkipPaid, HasMessage
  <2> QED
    BY <1>3, <2>1, <2>2 DEF SkipPaid, source, index
<1>4. CASE RestartIndexer
  BY <1>4 DEF RestartIndexer, source, index
<1>5. CASE Refresh
  BY <1>5 DEF Refresh, source, indexer
<1> QED
  BY <1>1, <1>2, <1>3, <1>4, <1>5 DEF Indexer

LEMMA CheckerType == ASSUME TypeInv, Checker PROVE TypeInv'
<1> USE DEF TypeInv, TypeOK, WrittenIsInStream
<1>0. check.eligible \in SUBSET Orders /\ check.lacking \in SUBSET Orders
      /\ check.source \in SUBSET Orders /\ check.kind \in Kinds
  BY DEF Checks
<1>1. ASSUME NEW kind \in Kinds, StartCheck(kind) PROVE TypeInv'
  <2>1. Len(stream) \in Nat /\ (IF kind = "aggregate" THEN agedRows ELSE {}) \in SUBSET Orders
    OBVIOUS
  <2>2. Idle \in Checks
    BY DEF Idle, Checks, Stages, Kinds
  <2>3. check' \in Checks
    BY <1>1, <2>1, <2>2 DEF StartCheck, Checks, Stages
  <2> QED
    BY <1>1, <2>3 DEF StartCheck, source, indexer, index
<1>2. CASE ReadSource
  <2>1. check' \in Checks
    BY <1>2 DEF ReadSource, FetchPaidOrders, Checks, Stages
  <2> QED
    BY <1>2, <2>1 DEF ReadSource, source, indexer, index
<1>3. CASE ReadTarget
  <2>1. TargetOrders \in SUBSET Orders /\ check.source \ Found \in SUBSET Orders
    BY <1>0 DEF TargetOrders
  <2>2. check' \in Checks
    BY <1>3, <2>1 DEF ReadTarget, Checks, Stages
  <2> QED
    BY <1>3, <2>2 DEF ReadTarget, source, indexer, index
<1>4. CASE ReadOutbox
  <2>1. check' \in Checks
    BY <1>4 DEF ReadOutbox, Checks, Stages
  <2> QED
    BY <1>4, <2>1 DEF ReadOutbox, source, indexer, index
<1>5. CASE FinishCheck
  <2>1. check' \in Checks
    BY <1>5 DEF FinishCheck, Idle, Checks, Stages, Kinds
  <2>2. report' \in Reports
    <3>1. PICK gaps \in SUBSET Sources :
            report' =
              [kind |-> check.kind, status |-> FrontierStatus(gaps),
               mismatch |-> check.kind = "aggregate" /\ AggregateMismatch,
               lacking |-> check.lacking, young |-> Young,
               settled |-> IF FrontierStatus(gaps) = "bounded" THEN check.eligible ELSE {}]
      BY <1>5 DEF FinishCheck
    <3>2. FrontierStatus(gaps) \in Statuses
      BY DEF FrontierStatus, Statuses
    <3> DEFINE mismatch == check.kind = "aggregate" /\ AggregateMismatch
    <3>3. mismatch \in BOOLEAN /\ Young \in SUBSET Orders
      BY <1>0 DEF Young
    <3> HIDE DEF mismatch
    <3>4. report' =
            [kind |-> check.kind, status |-> FrontierStatus(gaps), mismatch |-> mismatch,
             lacking |-> check.lacking, young |-> Young,
             settled |-> IF FrontierStatus(gaps) = "bounded" THEN check.eligible ELSE {}]
      BY <3>1 DEF mismatch
    <3> QED
      BY <1>0, <3>2, <3>3, <3>4 DEF Reports
  <2>3. reported' \subseteq Orders
    BY <1>0, <1>5 DEF FinishCheck
  <2> QED
    BY <1>5, <2>1, <2>2, <2>3 DEF FinishCheck, source, indexer, index
<1>6. CASE AbandonCheck
  <2>1. check' \in Checks
    BY <1>6 DEF AbandonCheck, Idle, Checks, Stages, Kinds
  <2> QED
    BY <1>6, <2>1 DEF AbandonCheck, source, indexer, index
<1> QED
  BY <1>1, <1>2, <1>3, <1>4, <1>5, <1>6 DEF Checker

LEMMA RepairType == ASSUME TypeInv, Repair PROVE TypeInv'
<1> USE DEF TypeInv, TypeOK, WrittenIsInStream
<1>1. PICK o \in Orders : Reindex(o)
  BY DEF Repair
<1>2. docs' \subseteq Orders /\ docOffset' \in [Orders -> Offsets]
  BY <1>1 DEF Reindex, Offsets
<1> QED
  BY <1>1, <1>2 DEF Reindex, source, indexer

(***************************************************************************)
(* Every reachable state is well typed: in particular neither restarts nor *)
(* skips nor redelivery take the read position past the end of the topic.  *)
(***************************************************************************)
THEOREM TypeInvariant == Spec => []TypeInv
<1>1. TypeInv /\ [Next]_vars => TypeInv'
  <2>1. TypeInv /\ UNCHANGED vars => TypeInv'
    BY DEF vars, source, indexer, index, TypeInv, TypeOK, WrittenIsInStream
  <2> QED
    BY <2>1, GeneratorType, TimeType, IndexerType, CheckerType, RepairType DEF Next
<1> QED
  BY InitType, <1>1, PTL DEF Spec

THEOREM PipelineTypeCorrect == Spec => []TypeOK
<1>1. TypeInv => TypeOK
  BY DEF TypeInv
<1> QED
  BY <1>1, TypeInvariant, PTL

----------------------------------------------------------------------------
(***************************************************************************)
(* NothingPassedOver and BoundedMeansDelivered.  An offset in an outbox    *)
(* row or in a document is that of the order's own message (RowsPoint,     *)
(* EvidencePoints), evidence never runs ahead of the committed position by *)
(* more than the message being written, and all before it was delivered    *)
(* (PassedDelivered).  What a check has seen published stays published,    *)
(* and what a report vouches for stays delivered (Vouched).                *)
(***************************************************************************)
RowsPoint ==
  \A o \in Orders : progress[o] \in {"acked", "recorded"} =>
    offset[o] \in 0 .. Len(stream) - 1 /\ stream[offset[o] + 1] = o

EvidencePoints(off) ==
  \A o \in Orders : off[o] # NoOffset =>
    off[o] <= committed /\ off[o] < Len(stream) /\ stream[off[o] + 1] = o /\ o \in docs

PassedDelivered ==
  /\ \A k \in 0 .. committed - 1 : Delivered(k)
  /\ written => Message \in docs

Vouched ==
  /\ \A o \in check.published : progress[o] = "recorded"
  /\ \A o \in report.settled :
       progress[o] = "recorded" /\ (o \in docs \/ offset[o] \in skipped)

DeliveryInv ==
  RowsPoint /\ EvidencePoints(docOffset) /\ EvidencePoints(visOffset) /\ PassedDelivered /\ Vouched

(***************************************************************************)
(* The topic is append-only, documents stay, skips stay, the committed     *)
(* offset does not go back.                                                *)
(***************************************************************************)
Grows ==
  /\ Len(stream) \in Nat /\ Len(stream') \in Nat /\ Len(stream) <= Len(stream')
  /\ \A k \in 1 .. Len(stream) : stream'[k] = stream[k]
  /\ docs \subseteq docs' /\ skipped \subseteq skipped'
  /\ committed \in Nat /\ committed' \in Nat /\ committed <= committed'

LEMMA NextGrows == ASSUME TypeInv, [Next]_vars PROVE Grows
<1> USE DEF TypeInv, TypeOK
<1>0. /\ Len(stream) \in Nat /\ committed \in Nat
      /\ stream' = stream => Len(stream') \in Nat /\ Len(stream) <= Len(stream')
                              /\ \A k \in 1 .. Len(stream) : stream'[k] = stream[k]
  OBVIOUS
<1>1. CASE Generator
  <2>1. PICK o \in Orders : Insert(o) \/ Publish(o) \/ Record(o)
    BY <1>1 DEF Generator
  <2>2. CASE Publish(o)
    <3>1. Len(stream') = Len(stream) + 1 /\ \A k \in 1 .. Len(stream) : stream'[k] = stream[k]
      BY <2>2 DEF Publish
    <3> QED
      BY <1>0, <2>2, <3>1 DEF Publish, Grows, indexer, index
  <2>3. CASE Insert(o)
    BY <1>0, <2>3 DEF Insert, Grows, indexer, index
  <2>4. CASE Record(o)
    BY <1>0, <2>4 DEF Record, Grows, indexer, index
  <2> QED
    BY <2>1, <2>2, <2>3, <2>4
<1>2. CASE Time
  BY <1>0, <1>2 DEF Time, AgeRow, AgeEvent, Grows, indexer, index
<1>3. CASE Indexer
  <2>1. stream' = stream
    BY <1>3 DEF Indexer, IndexOrder, Commit, SkipPaid, RestartIndexer, Refresh
  <2>2. docs \subseteq docs' /\ skipped \subseteq skipped'
    BY <1>3 DEF Indexer, IndexOrder, Commit, SkipPaid, RestartIndexer, Refresh, index, indexer
  <2>3. committed' = committed \/ committed' = committed + 1
    BY <1>3 DEF Indexer, IndexOrder, Commit, SkipPaid, RestartIndexer, Refresh, indexer
  <2> QED
    BY <1>0, <2>1, <2>2, <2>3 DEF Grows
<1>4. CASE Checker
  <2>1. UNCHANGED <<stream, indexer, index>>
    BY <1>4 DEF Checker, StartCheck, ReadSource, ReadTarget, ReadOutbox, FinishCheck, AbandonCheck
  <2> QED
    BY <1>0, <2>1 DEF Grows, indexer, index
<1>5. CASE Repair
  BY <1>0, <1>5 DEF Repair, Reindex, Grows, indexer
<1>6. CASE UNCHANGED vars
  BY <1>0, <1>6 DEF vars, Grows, indexer, index
<1> QED
  BY <1>1, <1>2, <1>3, <1>4, <1>5, <1>6 DEF Next

LEMMA RowsPointStep ==
  ASSUME TypeInv, RowsPoint, [Next]_vars PROVE RowsPoint'
<1>0. Grows
  BY NextGrows
<1>1. CASE UNCHANGED <<progress, offset>>
  BY <1>0, <1>1 DEF RowsPoint, Grows
<1>2. CASE Generator
  <2>1. PICK o \in Orders : Insert(o) \/ Publish(o) \/ Record(o)
    BY <1>2 DEF Generator
  <2>2. CASE Insert(o)
    BY <1>0, <2>2 DEF Insert, RowsPoint, Grows, TypeInv, TypeOK
  <2>3. CASE Publish(o)
    <3>1. stream'[Len(stream) + 1] = o /\ Len(stream') = Len(stream) + 1 /\ Len(stream) \in Nat
      BY <2>3 DEF Publish, TypeInv, TypeOK
    <3>2. CASE UNCHANGED <<progress, offset>>
      BY <1>1, <3>2
    <3>3. CASE /\ progress' = [progress EXCEPT ![o] = "acked"]
               /\ offset' = [offset EXCEPT ![o] = Len(stream)]
      <4> SUFFICES ASSUME NEW q \in Orders, progress'[q] \in {"acked", "recorded"}
                   PROVE  offset'[q] \in 0 .. Len(stream') - 1 /\ stream'[offset'[q] + 1] = q
        BY DEF RowsPoint
      <4>1. CASE q = o
        BY <3>1, <3>3, <4>1 DEF TypeInv, TypeOK
      <4>2. CASE q # o
        BY <1>0, <3>3, <4>2 DEF RowsPoint, Grows, TypeInv, TypeOK
      <4> QED
        BY <4>1, <4>2
    <3> QED
      BY <2>3, <3>2, <3>3 DEF Publish
  <2>4. CASE Record(o)
    BY <1>0, <2>4 DEF Record, RowsPoint, Grows, TypeInv, TypeOK
  <2> QED
    BY <2>1, <2>2, <2>3, <2>4
<1>3. CASE Time
  BY <1>1, <1>3 DEF Time, AgeRow, AgeEvent
<1>4. CASE Indexer \/ Checker \/ Repair
  <2>1. UNCHANGED source
    BY <1>4 DEF Indexer, IndexOrder, Commit, SkipPaid, RestartIndexer, Refresh, Checker, StartCheck,
                ReadSource, ReadTarget, ReadOutbox, FinishCheck, AbandonCheck, Repair, Reindex
  <2> QED
    BY <1>1, <2>1 DEF source
<1>5. CASE UNCHANGED vars
  BY <1>1, <1>5 DEF vars, source
<1> QED
  BY <1>2, <1>3, <1>4, <1>5 DEF Next

(***************************************************************************)
(* Only the indexer writes an offset, that of the message it holds; a      *)
(* refresh copies, a repair erases.                                        *)
(***************************************************************************)
LEMMA EvidenceStep ==
  ASSUME TypeInv, EvidencePoints(docOffset), EvidencePoints(visOffset), [Next]_vars
  PROVE  EvidencePoints(docOffset)' /\ EvidencePoints(visOffset)'
<1>0. Grows
  BY NextGrows
<1>t. docOffset \in [Orders -> Offsets] /\ visOffset \in [Orders -> Offsets]
  BY DEF TypeInv, TypeOK
<1>1. CASE UNCHANGED <<docOffset, visOffset>>
  BY <1>0, <1>1, <1>t DEF EvidencePoints, Grows, Offsets, NoOffset
<1>2. CASE IndexOrder
  <2>1. EvidencePoints(visOffset)'
    BY <1>0, <1>2, <1>t DEF EvidencePoints, Grows, Offsets, NoOffset, IndexOrder
  <2>2. /\ Message \in Orders /\ committed < Len(stream) /\ committed \in Nat
        /\ Message = stream[committed + 1] /\ Message \in docs'
        /\ docOffset' = [docOffset EXCEPT ![Message] = committed]
        /\ committed' = committed /\ stream' = stream
    BY <1>2, MessageType DEF IndexOrder, TypeInv
  <2>3. EvidencePoints(docOffset)'
    BY <1>0, <1>t, <2>2 DEF EvidencePoints, Grows, Offsets, NoOffset
  <2> QED
    BY <2>1, <2>3
<1>3. CASE Refresh
  <2>1. docOffset' = docOffset /\ visOffset' = docOffset
    BY <1>3 DEF Refresh
  <2> QED
    BY <1>0, <1>t, <2>1 DEF EvidencePoints, Grows, Offsets, NoOffset
<1>4. CASE Repair
  <2>1. PICK o \in Orders : Reindex(o)
    BY <1>4 DEF Repair
  <2>2. docOffset' = [docOffset EXCEPT ![o] = NoOffset] /\ visOffset' = docOffset'
    BY <2>1 DEF Reindex
  <2> QED
    BY <1>0, <1>t, <2>2 DEF EvidencePoints, Grows, Offsets, NoOffset
<1>5. CASE Commit \/ SkipPaid \/ RestartIndexer \/ Checker
  <2>1. UNCHANGED index
    BY <1>5 DEF Commit, SkipPaid, RestartIndexer, Checker, StartCheck, ReadSource, ReadTarget,
                ReadOutbox, FinishCheck, AbandonCheck
  <2> QED
    BY <1>1, <2>1 DEF index
<1>6. CASE Generator \/ Time
  <2>1. UNCHANGED index
    BY <1>6 DEF Generator, Insert, Publish, Record, Time, AgeRow, AgeEvent
  <2> QED
    BY <1>1, <2>1 DEF index
<1>7. CASE UNCHANGED vars
  BY <1>1, <1>7 DEF vars, index
<1> QED
  BY <1>2, <1>3, <1>4, <1>5, <1>6, <1>7 DEF Next, Indexer

(***************************************************************************)
(* The committed offset moves by one message, which by then has a document *)
(* or was skipped.                                                         *)
(***************************************************************************)
LEMMA PassedStep ==
  ASSUME TypeInv, PassedDelivered, [Next]_vars PROVE PassedDelivered'
<1>0. Grows
  BY NextGrows
<1>t. committed \in Nat /\ committed' \in Nat /\ committed \in 0 .. Len(stream)
      /\ (written => committed < Len(stream)) /\ Len(stream) \in Nat
  BY <1>0 DEF Grows, TypeInv, TypeOK, WrittenIsInStream
<1>1. \A k \in 0 .. Len(stream) - 1 : Delivered(k) => Delivered(k)'
  BY <1>0 DEF Delivered, Grows
<1>2. ASSUME committed' = committed PROVE \A k \in 0 .. committed' - 1 : Delivered(k)'
  BY <1>1, <1>2, <1>t DEF PassedDelivered
<1>3. ASSUME committed' = committed, written' => written PROVE PassedDelivered'
  <2>1. written' => Message' = Message
    BY <1>0, <1>3, <1>t DEF Message, Grows
  <2> QED
    BY <1>0, <1>2, <1>3, <2>1 DEF PassedDelivered, Grows
<1>4. ASSUME committed' = committed + 1, ~written',
             committed \in skipped' \/ stream'[committed + 1] \in docs',
             committed < Len(stream)
      PROVE  PassedDelivered'
  <2>1. ASSUME NEW k \in 0 .. committed' - 1 PROVE Delivered(k)'
    <3>1. CASE k = committed
      BY <1>4, <3>1 DEF Delivered
    <3>2. CASE k # committed
      BY <1>1, <1>4, <1>t, <3>2 DEF PassedDelivered
    <3> QED
      BY <3>1, <3>2
  <2> QED
    BY <1>4, <2>1 DEF PassedDelivered
<1>5. CASE IndexOrder
  <2>1. committed' = committed /\ Message' = Message /\ Message \in docs'
    BY <1>5 DEF IndexOrder, Message
  <2> QED
    BY <1>2, <2>1 DEF PassedDelivered
<1>6. CASE Commit
  <2>1. written /\ committed' = committed + 1 /\ ~written' /\ stream' = stream /\ docs' = docs
    BY <1>6 DEF Commit, index
  <2>2. committed \in skipped' \/ stream'[committed + 1] \in docs'
    BY <2>1 DEF PassedDelivered, Message
  <2> QED
    BY <1>4, <1>t, <2>1, <2>2
<1>7. CASE SkipPaid
  <2>1. /\ committed' = committed + 1 /\ ~written'
        /\ committed \in skipped' /\ committed < Len(stream)
    BY <1>7, MessageType DEF SkipPaid, HasMessage, TypeInv
  <2>2. committed \in skipped' \/ stream'[committed + 1] \in docs'
    BY <2>1
  <2> QED
    BY <1>4, <2>1, <2>2
<1>8. CASE RestartIndexer \/ Refresh
  BY <1>3, <1>8 DEF RestartIndexer, Refresh, indexer
<1>9. CASE Generator \/ Time
  <2>1. UNCHANGED indexer
    BY <1>9 DEF Generator, Insert, Publish, Record, Time, AgeRow, AgeEvent
  <2> QED
    BY <1>3, <2>1 DEF indexer
<1>10. CASE Checker \/ Repair
  <2>1. UNCHANGED indexer
    BY <1>10 DEF Checker, StartCheck, ReadSource, ReadTarget, ReadOutbox, FinishCheck,
                 AbandonCheck, Repair, Reindex
  <2> QED
    BY <1>3, <2>1 DEF indexer
<1>11. CASE UNCHANGED vars
  BY <1>3, <1>11 DEF vars, indexer
<1> QED
  BY <1>5, <1>6, <1>7, <1>8, <1>9, <1>10, <1>11 DEF Next, Indexer

(***************************************************************************)
(* The argument behind a bounded frontier: a published offset at or below  *)
(* a visible one is behind the committed position, or is the message that  *)
(* is being written, so it was delivered.                                  *)
(***************************************************************************)
LEMMA CoveredIsDelivered ==
  ASSUME TypeInv, RowsPoint, EvidencePoints(visOffset), PassedDelivered,
         NEW o \in Orders, progress[o] = "recorded",
         NEW d \in Orders, visOffset[d] >= offset[o]
  PROVE  o \in docs \/ offset[o] \in skipped
<1>1. offset[o] \in 0 .. Len(stream) - 1 /\ stream[offset[o] + 1] = o /\ Len(stream) \in Nat
  BY DEF RowsPoint, TypeInv, TypeOK
<1>2. visOffset[d] \in Nat
  BY <1>1 DEF TypeInv, TypeOK, Offsets, NoOffset
<1>3. visOffset[d] <= committed /\ stream[visOffset[d] + 1] = d /\ d \in docs
  BY <1>2 DEF EvidencePoints, NoOffset
<1>4. CASE offset[o] = visOffset[d]
  BY <1>1, <1>3, <1>4
<1>5. CASE offset[o] # visOffset[d]
  <2>1. offset[o] \in 0 .. committed - 1
    BY <1>1, <1>2, <1>3, <1>5 DEF TypeInv, TypeOK
  <2> QED
    BY <1>1, <2>1 DEF PassedDelivered, Delivered
<1> QED
  BY <1>4, <1>5

LEMMA VouchedStep ==
  ASSUME TypeInv, DeliveryInv, [Next]_vars PROVE Vouched'
<1>0. Grows
  BY NextGrows
<1>t. check.published \in SUBSET Orders /\ check.eligible \in SUBSET Orders
      /\ report.settled \in SUBSET Orders /\ visible \subseteq Orders
  BY DEF TypeInv, TypeOK, Checks, Reports, NoReport
<1>1. \A o \in Orders : progress[o] = "recorded" => progress'[o] = "recorded" /\ offset'[o] = offset[o]
  <2>1. CASE Generator
    BY <2>1 DEF Generator, Insert, Publish, Record, TypeInv, TypeOK
  <2>2. CASE Time
    BY <2>2 DEF Time, AgeRow, AgeEvent
  <2>3. CASE Indexer \/ Checker \/ Repair
    <3>1. UNCHANGED source
      BY <2>3 DEF Indexer, IndexOrder, Commit, SkipPaid, RestartIndexer, Refresh, Checker, StartCheck,
                  ReadSource, ReadTarget, ReadOutbox, FinishCheck, AbandonCheck, Repair, Reindex
    <3> QED
      BY <3>1 DEF source
  <2> QED
    BY <2>1, <2>2, <2>3 DEF Next, vars, source
<1>2. ASSUME check'.published \in {check.published, {}}
      PROVE  \A o \in check'.published : progress'[o] = "recorded"
  BY <1>1, <1>2, <1>t DEF DeliveryInv, Vouched
<1>3. ASSUME report'.settled \in {report.settled, {}}
      PROVE  \A o \in report'.settled :
               progress'[o] = "recorded" /\ (o \in docs' \/ offset'[o] \in skipped')
  BY <1>0, <1>1, <1>3, <1>t DEF DeliveryInv, Vouched, Grows
<1>4. CASE UNCHANGED <<check, report>>
  BY <1>2, <1>3, <1>4 DEF Vouched
<1>5. ASSUME NEW kind \in Kinds, StartCheck(kind) PROVE Vouched'
  <2>1. check'.published = {} /\ report'.settled = {}
    BY <1>5 DEF StartCheck, Idle, NoReport
  <2> QED
    BY <2>1 DEF Vouched
<1>6. CASE ReadSource \/ ReadTarget
  <2>1. check'.published = check.published /\ report' = report
    BY <1>6 DEF ReadSource, ReadTarget, TypeInv, TypeOK, Checks
  <2> QED
    BY <1>2, <1>3, <2>1 DEF Vouched
<1>7. CASE ReadOutbox
  <2>1. /\ check'.published = {o \in agedEvents : progress[o] = "recorded"}
        /\ report' = report /\ progress' = progress
    BY <1>7 DEF ReadOutbox, TypeInv, TypeOK, Checks, source
  <2> QED
    BY <1>3, <2>1 DEF Vouched
<1>8. CASE FinishCheck
  <2>1. check'.published = {}
    BY <1>8 DEF FinishCheck, Idle
  <2>2. PICK gaps \in SUBSET Sources :
          report'.settled = IF FrontierStatus(gaps) = "bounded" THEN check.eligible ELSE {}
    BY <1>8 DEF FinishCheck
  <2>3. CASE FrontierStatus(gaps) = "bounded"
    <3>1. AllPublished /\ TargetCovers
      BY <2>3 DEF FrontierStatus
    <3>2. ASSUME NEW o \in check.eligible
          PROVE  progress[o] = "recorded" /\ (o \in docs \/ offset[o] \in skipped)
      <4>1. o \in check.published /\ progress[o] = "recorded" /\ o \in Orders
        BY <1>t, <3>1, <3>2 DEF AllPublished, DeliveryInv, Vouched
      <4>2. PICK d \in visible : visOffset[d] >= offset[o]
        BY <3>1, <4>1 DEF TargetCovers
      <4> QED
        BY <1>t, <4>1, <4>2, CoveredIsDelivered DEF DeliveryInv
    <3>3. UNCHANGED <<progress, offset, docs, skipped>>
      BY <1>8 DEF FinishCheck, source, indexer, index
    <3> QED
      BY <2>1, <2>2, <2>3, <3>2, <3>3 DEF Vouched
  <2>4. CASE FrontierStatus(gaps) # "bounded"
    BY <2>1, <2>2, <2>4 DEF Vouched
  <2> QED
    BY <2>3, <2>4
<1>9. CASE AbandonCheck
  <2>1. check'.published = {} /\ report' = report
    BY <1>9 DEF AbandonCheck, Idle
  <2> QED
    BY <1>2, <1>3, <2>1 DEF Vouched
<1>10. CASE Generator \/ Time \/ Indexer \/ Repair
  <2>1. UNCHANGED <<check, report>>
    BY <1>10 DEF Generator, Insert, Publish, Record, Time, AgeRow, AgeEvent, Indexer, IndexOrder, Commit,
                 SkipPaid, RestartIndexer, Refresh, Repair, Reindex
  <2> QED
    BY <1>4, <2>1
<1>11. CASE UNCHANGED vars
  BY <1>4, <1>11 DEF vars
<1> QED
  BY <1>5, <1>6, <1>7, <1>8, <1>9, <1>10, <1>11 DEF Next, Checker

LEMMA InitDelivery == Init => DeliveryInv
BY DEF Init, DeliveryInv, RowsPoint, EvidencePoints, PassedDelivered, Vouched, Idle, NoReport, NoOffset

THEOREM DeliveryInvariant == Spec => []DeliveryInv
<1>1. TypeInv /\ DeliveryInv /\ [Next]_vars => DeliveryInv'
  <2> SUFFICES ASSUME TypeInv, DeliveryInv, [Next]_vars PROVE DeliveryInv'
    OBVIOUS
  <2>1. RowsPoint'
    BY RowsPointStep DEF DeliveryInv
  <2>2. EvidencePoints(docOffset)' /\ EvidencePoints(visOffset)'
    BY EvidenceStep DEF DeliveryInv
  <2>3. PassedDelivered'
    BY PassedStep DEF DeliveryInv
  <2>4. Vouched'
    BY VouchedStep
  <2> QED
    BY <2>1, <2>2, <2>3, <2>4 DEF DeliveryInv
<1> QED
  BY InitDelivery, TypeInvariant, <1>1, PTL DEF Spec

(***************************************************************************)
(* NothingPassedOver: the indexer, restarted at will, never leaves behind  *)
(* an offset without a document except on purpose, whatever generators,    *)
(* producer retries and direct reindexing do meanwhile.                    *)
(***************************************************************************)
THEOREM NothingIsPassedOver == Spec => []NothingPassedOver
<1>1. TypeInv /\ DeliveryInv => NothingPassedOver
  <2> SUFFICES ASSUME TypeInv, DeliveryInv, NEW k \in 0 .. Len(stream) - 1,
                      k < committed \/ \E d \in docs : docOffset[d] >= k
               PROVE  Delivered(k)
    BY DEF NothingPassedOver
  <2>0. committed \in Nat /\ Len(stream) \in Nat
    BY DEF TypeInv, TypeOK
  <2>1. CASE k < committed
    BY <2>0, <2>1 DEF DeliveryInv, PassedDelivered
  <2>2. CASE \E d \in docs : docOffset[d] >= k
    <3>1. PICK d \in docs : docOffset[d] >= k
      BY <2>2
    <3>2. d \in Orders /\ docOffset[d] \in Nat
      BY <2>0, <3>1 DEF TypeInv, TypeOK, Offsets, NoOffset
    <3>3. docOffset[d] <= committed /\ stream[docOffset[d] + 1] = d
      BY <3>2 DEF DeliveryInv, EvidencePoints, NoOffset
    <3>4. CASE k = docOffset[d]
      BY <3>1, <3>3, <3>4 DEF Delivered
    <3>5. CASE k # docOffset[d]
      BY <2>0, <3>1, <3>2, <3>3, <3>5 DEF DeliveryInv, PassedDelivered
    <3> QED
      BY <3>4, <3>5
  <2> QED
    BY <2>1, <2>2
<1> QED
  BY <1>1, TypeInvariant, DeliveryInvariant, PTL

(***************************************************************************)
(* BoundedMeansDelivered: although the topic, the outbox and the index are *)
(* read one after the other, a bounded frontier vouches only for rows that *)
(* were delivered or skipped.                                              *)
(***************************************************************************)
THEOREM BoundedIsSettled == Spec => []BoundedMeansDelivered
<1>1. DeliveryInv => BoundedMeansDelivered
  BY DEF DeliveryInv, Vouched, BoundedMeansDelivered
<1> QED
  BY <1>1, DeliveryInvariant, PTL

----------------------------------------------------------------------------
(***************************************************************************)
(* MatchingCountsMeanComplete, MismatchIsExplained: rows only come of age, *)
(* so the source counts every order of the boundary; the target counts a   *)
(* part of the boundary; so the target's orders are among the source's,    *)
(* and equal counts mean that they are the same orders.  The other way     *)
(* round, a source order that is not among the target's either had no      *)
(* document to be found or lies outside the boundary.                      *)
(***************************************************************************)
Counted ==
  /\ check.boundary \subseteq agedRows
  /\ check.stage \in {"target", "outbox", "frontier"} =>
       Paid \cap check.boundary \subseteq check.source
  /\ check.stage \in {"target", "outbox", "frontier"} => check.source \subseteq Paid
  /\ check.stage \in {"outbox", "frontier"} /\ check.kind = "aggregate" =>
       /\ check.target \subseteq check.source
       /\ check.lacking \subseteq check.source \ check.target
       /\ check.source \ check.target \subseteq
            check.lacking \cup (check.source \ check.boundary)

CountInv == Counted /\ MatchingCountsMeanComplete /\ MismatchIsExplained

LEMMA SameCount ==
  ASSUME TypeOK, Counted, check.stage = "frontier", check.kind = "aggregate", ~AggregateMismatch
  PROVE  check.lacking = {}
<1>1. check.target \subseteq check.source /\ check.lacking \subseteq check.source \ check.target
  BY DEF Counted
<1>2. check.source \in SUBSET Orders
  BY DEF TypeOK, Checks
<1>3. IsFiniteSet(check.source)
  BY <1>2, PipelineAssumption, FS_Subset
<1>4. check.target = check.source
  BY <1>1, <1>3, FS_Subset DEF AggregateMismatch
<1> QED
  BY <1>1, <1>4

LEMMA OtherCount ==
  ASSUME Counted, check.stage = "frontier", check.kind = "aggregate", AggregateMismatch
  PROVE  check.lacking \cup Young # {}
<1>1. check.target # check.source
  BY DEF AggregateMismatch
<1>2. /\ check.target \subseteq check.source
      /\ check.source \ check.target \subseteq check.lacking \cup (check.source \ check.boundary)
  BY DEF Counted
<1> QED
  BY <1>1, <1>2 DEF Young

LEMMA CountStep == ASSUME TypeOK, CountInv, [Next]_vars PROVE CountInv'
<1>t. check \in Checks
  BY DEF TypeOK
<1>1. ASSUME UNCHANGED <<check, report>>, agedRows \subseteq agedRows' PROVE CountInv'
  BY <1>1 DEF CountInv, Counted, MatchingCountsMeanComplete, MismatchIsExplained
<1>2. ASSUME NEW kind \in Kinds, StartCheck(kind) PROVE CountInv'
  <2>1. check'.boundary \subseteq agedRows' /\ check'.stage = "source" /\ report' = NoReport
    BY <1>2 DEF StartCheck, Idle, source
  <2> QED
    BY <2>1 DEF CountInv, Counted, MatchingCountsMeanComplete, MismatchIsExplained, NoReport
<1>3. CASE ReadSource
  <2>1. /\ check'.source = Paid \cap agedRows /\ check'.boundary = check.boundary
        /\ check'.stage = "target" /\ agedRows' = agedRows /\ report' = report
    BY <1>3, <1>t DEF ReadSource, FetchPaidOrders, Checks, source
  <2> QED
    BY <2>1 DEF CountInv, Counted, MatchingCountsMeanComplete, MismatchIsExplained
<1>4. CASE ReadTarget
  <2>1. /\ check'.source = check.source /\ check'.boundary = check.boundary
        /\ check'.kind = check.kind /\ check'.stage = "outbox"
        /\ check'.target = TargetOrders /\ check'.lacking = check.source \ Found
        /\ agedRows' = agedRows /\ report' = report /\ check.stage = "target"
    BY <1>4, <1>t DEF ReadTarget, Checks, source
  <2>2. check.kind = "aggregate" =>
          /\ TargetOrders \subseteq check.source
          /\ check.source \ Found \subseteq check.source \ TargetOrders
          /\ check.source \ TargetOrders \subseteq
               (check.source \ Found) \cup (check.source \ check.boundary)
    BY <2>1 DEF TargetOrders, Found, CountInv, Counted
  <2> QED
    BY <2>1, <2>2 DEF CountInv, Counted, MatchingCountsMeanComplete, MismatchIsExplained
<1>5. CASE ReadOutbox
  <2>1. /\ check'.source = check.source /\ check'.boundary = check.boundary
        /\ check'.kind = check.kind /\ check'.stage = "frontier" /\ check.stage = "outbox"
        /\ check'.target = check.target /\ check'.lacking = check.lacking
        /\ agedRows' = agedRows /\ report' = report
    BY <1>5, <1>t DEF ReadOutbox, Checks, source
  <2> QED
    BY <2>1 DEF CountInv, Counted, MatchingCountsMeanComplete, MismatchIsExplained
<1>6. CASE FinishCheck
  <2>1. check' = Idle /\ agedRows' = agedRows /\ check.stage = "frontier"
    BY <1>6 DEF FinishCheck, source
  <2>2. /\ report'.kind = check.kind /\ report'.lacking = check.lacking
        /\ report'.young = Young
        /\ report'.mismatch = (check.kind = "aggregate" /\ AggregateMismatch)
    BY <1>6 DEF FinishCheck
  <2>3. MatchingCountsMeanComplete'
    BY <2>1, <2>2, SameCount DEF CountInv, MatchingCountsMeanComplete
  <2>4. MismatchIsExplained'
    BY <2>1, <2>2, OtherCount DEF CountInv, MismatchIsExplained
  <2> QED
    BY <2>1, <2>3, <2>4 DEF CountInv, Counted, Idle
<1>7. CASE AbandonCheck
  BY <1>7 DEF AbandonCheck, CountInv, Counted, MatchingCountsMeanComplete, MismatchIsExplained, Idle, source
<1>8. CASE Generator \/ Time
  <2>1. UNCHANGED <<check, report>> /\ agedRows \subseteq agedRows'
    BY <1>8 DEF Generator, Insert, Publish, Record, Time, AgeRow, AgeEvent
  <2> QED
    BY <1>1, <2>1
<1>9. CASE Indexer \/ Repair
  <2>1. UNCHANGED <<check, report>> /\ agedRows \subseteq agedRows'
    BY <1>9 DEF Indexer, IndexOrder, Commit, SkipPaid, RestartIndexer, Refresh, Repair, Reindex, source
  <2> QED
    BY <1>1, <2>1
<1>10. CASE UNCHANGED vars
  BY <1>1, <1>10 DEF vars, source
<1> QED
  BY <1>2, <1>3, <1>4, <1>5, <1>6, <1>7, <1>8, <1>9, <1>10 DEF Next, Checker

LEMMA CountInvariant == Spec => []CountInv
<1>1. Init => CountInv
  BY DEF Init, CountInv, Counted, MatchingCountsMeanComplete, MismatchIsExplained, Idle, NoReport
<1> QED
  BY <1>1, CountStep, PipelineTypeCorrect, PTL DEF Spec

(***************************************************************************)
(* A Healthy aggregate report hides no loss: however orders come of age,   *)
(* are indexed and become visible between its reads, every order it        *)
(* counted in Postgres had a document.                                     *)
(***************************************************************************)
THEOREM EqualCountsAreComplete == Spec => []MatchingCountsMeanComplete
<1>1. CountInv => MatchingCountsMeanComplete
  BY DEF CountInv
<1> QED
  BY <1>1, CountInvariant, PTL

(***************************************************************************)
(* An aggregate report of drift that is none has one cause only: an order  *)
(* that came of age between checked_at and the source query.               *)
(***************************************************************************)
THEOREM OtherCountsAreExplained == Spec => []MismatchIsExplained
<1>1. CountInv => MismatchIsExplained
  BY DEF CountInv
<1> QED
  BY <1>1, CountInvariant, PTL

----------------------------------------------------------------------------
(***************************************************************************)
(* The pipeline implements OrderFeed.  To DeliveryInv, which entitles a    *)
(* commit to advance and a bounded frontier to vouch, comes that checks    *)
(* and repairs speak of inserted orders only (InsertedOnly).               *)
(***************************************************************************)
InsertedOnly ==
  /\ agedRows \subseteq Placed
  /\ check.source \subseteq Placed
  /\ reported \subseteq Placed

LEMMA PlacedGrows == ASSUME TypeInv, [Next]_vars PROVE Placed \subseteq Placed'
<1>1. CASE Generator
  BY <1>1 DEF Generator, Insert, Publish, Record, Placed, TypeInv, TypeOK
<1>2. CASE Time
  BY <1>2 DEF Time, AgeRow, AgeEvent, Placed
<1>3. CASE Indexer \/ Checker \/ Repair \/ UNCHANGED vars
  <2>1. UNCHANGED progress
    BY <1>3 DEF Indexer, IndexOrder, Commit, SkipPaid, RestartIndexer, Refresh, Checker, StartCheck,
                ReadSource, ReadTarget, ReadOutbox, FinishCheck, AbandonCheck, Repair, Reindex,
                vars, source
  <2> QED
    BY <2>1 DEF Placed
<1> QED
  BY <1>1, <1>2, <1>3 DEF Next

LEMMA InsertedStep ==
  ASSUME TypeInv, InsertedOnly, [Next]_vars PROVE InsertedOnly'
<1>g. Placed \subseteq Placed'
  BY PlacedGrows
<1>t. check \in Checks
  BY DEF TypeInv, TypeOK
<1>1. ASSUME agedRows' = agedRows, reported' = reported,
             check'.source = check.source \/ check'.source = {}
      PROVE  InsertedOnly'
  BY <1>1, <1>g DEF InsertedOnly
<1>2. CASE Generator \/ Indexer \/ Repair \/ UNCHANGED vars
  <2>1. UNCHANGED <<agedRows, reported, check>>
    BY <1>2 DEF Generator, Insert, Publish, Record, Indexer, IndexOrder, Commit, SkipPaid,
                RestartIndexer, Refresh, Repair, Reindex, vars, source
  <2> QED
    BY <1>1, <2>1
<1>3. CASE Time
  <2>1. PICK o \in Orders : AgeRow(o) \/ AgeEvent(o)
    BY <1>3 DEF Time
  <2>2. UNCHANGED <<reported, check>> /\ agedRows' \subseteq agedRows \cup {o}
    BY <2>1 DEF AgeRow, AgeEvent
  <2>3. o \in Placed \/ agedRows' = agedRows
    BY <2>1 DEF AgeRow, AgeEvent, Placed
  <2> QED
    BY <1>g, <2>2, <2>3 DEF InsertedOnly
<1>4. CASE Checker
  <2>1. ASSUME NEW kind \in Kinds, StartCheck(kind) PROVE InsertedOnly'
    <3>1. check'.source = {} /\ UNCHANGED <<agedRows, reported>>
      BY <2>1 DEF StartCheck, Idle, source
    <3> QED
      BY <1>1, <3>1
  <2>2. CASE ReadSource
    <3>1. check'.source = Paid \cap agedRows /\ UNCHANGED <<agedRows, reported>>
      BY <1>t, <2>2 DEF ReadSource, FetchPaidOrders, Checks, source
    <3> QED
      BY <1>g, <3>1 DEF InsertedOnly
  <2>3. CASE ReadTarget \/ ReadOutbox \/ AbandonCheck
    <3>1. /\ check'.source = check.source \/ check'.source = {}
          /\ UNCHANGED <<agedRows, reported>>
      <4>1. CASE ReadTarget \/ ReadOutbox
        <5>1. check'.source = check.source
          BY <1>t, <4>1 DEF ReadTarget, ReadOutbox, Checks
        <5> QED
          BY <4>1, <5>1 DEF ReadTarget, ReadOutbox, source
      <4>2. CASE AbandonCheck
        BY <4>2 DEF AbandonCheck, Idle, source
      <4> QED
        BY <2>3, <4>1, <4>2
    <3> QED
      BY <1>1, <3>1
  <2>4. CASE FinishCheck
    <3>1. /\ check'.source = {} /\ agedRows' = agedRows
          /\ reported' \subseteq reported \cup check.source
      BY <2>4 DEF FinishCheck, Idle, source
    <3> QED
      BY <1>g, <3>1 DEF InsertedOnly
  <2> QED
    BY <1>4, <2>1, <2>2, <2>3, <2>4 DEF Checker
<1> QED
  BY <1>2, <1>3, <1>4 DEF Next

FeedInv == TypeInv /\ DeliveryInv /\ InsertedOnly

\* What the readers of the index and of a report can see.
LEMMA UnseenStep ==
  ASSUME UNCHANGED <<progress, stream, committed, skipped, docs, report>> PROVE UNCHANGED Feed!vars
BY DEF Feed!vars, Placed

LEMMA GeneratorFeeds == ASSUME FeedInv, Generator PROVE [Feed!Next]_Feed!vars
<1>1. PICK o \in Orders : Insert(o) \/ Publish(o) \/ Record(o)
  BY DEF Generator
<1>2. CASE Insert(o)
  <2>1. o \notin Placed /\ Placed' = Placed \cup {o}
    BY <1>2 DEF Insert, Placed, FeedInv, TypeInv, TypeOK
  <2>2. Feed!Place(o)
    BY <1>2, <2>1 DEF Insert, Feed!Place, indexer, index
  <2> QED
    BY <2>2 DEF Feed!Next
<1>3. CASE Publish(o)
  <2>1. o \in Placed /\ Placed' = Placed
    BY <1>3 DEF Publish, Placed, FeedInv, TypeInv, TypeOK
  <2>2. Feed!Send(o)
    BY <1>3, <2>1 DEF Publish, Feed!Send, indexer, index
  <2> QED
    BY <2>2 DEF Feed!Next
<1>4. CASE Record(o)
  <2>1. Placed' = Placed
    BY <1>4 DEF Record, Placed, FeedInv, TypeInv, TypeOK
  <2> QED
    BY <1>4, <2>1 DEF Record, Feed!vars, indexer, index
<1> QED
  BY <1>1, <1>2, <1>3, <1>4

LEMMA IndexerFeeds == ASSUME FeedInv, Indexer PROVE [Feed!Next]_Feed!vars
<1>p. UNCHANGED progress => Placed' = Placed
  BY DEF Placed
<1>1. CASE IndexOrder
  <2>1. committed < Len(stream) /\ docs' = docs \cup {stream[committed + 1]}
    BY <1>1 DEF IndexOrder, HasMessage, Message
  <2>2. Feed!Deliver
    BY <1>1, <1>p, <2>1 DEF IndexOrder, Feed!Deliver, source
  <2> QED
    BY <2>2 DEF Feed!Next
<1>2. CASE Commit
  <2>1. committed < Len(stream) /\ stream[committed + 1] \in docs
    BY <1>2 DEF Commit, FeedInv, TypeInv, WrittenIsInStream, DeliveryInv, PassedDelivered, Message
  <2>2. Feed!Advance
    BY <1>2, <1>p, <2>1 DEF Commit, Feed!Advance, source, index
  <2> QED
    BY <2>2 DEF Feed!Next
<1>3. CASE SkipPaid
  <2>1. SkipEvery > 0 /\ committed < Len(stream) /\ stream[committed + 1] \in Paid
    BY <1>3 DEF SkipPaid, SkipsMessage, HasMessage, Message
  <2>2. Feed!PassOver
    BY <1>3, <1>p, <2>1 DEF SkipPaid, Feed!PassOver, source, index
  <2> QED
    BY <2>2 DEF Feed!Next
<1>4. CASE RestartIndexer \/ Refresh
  BY <1>4, UnseenStep DEF RestartIndexer, Refresh, source, index, indexer
<1> QED
  BY <1>1, <1>2, <1>3, <1>4 DEF Indexer

LEMMA CheckerFeeds ==
  ASSUME FeedInv, FeedInv', Checker PROVE [Feed!Next]_Feed!vars
<1>1. UNCHANGED <<progress, offset, stream, committed, skipped, docs>>
  BY DEF Checker, StartCheck, ReadSource, ReadTarget, ReadOutbox, FinishCheck, AbandonCheck,
         source, indexer, index
<1>2. Placed' = Placed
  BY <1>1 DEF Placed
<1>3. report'.settled \subseteq Orders
  BY DEF FeedInv, TypeInv, TypeOK, Reports, NoReport
<1>4. ASSUME NEW o \in report'.settled PROVE o \in Placed /\ Feed!Settled(o)
  <2>1. progress[o] = "recorded" /\ (o \in docs \/ offset[o] \in skipped)
    BY <1>1, <1>4 DEF FeedInv, DeliveryInv, Vouched
  <2>2. stream[offset[o] + 1] = o
    BY <1>3, <2>1 DEF FeedInv, DeliveryInv, RowsPoint
  <2> QED
    BY <1>3, <2>1, <2>2 DEF Placed, Feed!Settled
<1>5. Feed!Vouch
  BY <1>1, <1>2, <1>4 DEF Feed!Vouch
<1> QED
  BY <1>5 DEF Feed!Next

LEMMA StepFeeds == FeedInv /\ FeedInv' /\ [Next]_vars => [Feed!Next]_Feed!vars
<1> SUFFICES ASSUME FeedInv, FeedInv', [Next]_vars PROVE [Feed!Next]_Feed!vars
  OBVIOUS
<1>1. CASE Time
  BY <1>1, UnseenStep DEF Time, AgeRow, AgeEvent, indexer, index
<1>2. CASE Repair
  <2>1. PICK o \in Orders : Reindex(o)
    BY <1>2 DEF Repair
  <2>2. o \in Placed /\ Placed' = Placed
    BY <2>1 DEF Reindex, FeedInv, InsertedOnly, Placed, source
  <2>3. Feed!Restore(o)
    BY <2>1, <2>2 DEF Reindex, Feed!Restore, indexer
  <2> QED
    BY <2>3 DEF Feed!Next
<1>3. CASE UNCHANGED vars
  BY <1>3, UnseenStep DEF vars, source, indexer, index
<1> QED
  BY <1>1, <1>2, <1>3, GeneratorFeeds, IndexerFeeds, CheckerFeeds DEF Next

LEMMA InitFeeds == Init => InsertedOnly /\ Feed!Init
BY DEF Init, InsertedOnly, Idle, NoReport, Placed, Feed!Init

(***************************************************************************)
(* ImplementsOrderFeed: a message is left behind only once its order is in *)
(* the index or skipped on purpose, and what a frontier vouches for is     *)
(* settled when it is published, for any orders, retries and restarts.     *)
(***************************************************************************)
THEOREM PipelineImplementsFeed == Spec => ImplementsOrderFeed
<1>1. TypeInv /\ InsertedOnly /\ [Next]_vars => InsertedOnly'
  BY InsertedStep
<1>2. TypeInv /\ DeliveryInv /\ InsertedOnly => FeedInv
  BY DEF FeedInv
<1> QED
  BY <1>1, <1>2, InitFeeds, StepFeeds, TypeInvariant, DeliveryInvariant, PTL
     DEF Spec, ImplementsOrderFeed, Feed!Spec
=============================================================================
