----------------------------- MODULE OrderFeed -----------------------------
(***************************************************************************)
(* What the order pipeline promises to whoever reads the index and the     *)
(* frontier of a report, with no producer, restart, refresh, offset        *)
(* evidence or check in sight.  Orders are placed and their events put     *)
(* into a log; the log is read in order, and nothing is left behind but    *)
(* what is in the index or was passed over on purpose; the index shows     *)
(* placed orders only and loses none; a report vouches for settled orders  *)
(* only.  OrderPipeline implements this specification.                     *)
(***************************************************************************)
EXTENDS Naturals, Sequences

CONSTANTS Orders, Paid, SkipEvery

VARIABLES
  placed,     \* orders in the source
  log,        \* their events, some of them twice
  next,       \* how far the log has been read
  passed,     \* positions of the log passed over on purpose
  shown,      \* orders in the index
  vouched     \* orders the report on display vouches for

vars == <<placed, log, next, passed, shown, vouched>>

Init ==
  /\ placed = {} /\ log = <<>> /\ next = 0
  /\ passed = {} /\ shown = {} /\ vouched = {}

Place(o) ==
  /\ o \notin placed
  /\ placed' = placed \cup {o}
  /\ UNCHANGED <<log, next, passed, shown, vouched>>

Send(o) ==
  /\ o \in placed
  /\ log' = Append(log, o)
  /\ UNCHANGED <<placed, next, passed, shown, vouched>>

\* The next event is applied, for the first time or again.
Deliver ==
  /\ next < Len(log)
  /\ shown' = shown \cup {log[next + 1]}
  /\ UNCHANGED <<placed, log, next, passed, vouched>>

\* Only what is in the index is left behind ...
Advance ==
  /\ next < Len(log)
  /\ log[next + 1] \in shown
  /\ next' = next + 1
  /\ UNCHANGED <<placed, log, passed, shown, vouched>>

\* ... or what an indexer told to skip paid orders skips.
PassOver ==
  /\ SkipEvery > 0
  /\ next < Len(log)
  /\ log[next + 1] \in Paid
  /\ next' = next + 1
  /\ passed' = passed \cup {next}
  /\ UNCHANGED <<placed, log, shown, vouched>>

\* A repair puts an order of the source into the index.
Restore(o) ==
  /\ o \in placed
  /\ shown' = shown \cup {o}
  /\ UNCHANGED <<placed, log, next, passed, vouched>>

Settled(o) == o \in shown \/ \E k \in passed : log[k + 1] = o

\* A report takes the place of another; one that is not bounded vouches for none.
Vouch ==
  /\ vouched' \subseteq placed
  /\ \A o \in vouched' : Settled(o)
  /\ UNCHANGED <<placed, log, next, passed, shown>>

Next ==
  \/ \E o \in Orders : Place(o) \/ Send(o) \/ Restore(o)
  \/ Deliver \/ Advance \/ PassOver \/ Vouch

Spec == Init /\ [][Next]_vars
=============================================================================
