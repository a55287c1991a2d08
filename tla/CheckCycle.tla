----------------------------- MODULE CheckCycle -----------------------------
(***************************************************************************)
(* What the operator promises to whoever reads Invariant.status, with no   *)
(* Job, cache, work queue, clock or crash in sight.  There is a current    *)
(* run; work on it is begun, publishes verdicts, and the status shows, of  *)
(* some run that has been current, a published verdict, the failure of     *)
(* begun work, or a note that work is in progress.                         *)
(* InvariantOperator implements this specification.                        *)
(***************************************************************************)
EXTENDS Naturals

CONSTANTS MaxGeneration, MaxSlot

Runs == [gen : 1 .. MaxGeneration, slot : 0 .. MaxSlot]
Kinds == {"check", "repair"}
Work(kind, run) == [kind |-> kind, gen |-> run.gen, slot |-> run.slot]

Verdicts(kind) ==
  IF kind = "check" THEN {"Healthy", "DriftDetected", "Unknown", "CheckFailed"}
                    ELSE {"Healthy", "RepairFailed"}
ReportOf(kind) == IF kind = "check" THEN "checkReport" ELSE "repairReport"
FailureOf(kind) == IF kind = "check" THEN "CheckFailed" ELSE "RepairFailed"
ProgressOf(kind) == IF kind = "check" THEN "Unknown" ELSE "Repairing"
Settled == {"Healthy", "DriftDetected"}

VARIABLES
  current,    \* the run the Invariant's spec and the clock ask for
  begun,      \* work started on a run: a checker or a repair
  published,  \* verdicts that work has published: <<work, phase>>
  shown       \* Invariant.status

vars == <<current, begun, published, shown>>

Later(r, s) == r.gen > s.gen \/ (r.gen = s.gen /\ r.slot > s.slot)
SameRun(r, s) == r.gen = s.gen /\ r.slot = s.slot

Init ==
  /\ current = [gen |-> 1, slot |-> 0]
  /\ begun = {}
  /\ published = {}
  /\ shown = [phase |-> "None", why |-> "none", gen |-> 0, slot |-> 0]

\* A spec edit or the next interval.
MoveOn ==
  /\ \E run \in Runs : Later(run, current) /\ current' = run
  /\ UNCHANGED <<begun, published, shown>>

BeginCheck ==
  /\ begun' = begun \cup {Work("check", current)}
  /\ UNCHANGED <<current, published, shown>>

\* A repair begins only after the check of the same run has reported drift.
BeginRepair ==
  /\ <<Work("check", current), "DriftDetected">> \in published
  /\ begun' = begun \cup {Work("repair", current)}
  /\ UNCHANGED <<current, published, shown>>

PublishVerdict(kind, run, phase) ==
  /\ Work(kind, run) \in begun
  /\ phase \in Verdicts(kind)
  /\ published' = published \cup {<<Work(kind, run), phase>>}
  /\ UNCHANGED <<current, begun, shown>>

\* The status goes back to no earlier run, runs ahead of no current run, and
\* keeps the verdict of a repair against everything else about its run.
Show(run, phase, why) ==
  /\ ~ Later(shown, run)
  /\ ~ Later(run, current)
  /\ SameRun(shown, run) /\ shown.why = "repairReport" => why = "repairReport"
  /\ shown' = [phase |-> phase, why |-> why, gen |-> run.gen, slot |-> run.slot]
  /\ UNCHANGED <<current, begun, published>>

ShowVerdict(kind, run) ==
  \E phase \in Verdicts(kind) :
    /\ <<Work(kind, run), phase>> \in published
    /\ Show(run, phase, ReportOf(kind))

ShowFailure(kind, run) ==
  /\ Work(kind, run) \in begun
  /\ \E why \in {"jobFailed", "timedOut", "noReport"} :
       Show(run, FailureOf(kind), why)

\* A check that has only begun leaves the last settled verdict in place.
ShowProgress(kind, run) ==
  /\ Work(kind, run) \in begun
  /\ kind = "check" => shown.phase \notin Settled
  /\ Show(run, ProgressOf(kind), "running")

Next ==
  \/ MoveOn
  \/ BeginCheck
  \/ BeginRepair
  \/ \E kind \in Kinds : \E run \in Runs :
       \/ \E phase \in Verdicts(kind) : PublishVerdict(kind, run, phase)
       \/ ShowVerdict(kind, run)
       \/ ShowFailure(kind, run)
       \/ ShowProgress(kind, run)

Spec == Init /\ [][Next]_vars
=============================================================================
