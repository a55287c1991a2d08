----------------------------- MODULE ScanPromise -----------------------------
(***************************************************************************)
(* What query checks promise to whoever reads the report and resumes from  *)
(* the checkpoint, with no page, resume key, reset, second checkpoint      *)
(* write or query edit in sight.  A check looks at the rows of the source  *)
(* for a while and then compares, at one moment, with the target; its      *)
(* report says Healthy only if no row that was there all that while was    *)
(* missing at that moment, and DriftDetected only if a row it or an        *)
(* earlier check looked at was.  The checkpoint claims only rows that were *)
(* looked at, and a repair writes only such rows, while they exist.        *)
(* ScanCheckpoint implements this specification.                           *)
(***************************************************************************)
EXTENDS Naturals

CONSTANTS Workers, Keys, Queries

VARIABLES
  source,     \* rows
  target,     \* documents
  stayed,     \* rows there from the start and never removed
  looked,     \* <<query, row>>: what checks have looked at
  claim,      \* the checkpoint: all rows up to last, looked at for a query
  standing,   \* of each check: idle, looking, or its verdict
  window,     \* of a check that is looking: rows there ever since it began
  shown       \* the verdict on display

vars == <<source, target, stayed, looked, claim, standing, window, shown>>
checks == <<looked, claim, standing, window, shown>>

Init ==
  /\ source \in SUBSET Keys
  /\ target \in SUBSET source
  /\ stayed = source
  /\ looked = {}
  /\ claim = [query |-> 0, last |-> 0]
  /\ standing = [w \in Workers |-> "idle"]
  /\ window = [w \in Workers |-> {}]
  /\ shown = "None"

LookedAt == {k \in Keys : \E q \in Queries : <<q, k>> \in looked}

Begin(w) ==
  /\ standing[w] = "idle"
  /\ standing' = [standing EXCEPT ![w] = "looking"]
  /\ window' = [window EXCEPT ![w] = source]
  /\ UNCHANGED <<source, target, stayed, looked, claim, shown>>

Look(w) ==
  /\ standing[w] = "looking"
  /\ looked \subseteq looked'
  /\ \E q \in Queries : looked' \ looked \subseteq {q} \X source
  /\ UNCHANGED <<source, target, stayed, claim, standing, window, shown>>

\* Any check may move the claim, forwards or back, within what was looked at.
Claim ==
  /\ claim' # claim
  /\ \A k \in stayed : k <= claim'.last => <<claim'.query, k>> \in looked
  /\ UNCHANGED <<source, target, stayed, looked, standing, window, shown>>

\* The moment of the verdict; a check that did not see everything leaves it open.
Decide(w) ==
  /\ standing[w] = "looking"
  /\ \E verdict \in {"clean", "drift", "open"} :
       /\ verdict = "clean" => window[w] \subseteq target
       /\ verdict = "drift" => ~ LookedAt \subseteq target
       /\ standing' = [standing EXCEPT ![w] = verdict]
  /\ window' = [window EXCEPT ![w] = {}]
  /\ UNCHANGED <<source, target, stayed, looked, claim, shown>>

Wording(verdict) ==
  CASE verdict = "clean" -> {"Healthy"}
    [] verdict = "drift" -> {"DriftDetected", "RepairFailed"}
    [] verdict = "open" -> {"Unknown", "RepairFailed"}

Show(w) ==
  /\ standing[w] \in {"clean", "drift", "open"}
  /\ shown' \in Wording(standing[w])
  /\ standing' = [standing EXCEPT ![w] = "idle"]
  /\ UNCHANGED <<source, target, stayed, looked, claim, window>>

\* A check that could not begin says so.
ShowFailure ==
  /\ shown' = "CheckFailed"
  /\ UNCHANGED <<source, target, stayed, looked, claim, standing, window>>

Abandon(w) ==
  /\ standing[w] # "idle"
  /\ standing' = [standing EXCEPT ![w] = "idle"]
  /\ window' = [window EXCEPT ![w] = {}]
  /\ UNCHANGED <<source, target, stayed, looked, claim, shown>>

Restore ==
  /\ target' # target
  /\ target \subseteq target'
  /\ target' \ target \subseteq source \cap LookedAt
  /\ UNCHANGED <<source, stayed, checks>>

\* The data has a life of its own.
Insert(k) ==
  /\ k \notin source
  /\ source' = source \cup {k}
  /\ UNCHANGED <<target, stayed, checks>>

Remove(k) ==
  /\ k \in source
  /\ source' = source \ {k}
  /\ stayed' = stayed \ {k}
  /\ window' = [w \in Workers |-> window[w] \ {k}]
  /\ UNCHANGED <<target, looked, claim, standing, shown>>

Index(k) ==
  /\ k \in source \ target
  /\ target' = target \cup {k}
  /\ UNCHANGED <<source, stayed, checks>>

Lose(k) ==
  /\ k \in target
  /\ target' = target \ {k}
  /\ UNCHANGED <<source, stayed, checks>>

Next ==
  \/ \E w \in Workers : Begin(w) \/ Look(w) \/ Decide(w) \/ Show(w) \/ Abandon(w)
  \/ Claim \/ ShowFailure \/ Restore
  \/ \E k \in Keys : Insert(k) \/ Remove(k) \/ Index(k) \/ Lose(k)

Spec == Init /\ [][Next]_vars
=============================================================================
