----------------------- MODULE RepairPolicySelection -----------------------
(***************************************************************************)
(* Which repair a drifted Invariant gets.  The code goes over policies and *)
(* actions twice, with a list of action types each time: once for the      *)
(* policy and the mode (findAutoRepairPolicy), once for the settings       *)
(* (repairPolicyEnv: endpoint, topic, table ...).                          *)
(*                                                                         *)
(* The five action types that hand the repair to somebody else are alike:  *)
(* "webhook" and "replay" stand for them, "run-job" for a type without an  *)
(* automatic repair.  The settings are those of the action at a position.  *)
(***************************************************************************)
EXTENDS Integers, SequencesExt

CONSTANTS MaxPolicies,        \* bound: policies in the namespace
          MaxActions          \* bound: actions of a policy

ASSUME SelectionAssumption == MaxPolicies \in Nat /\ MaxActions \in Nat

VARIABLES policies,           \* as a List returns them, by name
          repair              \* the repair Job

selectionVars == <<policies, repair>>

Dispatched == {"webhook", "replay"}
Types == Dispatched \union {"reindex-records", "run-job"}
Policies == [mine     : BOOLEAN,    \* spec.invariantRef is this Invariant
             approval : BOOLEAN,    \* spec.approvalRequired
             unsafe   : BOOLEAN,    \* the annotation that allows direct-reindex
             actions  : SeqOf(Types, MaxActions)]

NoRepair == [mode |-> "", settings |-> 0]

SelectionTypeOK ==
    /\ policies \in Seq(Policies) /\ Len(policies) <= MaxPolicies
    /\ repair \in [mode : Dispatched \union {"", "direct-reindex"}, settings : 0..MaxActions]

SelectionInit == policies \in SeqOf(Policies, MaxPolicies) /\ repair = NoRepair

\* repairModeForAction, and the same switch in repairPolicyAutoRepairMode; "" is
\* no mode.
ModeOf(type, policy) ==
    IF type \in Dispatched THEN type
    ELSE IF type = "reindex-records" /\ policy.unsafe THEN "direct-reindex" ELSE ""

\* repairPolicyAutoRepairMode: that of the first action that has one; the second
\* version does not ask for the approval.
FirstWithMode(policy) == SelectInSeq(policy.actions, LAMBDA t : ModeOf(t, policy) # "")
BadAutoRepairMode(policy) ==
    IF FirstWithMode(policy) = 0 THEN ""
    ELSE ModeOf(policy.actions[FirstWithMode(policy)], policy)
AutoRepairMode(policy) ==
    IF policy.approval \/ FirstWithMode(policy) = 0 THEN ""
    ELSE ModeOf(policy.actions[FirstWithMode(policy)], policy)

\* findAutoRepairPolicy: the first policy of the Invariant that has a mode, or 0.
SelectedPolicy == SelectInSeq(policies, LAMBDA p : p.mine /\ AutoRepairMode(p) # "")

\* repairPolicyEnv: the first action of that mode.
SettingsFor(policy, mode) == SelectInSeq(policy.actions, LAMBDA t : ModeOf(t, policy) = mode)

\* reconcileRepairForDrift, when there is no repair Job.
CreateRepair ==
    /\ repair = NoRepair
    /\ SelectedPolicy # 0
    /\ LET policy == policies[SelectedPolicy]
           mode   == AutoRepairMode(policy)
       IN  repair' = [mode |-> mode, settings |-> SettingsFor(policy, mode)]
    /\ UNCHANGED policies

\* The Job is over, and the next drift meets the policies as they are.
RemoveRepair ==
    /\ repair # NoRepair
    /\ repair' = NoRepair
    /\ UNCHANGED policies

SelectionNext == CreateRepair \/ RemoveRepair

SelectionSpec == SelectionInit /\ [][SelectionNext]_selectionVars

-----------------------------------------------------------------------------
\* What a policy allows without anybody's approval.
Allows(policy, a) ==
    /\ policy.mine /\ ~policy.approval
    /\ \/ policy.actions[a] \in Dispatched
       \/ policy.actions[a] = "reindex-records" /\ policy.unsafe

\* A repair is one action that was allowed: its mode and its settings are those of
\* the first action, over all policies of the Invariant, that needs no approval
\* and, for a direct reindex, has the opt-in; an Invariant that has such an action
\* gets a repair, whatever other policies and actions come before it.
\* (job_handoff.go: findAutoRepairPolicy, repairPolicyAutoRepairMode,
\* repairPolicyEnv, repairModeForAction)
RepairIsFirstAllowedAction ==
    LET allowed == {x \in (DOMAIN policies) \X (1..MaxActions) :
                       /\ x[2] \in DOMAIN policies[x[1]].actions
                       /\ Allows(policies[x[1]], x[2])}
    IN  /\ SelectedPolicy # 0 <=> allowed # {}
        /\ repair # NoRepair =>
              \E x \in allowed :
                 /\ repair.settings = x[2]
                 /\ repair.mode = IF policies[x[1]].actions[x[2]] = "reindex-records"
                                  THEN "direct-reindex" ELSE policies[x[1]].actions[x[2]]
                 /\ \A y \in allowed : x[1] < y[1] \/ (x[1] = y[1] /\ x[2] <= y[2])
=============================================================================
