------------------------ MODULE OperatorInputsProofs ------------------------
(***************************************************************************)
(* Theorems about what the operator is given: RepairPolicySelection and    *)
(* WatchFanout, for any number of policies, actions, objects and edits.    *)
(***************************************************************************)
EXTENDS RepairPolicySelection, WatchFanout, SequenceTheorems,
        WellFoundedInduction, TLAPS

-----------------------------------------------------------------------------
(* The loops of the selection return the first index that passes a test.   *)

LEMMA AtMost == \A x, y, z \in Nat : x <= y /\ y <= z => x <= z
OBVIOUS

LEMMA LeastIs ==
  ASSUME NEW I \in SUBSET Nat, I # {}
  PROVE  Min(I) \in I /\ \A i \in I : Min(I) <= i
<1>1. PICK m \in I : \A i \in I : ~ (<<i, m>> \in OpToRel(<, Nat))
  BY NatLessThanWellFounded, WFMin
<1>2. \A i \in I : m <= i
  <2> SUFFICES ASSUME NEW i \in I, i < m PROVE FALSE
    OBVIOUS
  <2>1. <<i, m>> \in Nat \X Nat /\ <<i, m>>[1] = i /\ <<i, m>>[2] = m
    OBVIOUS
  <2>2. <<i, m>> \in OpToRel(<, Nat)
    BY <2>1 DEF OpToRel
  <2> QED
    BY <1>1, <2>2
<1> QED
  BY <1>1, <1>2 DEF Min

LEMMA FirstIndex ==
  ASSUME NEW n \in Nat, NEW I \in SUBSET (1..n), NEW f, f = IF I # {} THEN Min(I) ELSE 0
  PROVE  /\ f = 0 <=> I = {}
         /\ f # 0 => f \in I /\ \A i \in I : f <= i
<1>1. I \in SUBSET Nat
  OBVIOUS
<1>2. CASE I = {}
  BY <1>2
<1>3. CASE I # {}
  <2>1. f \in I /\ \A i \in I : f <= i
    BY <1>1, <1>3, LeastIs
  <2>2. f # 0
    BY <2>1
  <2> QED
    BY <1>3, <2>1, <2>2
<1> QED
  BY <1>2, <1>3

LEMMA ActionsAre ==
  ASSUME NEW p \in Policies
  PROVE  /\ p.actions \in Seq(Types) /\ Len(p.actions) \in 0..MaxActions
         /\ DOMAIN p.actions = 1..Len(p.actions)
         /\ \A a \in 1..Len(p.actions) : p.actions[a] \in Types
<1>1. PICK m \in 0..MaxActions : p.actions \in [1..m -> Types]
  BY DEF Policies, SeqOf
<1>2. m \in Nat /\ DOMAIN p.actions = 1..m
  BY <1>1, SelectionAssumption
<1>3. p.actions \in Seq(Types)
  BY <1>1, <1>2
<1>4. Len(p.actions) = m
  BY <1>2, <1>3, LenProperties
<1> QED
  BY <1>1, <1>2, <1>3, <1>4

\* ModeOf(., p) says what is allowed once the approval is not required.
LEMMA ModeIs ==
  ASSUME NEW p \in Policies, NEW a \in 1..Len(p.actions)
  PROVE  LET t == p.actions[a] IN
         /\ ModeOf(t, p) # "" <=> t \in Dispatched \/ (t = "reindex-records" /\ p.unsafe)
         /\ ModeOf(t, p) # "" =>
              ModeOf(t, p) = IF t = "reindex-records" THEN "direct-reindex" ELSE t
         /\ ModeOf(t, p) \in Dispatched \union {"", "direct-reindex"}
BY ActionsAre DEF ModeOf, Dispatched, Types

\* repairPolicyAutoRepairMode and repairPolicyEnv agree on the action.
LEMMA ModeAndSettings ==
  ASSUME NEW p \in Policies
  PROVE  /\ AutoRepairMode(p) \in Dispatched \union {"", "direct-reindex"}
         /\ AutoRepairMode(p) # "" <=>
              ~ p.approval /\ \E a \in 1..Len(p.actions) : ModeOf(p.actions[a], p) # ""
         /\ AutoRepairMode(p) # "" =>
              LET a == SettingsFor(p, AutoRepairMode(p)) IN
              /\ a \in 1..Len(p.actions) /\ a \in 0..MaxActions
              /\ AutoRepairMode(p) = ModeOf(p.actions[a], p)
              /\ \A k \in 1..Len(p.actions) : ModeOf(p.actions[k], p) # "" => a <= k
<1> DEFINE I == {i \in 1..Len(p.actions) : ModeOf(p.actions[i], p) # ""}
           f == FirstWithMode(p)
           mode == AutoRepairMode(p)
           J == {i \in 1..Len(p.actions) : ModeOf(p.actions[i], p) = mode}
<1>1. Len(p.actions) \in 0..MaxActions /\ Len(p.actions) \in Nat
  BY ActionsAre, SelectionAssumption
<1>2. f = IF I # {} THEN Min(I) ELSE 0
  BY DEF FirstWithMode, SelectInSeq
<1>3. /\ f = 0 <=> I = {}
      /\ f # 0 => f \in I /\ \A i \in I : f <= i
  <2>1. I \in SUBSET (1..Len(p.actions))
    OBVIOUS
  <2> HIDE DEF I, f
  <2> QED
    BY <1>1, <1>2, <2>1, FirstIndex
<1>4. mode = IF p.approval \/ f = 0 THEN "" ELSE ModeOf(p.actions[f], p)
  BY DEF AutoRepairMode
<1>5. mode \in Dispatched \union {"", "direct-reindex"}
  <2> HIDE DEF f
  <2> QED
    BY <1>3, <1>4, ModeIs
<1>6. mode # "" <=> ~ p.approval /\ I # {}
  BY <1>3, <1>4
<1>7. SettingsFor(p, mode) = IF J # {} THEN Min(J) ELSE 0
  BY DEF SettingsFor, SelectInSeq
<1>8. mode # "" => f \in J /\ J \subseteq I
  BY <1>3, <1>4
<1>9. mode # "" => SettingsFor(p, mode) \in J /\ \A i \in J : SettingsFor(p, mode) <= i
  <2>1. J \in SUBSET (1..Len(p.actions))
    OBVIOUS
  <2> HIDE DEF I, J, f, mode
  <2> QED
    BY <1>1, <1>7, <1>8, <2>1, FirstIndex
<1>12. I # {} <=> \E a \in 1..Len(p.actions) : ModeOf(p.actions[a], p) # ""
  OBVIOUS
<1>13. /\ I \subseteq 1..Len(p.actions) /\ J \subseteq 1..Len(p.actions)
       /\ \A a \in J : ModeOf(p.actions[a], p) = mode
       /\ \A k \in 1..Len(p.actions) : ModeOf(p.actions[k], p) # "" => k \in I
  OBVIOUS
<1>14. \A k \in 1..Len(p.actions) : k \in 0..MaxActions /\ k \in Nat
  BY <1>1, SelectionAssumption
<1> DEFINE a == SettingsFor(p, mode)
<1> HIDE DEF I, J, f, mode, a
<1>10. mode # "" => \A k \in I : a <= k
  <2> SUFFICES ASSUME mode # "", NEW k \in I PROVE a <= k
    OBVIOUS
  <2>1. f \in J /\ f \in Nat /\ f <= k /\ k \in Nat
    BY <1>3, <1>8, <1>13, <1>14
  <2>2. a <= f /\ a \in Nat
    BY <1>9, <1>13, <1>14, <2>1 DEF a
  <2> QED
    BY <2>1, <2>2, AtMost
<1>11. mode # "" => a \in 1..Len(p.actions) /\ a \in 0..MaxActions /\ mode = ModeOf(p.actions[a], p)
  BY <1>9, <1>13, <1>14 DEF a
<1> QED
  BY <1>5, <1>6, <1>10, <1>11, <1>12, <1>13 DEF mode, a

LEMMA PolicySelected ==
  ASSUME policies \in Seq(Policies)
  PROVE  /\ SelectedPolicy = 0 <=>
              \A i \in 1..Len(policies) :
                 ~ (policies[i].mine /\ AutoRepairMode(policies[i]) # "")
         /\ SelectedPolicy # 0 =>
              /\ SelectedPolicy \in 1..Len(policies)
              /\ policies[SelectedPolicy].mine
              /\ AutoRepairMode(policies[SelectedPolicy]) # ""
              /\ \A i \in 1..Len(policies) :
                    policies[i].mine /\ AutoRepairMode(policies[i]) # ""
                       => SelectedPolicy <= i
<1> DEFINE I == {i \in 1..Len(policies) :
                   policies[i].mine /\ AutoRepairMode(policies[i]) # ""}
<1>1. SelectedPolicy = IF I # {} THEN Min(I) ELSE 0
  BY DEF SelectedPolicy, SelectInSeq
<1>2. Len(policies) \in Nat /\ I \in SUBSET (1..Len(policies))
  BY LenProperties
<1>3. /\ SelectedPolicy = 0 <=> I = {}
      /\ SelectedPolicy # 0 => SelectedPolicy \in I /\ \A i \in I : SelectedPolicy <= i
  <2> HIDE DEF I
  <2> QED
    BY <1>1, <1>2, FirstIndex
<1> QED
  BY <1>3

\* A repair Job has the mode and the settings that the policies give it.
RepairFits ==
    \/ repair = NoRepair
    \/ /\ SelectedPolicy # 0
       /\ repair = [mode     |-> AutoRepairMode(policies[SelectedPolicy]),
                    settings |-> SettingsFor(policies[SelectedPolicy],
                                             AutoRepairMode(policies[SelectedPolicy]))]

SelectionInv == policies \in Seq(Policies) /\ Len(policies) <= MaxPolicies /\ RepairFits

LEMMA InitSelection == SelectionInit => SelectionInv
<1> SUFFICES ASSUME SelectionInit PROVE SelectionInv
  OBVIOUS
<1>1. PICK m \in 0..MaxPolicies : policies \in [1..m -> Policies]
  BY DEF SelectionInit, SeqOf
<1>2. m \in Nat /\ DOMAIN policies = 1..m /\ m <= MaxPolicies
  BY <1>1, SelectionAssumption
<1>3. policies \in Seq(Policies)
  BY <1>1, <1>2
<1>4. Len(policies) = m
  BY <1>2, <1>3, LenProperties
<1> QED
  BY <1>2, <1>3, <1>4 DEF SelectionInit, SelectionInv, RepairFits

LEMMA StepSelection == SelectionInv /\ [SelectionNext]_selectionVars => SelectionInv'
<1> SUFFICES ASSUME SelectionInv, [SelectionNext]_selectionVars PROVE SelectionInv'
  OBVIOUS
<1>b. policies' = policies
  BY DEF SelectionNext, CreateRepair, RemoveRepair, selectionVars
<1>a. SelectedPolicy' = SelectedPolicy /\ policies' = policies
  BY <1>b DEF SelectedPolicy, SelectInSeq
<1>1. CASE CreateRepair
  BY <1>1, <1>a DEF CreateRepair, SelectionInv, RepairFits
<1>2. CASE RemoveRepair
  BY <1>2, <1>a DEF RemoveRepair, SelectionInv, RepairFits
<1>3. CASE UNCHANGED selectionVars
  BY <1>3, <1>a DEF selectionVars, SelectionInv, RepairFits
<1> QED
  BY <1>1, <1>2, <1>3 DEF SelectionNext

LEMMA SelectionInvHolds == SelectionSpec => []SelectionInv
BY InitSelection, StepSelection, PTL DEF SelectionSpec

\* The policies are those of the namespace, and a repair has one of the modes.
\* (job_handoff.go: findAutoRepairPolicy, repairPolicyEnv)
THEOREM SelectionTyped == SelectionSpec => []SelectionTypeOK
<1>1. SelectionInv => SelectionTypeOK
  <2> SUFFICES ASSUME SelectionInv PROVE SelectionTypeOK
    OBVIOUS
  <2> DEFINE p == policies[SelectedPolicy]
  <2>1. CASE repair = NoRepair
    <3>1. 0 \in 0..MaxActions
      BY SelectionAssumption
    <3> QED
      BY <2>1, <3>1 DEF SelectionInv, SelectionTypeOK, NoRepair
  <2>2. CASE repair # NoRepair
    <3>1. /\ SelectedPolicy # 0
          /\ repair = [mode |-> AutoRepairMode(p), settings |-> SettingsFor(p, AutoRepairMode(p))]
      BY <2>2 DEF SelectionInv, RepairFits
    <3>2. policies \in Seq(Policies)
      BY DEF SelectionInv
    <3>3. SelectedPolicy \in 1..Len(policies) /\ AutoRepairMode(p) # ""
      BY <3>1, <3>2, PolicySelected
    <3>4. p \in Policies
      BY <3>2, <3>3, ElementOfSeq
    <3>5. /\ AutoRepairMode(p) \in Dispatched \union {"", "direct-reindex"}
          /\ SettingsFor(p, AutoRepairMode(p)) \in 0..MaxActions
      BY <3>3, <3>4, ModeAndSettings
    <3> QED
      BY <3>1, <3>5 DEF SelectionInv, SelectionTypeOK
  <2> QED
    BY <2>1, <2>2
<1> QED
  BY <1>1, SelectionInvHolds, PTL

\* Allows asks of an action what ModeOf says.
LEMMA AllowsIs ==
  ASSUME NEW p \in Policies, NEW a \in 1..Len(p.actions)
  PROVE  Allows(p, a) <=> p.mine /\ ~ p.approval /\ ModeOf(p.actions[a], p) # ""
BY ModeIs DEF Allows

\* However many policies and actions there are, a repair is the first one that is
\* allowed, with its mode and its settings, and there is a repair if one is allowed.
\* (job_handoff.go: findAutoRepairPolicy, repairPolicyAutoRepairMode,
\* repairPolicyEnv, repairModeForAction)
THEOREM RepairIsAllowed == SelectionSpec => []RepairIsFirstAllowedAction
<1>1. SelectionInv => RepairIsFirstAllowedAction
  <2> SUFFICES ASSUME SelectionInv PROVE RepairIsFirstAllowedAction
    OBVIOUS
  <2> DEFINE allowed == {x \in (DOMAIN policies) \X (1..MaxActions) :
                            /\ x[2] \in DOMAIN policies[x[1]].actions
                            /\ Allows(policies[x[1]], x[2])}
             s == SelectedPolicy
             p == policies[s]
             a == SettingsFor(p, AutoRepairMode(p))
  <2>1. policies \in Seq(Policies) /\ DOMAIN policies = 1..Len(policies)
        /\ Len(policies) \in Nat
    BY LenProperties DEF SelectionInv
  <2>2. \A i \in 1..Len(policies) : policies[i] \in Policies
    BY <2>1, ElementOfSeq
  <2>3. \A x \in allowed : /\ x[1] \in 1..Len(policies)
                           /\ x[2] \in 1..Len(policies[x[1]].actions)
                           /\ policies[x[1]].mine /\ ~ policies[x[1]].approval
                           /\ ModeOf(policies[x[1]].actions[x[2]], policies[x[1]]) # ""
    BY <2>1, <2>2, ActionsAre, AllowsIs
  <2>4. \A x \in allowed : policies[x[1]].mine /\ AutoRepairMode(policies[x[1]]) # ""
    BY <2>2, <2>3, ModeAndSettings
  <2>5. s # 0 => /\ s \in 1..Len(policies) /\ p \in Policies /\ p.mine
                 /\ AutoRepairMode(p) # "" /\ ~ p.approval
                 /\ a \in 1..Len(p.actions) /\ AutoRepairMode(p) = ModeOf(p.actions[a], p)
    BY <2>1, <2>2, PolicySelected, ModeAndSettings
  <2>6. s # 0 => <<s, a>> \in allowed
    <3> SUFFICES ASSUME s # 0 PROVE <<s, a>> \in allowed
      OBVIOUS
    <3>1. a \in 1..MaxActions /\ a \in DOMAIN p.actions
      <4>1. Len(p.actions) \in 0..MaxActions /\ DOMAIN p.actions = 1..Len(p.actions)
        BY <2>5, ActionsAre
      <4>2. \A n \in 0..MaxActions : 1..n \subseteq 1..MaxActions
        BY SelectionAssumption
      <4> HIDE DEF a, p
      <4> QED
        BY <2>5, <4>1, <4>2
    <3>2. Allows(p, a)
      BY <2>5, AllowsIs
    <3> HIDE DEF a, s
    <3> QED
      BY <2>1, <2>5, <3>1, <3>2 DEF p
  <2>7. s # 0 <=> allowed # {}
    <3>1. allowed # {} => s # 0
      <4> HIDE DEF allowed
      <4> QED
        BY <2>1, <2>3, <2>4, PolicySelected
    <3> QED
      BY <2>6, <3>1
  <2>8. ASSUME s # 0, NEW y \in allowed
        PROVE  s < y[1] \/ (s = y[1] /\ a <= y[2])
    <3>1. s <= y[1] /\ s \in Nat /\ y[1] \in Nat
      <4>1. y[1] \in 1..Len(policies) /\ policies[y[1]].mine /\ AutoRepairMode(policies[y[1]]) # ""
        BY <2>3, <2>4, <2>8
      <4> HIDE DEF allowed
      <4>2. s <= y[1]
        BY <2>1, <2>8, <4>1, PolicySelected
      <4>3. s \in 1..Len(policies)
        BY <2>5, <2>8
      <4>4. \A n \in 1..Len(policies) : n \in Nat
        BY <2>1
      <4> HIDE DEF s
      <4> QED
        BY <4>1, <4>2, <4>3, <4>4
    <3>2. s = y[1] => a <= y[2]
      BY <2>3, <2>5, <2>8, ModeAndSettings
    <3> QED
      BY <3>1, <3>2
  <2>9. repair # NoRepair =>
          \E x \in allowed :
             /\ repair.settings = x[2]
             /\ repair.mode = IF policies[x[1]].actions[x[2]] = "reindex-records"
                              THEN "direct-reindex" ELSE policies[x[1]].actions[x[2]]
             /\ \A y \in allowed : x[1] < y[1] \/ (x[1] = y[1] /\ x[2] <= y[2])
    <3> SUFFICES ASSUME repair # NoRepair
                 PROVE  LET x == <<s, a>> IN
                        /\ x \in allowed
                        /\ repair.settings = x[2]
                        /\ repair.mode = IF policies[x[1]].actions[x[2]] = "reindex-records"
                                         THEN "direct-reindex" ELSE policies[x[1]].actions[x[2]]
                        /\ \A y \in allowed : x[1] < y[1] \/ (x[1] = y[1] /\ x[2] <= y[2])
      OBVIOUS
    <3>1. s # 0 /\ repair.mode = AutoRepairMode(p) /\ repair.settings = a
      BY DEF SelectionInv, RepairFits
    <3>2. AutoRepairMode(p) = IF p.actions[a] = "reindex-records"
                              THEN "direct-reindex" ELSE p.actions[a]
      BY <2>5, <3>1, ModeIs
    <3> HIDE DEF allowed, s, a
    <3> QED
      BY <2>6, <2>8, <3>1, <3>2 DEF p
  <2> QED
    BY <2>7, <2>9 DEF RepairIsFirstAllowedAction
<1> QED
  BY <1>1, SelectionInvHolds, PTL

-----------------------------------------------------------------------------
(* The Invariant is in the queue, or an event, a handler or the reconcile  *)
(* under way will make up for what has changed, or nothing has.            *)

Named(kind) == CASE kind = "Invariant"   -> Invariants
                 [] kind = "DerivedView" -> DerivedViews
                 [] kind = "DataSource"  -> DataSources
                 [] kind = "Secret"      -> Secrets

IsEvent(e) == /\ e.kind \in Kinds \union {"Invariant"}
              /\ e = [kind |-> e.kind, name |-> e.name] /\ e.name \in Named(e.kind)

IsHandler(h) == /\ h = [step |-> h.step, name |-> h.name, sources |-> h.sources, views |-> h.views]
                /\ h.step \in {"idle", "sources", "views", "invariants"}
                /\ h.sources \subseteq DataSources /\ h.views \subseteq DerivedViews

FanoutTyped ==
    /\ viewRef \in [Invariants -> DerivedViews]
    /\ views \in [DerivedViews -> Specs]
    /\ secretOf \in [DataSources -> Secrets \union {None}]
    /\ edits \in 0..MaxEdits
    /\ version \in [Secrets -> 0..edits]
    /\ \A e \in events : IsEvent(e)
    /\ handlers = [kind \in Kinds |-> handlers[kind]]
    /\ \A kind \in Kinds : IsHandler(handlers[kind])
    /\ requests \subseteq Invariants
    /\ worker.step \in {"idle", "view", "source"}
    /\ worker = [step |-> worker.step, invariant |-> worker.invariant,
                 ref |-> worker.ref, view |-> worker.view]
    /\ known = [i \in Invariants |-> known[i]]
    /\ dropped \in BOOLEAN

\* The Secrets behind the environment of i.
SecretsOf(i) ==
    {SecretIn(views[viewRef[i]].source), views[viewRef[i]].target, views[viewRef[i]].pipeline}
       \ {None}

\* A change of the object changes what the Jobs of i are given.
Concerns(kind, name, i) ==
    \/ kind = "Invariant" /\ name = i
    \/ kind = "DerivedView" /\ name = viewRef[i]
    \/ kind = "DataSource" /\ name = views[viewRef[i]].source
    \/ kind = "Secret" /\ name \in SecretsOf(i)

\* The handler of the kind will find i.
WillFind(kind, i) ==
    \/ kind = "Secret" /\ handlers[kind].step = "sources" /\ handlers[kind].name \in SecretsOf(i)
    \/ handlers[kind].step = "views" /\ viewRef[i] \in Matching(handlers[kind], kind = "Secret")
    \/ handlers[kind].step = "invariants" /\ viewRef[i] \in handlers[kind].views

Covered(i) == \/ i \in requests
              \/ \E e \in events : Concerns(e.kind, e.name, i)
              \/ \E kind \in Kinds : WillFind(kind, i)

\* The reconcile of i is under way and has read what is still so.
Current(i) == /\ worker.step \in {"view", "source"}
              /\ worker.invariant = i /\ worker.ref = viewRef[i]
              /\ worker.step = "source" => worker.view = views[viewRef[i]]

UpToDate(i) == (worker.step = "idle" \/ worker.invariant # i) /\ known[i] = EnvironmentOf(i)

FanoutInv ==
    /\ FanoutTyped
    /\ dropped \/ \A i \in Invariants : Covered(i) \/ Current(i) \/ UpToDate(i)

LEMMA InitFanout == FanoutInit => FanoutInv
<1> SUFFICES ASSUME FanoutInit PROVE FanoutInv
  OBVIOUS
<1>1. IsHandler(NoEvent)
  BY DEF IsHandler, NoEvent
<1>2. 0 \in 0..MaxEdits /\ version \in [Secrets -> 0..0] /\ edits = 0
  BY FanoutAssumption DEF FanoutInit
<1>3. handlers = [kind \in Kinds |-> NoEvent] /\ known = [i \in Invariants |-> None]
  BY DEF FanoutInit
<1>4. FanoutTyped
  BY <1>1, <1>2, <1>3 DEF FanoutInit, FanoutTyped, NoWork
<1> QED
  BY <1>4 DEF FanoutInv, FanoutInit, Covered

\* The environment of i, and what concerns it, depend on its DerivedView, its
\* DataSource and the Secrets behind it only.
LEMMA EnvironmentKept ==
  ASSUME NEW i \in Invariants, FanoutTyped, FanoutTyped',
         viewRef'[i] = viewRef[i], views'[viewRef[i]] = views[viewRef[i]],
         SecretIn(views[viewRef[i]].source)' = SecretIn(views[viewRef[i]].source)
  PROVE  /\ SecretsOf(i)' = SecretsOf(i)
         /\ \A kind, name : Concerns(kind, name, i) => Concerns(kind, name, i)'
         /\ \A kind \in Kinds : handlers'[kind] = handlers[kind] /\ WillFind(kind, i)
                                   => WillFind(kind, i)'
         /\ worker' = worker /\ Current(i) => Current(i)'
         /\ (\A s \in SecretsOf(i) : version'[s] = version[s])
               => EnvironmentOf(i)' = EnvironmentOf(i)
<1> DEFINE view == views[viewRef[i]]
<1>1. views'[viewRef'[i]] = view /\ SecretIn(views[viewRef[i]].source)' = SecretIn(view.source)
  OBVIOUS
<1>2. SecretsOf(i)' = SecretsOf(i)
  BY <1>1 DEF SecretsOf
<1>3. \A kind, name : Concerns(kind, name, i) => Concerns(kind, name, i)'
  BY <1>1, <1>2 DEF Concerns
<1>4. viewRef[i] \in DerivedViews
  BY DEF FanoutTyped
<1>5. ASSUME NEW kind \in Kinds, handlers'[kind] = handlers[kind], WillFind(kind, i)
      PROVE  WillFind(kind, i)'
  <2>1. viewRef[i] \in Matching(handlers[kind], kind = "Secret")
           => viewRef'[i] \in Matching(handlers[kind], kind = "Secret")'
    BY <1>1, <1>4, <1>5 DEF Matching
  <2> QED
    BY <1>1, <1>2, <1>5, <2>1 DEF WillFind
<1>6. worker' = worker /\ Current(i) => Current(i)'
  BY <1>1 DEF Current
<1>7. ASSUME \A s \in SecretsOf(i) : version'[s] = version[s]
      PROVE  EnvironmentOf(i)' = EnvironmentOf(i)
  <2>1. {<<s, version'[s]>> : s \in SecretsOf(i)} = {<<s, version[s]>> : s \in SecretsOf(i)}
    BY <1>7
  <2>2. EnvironmentOf(i) = [view |-> view, secret |-> SecretIn(view.source),
                            contents |-> {<<s, version[s]>> : s \in SecretsOf(i)}]
    BY DEF EnvironmentOf, Environment, SecretsOf
  <2>3. EnvironmentOf(i)' = [view |-> view, secret |-> SecretIn(view.source),
                             contents |-> {<<s, version'[s]>> : s \in SecretsOf(i)}]
    BY <1>1 DEF EnvironmentOf, Environment, SecretsOf
  <2> QED
    BY <2>1, <2>2, <2>3
<1> QED
  BY <1>2, <1>3, <1>5, <1>6, <1>7

\* What users change is covered by its event, for every Invariant that it concerns.
LEMMA EditIsCovered ==
  ASSUME FanoutInv, FanoutTyped', NEW kind, NEW name, Edit(kind, name),
         \A i \in Invariants :
            \/ Concerns(kind, name, i)'
            \/ /\ viewRef'[i] = viewRef[i] /\ views'[viewRef[i]] = views[viewRef[i]]
               /\ SecretIn(views[viewRef[i]].source)' = SecretIn(views[viewRef[i]].source)
               /\ \A s \in SecretsOf(i) : version'[s] = version[s]
  PROVE  FanoutInv'
<1> DEFINE new == [kind |-> kind, name |-> name]
<1>1. events' = events \union {new} /\ UNCHANGED <<handlers, requests, worker, known, dropped>>
  BY DEF Edit
<1>2. ASSUME NEW i \in Invariants, ~ dropped, Concerns(kind, name, i)'
      PROVE  Covered(i)'
  <2>1. new \in events' /\ new.kind = kind /\ new.name = name
    BY <1>1
  <2> QED
    BY <1>2, <2>1 DEF Covered
<1>3. ASSUME NEW i \in Invariants, ~ dropped,
             viewRef'[i] = viewRef[i], views'[viewRef[i]] = views[viewRef[i]],
             SecretIn(views[viewRef[i]].source)' = SecretIn(views[viewRef[i]].source),
             \A s \in SecretsOf(i) : version'[s] = version[s]
      PROVE  Covered(i)' \/ Current(i)' \/ UpToDate(i)'
  <2>1. /\ \A k, n : Concerns(k, n, i) => Concerns(k, n, i)'
        /\ \A k \in Kinds : WillFind(k, i) => WillFind(k, i)'
        /\ Current(i) => Current(i)'
        /\ EnvironmentOf(i)' = EnvironmentOf(i)
    BY <1>1, <1>3, EnvironmentKept DEF FanoutInv
  <2>2. Covered(i) => Covered(i)'
    BY <1>1, <2>1 DEF Covered
  <2>3. UpToDate(i) => UpToDate(i)'
    BY <1>1, <2>1 DEF UpToDate
  <2> QED
    BY <1>3, <2>1, <2>2, <2>3 DEF FanoutInv
<1> QED
  BY <1>1, <1>2, <1>3 DEF FanoutInv

\* A step of the map functions or of the reconcile loses nothing that is covered.
LEMMA QueueingStep ==
  ASSUME FanoutInv, FanoutTyped', UNCHANGED world,
         dropped' \/ /\ ~ dropped
                     /\ \A i \in Invariants :
                           /\ Covered(i) => Covered(i)' \/ Current(i)'
                           /\ Current(i) => Current(i)' \/ UpToDate(i)'
                           /\ UpToDate(i) => UpToDate(i)' \/ Covered(i)' \/ Current(i)'
  PROVE  FanoutInv'
BY DEF FanoutInv

LEMMA EditsType ==
  ASSUME FanoutTyped, NEW kind \in Kinds \union {"Invariant"}, NEW name \in Named(kind),
         Edit(kind, name),
         viewRef' \in [Invariants -> DerivedViews], views' \in [DerivedViews -> Specs],
         secretOf' \in [DataSources -> Secrets \union {None}],
         version' \in [Secrets -> 0..edits']
  PROVE  FanoutTyped'
<1>1. edits' \in 0..MaxEdits
  BY FanoutAssumption DEF Edit, FanoutTyped
<1>2. IsEvent([kind |-> kind, name |-> name])
  BY DEF IsEvent
<1>3. \A e \in events' : IsEvent(e)
  BY <1>2 DEF Edit, FanoutTyped
<1> QED
  BY <1>1, <1>3 DEF Edit, FanoutTyped

LEMMA EditInvariantStep ==
  ASSUME FanoutInv, NEW j \in Invariants, NEW v \in DerivedViews, EditInvariant(j, v)
  PROVE  FanoutInv'
<1>1. viewRef' = [viewRef EXCEPT ![j] = v] /\ Edit("Invariant", j)
      /\ UNCHANGED <<views, secretOf, version>>
  BY DEF EditInvariant
<1>a. FanoutTyped /\ edits' = edits + 1 /\ edits \in Nat
  BY FanoutAssumption, <1>1 DEF FanoutInv, Edit, FanoutTyped
<1>2. j \in Named("Invariant")
  BY DEF Named
<1>3. version' \in [Secrets -> 0..edits']
  BY <1>1, <1>a DEF FanoutTyped
<1>4. viewRef' \in [Invariants -> DerivedViews] /\ \A i \in Invariants \ {j} : viewRef'[i] = viewRef[i]
  BY <1>1, <1>a DEF FanoutTyped
<1>5. FanoutTyped'
  BY <1>1, <1>a, <1>2, <1>3, <1>4, EditsType DEF FanoutTyped
<1>6. \A i \in Invariants : i = j => Concerns("Invariant", j, i)'
  BY DEF Concerns
<1>7. \A i \in Invariants \ {j} :
        SecretIn(views[viewRef[i]].source)' = SecretIn(views[viewRef[i]].source)
  BY <1>1, <1>4 DEF SecretIn
<1> QED
  BY <1>1, <1>4, <1>5, <1>6, <1>7, EditIsCovered

LEMMA EditDerivedViewStep ==
  ASSUME FanoutInv, NEW v \in DerivedViews, NEW spec \in Specs, EditDerivedView(v, spec)
  PROVE  FanoutInv'
<1>1. views' = [views EXCEPT ![v] = spec] /\ Edit("DerivedView", v)
      /\ UNCHANGED <<viewRef, secretOf, version>>
  BY DEF EditDerivedView
<1>a. FanoutTyped /\ edits' = edits + 1 /\ edits \in Nat
  BY FanoutAssumption, <1>1 DEF FanoutInv, Edit, FanoutTyped
<1>2. v \in Named("DerivedView") /\ "DerivedView" \in Kinds
  BY DEF Named, Kinds
<1>3. version' \in [Secrets -> 0..edits']
  BY <1>1, <1>a DEF FanoutTyped
<1>4. views' \in [DerivedViews -> Specs] /\ \A w \in DerivedViews \ {v} : views'[w] = views[w]
  BY <1>1, <1>a DEF FanoutTyped
<1>5. FanoutTyped'
  BY <1>1, <1>a, <1>2, <1>3, <1>4, EditsType DEF FanoutTyped
<1>6. \A i \in Invariants : viewRef[i] = v => Concerns("DerivedView", v, i)'
  BY <1>1 DEF Concerns
<1>7. \A i \in Invariants : viewRef[i] # v =>
        /\ views'[viewRef[i]] = views[viewRef[i]]
        /\ SecretIn(views[viewRef[i]].source)' = SecretIn(views[viewRef[i]].source)
  BY <1>1, <1>a, <1>4 DEF SecretIn, FanoutTyped
<1> QED
  BY <1>1, <1>5, <1>6, <1>7, EditIsCovered

LEMMA EditDataSourceStep ==
  ASSUME FanoutInv, NEW d \in DataSources, NEW secret \in Secrets \union {None},
         EditDataSource(d, secret)
  PROVE  FanoutInv'
<1>1. secretOf' = [secretOf EXCEPT ![d] = secret] /\ Edit("DataSource", d)
      /\ UNCHANGED <<viewRef, views, version>>
  BY DEF EditDataSource
<1>a. FanoutTyped /\ edits' = edits + 1 /\ edits \in Nat
  BY FanoutAssumption, <1>1 DEF FanoutInv, Edit, FanoutTyped
<1>2. d \in Named("DataSource") /\ "DataSource" \in Kinds
  BY DEF Named, Kinds
<1>3. version' \in [Secrets -> 0..edits']
  BY <1>1, <1>a DEF FanoutTyped
<1>4. /\ secretOf' \in [DataSources -> Secrets \union {None}]
      /\ \A x \in DataSources \ {d} : secretOf'[x] = secretOf[x]
  BY <1>1, <1>a DEF FanoutTyped
<1>5. FanoutTyped'
  BY <1>1, <1>a, <1>2, <1>3, <1>4, EditsType DEF FanoutTyped
<1>6. \A i \in Invariants : views[viewRef[i]].source = d => Concerns("DataSource", d, i)'
  BY <1>1 DEF Concerns
<1>7. \A i \in Invariants : views[viewRef[i]].source \in DataSources \union {None}
  BY <1>a DEF FanoutTyped, Specs
<1>8. \A i \in Invariants : views[viewRef[i]].source # d =>
        SecretIn(views[viewRef[i]].source)' = SecretIn(views[viewRef[i]].source)
  BY <1>1, <1>4, <1>7 DEF SecretIn
<1> QED
  BY <1>1, <1>5, <1>6, <1>8, EditIsCovered

LEMMA RotateSecretStep ==
  ASSUME FanoutInv, NEW s \in Secrets, RotateSecret(s)
  PROVE  FanoutInv'
<1>1. version' = [version EXCEPT ![s] = @ + 1] /\ Edit("Secret", s)
      /\ UNCHANGED <<viewRef, views, secretOf>>
  BY DEF RotateSecret
<1>a. FanoutTyped /\ edits' = edits + 1 /\ edits \in Nat /\ version \in [Secrets -> 0..edits]
  BY FanoutAssumption, <1>1 DEF FanoutInv, Edit, FanoutTyped
<1>2. s \in Named("Secret") /\ "Secret" \in Kinds
  BY DEF Named, Kinds
<1>3. version' \in [Secrets -> 0..edits'] /\ \A x \in Secrets \ {s} : version'[x] = version[x]
  BY <1>1, <1>a
<1>5. FanoutTyped'
  BY <1>1, <1>a, <1>2, <1>3, EditsType DEF FanoutTyped
<1>6. \A i \in Invariants : /\ SecretsOf(i)' = SecretsOf(i)
                            /\ s \in SecretsOf(i) => Concerns("Secret", s, i)'
  BY <1>1 DEF Concerns, SecretsOf, SecretIn
<1>7. \A i \in Invariants : SecretsOf(i) \subseteq Secrets
  <2> SUFFICES ASSUME NEW i \in Invariants PROVE SecretsOf(i) \subseteq Secrets
    OBVIOUS
  <2> DEFINE view == views[viewRef[i]]
  <2>1. view \in Specs
    BY <1>a DEF FanoutTyped
  <2>2. SecretIn(view.source) \in Secrets \union {None}
    BY <1>a, <2>1 DEF SecretIn, Specs, FanoutTyped
  <2> QED
    BY <2>1, <2>2 DEF SecretsOf, Specs
<1>8. \A i \in Invariants :
        SecretIn(views[viewRef[i]].source)' = SecretIn(views[viewRef[i]].source)
  BY <1>1 DEF SecretIn
<1> QED
  BY <1>1, <1>3, <1>5, <1>6, <1>7, <1>8, EditIsCovered

LEMMA WorldKept ==
  ASSUME FanoutTyped, FanoutTyped', UNCHANGED world, NEW i \in Invariants
  PROVE  /\ viewRef'[i] = viewRef[i] /\ viewRef[i] \in DerivedViews
         /\ \A kind, name : Concerns(kind, name, i) => Concerns(kind, name, i)'
         /\ \A kind \in Kinds : handlers'[kind] = handlers[kind] /\ WillFind(kind, i)
                                   => WillFind(kind, i)'
         /\ worker' = worker /\ Current(i) => Current(i)'
         /\ EnvironmentOf(i)' = EnvironmentOf(i)
<1>1. /\ viewRef' = viewRef /\ views' = views /\ secretOf' = secretOf /\ version' = version
  BY DEF world
<1>2. SecretIn(views[viewRef[i]].source)' = SecretIn(views[viewRef[i]].source)
  BY <1>1 DEF SecretIn
<1>3. viewRef[i] \in DerivedViews
  BY DEF FanoutTyped
<1> QED
  BY <1>1, <1>2, <1>3, EnvironmentKept

LEMMA HandlerUpdate ==
  ASSUME FanoutTyped, NEW kind \in Kinds, NEW h, IsHandler(h),
         handlers' = [handlers EXCEPT ![kind] = h]
  PROVE  /\ handlers' = [k \in Kinds |-> handlers'[k]]
         /\ \A k \in Kinds : IsHandler(handlers'[k])
         /\ handlers'[kind] = h
         /\ \A k \in Kinds \ {kind} : handlers'[k] = handlers[k]
BY DEF FanoutTyped

\* The handler of a kind goes on, and the reconcile is where it was.
LEMMA HandlerStep ==
  ASSUME FanoutInv, NEW kind \in Kinds, NEW h, IsHandler(h),
         handlers' = [handlers EXCEPT ![kind] = h],
         UNCHANGED <<world, worker, known>>, dropped' = dropped,
         requests' \subseteq Invariants, requests \subseteq requests',
         \A e \in events' : e \in events,
         \A i \in Invariants :
            /\ \A e \in events \ events' :
                  Concerns(e.kind, e.name, i) => i \in requests' \/ WillFind(kind, i)'
            /\ WillFind(kind, i) => i \in requests' \/ WillFind(kind, i)'
  PROVE  FanoutInv'
<1>1. FanoutTyped /\ FanoutTyped'
  <2>1. FanoutTyped
    BY DEF FanoutInv
  <2>2. /\ handlers' = [k \in Kinds |-> handlers'[k]]
        /\ \A k \in Kinds : IsHandler(handlers'[k])
    BY <2>1, HandlerUpdate
  <2> QED
    BY <2>1, <2>2 DEF FanoutTyped, world
<1>2. \A k \in Kinds \ {kind} : handlers'[k] = handlers[k]
  BY <1>1, HandlerUpdate
<1>3. ASSUME NEW i \in Invariants
      PROVE  /\ Covered(i) => Covered(i)'
             /\ Current(i) => Current(i)'
             /\ UpToDate(i) => UpToDate(i)'
  <2>1. /\ \A k, name : Concerns(k, name, i) => Concerns(k, name, i)'
        /\ \A k \in Kinds \ {kind} : WillFind(k, i) => WillFind(k, i)'
        /\ Current(i) => Current(i)'
        /\ EnvironmentOf(i)' = EnvironmentOf(i)
    BY <1>1, <1>2, WorldKept
  <2>2. ASSUME i \in requests PROVE Covered(i)'
    BY <2>2 DEF Covered
  <2>3. ASSUME NEW e \in events, Concerns(e.kind, e.name, i) PROVE Covered(i)'
    BY <2>1, <2>3 DEF Covered
  <2>4. ASSUME NEW k \in Kinds, WillFind(k, i) PROVE Covered(i)'
    BY <2>1, <2>4 DEF Covered
  <2>5. Covered(i) => Covered(i)'
    BY <2>2, <2>3, <2>4 DEF Covered
  <2>6. UpToDate(i) => UpToDate(i)'
    BY <2>1 DEF UpToDate
  <2> QED
    BY <2>1, <2>5, <2>6
<1> QED
  BY <1>1, <1>3, QueueingStep

LEMMA QueueInvariantStep ==
  ASSUME FanoutInv, NEW j \in Invariants, QueueInvariant(j)
  PROVE  FanoutInv'
<1>1. /\ events' = events \ {[kind |-> "Invariant", name |-> j]}
      /\ requests' = requests \union {j}
      /\ UNCHANGED <<world, handlers, worker, known, dropped>>
  BY DEF QueueInvariant
<1>2. FanoutTyped /\ FanoutTyped'
  BY <1>1 DEF FanoutInv, FanoutTyped, world
<1>3. ASSUME NEW i \in Invariants
      PROVE  /\ Covered(i) => Covered(i)'
             /\ Current(i) => Current(i)'
             /\ UpToDate(i) => UpToDate(i)'
  <2>1. /\ \A k, name : Concerns(k, name, i) => Concerns(k, name, i)'
        /\ \A k \in Kinds : WillFind(k, i) => WillFind(k, i)'
        /\ Current(i) => Current(i)'
        /\ EnvironmentOf(i)' = EnvironmentOf(i)
    BY <1>1, <1>2, WorldKept
  <2>2. ASSUME NEW e \in events \ events', Concerns(e.kind, e.name, i) PROVE i \in requests'
    <3>1. e.kind = "Invariant" /\ e.name = j
      BY <1>1
    <3> QED
      BY <1>1, <2>2, <3>1 DEF Concerns
  <2>3. Covered(i) => Covered(i)'
    BY <1>1, <2>1, <2>2 DEF Covered
  <2> QED
    BY <1>1, <2>1, <2>3 DEF UpToDate
<1> QED
  BY <1>1, <1>2, <1>3, QueueingStep

LEMMA TakeEventStep ==
  ASSUME FanoutInv, NEW kind \in Kinds, TakeEvent(kind)
  PROVE  FanoutInv'
<1>1. PICK e \in events :
        /\ e.kind = kind
        /\ events' = events \ {e}
        /\ handlers' = [handlers EXCEPT ![kind] =
              [step    |-> FirstStep(kind), name |-> e.name,
               sources |-> IF kind = "DataSource"  THEN {e.name} ELSE {},
               views   |-> IF kind = "DerivedView" THEN {e.name} ELSE {}]]
  BY DEF TakeEvent
<1> DEFINE h == [step    |-> FirstStep(kind), name |-> e.name,
                 sources |-> IF kind = "DataSource"  THEN {e.name} ELSE {},
                 views   |-> IF kind = "DerivedView" THEN {e.name} ELSE {}]
<1>a. FanoutTyped
  BY DEF FanoutInv
<1>2. e.name \in Named(kind) /\ kind \in {"DataSource", "DerivedView", "Secret"}
  BY <1>1, <1>a DEF FanoutTyped, IsEvent, Kinds
<1>3. /\ kind = "DataSource"  => h.step = "views" /\ h.sources = {e.name} /\ h.views = {}
      /\ kind = "DerivedView" => h.step = "invariants" /\ h.sources = {} /\ h.views = {e.name}
      /\ kind = "Secret"      => h.step = "sources" /\ h.sources = {} /\ h.views = {}
      /\ h.name = e.name
  BY DEF FirstStep
<1>4. IsHandler(h)
  <2>1. h = [step |-> h.step, name |-> h.name, sources |-> h.sources, views |-> h.views]
    OBVIOUS
  <2> HIDE DEF h
  <2> QED
    BY <1>2, <1>3, <2>1 DEF IsHandler, Named
<1>5. handlers' = [handlers EXCEPT ![kind] = h]
  BY <1>1
<1> HIDE DEF h
<1>6. handlers'[kind] = h
  BY <1>a, <1>4, <1>5, HandlerUpdate
<1>7. UNCHANGED <<world, requests, worker, known, dropped>> /\ handlers[kind].step = "idle"
  BY DEF TakeEvent
<1>8. ASSUME NEW i \in Invariants, Concerns(kind, e.name, i) PROVE WillFind(kind, i)'
  <2>a. viewRef[i] \in DerivedViews /\ viewRef'[i] = viewRef[i] /\ views' = views
        /\ secretOf' = secretOf /\ viewRef' = viewRef
    BY <1>7, <1>a DEF FanoutTyped, world
  <2>1. CASE kind = "DataSource"
    <3>1. views[viewRef[i]].source = e.name
      BY <1>8, <2>1 DEF Concerns
    <3>2. viewRef'[i] \in Matching(h, FALSE)'
      BY <1>3, <2>1, <2>a, <3>1 DEF Matching
    <3> QED
      BY <1>3, <1>6, <2>1, <3>2 DEF WillFind
  <2>2. CASE kind = "DerivedView"
    BY <1>3, <1>6, <1>8, <2>2, <2>a DEF WillFind, Concerns
  <2>3. CASE kind = "Secret"
    <3>1. SecretsOf(i)' = SecretsOf(i)
      BY <2>a DEF SecretsOf, SecretIn
    <3>2. e.name \in SecretsOf(i)
      BY <1>8, <2>3 DEF Concerns
    <3> QED
      BY <1>3, <1>6, <2>3, <3>1, <3>2 DEF WillFind
  <2> QED
    BY <1>2, <2>1, <2>2, <2>3
<1>9. \A i \in Invariants : ~ WillFind(kind, i)
  BY <1>7 DEF WillFind
<1>10. requests \subseteq Invariants
  BY <1>a DEF FanoutTyped
<1> QED
  BY <1>1, <1>4, <1>5, <1>7, <1>8, <1>9, <1>10, HandlerStep

LEMMA ListDataSourcesStep ==
  ASSUME FanoutInv, ListDataSources
  PROVE  FanoutInv'
<1> DEFINE g == handlers["Secret"]
           found == {d \in DataSources : secretOf[d] = g.name}
           h == [step |-> "views", name |-> g.name, sources |-> found, views |-> g.views]
<1>0. /\ handlers' = [handlers EXCEPT !["Secret"].step = "views", !["Secret"].sources = found]
      /\ FanoutTyped
  BY DEF ListDataSources, FanoutInv
<1>1. /\ handlers' = [handlers EXCEPT !["Secret"] = h] /\ g.step = "sources"
      /\ UNCHANGED <<world, events, requests, worker, known, dropped>>
  <2>1. IsHandler(g) /\ handlers = [kind \in Kinds |-> handlers[kind]] /\ "Secret" \in Kinds
    BY <1>0 DEF FanoutTyped, Kinds
  <2> DEFINE g0 == [g EXCEPT !.step = "views"]
  <2>2. g0 = [step |-> "views", name |-> g.name, sources |-> g.sources, views |-> g.views]
    BY <2>1 DEF IsHandler
  <2>3. [g0 EXCEPT !.sources = found] = h
    <3> HIDE DEF g0
    <3> QED
      BY <2>2
  <2>4. handlers' = [handlers EXCEPT !["Secret"] = [g0 EXCEPT !.sources = found]]
    BY <1>0, <2>1
  <2> HIDE DEF g0, h
  <2> QED
    BY <2>3, <2>4 DEF ListDataSources
<1>a. FanoutTyped /\ "Secret" \in Kinds /\ IsHandler(g) /\ requests \subseteq Invariants
  BY DEF FanoutInv, FanoutTyped, Kinds
<1>2. h = [step |-> "views", name |-> g.name, sources |-> found, views |-> g.views]
  OBVIOUS
<1>3. IsHandler(h)
  BY <1>a DEF IsHandler
<1> HIDE DEF h
<1>4. handlers'["Secret"] = h
  BY <1>1, <1>3, <1>a, HandlerUpdate
<1>5. ASSUME NEW i \in Invariants, WillFind("Secret", i) PROVE WillFind("Secret", i)'
  <2> DEFINE view == views[viewRef[i]]
  <2>1. /\ viewRef[i] \in DerivedViews /\ view.source \in DataSources \union {None}
        /\ viewRef' = viewRef /\ views' = views
    BY <1>1, <1>a DEF FanoutTyped, world, Specs
  <2>2. g.name \in SecretsOf(i)
    BY <1>1, <1>5 DEF WillFind
  <2>3. view.source \in found \/ g.name \in {view.target, view.pipeline}
    BY <2>1, <2>2 DEF SecretsOf, SecretIn
  <2>4. viewRef'[i] \in Matching(handlers["Secret"], "Secret" = "Secret")'
    BY <1>2, <1>4, <2>1, <2>3 DEF Matching
  <2> QED
    BY <1>2, <1>4, <2>4 DEF WillFind
<1> QED
  BY <1>1, <1>3, <1>5, <1>a, HandlerStep

LEMMA ListDerivedViewsStep ==
  ASSUME FanoutInv, NEW kind \in Kinds, ListDerivedViews(kind)
  PROVE  FanoutInv'
<1> DEFINE g == handlers[kind]
           found == Matching(g, kind = "Secret")
           h == IF found = {} THEN NoEvent
                ELSE [g EXCEPT !.step = "invariants", !.views = found]
<1>1. /\ handlers' = [handlers EXCEPT ![kind] = h] /\ g.step = "views"
      /\ UNCHANGED <<world, events, requests, worker, known, dropped>>
  BY DEF ListDerivedViews
<1>a. FanoutTyped /\ IsHandler(g) /\ requests \subseteq Invariants
  BY DEF FanoutInv, FanoutTyped
<1>2. found # {} =>
        h = [step |-> "invariants", name |-> g.name, sources |-> g.sources, views |-> found]
  BY <1>a DEF IsHandler
<1>3. found \subseteq DerivedViews
  BY DEF Matching
<1>4. IsHandler(h)
  <2>1. IsHandler(NoEvent)
    BY DEF IsHandler, NoEvent
  <2> QED
    BY <1>a, <1>2, <1>3, <2>1 DEF IsHandler
<1> HIDE DEF h, found
<1>5. handlers'[kind] = h
  BY <1>1, <1>4, <1>a, HandlerUpdate
<1>6. ASSUME NEW i \in Invariants, WillFind(kind, i) PROVE WillFind(kind, i)'
  <2>1. viewRef[i] \in found /\ viewRef' = viewRef
    BY <1>1, <1>6 DEF WillFind, found, world
  <2>2. h.step = "invariants" /\ h.views = found
    BY <1>2, <2>1
  <2> QED
    BY <1>5, <2>1, <2>2 DEF WillFind
<1> QED
  BY <1>1, <1>4, <1>6, <1>a, HandlerStep

LEMMA ListInvariantsStep ==
  ASSUME FanoutInv, NEW kind \in Kinds, ListInvariants(kind)
  PROVE  FanoutInv'
<1>1. /\ handlers' = [handlers EXCEPT ![kind] = NoEvent] /\ handlers[kind].step = "invariants"
      /\ requests' = requests \union {i \in Invariants : viewRef[i] \in handlers[kind].views}
      /\ UNCHANGED <<world, events, worker, known, dropped>>
  BY DEF ListInvariants
<1>2. requests' \subseteq Invariants /\ IsHandler(NoEvent)
  BY <1>1 DEF FanoutInv, FanoutTyped, IsHandler, NoEvent
<1>3. \A i \in Invariants : WillFind(kind, i) => i \in requests'
  BY <1>1 DEF WillFind
<1> QED
  BY <1>1, <1>2, <1>3, HandlerStep

LEMMA ListFailsStep ==
  ASSUME FanoutInv, NEW kind \in Kinds, ListFails(kind)
  PROVE  FanoutInv'
<1>1. /\ handlers' = [handlers EXCEPT ![kind] = NoEvent] /\ dropped' = TRUE
      /\ UNCHANGED <<world, events, requests, worker, known>>
  BY DEF ListFails
<1>2. FanoutTyped /\ IsHandler(NoEvent)
  BY DEF FanoutInv, IsHandler, NoEvent
<1>3. /\ handlers' = [k \in Kinds |-> handlers'[k]]
      /\ \A k \in Kinds : IsHandler(handlers'[k])
  BY <1>1, <1>2, HandlerUpdate
<1> QED
  BY <1>1, <1>2, <1>3 DEF FanoutInv, FanoutTyped, world

\* A step of the reconcile leaves events and handlers alone.
LEMMA WorkerStep ==
  ASSUME FanoutInv, FanoutTyped', UNCHANGED <<world, events, handlers, dropped>>,
         \A i \in Invariants :
            /\ i \in requests => i \in requests' \/ Current(i)'
            /\ Current(i) => Current(i)' \/ UpToDate(i)'
            /\ UpToDate(i) => UpToDate(i)' \/ Current(i)'
  PROVE  FanoutInv'
<1>1. ASSUME NEW i \in Invariants, Covered(i) PROVE Covered(i)' \/ Current(i)'
  <2>1. /\ \A k, name : Concerns(k, name, i) => Concerns(k, name, i)'
        /\ \A k \in Kinds : WillFind(k, i) => WillFind(k, i)'
    BY WorldKept DEF FanoutInv
  <2> QED
    BY <1>1, <2>1 DEF Covered
<1> QED
  BY <1>1, QueueingStep DEF FanoutInv

LEMMA ReadInvariantStep ==
  ASSUME FanoutInv, NEW j \in Invariants, ReadInvariant(j)
  PROVE  FanoutInv'
<1>1. /\ worker.step = "idle" /\ requests' = requests \ {j}
      /\ worker' = [step |-> "view", invariant |-> j, ref |-> viewRef[j], view |-> NoSpec]
      /\ UNCHANGED <<world, events, handlers, known, dropped>>
  BY DEF ReadInvariant, NoWork
<1>2. FanoutTyped /\ FanoutTyped'
  BY <1>1 DEF FanoutInv, FanoutTyped, world
<1>3. ASSUME NEW i \in Invariants
      PROVE  /\ i \in requests => i \in requests' \/ Current(i)'
             /\ Current(i) => Current(i)' \/ UpToDate(i)'
             /\ UpToDate(i) => UpToDate(i)' \/ Current(i)'
  <2>1. viewRef'[i] = viewRef[i] /\ EnvironmentOf(i)' = EnvironmentOf(i)
    BY <1>1, <1>2, WorldKept
  <2>2. i = j => Current(i)'
    BY <1>1, <2>1 DEF Current
  <2>3. ~ Current(i)
    BY <1>1 DEF Current
  <2>4. i # j /\ UpToDate(i) => UpToDate(i)'
    BY <1>1, <2>1 DEF UpToDate
  <2> QED
    BY <1>1, <2>2, <2>3, <2>4
<1> QED
  BY <1>1, <1>2, <1>3, WorkerStep

LEMMA ReadDerivedViewStep ==
  ASSUME FanoutInv, ReadDerivedView
  PROVE  FanoutInv'
<1>1. /\ worker.step = "view"
      /\ worker' = [worker EXCEPT !.step = "source", !.view = views[worker.ref]]
      /\ UNCHANGED <<world, events, handlers, requests, known, dropped>>
  BY DEF ReadDerivedView
<1>2. FanoutTyped
  BY DEF FanoutInv
<1>3. worker' = [step |-> "source", invariant |-> worker.invariant,
                 ref |-> worker.ref, view |-> views[worker.ref]]
  BY <1>1, <1>2 DEF FanoutTyped
<1>4. FanoutTyped'
  BY <1>1, <1>2, <1>3 DEF FanoutTyped, world
<1>5. ASSUME NEW i \in Invariants
      PROVE  /\ Current(i) => Current(i)'
             /\ UpToDate(i) => UpToDate(i)'
  <2>1. viewRef' = viewRef /\ views' = views /\ EnvironmentOf(i)' = EnvironmentOf(i)
    BY <1>1, <1>2, <1>4, WorldKept DEF world
  <2>2. Current(i) => Current(i)'
    BY <1>1, <1>3, <2>1 DEF Current
  <2> QED
    BY <1>1, <1>3, <2>1, <2>2 DEF UpToDate
<1> QED
  BY <1>1, <1>4, <1>5, WorkerStep

LEMMA ReadDataSourceStep ==
  ASSUME FanoutInv, ReadDataSource
  PROVE  FanoutInv'
<1> DEFINE read == Environment(worker.view, SecretIn(worker.view.source))
<1>1. /\ worker.step = "source" /\ worker' = NoWork
      /\ known' = [known EXCEPT ![worker.invariant] = read]
      /\ UNCHANGED <<world, events, handlers, requests, dropped>>
  BY DEF ReadDataSource
<1>2. FanoutTyped
  BY DEF FanoutInv
<1>3. /\ known' = [i \in Invariants |-> known'[i]]
      /\ \A i \in Invariants : known'[i] = IF i = worker.invariant THEN read ELSE known[i]
  BY <1>1, <1>2 DEF FanoutTyped
<1>4. FanoutTyped'
  BY <1>1, <1>2, <1>3 DEF FanoutTyped, NoWork, world
<1>5. ASSUME NEW i \in Invariants
      PROVE  /\ Current(i) => UpToDate(i)'
             /\ UpToDate(i) => UpToDate(i)'
  <2>1. EnvironmentOf(i)' = EnvironmentOf(i)
    BY <1>1, <1>2, <1>4, WorldKept
  <2>2. Current(i) => known'[i] = EnvironmentOf(i)
    BY <1>1, <1>3 DEF Current, EnvironmentOf
  <2> QED
    BY <1>1, <1>3, <2>1, <2>2 DEF UpToDate, NoWork
<1> QED
  BY <1>1, <1>4, <1>5, WorkerStep

LEMMA RestartOperatorStep ==
  ASSUME FanoutInv, RestartOperator
  PROVE  FanoutInv'
<1>1. IsHandler(NoEvent)
  BY DEF IsHandler, NoEvent
<1>2. FanoutTyped'
  BY <1>1 DEF RestartOperator, FanoutInv, FanoutTyped, NoWork, world
<1>3. \A i \in Invariants : Covered(i)'
  BY DEF RestartOperator, Covered
<1> QED
  BY <1>2, <1>3 DEF FanoutInv

LEMMA StepFanout == FanoutInv /\ [FanoutNext]_fanoutVars => FanoutInv'
<1> SUFFICES ASSUME FanoutInv, [FanoutNext]_fanoutVars PROVE FanoutInv'
  OBVIOUS
<1>1. CASE UNCHANGED fanoutVars
  <2>1. FanoutTyped /\ FanoutTyped' /\ UNCHANGED <<world, events, handlers, worker, known, dropped>>
        /\ requests' = requests
    BY <1>1 DEF FanoutInv, FanoutTyped, fanoutVars, world
  <2>2. \A i \in Invariants : /\ EnvironmentOf(i)' = EnvironmentOf(i)
                              /\ Current(i) => Current(i)'
    BY <2>1, WorldKept
  <2> QED
    BY <2>1, <2>2, WorkerStep DEF UpToDate
<1> QED
  BY <1>1, EditInvariantStep, EditDerivedViewStep, EditDataSourceStep, RotateSecretStep,
     QueueInvariantStep, TakeEventStep, ListDataSourcesStep, ListDerivedViewsStep,
     ListInvariantsStep, ListFailsStep, ReadInvariantStep, ReadDerivedViewStep,
     ReadDataSourceStep, RestartOperatorStep DEF FanoutNext

LEMMA FanoutInvHolds == FanoutSpec => []FanoutInv
BY InitFanout, StepFanout, PTL DEF FanoutSpec

\* The fan-out is well typed.  (invariant_controller.go: SetupWithManager and the
\* map functions)
THEOREM FanoutIsTyped == FanoutSpec => []FanoutTypeOK
<1>1. FanoutInv => FanoutTypeOK
  <2> SUFFICES ASSUME FanoutInv PROVE FanoutTypeOK
    OBVIOUS
  <2>1. version \in [Secrets -> 0..MaxEdits]
    BY FanoutAssumption DEF FanoutInv, FanoutTyped
  <2> QED
    BY <2>1 DEF FanoutInv, FanoutTyped, FanoutTypeOK, IsEvent, IsHandler
<1> QED
  BY <1>1, FanoutInvHolds, PTL

\* However many objects and edits there are, and however the Lists and Gets of the
\* map functions and of the reconcile interleave with them: when everything is
\* mapped and worked off, every Invariant has met the topology as it is, unless a
\* List failed.  (invariant_controller.go: invariantsForDataSource,
\* invariantsForDerivedView, invariantsForSecret; job_handoff.go: resolveCheckerEnv)
THEOREM TopologyIsAlwaysKnown == FanoutSpec => []TopologyIsKnown
<1>1. FanoutInv => TopologyIsKnown
  <2> SUFFICES ASSUME FanoutInv, AllQuiet, ~ dropped, NEW i \in Invariants \ requests
               PROVE  known[i] = EnvironmentOf(i)
    BY DEF TopologyIsKnown
  <2>1. ~ Covered(i)
    BY DEF Covered, AllQuiet, WillFind
  <2>2. ~ Current(i)
    BY DEF Current, AllQuiet
  <2> QED
    BY <2>1, <2>2 DEF FanoutInv, UpToDate
<1> QED
  BY <1>1, FanoutInvHolds, PTL
=============================================================================
