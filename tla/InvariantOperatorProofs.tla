----------------------- MODULE InvariantOperatorProofs -----------------------
(***************************************************************************)
(* Theorems about InvariantOperator for every value of its constants, among*)
(* them that it implements CheckCycle.                                     *)
(***************************************************************************)
EXTENDS InvariantOperator, TLAPS

LEMMA KeyType ==
  ASSUME NEW kind \in Kinds, NEW run \in Runs
  PROVE  Key(kind, run) \in Keys
BY DEF Key, Keys, Runs

\* currentCheckRun names a run of the current generation.
LEMMA CurrentRunType == TypeOK => CurrentRun \in Runs
BY BoundsAssumption DEF TypeOK, CurrentRun, Runs, Slots, Generations

LEMMA StatusType ==
  ASSUME NEW phase \in Phases, NEW why \in FromReport \cup FromJob, NEW run \in Runs
  PROVE  Status(phase, why, run) \in Statuses
BY BoundsAssumption DEF Status, Statuses, Runs, Slots, Generations

LEMMA VisibleType ==
  ASSUME NEW js \in [Keys -> JobStates]
  PROVE  Visible(js) \in [Keys -> JobStates]
BY DEF Visible, JobStates

LEMMA WakeType ==
  /\ NoWake \in WakeTimes
  /\ NoPlan \in Plans
  /\ \A a, b \in WakeTimes : Earlier(a, b) \in WakeTimes
  /\ \A run \in Runs : NextInterval(run) \in WakeTimes
  /\ TypeOK => Soon \in WakeTimes
BY BoundsAssumption
   DEF NoWake, WakeTimes, NoPlan, Plans, Statuses, NoStatus, Earlier, NextInterval,
       Soon, Runs, Slots, TypeOK

LEMMA InitType == Init => TypeOK
<1> SUFFICES ASSUME Init PROVE TypeOK
  OBVIOUS
<1>1. status \in Statuses
  BY BoundsAssumption DEF Init, Statuses, NoStatus, Slots
<1>2. clock \in Slots /\ generation \in Generations
  BY BoundsAssumption DEF Init, Slots, Generations
<1>3. jobs \in [Keys -> JobStates] /\ jobView \in [Keys -> JobStates]
  BY DEF Init, JobStates
<1>4. /\ reports \in [Keys -> CheckPhases \cup RepairPhases \cup {"none"}]
      /\ reportView \in [Keys -> CheckPhases \cup RepairPhases \cup {"none"}]
  BY DEF Init
<1>5. faults \in 0 .. MaxFaults /\ wake \in WakeTimes /\ plan \in Plans
  BY WakeType, BoundsAssumption DEF Init
<1>6. policy \in BOOLEAN /\ resolvable \in BOOLEAN /\ queued \in BOOLEAN /\ rotated \in BOOLEAN
  BY DEF Init
<1>7. earned \in SUBSET (Keys \X (CheckPhases \cup RepairPhases)) /\ started \in SUBSET Keys
  BY DEF Init
<1> QED
  BY <1>1, <1>2, <1>3, <1>4, <1>5, <1>6, <1>7 DEF TypeOK

\* The part of TypeOK that the reconciler's own steps can change.
OperatorType ==
  /\ status \in Statuses
  /\ jobs \in [Keys -> JobStates]
  /\ queued \in BOOLEAN
  /\ wake \in WakeTimes
  /\ plan \in Plans
  /\ started \in SUBSET Keys
  /\ rotated \in BOOLEAN

LEMMA ReturnType ==
  ASSUME TypeOK, NEW w \in WakeTimes, Return(w)
  PROVE  wake' \in WakeTimes /\ plan' \in Plans
BY WakeType DEF TypeOK, Return

LEMMA ThenPatchType ==
  ASSUME TypeOK, NEW s \in Statuses, NEW w \in WakeTimes, ThenPatch(s, w)
  PROVE  wake' \in WakeTimes /\ plan' \in Plans
BY DEF TypeOK, ThenPatch, Plans

LEMMA ApplyReportType ==
  ASSUME TypeOK, NEW kind \in Kinds, NEW run \in Runs,
         Found(kind, run), Take, ApplyReport(kind, run)
  PROVE  OperatorType'
<1> DEFINE s == ReportStatus(kind, run)
<1>1. reportView[Key(kind, run)] \in Phases
  BY KeyType DEF TypeOK, Found, Phases
<1>2. s \in Statuses
  BY <1>1, StatusType DEF ReportStatus, FromReport, FromJob
<1>3. wake' \in WakeTimes /\ plan' \in Plans
  <2>1. CASE ReportStatusAlreadyApplied(s)
    BY <2>1, ReturnType, WakeType DEF ApplyReport
  <2>2. CASE ~ ReportStatusAlreadyApplied(s)
    BY <2>2, <1>2, ThenPatchType, WakeType DEF ApplyReport
  <2> QED
    BY <2>1, <2>2
<1> QED
  BY <1>3 DEF ApplyReport, Take, TypeOK, OperatorType

LEMMA CreateJobType ==
  ASSUME TypeOK, NEW k \in Keys, CreateJob(k)
  PROVE  jobs' \in [Keys -> JobStates] /\ started' \in SUBSET Keys
BY DEF TypeOK, CreateJob, JobStates

LEMMA CheckRunningType ==
  ASSUME TypeOK, NEW run \in Runs, CheckRunning(run)
  PROVE  wake' \in WakeTimes /\ plan' \in Plans
<1>1. Status("Unknown", "running", run) \in Statuses
  BY StatusType DEF Phases, CheckPhases, FromJob
<1> QED
  BY <1>1, ReturnType, ThenPatchType, WakeType DEF CheckRunning

LEMMA ReconcileType ==
  ASSUME TypeOK, Reconcile
  PROVE  TypeOK'
<1>1. PICK run \in Runs :
        \/ ReconcileRepairReport(run)
        \/ ReconcileCheckReport(run)
        \/ CreateRepairJob(run)
        \/ ObserveRepairJob(run)
        \/ CreateCheckerJob(run)
        \/ ObserveCheckerJob(run)
  BY CurrentRunType DEF Reconcile
<1>2. \A why \in {"jobFailed", "timedOut", "noReport", "running"} :
        \A phase \in {"Repairing", "RepairFailed", "CheckFailed"} :
          Status(phase, why, run) \in Statuses
  BY StatusType DEF Phases, CheckPhases, RepairPhases, FromJob
<1>3. OperatorType'
  <2>1. CASE ReconcileRepairReport(run)
    BY <2>1, ApplyReportType DEF ReconcileRepairReport, Kinds
  <2>2. CASE ReconcileCheckReport(run)
    BY <2>2, ApplyReportType DEF ReconcileCheckReport, Kinds
  <2>3. CASE CreateRepairJob(run)
    <3>1. wake' \in WakeTimes /\ plan' \in Plans
      BY <2>3, <1>2, ThenPatchType, WakeType DEF CreateRepairJob
    <3>2. jobs' \in [Keys -> JobStates] /\ started' \in SUBSET Keys
      BY <2>3, CreateJobType, KeyType DEF CreateRepairJob, Kinds
    <3> QED
      BY <2>3, <3>1, <3>2 DEF CreateRepairJob, Take, TypeOK, OperatorType
  <2>4. CASE ObserveRepairJob(run)
    <3>1. wake' \in WakeTimes /\ plan' \in Plans
      <4> DEFINE seen == jobView[Key("repair", run)]
      <4>1. CASE seen = "failed"
        BY <4>1, <2>4, <1>2, ThenPatchType, WakeType DEF ObserveRepairJob
      <4>2. CASE seen = "timedOut"
        BY <4>2, <2>4, <1>2, ThenPatchType, WakeType DEF ObserveRepairJob
      <4>3. CASE seen = "complete"
        BY <4>3, <2>4, <1>2, ThenPatchType, WakeType DEF ObserveRepairJob
      <4>4. CASE seen \notin Finished
        BY <4>4, <2>4, <1>2, ThenPatchType, WakeType DEF ObserveRepairJob, Finished
      <4> QED
        BY <4>1, <4>2, <4>3, <4>4 DEF Finished
    <3> QED
      BY <2>4, <3>1 DEF ObserveRepairJob, Take, TypeOK, OperatorType
  <2>5. CASE CreateCheckerJob(run)
    <3>1. wake' \in WakeTimes /\ plan' \in Plans
      BY <2>5, CheckRunningType DEF CreateCheckerJob
    <3>2. jobs' \in [Keys -> JobStates] /\ started' \in SUBSET Keys
      BY <2>5, CreateJobType, KeyType DEF CreateCheckerJob, Kinds
    <3> QED
      BY <2>5, <3>1, <3>2 DEF CreateCheckerJob, Take, TypeOK, OperatorType
  <2>6. CASE ObserveCheckerJob(run)
    <3>1. wake' \in WakeTimes /\ plan' \in Plans
      <4> DEFINE seen == jobView[Key("check", run)]
      <4>1. CASE seen = "failed"
        BY <4>1, <2>6, <1>2, ThenPatchType, WakeType DEF ObserveCheckerJob
      <4>2. CASE seen = "timedOut"
        BY <4>2, <2>6, <1>2, ThenPatchType, WakeType DEF ObserveCheckerJob
      <4>3. CASE seen = "complete"
        BY <4>3, <2>6, <1>2, ThenPatchType, WakeType DEF ObserveCheckerJob
      <4>4. CASE seen \notin Finished
        BY <4>4, <2>6, CheckRunningType DEF ObserveCheckerJob, Finished
      <4> QED
        BY <4>1, <4>2, <4>3, <4>4 DEF Finished
    <3> QED
      BY <2>6, <3>1 DEF ObserveCheckerJob, Take, TypeOK, OperatorType
  <2> QED
    BY <1>1, <2>1, <2>2, <2>3, <2>4, <2>5, <2>6
<1> QED
  BY <1>3 DEF Reconcile, specVars, viewVars, TypeOK, OperatorType

LEMMA OperatorStepType ==
  ASSUME TypeOK, Operator
  PROVE  TypeOK'
<1>1. CASE Reconcile
  BY <1>1, ReconcileType
<1>2. CASE PatchStatus
  <2>1. status' \in Statuses /\ wake' \in WakeTimes /\ plan' \in Plans /\ queued' \in BOOLEAN
    BY <1>2, WakeType DEF PatchStatus, TypeOK, Plans
  <2> QED
    BY <1>2, <2>1 DEF PatchStatus, TypeOK, specVars, clusterVars, viewVars, historyVars
<1>3. CASE PatchFails
  <2>1. plan' \in Plans /\ faults' \in 0 .. MaxFaults
    BY <1>3, WakeType, BoundsAssumption DEF PatchFails, TypeOK
  <2> QED
    BY <1>3, <2>1 DEF PatchFails, TypeOK, specVars, clusterVars, viewVars, historyVars
<1>4. CASE CrashOperator
  <2>1. plan' \in Plans /\ wake' \in WakeTimes /\ faults' \in 0 .. MaxFaults
    BY <1>4, WakeType, BoundsAssumption DEF CrashOperator, TypeOK
  <2>2. jobView' \in [Keys -> JobStates]
    BY <1>4, VisibleType DEF CrashOperator, TypeOK
  <2> QED
    BY <1>4, <2>1, <2>2 DEF CrashOperator, TypeOK, specVars, clusterVars, historyVars
<1>5. CASE FireWake
  BY <1>5, WakeType DEF FireWake, TypeOK, specVars, clusterVars, viewVars, historyVars
<1>6. CASE SyncJobs
  <2>1. jobView' \in [Keys -> JobStates]
    BY <1>6, VisibleType DEF SyncJobs, TypeOK
  <2> QED
    BY <1>6, <2>1 DEF SyncJobs, TypeOK, specVars, clusterVars, historyVars
<1>7. CASE SyncReports
  BY <1>7 DEF SyncReports, TypeOK, operatorVars, specVars, clusterVars, historyVars
<1> QED
  BY <1>1, <1>2, <1>3, <1>4, <1>5, <1>6, <1>7 DEF Operator

LEMMA WorkerStepType ==
  ASSUME TypeOK, NEW key \in Keys, Worker(key)
  PROVE  TypeOK'
<1>1. ASSUME NEW phase \in ReportPhases(key.kind), Publish(key, phase)
      PROVE  TypeOK'
  <2>1. phase \in CheckPhases \cup RepairPhases
    BY <1>1 DEF ReportPhases
  <2>2. jobs' \in [Keys -> JobStates]
    BY <1>1 DEF Publish, TypeOK, JobStates
  <2>3. reports' \in [Keys -> CheckPhases \cup RepairPhases \cup {"none"}]
    BY <1>1, <2>1 DEF Publish, TypeOK
  <2>4. earned' \in SUBSET (Keys \X (CheckPhases \cup RepairPhases))
    BY <1>1, <2>1 DEF Publish, TypeOK
  <2> QED
    BY <1>1, <2>2, <2>3, <2>4 DEF Publish, TypeOK, operatorVars, specVars, viewVars
<1>2. CASE Complete(key)
  <2>1. jobs' \in [Keys -> JobStates]
    BY <1>2 DEF Complete, TypeOK, JobStates, Finished
  <2> QED
    BY <1>2, <2>1 DEF Complete, TypeOK, operatorVars, specVars, viewVars, historyVars
<1>3. CASE FailJob(key)
  <2>1. jobs' \in [Keys -> JobStates]
    BY <1>3 DEF FailJob, TypeOK, JobStates, Finished
  <2>2. faults' \in 0 .. MaxFaults
    BY <1>3, BoundsAssumption DEF FailJob, TypeOK
  <2> QED
    BY <1>3, <2>1, <2>2 DEF FailJob, TypeOK, operatorVars, specVars, viewVars, historyVars
<1>4. CASE RemoveJob(key)
  <2>1. jobs' \in [Keys -> JobStates]
    BY <1>4 DEF RemoveJob, TypeOK, JobStates
  <2> QED
    BY <1>4, <2>1 DEF RemoveJob, TypeOK, operatorVars, specVars, viewVars, historyVars
<1> QED
  BY <1>1, <1>2, <1>3, <1>4 DEF Worker

LEMMA EnvironmentStepType ==
  ASSUME TypeOK, Environment
  PROVE  TypeOK'
<1>1. CASE Tick
  <2>1. clock' \in Slots
    BY <1>1, BoundsAssumption DEF Tick, TypeOK, Slots
  <2> QED
    BY <1>1, <2>1 DEF Tick, TypeOK, operatorVars, clusterVars, viewVars, historyVars
<1>2. CASE EditSpec
  <2>1. generation' \in Generations
    BY <1>2, BoundsAssumption DEF EditSpec, TypeOK, Generations
  <2> QED
    BY <1>2, <2>1 DEF EditSpec, TypeOK, clusterVars, viewVars, historyVars
<1>3. CASE ChangePolicy
  BY <1>3 DEF ChangePolicy, TypeOK, operatorVars, clusterVars, viewVars, historyVars
<1>4. CASE ChangeTopology
  <2>1. faults' \in 0 .. MaxFaults
    BY <1>4, BoundsAssumption DEF ChangeTopology, TypeOK
  <2> QED
    BY <1>4, <2>1 DEF ChangeTopology, TypeOK, clusterVars, viewVars, historyVars
<1>5. CASE RotateCredentials
  BY <1>5 DEF RotateCredentials, TypeOK, specVars, clusterVars, viewVars
<1>6. CASE Recreate
  <2>1. status' \in Statuses /\ generation' \in Generations /\ faults' \in 0 .. MaxFaults
    BY <1>6, BoundsAssumption
       DEF Recreate, TypeOK, Statuses, NoStatus, Slots, Generations
  <2>2. jobs' \in [Keys -> JobStates]
    BY <1>6 DEF Recreate, JobStates
  <2> QED
    BY <1>6, <2>1, <2>2 DEF Recreate, TypeOK, viewVars
<1> QED
  BY <1>1, <1>2, <1>3, <1>4, <1>5, <1>6 DEF Environment

LEMMA StepType == TypeOK /\ [Next]_vars => TypeOK'
<1> SUFFICES ASSUME TypeOK, [Next]_vars PROVE TypeOK'
  OBVIOUS
<1>1. CASE Operator
  BY <1>1, OperatorStepType
<1>2. CASE \E key \in Keys : Worker(key)
  BY <1>2, WorkerStepType
<1>3. CASE Environment
  BY <1>3, EnvironmentStepType
<1>4. CASE UNCHANGED vars
  BY <1>4 DEF vars, TypeOK
<1> QED
  BY <1>1, <1>2, <1>3, <1>4 DEF Next

\* Every reachable state of the reconcile loop is well typed: in particular no
\* status names a phase, generation or slot the operator cannot write, and no
\* pending requeue lies beyond the next interval slot.
THEOREM TypeCorrect == Spec => []TypeOK
BY InitType, StepType, PTL DEF Spec

-----------------------------------------------------------------------------
(***************************************************************************)
(* Provenance.  A verdict reaches the status through the ConfigMap, the    *)
(* operator's cache of it and the patch the reconcile has decided on, and  *)
(* at each of these stations it may wait while the world moves on.  The    *)
(* inductive invariant says that what waits there was published.           *)
(***************************************************************************)
ReportsEarned == \A k \in Keys : reports[k] # "none" => <<k, reports[k]>> \in earned
ViewEarned == \A k \in Keys : reportView[k] # "none" => <<k, reportView[k]>> \in earned
PlanEarned == Earned(plan.status)

Provenance ==
  /\ TypeOK
  /\ ReportsEarned
  /\ ViewEarned
  /\ PlanEarned
  /\ VerdictIsEarned
  /\ RepairFollowsDrift

LEMMA InitProvenance == Init => Provenance
<1> SUFFICES ASSUME Init PROVE Provenance
  OBVIOUS
<1>1. ReportsEarned /\ ViewEarned
  BY DEF Init, ReportsEarned, ViewEarned
<1>2. Earned(NoStatus)
  BY DEF Earned, NoStatus, FromReport
<1>3. PlanEarned /\ VerdictIsEarned
  BY <1>2 DEF Init, PlanEarned, VerdictIsEarned, NoPlan, Earned
<1> QED
  BY <1>1, <1>3, InitType DEF Init, Provenance, RepairFollowsDrift

\* Only deleting the object forgets what its Jobs published.
LEMMA EarnedGrows ==
  ASSUME [Next]_vars, "recreate" \notin Disturbances
  PROVE  earned \subseteq earned'
<1>1. CASE Operator
  BY <1>1 DEF Operator, Reconcile, PatchStatus, PatchFails, CrashOperator, FireWake,
              SyncJobs, SyncReports, historyVars
<1>2. CASE \E key \in Keys : Worker(key)
  BY <1>2 DEF Worker, Publish, Complete, FailJob, RemoveJob, historyVars
<1>3. CASE Environment
  BY <1>3 DEF Environment, Tick, EditSpec, ChangePolicy, ChangeTopology,
              RotateCredentials, Recreate, historyVars
<1>4. CASE UNCHANGED vars
  BY <1>4 DEF vars
<1> QED
  BY <1>1, <1>2, <1>3, <1>4 DEF Next

\* A status built from a failure or from a running Job claims no report.
LEMMA JobStatusEarned ==
  ASSUME NEW run, NEW why \in FromJob, NEW phase \in Phases \ {"Healthy"}
  PROVE  Earned(Status(phase, why, run))
BY DEF Earned, Status, FromJob, FromReport

LEMMA ApplyReportEarned ==
  ASSUME Provenance, NEW kind \in Kinds, NEW run \in Runs,
         Found(kind, run), ApplyReport(kind, run)
  PROVE  Earned(plan'.status)
<1> DEFINE s == ReportStatus(kind, run)
<1>1. <<Key(kind, run), s.phase>> \in earned
  BY KeyType DEF Provenance, ViewEarned, Found, ReportStatus, Status
<1>2. Key(KindOf(s), s) = Key(kind, run) /\ s.why \in FromReport
  BY DEF ReportStatus, Status, Kinds, KindOf, Key, FromReport
<1>3. Earned(s)
  BY <1>1, <1>2 DEF Earned
<1>4. CASE ReportStatusAlreadyApplied(s)
  BY <1>4 DEF ApplyReport, Return, Provenance, PlanEarned
<1>5. CASE ~ ReportStatusAlreadyApplied(s)
  <2>1. plan'.status = s
    BY <1>5 DEF ApplyReport, ThenPatch
  <2> QED
    BY <2>1, <1>3
<1> QED
  BY <1>4, <1>5

LEMMA CheckRunningEarned ==
  ASSUME Provenance, NEW run \in Runs, CheckRunning(run)
  PROVE  Earned(plan'.status)
<1>1. Earned(Status("Unknown", "running", run))
  BY JobStatusEarned DEF Phases, CheckPhases, FromJob
<1>2. CASE ShouldPatchCheckerRunningStatus
  <2>1. plan'.status = Status("Unknown", "running", run)
    BY <1>2 DEF CheckRunning, ThenPatch
  <2> QED
    BY <2>1, <1>1
<1>3. CASE ~ ShouldPatchCheckerRunningStatus
  BY <1>3 DEF CheckRunning, Return, Provenance, PlanEarned
<1> QED
  BY <1>2, <1>3

LEMMA ReconcileProvenance ==
  ASSUME Provenance, Reconcile
  PROVE  Earned(plan'.status) /\ RepairFollowsDrift' /\ earned' = earned
<1>1. PICK run \in Runs :
        \/ ReconcileRepairReport(run)
        \/ ReconcileCheckReport(run)
        \/ CreateRepairJob(run)
        \/ ObserveRepairJob(run)
        \/ CreateCheckerJob(run)
        \/ ObserveCheckerJob(run)
  BY CurrentRunType DEF Reconcile, Provenance
<1>2. \A w \in {"jobFailed", "timedOut", "noReport", "running"} :
        \A phase \in {"Repairing", "RepairFailed", "CheckFailed"} :
          Earned(Status(phase, w, run))
  BY JobStatusEarned DEF Phases, CheckPhases, RepairPhases, FromJob
<1>3. earned' = earned
  BY DEF Reconcile
<1>4. CASE ReconcileRepairReport(run) \/ ReconcileCheckReport(run)
  <2>1. Earned(plan'.status)
    BY <1>4, ApplyReportEarned DEF ReconcileRepairReport, ReconcileCheckReport, Kinds
  <2>2. started' = started
    BY <1>4 DEF ReconcileRepairReport, ReconcileCheckReport, ApplyReport
  <2> QED
    BY <2>1, <2>2, <1>3 DEF Provenance, RepairFollowsDrift
<1>5. CASE CreateRepairJob(run)
  <2>1. plan'.status = Status("Repairing", "running", run)
    BY <1>5 DEF CreateRepairJob, ThenPatch
  <2>2. Earned(plan'.status)
    BY <2>1, <1>2
  <2>3. <<Key("check", run), "DriftDetected">> \in earned
    BY <1>5, KeyType DEF CreateRepairJob, RepairDue, Provenance, ViewEarned, Kinds
  <2>4. started' = started \cup {Key("repair", run)}
    BY <1>5 DEF CreateRepairJob, CreateJob
  <2>5. ASSUME NEW r \in Runs, Key("repair", r) \in started'
        PROVE  <<Key("check", r), "DriftDetected">> \in earned
    <3>1. CASE Key("repair", r) \in started
      BY <3>1 DEF Provenance, RepairFollowsDrift
    <3>2. CASE Key("repair", r) = Key("repair", run)
      <4>1. Key("check", r) = Key("check", run)
        BY <3>2 DEF Key
      <4> QED
        BY <4>1, <2>3
    <3> QED
      BY <2>5, <2>4, <3>1, <3>2
  <2> QED
    BY <2>2, <2>5, <1>3 DEF RepairFollowsDrift
<1>6. CASE ObserveRepairJob(run)
  <2>1. \E phase \in {"Repairing", "RepairFailed"} :
          \E w \in {"jobFailed", "timedOut", "noReport", "running"} :
            plan'.status = Status(phase, w, run)
    BY <1>6 DEF ObserveRepairJob, ThenPatch
  <2>2. Earned(plan'.status)
    BY <2>1, <1>2
  <2> QED
    BY <2>2, <1>3, <1>6 DEF ObserveRepairJob, Provenance, RepairFollowsDrift
<1>7. CASE CreateCheckerJob(run)
  <2>1. Earned(plan'.status)
    BY <1>7, CheckRunningEarned DEF CreateCheckerJob
  <2>2. started' = started \cup {Key("check", run)}
    BY <1>7 DEF CreateCheckerJob, CreateJob
  <2>3. \A r \in Runs : Key("repair", r) \in started' => Key("repair", r) \in started
    BY <2>2 DEF Key
  <2> QED
    BY <2>1, <2>3, <1>3 DEF Provenance, RepairFollowsDrift
<1>8. CASE ObserveCheckerJob(run)
  <2> DEFINE seen == jobView[Key("check", run)]
  <2>1. ASSUME seen \in Finished
        PROVE  Earned(plan'.status)
    <3>1. \E w \in {"jobFailed", "timedOut", "noReport"} :
            plan'.status = Status("CheckFailed", w, run)
      BY <1>8, <2>1 DEF ObserveCheckerJob, ThenPatch, Finished
    <3> QED
      BY <3>1, <1>2
  <2>2. ASSUME seen \notin Finished
        PROVE  Earned(plan'.status)
    <3>1. CheckRunning(run)
      BY <1>8, <2>2 DEF ObserveCheckerJob, Finished
    <3> QED
      BY <3>1, CheckRunningEarned
  <2>3. started' = started
    BY <1>8 DEF ObserveCheckerJob
  <2> QED
    BY <2>1, <2>2, <2>3, <1>3 DEF Provenance, RepairFollowsDrift
<1> QED
  BY <1>1, <1>4, <1>5, <1>6, <1>7, <1>8

\* Every other step leaves the decided patch and the created Jobs alone, drops the
\* patch, or moves it unchanged into the status.
LEMMA StepProvenance ==
  ASSUME Provenance, [Next]_vars, "recreate" \notin Disturbances
  PROVE  Provenance'
<1>1. TypeOK'
  BY StepType DEF Provenance
<1>2. earned \subseteq earned'
  BY EarnedGrows
<1>3. CASE Reconcile
  <2>1. Earned(plan'.status) /\ RepairFollowsDrift' /\ earned' = earned
    BY <1>3, ReconcileProvenance
  <2>2. PlanEarned'
    BY <2>1 DEF PlanEarned, Earned
  <2> QED
    BY <1>1, <1>3, <2>1, <2>2
       DEF Provenance, Reconcile, ReconcileRepairReport, ReconcileCheckReport,
           CreateRepairJob, ObserveRepairJob, CreateCheckerJob, ObserveCheckerJob,
           ApplyReport, viewVars, ReportsEarned, ViewEarned, VerdictIsEarned, Earned
<1>4. CASE PatchStatus
  <2>1. VerdictIsEarned'
    BY <1>4 DEF PatchStatus, historyVars, Provenance, PlanEarned, VerdictIsEarned, Earned
  <2>2. PlanEarned'
    BY <1>4 DEF PatchStatus, PlanEarned, Earned, NoPlan, NoStatus, FromReport
  <2> QED
    BY <1>1, <1>4, <2>1, <2>2
       DEF Provenance, PatchStatus, clusterVars, viewVars, historyVars, ReportsEarned,
           ViewEarned, RepairFollowsDrift
<1>5. CASE PatchFails \/ CrashOperator
  <2>1. PlanEarned'
    BY <1>5 DEF PatchFails, CrashOperator, PlanEarned, Earned, NoPlan, NoStatus, FromReport
  <2>2. reports' = reports /\ earned' = earned /\ started' = started /\ status' = status
    BY <1>5 DEF PatchFails, CrashOperator, clusterVars, historyVars
  <2>3. reportView' = reports \/ reportView' = reportView
    BY <1>5 DEF PatchFails, CrashOperator, viewVars
  <2> QED
    BY <1>1, <2>1, <2>2, <2>3
       DEF Provenance, ReportsEarned, ViewEarned, VerdictIsEarned, Earned,
           RepairFollowsDrift
<1>6. CASE SyncReports
  BY <1>1, <1>6
     DEF SyncReports, operatorVars, clusterVars, historyVars, Provenance, ReportsEarned,
         ViewEarned, PlanEarned, VerdictIsEarned, Earned, RepairFollowsDrift
<1>7. ASSUME NEW key \in Keys, NEW phase \in ReportPhases(key.kind), Publish(key, phase)
      PROVE  Provenance'
  <2>1. ReportsEarned'
    BY <1>7 DEF Publish, Provenance, TypeOK, ReportsEarned
  <2> QED
    BY <1>1, <1>2, <1>7, <2>1
       DEF Publish, operatorVars, viewVars, Provenance, ViewEarned, PlanEarned,
           VerdictIsEarned, Earned, RepairFollowsDrift
<1>8. ASSUME UNCHANGED <<reports, reportView, status, plan, started, earned>>
      PROVE  Provenance'
  BY <1>1, <1>8
     DEF Provenance, ReportsEarned, ViewEarned, PlanEarned, VerdictIsEarned, Earned,
         RepairFollowsDrift
<1>9. CASE FireWake \/ SyncJobs
  BY <1>8, <1>9 DEF FireWake, SyncJobs, clusterVars, viewVars, historyVars
<1>10. ASSUME NEW key \in Keys, Complete(key) \/ FailJob(key) \/ RemoveJob(key)
       PROVE  Provenance'
  BY <1>8, <1>10 DEF Complete, FailJob, RemoveJob, operatorVars, viewVars, historyVars
<1>11. CASE Environment
  BY <1>8, <1>11
     DEF Environment, Tick, EditSpec, ChangePolicy, ChangeTopology, RotateCredentials,
         Recreate, operatorVars, clusterVars, viewVars, historyVars
<1>12. CASE UNCHANGED vars
  BY <1>8, <1>12 DEF vars
<1> QED
  BY <1>3, <1>4, <1>5, <1>6, <1>7, <1>9, <1>10, <1>11, <1>12 DEF Next, Operator, Worker

LEMMA ProvenanceHolds ==
  ASSUME "recreate" \notin Disturbances
  PROVE  Spec => []Provenance
<1>1. Provenance /\ [Next]_vars => Provenance'
  BY StepProvenance
<1> QED
  BY <1>1, InitProvenance, PTL DEF Spec

\* As long as the Invariant object is not deleted and applied again, a Healthy
\* status and every status that claims a report carry exactly the verdict which
\* the Job of that very run published, for any number of generations, slots,
\* faults and stale cache entries (reconcileJobBackedInvariant,
\* statusFromReportConfigMap, patchInvariantStatus).
THEOREM VerdictCorrect ==
  ASSUME "recreate" \notin Disturbances
  PROVE  Spec => []VerdictIsEarned
<1>1. Provenance => VerdictIsEarned
  BY DEF Provenance
<1> QED
  BY <1>1, ProvenanceHolds, PTL

\* Under the same assumption no repair Job is ever created for a run whose own
\* checker did not report drift (reconcileRepairForDrift).
THEOREM RepairJustified ==
  ASSUME "recreate" \notin Disturbances
  PROVE  Spec => []RepairFollowsDrift
<1>1. Provenance => RepairFollowsDrift
  BY DEF Provenance
<1> QED
  BY <1>1, ProvenanceHolds, PTL

-----------------------------------------------------------------------------
(***************************************************************************)
(* Order.  A decided patch may be overtaken by spec edits and clock ticks, *)
(* never by another patch: the status is at most as new as the patch, and  *)
(* the patch at most as new as the current run.                            *)
(***************************************************************************)
NotAfter(s, t) == s.gen < t.gen \/ (s.gen = t.gen /\ s.slot <= t.slot)

InOrder ==
  /\ TypeOK
  /\ NotAfter(status, CurrentRun)
  /\ plan # NoPlan => NotAfter(status, plan.status) /\ NotAfter(plan.status, CurrentRun)

LEMMA InitOrder == Init => InOrder
BY InitType DEF Init, InOrder, NotAfter, NoStatus, CurrentRun

\* What a reconcile decides on names the current run.
LEMMA ReconcileOrder ==
  ASSUME TypeOK, Reconcile
  PROVE  /\ plan = NoPlan
         /\ \/ plan' = NoPlan
            \/ /\ plan'.status.gen = CurrentRun.gen
               /\ plan'.status.slot = CurrentRun.slot
<1> DEFINE run == CurrentRun
<1> DEFINE Decided ==
      plan' = plan \/ (plan'.status.gen = run.gen /\ plan'.status.slot = run.slot)
<1>1. plan = NoPlan
  BY DEF Reconcile, ReconcileRepairReport, ReconcileCheckReport, CreateRepairJob,
         ObserveRepairJob, CreateCheckerJob, ObserveCheckerJob, Take
<1> HIDE DEF run
<1>2. \A w : Return(w) => Decided
  BY DEF Return
<1>3. \A phase, why, w : ThenPatch(Status(phase, why, run), w) => Decided
  BY DEF ThenPatch, Status
<1>4. \A kind \in Kinds : ApplyReport(kind, run) => Decided
  BY <1>2, <1>3 DEF ApplyReport, ReportStatus
<1>5. CheckRunning(run) => Decided
  BY <1>2, <1>3 DEF CheckRunning
<1>6. CASE ReconcileRepairReport(run) \/ ReconcileCheckReport(run)
  BY <1>1, <1>4, <1>6 DEF ReconcileRepairReport, ReconcileCheckReport, Kinds, run
<1>7. CASE CreateRepairJob(run)
  BY <1>1, <1>3, <1>7 DEF CreateRepairJob, run
<1>8. CASE ObserveRepairJob(run)
  <2>1. Decided
    BY <1>8, <1>3 DEF ObserveRepairJob
  <2> QED
    BY <1>1, <2>1 DEF run
<1>9. CASE CreateCheckerJob(run)
  BY <1>1, <1>5, <1>9 DEF CreateCheckerJob, run
<1>10. CASE ObserveCheckerJob(run)
  <2>1. Decided
    BY <1>10, <1>3, <1>5 DEF ObserveCheckerJob
  <2> QED
    BY <1>1, <2>1 DEF run
<1> QED
  BY <1>6, <1>7, <1>8, <1>9, <1>10 DEF Reconcile, run

\* Time and spec edits only move the current run forward.
LEMMA CurrentRunAdvances ==
  ASSUME TypeOK, TypeOK', Tick \/ EditSpec, NEW s \in Statuses, NotAfter(s, CurrentRun)
  PROVE  NotAfter(s, CurrentRun')
<1>1. s.gen \in Nat /\ s.slot \in Nat /\ clock \in Nat /\ generation \in Nat
  BY BoundsAssumption DEF Statuses, Slots, Generations, TypeOK
<1>2. CASE Tick
  BY <1>1, <1>2 DEF Tick, NotAfter, CurrentRun
<1>3. CASE EditSpec
  BY <1>1, <1>3 DEF EditSpec, NotAfter, CurrentRun
<1> QED
  BY <1>2, <1>3

LEMMA StepOrder ==
  ASSUME InOrder, [Next]_vars
  PROVE  InOrder'
<1>1. TypeOK /\ TypeOK'
  BY StepType DEF InOrder
<1>2. status \in Statuses /\ plan.status \in Statuses
  BY <1>1 DEF TypeOK, Plans
<1>3. CASE Reconcile
  <2>1. UNCHANGED <<status, clock, generation>>
    BY <1>3
       DEF Reconcile, specVars, ReconcileRepairReport, ReconcileCheckReport,
           CreateRepairJob, ObserveRepairJob, CreateCheckerJob, ObserveCheckerJob,
           ApplyReport
  <2>2. CurrentRun' = CurrentRun /\ status' = status
    BY <2>1 DEF CurrentRun
  <2>3. NotAfter(CurrentRun, CurrentRun)
    BY <1>1, BoundsAssumption
       DEF NotAfter, CurrentRun, TypeOK, Slots, Generations
  <2> QED
    BY <1>1, <1>3, <2>2, <2>3, ReconcileOrder DEF InOrder, NotAfter
<1>4. CASE PatchStatus
  <2>1. CurrentRun' = CurrentRun
    BY <1>4 DEF PatchStatus, specVars, CurrentRun
  <2> QED
    BY <1>1, <1>4, <2>1 DEF PatchStatus, InOrder, NotAfter
<1>5. CASE Tick \/ EditSpec
  <2>1. status' = status /\ plan' = plan
    BY <1>5 DEF Tick, EditSpec, operatorVars
  <2>2. NotAfter(status, CurrentRun')
    BY <1>1, <1>2, <1>5, CurrentRunAdvances DEF InOrder
  <2>3. plan # NoPlan => NotAfter(plan.status, CurrentRun')
    BY <1>1, <1>2, <1>5, CurrentRunAdvances DEF InOrder
  <2> QED
    BY <1>1, <2>1, <2>2, <2>3 DEF InOrder, NotAfter
<1>6. CASE Recreate
  BY <1>1, <1>6 DEF Recreate, InOrder, NotAfter, NoStatus, CurrentRun
<1>7. ASSUME UNCHANGED <<status, clock, generation>>, plan' = plan \/ plan' = NoPlan
      PROVE  InOrder'
  BY <1>1, <1>7 DEF InOrder, NotAfter, CurrentRun
<1>8. CASE PatchFails \/ CrashOperator \/ FireWake \/ SyncJobs \/ SyncReports
  BY <1>7, <1>8
     DEF PatchFails, CrashOperator, FireWake, SyncJobs, SyncReports, specVars, operatorVars
<1>9. CASE \E key \in Keys : Worker(key)
  BY <1>7, <1>9 DEF Worker, Publish, Complete, FailJob, RemoveJob, operatorVars, specVars
<1>10. CASE ChangePolicy \/ ChangeTopology \/ RotateCredentials
  BY <1>7, <1>10 DEF ChangePolicy, ChangeTopology, RotateCredentials, operatorVars, specVars
<1>11. CASE UNCHANGED vars
  BY <1>7, <1>11 DEF vars
<1> QED
  BY <1>3, <1>4, <1>5, <1>6, <1>8, <1>9, <1>10, <1>11 DEF Next, Operator, Environment

\* No step takes the status back to an older generation or an older slot of the
\* same generation; only deleting the object clears it (currentCheckRun,
\* patchInvariantStatus).
THEOREM StatusMovesForward == Spec => RunsMoveForward
<1> DEFINE Forward ==
      \/ status' = NoStatus
      \/ status'.gen > status.gen
      \/ (status'.gen = status.gen /\ status'.slot >= status.slot)
<1>1. InOrder /\ [Next]_vars => InOrder'
  BY StepOrder
<1>2. InOrder /\ [Next]_vars => [Forward]_status
  <2> SUFFICES ASSUME InOrder, [Next]_vars, status' # status
               PROVE  Forward
    OBVIOUS
  <2>1. CASE PatchStatus
    <3>1. status \in Statuses /\ plan.status \in Statuses
      BY DEF InOrder, TypeOK, Plans
    <3>2. /\ status.gen \in Nat /\ status.slot \in Nat
          /\ plan.status.gen \in Nat /\ plan.status.slot \in Nat
      BY <3>1, BoundsAssumption DEF Statuses, Slots
    <3> QED
      BY <2>1, <3>2 DEF PatchStatus, InOrder, NotAfter
  <2>2. CASE Recreate
    BY <2>2 DEF Recreate
  <2>3. CASE ~ PatchStatus /\ ~ Recreate
    <3>1. status' = status
      BY <2>3
         DEF Next, Operator, Environment, Worker, vars, operatorVars, Reconcile,
             ReconcileRepairReport, ReconcileCheckReport, CreateRepairJob,
             ObserveRepairJob, CreateCheckerJob, ObserveCheckerJob, ApplyReport,
             PatchFails, CrashOperator, FireWake, SyncJobs, SyncReports, Publish,
             Complete, FailJob, RemoveJob, Tick, EditSpec, ChangePolicy,
             ChangeTopology, RotateCredentials
    <3> QED
      BY <3>1
  <2> QED
    BY <2>1, <2>2, <2>3
<1> QED
  BY <1>1, <1>2, InitOrder, PTL DEF Spec, RunsMoveForward

-----------------------------------------------------------------------------
(***************************************************************************)
(* Wake-ups.  A reconcile may end with no requeue only if something else   *)
(* is sure to wake the operator, or if nothing is left to say: a repair    *)
(* Job that the cache shows will be seen to go, and a verdict on an        *)
(* unscheduled generation is final.                                        *)
(***************************************************************************)
Pending == queued \/ wake # NoWake \/ plan.requeue # NoWake
ShowsRepair == \E run \in Runs : jobView[Key("repair", run)] # "absent"
ShowsJob == \E k \in Keys : jobView[k] # "absent"
Good(s) == s.gen = generation /\ s.why # "running"
Said == Good(plan.status) \/ (plan = NoPlan /\ Good(status))

WakeInv ==
  /\ TypeOK
  /\ generation \in Scheduled => Pending \/ ShowsRepair
  /\ generation \notin Scheduled => Pending \/ ShowsJob \/ Said

LEMMA InitWake == Init => WakeInv
BY InitType DEF Init, WakeInv, Pending

\* A requeue in the slots of the clock is a requeue.
LEMMA EarlierIsRequeue ==
  ASSUME TypeOK, NEW w \in WakeTimes, w # NoWake
  PROVE  Earlier(wake, w) # NoWake
BY BoundsAssumption DEF TypeOK, WakeTimes, NoWake, Earlier

LEMMA ReturnPends ==
  ASSUME TypeOK, NEW w \in WakeTimes, w # NoWake, Return(w)
  PROVE  Pending'
BY EarlierIsRequeue DEF Return, Pending

LEMMA SoonIsRequeue == TypeOK => Soon \in WakeTimes /\ Soon # NoWake
BY BoundsAssumption DEF TypeOK, Soon, WakeTimes, NoWake, Slots

\* The run of a reconcile is requeued if and only if its generation is scheduled.
LEMMA NextIsRequeue ==
  TypeOK => /\ NextInterval(CurrentRun) \in WakeTimes
            /\ generation \in Scheduled => NextInterval(CurrentRun) # NoWake
BY CurrentRunType, BoundsAssumption
   DEF TypeOK, NextInterval, CurrentRun, WakeTimes, NoWake, Slots, Runs

LEMMA ApplyReportWake ==
  ASSUME TypeOK, NEW kind \in Kinds, plan = NoPlan, generation' = generation,
         ApplyReport(kind, CurrentRun)
  PROVE  Pending' \/ (generation \notin Scheduled /\ Said')
<1> DEFINE s == ReportStatus(kind, CurrentRun)
           next == NextInterval(CurrentRun)
<1>1. next \in WakeTimes /\ (generation \in Scheduled => next # NoWake)
  BY NextIsRequeue
<1>2. s.gen = generation /\ s.why # "running"
  BY DEF ReportStatus, Status, CurrentRun
<1>3. status' = status
  BY DEF ApplyReport
<1> HIDE DEF s, next
<1>4. CASE ReportStatusAlreadyApplied(s)
  <2>1. Return(next)
    BY <1>4 DEF ApplyReport, s, next
  <2>2. Good(status)'
    BY <1>2, <1>3, <1>4 DEF ReportStatusAlreadyApplied, Good
  <2>3. plan' = NoPlan
    BY <2>1 DEF Return
  <2> QED
    BY <1>1, <2>1, <2>2, <2>3, ReturnPends DEF Said
<1>5. CASE ~ ReportStatusAlreadyApplied(s)
  <2>1. plan' = [status |-> s, requeue |-> next]
    BY <1>5 DEF ApplyReport, ThenPatch, s, next
  <2>2. Good(plan.status)'
    BY <2>1, <1>2 DEF Good
  <2> QED
    BY <1>1, <2>1, <2>2 DEF Pending, Said
<1> QED
  BY <1>4, <1>5

LEMMA CheckRunningPends ==
  ASSUME TypeOK, NEW run, CheckRunning(run)
  PROVE  Pending'
<1>1. CASE ShouldPatchCheckerRunningStatus
  BY <1>1, SoonIsRequeue DEF CheckRunning, ThenPatch, Pending
<1>2. CASE ~ ShouldPatchCheckerRunningStatus
  BY <1>2, SoonIsRequeue, ReturnPends DEF CheckRunning
<1> QED
  BY <1>1, <1>2

LEMMA ReconcileWake ==
  ASSUME TypeOK, Reconcile
  PROVE  /\ generation \in Scheduled => Pending' \/ ShowsRepair'
         /\ generation \notin Scheduled => Pending' \/ ShowsJob' \/ Said'
<1> DEFINE run == CurrentRun
           Goal == \/ Pending'
                   \/ ShowsRepair' /\ ShowsJob'
                   \/ generation \notin Scheduled /\ (ShowsJob' \/ Said')
<1>1. generation' = generation /\ jobView' = jobView
  BY DEF Reconcile, specVars, viewVars
<1>2. run \in Runs
  BY CurrentRunType
<1>3. CASE ReconcileRepairReport(run) \/ ReconcileCheckReport(run)
  <2>1. plan = NoPlan /\ (ApplyReport("repair", run) \/ ApplyReport("check", run))
    BY <1>3 DEF ReconcileRepairReport, ReconcileCheckReport, Take
  <2> QED
    BY <1>1, <2>1, ApplyReportWake DEF Kinds
<1> HIDE DEF run
<1>4. CASE CreateRepairJob(run)
  <2>1. plan' = [status |-> Status("Repairing", "running", run), requeue |-> Soon]
    BY <1>4 DEF CreateRepairJob, ThenPatch
  <2> QED
    BY <2>1, SoonIsRequeue DEF Pending
<1>5. CASE ObserveRepairJob(run)
  <2>1. jobView[Key("repair", run)] # "absent"
    BY <1>5 DEF ObserveRepairJob
  <2> QED
    BY <1>1, <1>2, <2>1, KeyType DEF ShowsRepair, ShowsJob, Kinds
<1>6. CASE CreateCheckerJob(run)
  BY <1>6, CheckRunningPends DEF CreateCheckerJob
<1>7. CASE ObserveCheckerJob(run)
  <2> DEFINE next == NextInterval(run)
  <2>1. jobView[Key("check", run)] # "absent"
    BY <1>7 DEF ObserveCheckerJob
  <2>2. ShowsJob'
    BY <1>1, <1>2, <2>1, KeyType DEF ShowsJob, Kinds
  <2>3. CheckRunning(run) \/ \E why : ThenPatch(Status("CheckFailed", why, run), next)
    BY <1>7 DEF ObserveCheckerJob
  <2>4. CASE CheckRunning(run)
    BY <2>4, CheckRunningPends
  <2>5. CASE \E why : ThenPatch(Status("CheckFailed", why, run), next)
    <3>1. plan'.requeue = next
      BY <2>5 DEF ThenPatch
    <3>2. generation \in Scheduled => next # NoWake
      BY NextIsRequeue DEF run
    <3> QED
      BY <2>2, <3>1, <3>2 DEF Pending
  <2> QED
    BY <2>3, <2>4, <2>5
<1> QED
  BY <1>3, <1>4, <1>5, <1>6, <1>7 DEF Reconcile, run

LEMMA StepWake ==
  ASSUME WakeInv, [Next]_vars
  PROVE  WakeInv'
<1>1. TypeOK /\ TypeOK'
  BY StepType DEF WakeInv
<1>2. CASE Reconcile
  <2>1. generation' = generation
    BY <1>2 DEF Reconcile, specVars
  <2> QED
    BY <1>1, <1>2, <2>1, ReconcileWake DEF WakeInv
<1>3. CASE PatchStatus
  <2>1. /\ status' = plan.status /\ plan' = NoPlan
        /\ wake' = Earlier(wake, plan.requeue)
        /\ generation' = generation /\ jobView' = jobView
        /\ queued' = queued \/ queued' = TRUE
    BY <1>3 DEF PatchStatus, specVars, viewVars
  <2>2. Pending => Pending'
    <3>1. CASE queued
      BY <2>1, <3>1 DEF Pending
    <3>2. CASE wake # NoWake \/ plan.requeue # NoWake
      <4>1. wake \in WakeTimes /\ plan.requeue \in WakeTimes
        BY <1>1 DEF TypeOK, Plans
      <4>2. wake' # NoWake
        BY <2>1, <3>2, <4>1, BoundsAssumption DEF Earlier, WakeTimes, NoWake
      <4> QED
        BY <4>2 DEF Pending
    <3> QED
      BY <3>1, <3>2 DEF Pending
  <2>3. ShowsRepair' = ShowsRepair /\ ShowsJob' = ShowsJob
    BY <2>1 DEF ShowsRepair, ShowsJob
  <2>4. Said => Said'
    BY <1>3, <2>1 DEF PatchStatus, Said, Good
  <2> QED
    BY <1>1, <2>1, <2>2, <2>3, <2>4 DEF WakeInv
<1>4. ASSUME queued' = TRUE
      PROVE  WakeInv'
  BY <1>1, <1>4 DEF WakeInv, Pending
<1>5. CASE \/ PatchFails \/ CrashOperator \/ FireWake \/ SyncJobs
           \/ EditSpec \/ ChangeTopology \/ RotateCredentials \/ Recreate
  BY <1>4, <1>5
     DEF PatchFails, CrashOperator, FireWake, SyncJobs, EditSpec, ChangeTopology,
         RotateCredentials, Recreate
<1>6. ASSUME UNCHANGED <<operatorVars, generation, jobView>>
      PROVE  WakeInv'
  BY <1>1, <1>6
     DEF operatorVars, WakeInv, Pending, ShowsRepair, ShowsJob, Said, Good
<1>7. CASE \/ SyncReports \/ Tick \/ ChangePolicy \/ UNCHANGED vars
           \/ \E key \in Keys : Worker(key)
  BY <1>6, <1>7
     DEF SyncReports, Tick, ChangePolicy, vars, Worker, Publish, Complete, FailJob,
         RemoveJob, operatorVars, specVars, viewVars
<1> QED
  BY <1>2, <1>3, <1>5, <1>7 DEF Next, Operator, Environment

LEMMA WakeInvHolds == Spec => []WakeInv
BY InitWake, StepWake, PTL DEF Spec

\* The operator never forgets a scheduled Invariant, for any number of slots, faults,
\* stale caches and disturbances: without a requeue there is a repair Job, or a Job
\* change it has not seen yet (requeueForRun, reconcileRepairForDrift).
THEOREM WakeupKept == Spec => []NoLostWakeup
<1>1. WakeInv => NoLostWakeup
  <2> SUFFICES ASSUME WakeInv, plan = NoPlan, ~ queued, generation \in Scheduled,
                      wake = NoWake, jobView = Visible(jobs)
               PROVE  \E run \in Runs : jobs[Key("repair", run)] # "absent"
    BY DEF NoLostWakeup
  <2>1. ~ Pending
    BY DEF Pending, NoPlan
  <2>2. PICK run \in Runs : jobView[Key("repair", run)] # "absent"
    BY <2>1 DEF WakeInv, ShowsRepair
  <2>3. jobs[Key("repair", run)] # "absent"
    BY <2>2, KeyType DEF Visible, Kinds
  <2> QED
    BY <2>3
<1> QED
  BY <1>1, WakeInvHolds, PTL

\* When nothing can wake the operator any more, an unscheduled Invariant has been
\* given a verdict on its current generation (reconcileJobBackedInvariant).
THEOREM QuietIsSaid == Spec => []QuietMeansVerdict
<1>1. WakeInv => QuietMeansVerdict
  <2> SUFFICES ASSUME WakeInv, plan = NoPlan, ~ queued, wake = NoWake,
                      jobView = Visible(jobs), \A k \in Keys : jobs[k] = "absent",
                      generation \notin Scheduled
               PROVE  Good(status)
    BY DEF QuietMeansVerdict, Good
  <2>1. ~ Pending
    BY DEF Pending, NoPlan
  <2>2. ~ ShowsJob
    BY DEF ShowsJob, Visible
  <2>3. ~ Good(NoStatus)
    BY BoundsAssumption DEF Good, NoStatus, WakeInv, TypeOK, Generations
  <2> QED
    BY <2>1, <2>2, <2>3 DEF WakeInv, Said, NoPlan
<1> QED
  BY <1>1, WakeInvHolds, PTL

-----------------------------------------------------------------------------
(***************************************************************************)
(* InvariantOperator implements CheckCycle, for every value of the         *)
(* constants, as long as the Invariant object is not deleted and applied   *)
(* again.  The mapping shows the status as it is, the run the spec and the *)
(* clock ask for, the Jobs that were ever created as work begun, and the   *)
(* reports that were ever written as verdicts published.                   *)
(***************************************************************************)

Failures == {"jobFailed", "timedOut", "noReport"}

\* A Job, on the API server or still in the cache, was created at some time.
JobsBegun ==
  \A k \in Keys : jobs[k] # "absent" \/ jobView[k] # "absent" => k \in started

\* Each kind of Job publishes its own kind of verdict.
EarnedPhases == \A e \in earned : e[2] \in Cycle!Verdicts(e[1].kind)

\* The cache shows no report that does not exist.
ViewBehind == \A k \in Keys : reportView[k] # "none" => reports[k] # "none"

\* The cache shows the repair report that a status was taken from.
RepairSeen(s) ==
  s.why = "repairReport" =>
    Key("repair", s) \in Keys /\ reportView[Key("repair", s)] # "none"

\* A status of one run: a published verdict, failed work or work in progress,
\* where work is a set of Jobs that were created.
Grounded(s, kind, run, work) ==
  \/ \E phase \in Cycle!Verdicts(kind) :
       /\ <<Key(kind, run), phase>> \in earned
       /\ s = Status(phase, Cycle!ReportOf(kind), run)
  \/ /\ Key(kind, run) \in work
     /\ \E why \in Failures : s = Status(Cycle!FailureOf(kind), why, run)
  \/ /\ Key(kind, run) \in work
     /\ kind = "check" => status.phase \notin Cycle!Settled
     /\ s = Status(Cycle!ProgressOf(kind), "running", run)

\* A patch that may be applied at any later moment.
Fit(s, work) ==
  /\ \E kind \in Kinds : \E run \in Runs : Grounded(s, kind, run, work)
  /\ RepairSeen(s)
  /\ Cycle!SameRun(status, s) /\ status.why = "repairReport" => s.why = "repairReport"

CycleInv ==
  /\ Provenance
  /\ InOrder
  /\ JobsBegun
  /\ EarnedPhases
  /\ ViewBehind
  /\ RepairSeen(status)
  /\ plan # NoPlan => Fit(plan.status, started)

LEMMA InitCycleInv == Init => CycleInv
<1> SUFFICES ASSUME Init PROVE CycleInv
  OBVIOUS
<1>1. JobsBegun /\ EarnedPhases /\ ViewBehind /\ RepairSeen(status)
  BY DEF Init, JobsBegun, EarnedPhases, ViewBehind, RepairSeen, NoStatus
<1> QED
  BY <1>1, InitProvenance, InitOrder DEF Init, CycleInv

LEMMA KeyOfStatus ==
  ASSUME NEW kind, NEW run, NEW phase, NEW why
  PROVE  Key(kind, Status(phase, why, run)) = Key(kind, run)
BY DEF Key, Status

\* What a reconcile leaves decided: nothing new, or a fit patch.
Decided == plan' = plan \/ Fit(plan'.status, started')

\* A run whose repair report the status shows has that report in the cache, so a
\* reconcile of the run that does not find it leaves the status free.
LEMMA RepairNotShown ==
  ASSUME CycleInv, NEW run \in Runs, ~ Found("repair", run), NEW phase, NEW why
  PROVE  ~ (Cycle!SameRun(status, Status(phase, why, run)) /\ status.why = "repairReport")
<1> SUFFICES ASSUME Cycle!SameRun(status, Status(phase, why, run)),
                    status.why = "repairReport"
             PROVE  FALSE
  OBVIOUS
<1>1. Key("repair", status) = Key("repair", run)
  BY DEF Cycle!SameRun, Status, Key
<1> QED
  BY <1>1 DEF CycleInv, RepairSeen, Found

\* A patch about work without a report, decided while no repair report is found.
LEMMA WorkFit ==
  ASSUME CycleInv, NEW kind \in Kinds, NEW run \in Runs, ~ Found("repair", run),
         NEW work, Key(kind, run) \in work,
         NEW why, NEW phase,
         \/ why \in Failures /\ phase = Cycle!FailureOf(kind)
         \/ /\ why = "running" /\ phase = Cycle!ProgressOf(kind)
            /\ kind = "check" => status.phase \notin Cycle!Settled
  PROVE  Fit(Status(phase, why, run), work)
<1>1. Grounded(Status(phase, why, run), kind, run, work)
  BY DEF Grounded
<1>2. Status(phase, why, run).why = why
  BY DEF Status
<1>3. RepairSeen(Status(phase, why, run))
  BY <1>2 DEF RepairSeen, Failures
<1> QED
  BY <1>1, <1>3, RepairNotShown DEF Fit

LEMMA ReportFit ==
  ASSUME CycleInv, NEW kind \in Kinds, NEW run \in Runs, Found(kind, run),
         kind = "check" => ~ Found("repair", run),
         ApplyReport(kind, run)
  PROVE  Decided
<1> DEFINE s == ReportStatus(kind, run)
           phase == reportView[Key(kind, run)]
<1>1. <<Key(kind, run), phase>> \in earned
  BY KeyType DEF CycleInv, Provenance, ViewEarned, Found
<1>2. phase \in Cycle!Verdicts(kind)
  <2>1. Key(kind, run).kind = kind
    BY DEF Key
  <2> QED
    BY <1>1, <2>1 DEF CycleInv, EarnedPhases
<1>3. s = Status(phase, Cycle!ReportOf(kind), run)
  BY DEF ReportStatus, Cycle!ReportOf
<1>4. Grounded(s, kind, run, started')
  BY <1>1, <1>2, <1>3 DEF Grounded
<1>5. s.why = Cycle!ReportOf(kind)
  BY <1>3 DEF Status
<1>6. RepairSeen(s)
  <2> SUFFICES ASSUME s.why = "repairReport"
               PROVE  Key("repair", s) \in Keys /\ reportView[Key("repair", s)] # "none"
    BY DEF RepairSeen
  <2>1. kind = "repair"
    BY <1>5 DEF Cycle!ReportOf, Kinds
  <2>2. Key("repair", s) = Key("repair", run)
    BY <1>3, KeyOfStatus
  <2> QED
    BY <2>1, <2>2, KeyType DEF Found
<1>7. Cycle!SameRun(status, s) /\ status.why = "repairReport" => s.why = "repairReport"
  <2>1. CASE kind = "repair"
    BY <2>1, <1>5 DEF Cycle!ReportOf
  <2>2. CASE kind = "check"
    BY <2>2, <1>3, RepairNotShown
  <2> QED
    BY <2>1, <2>2 DEF Kinds
<1>8. Fit(s, started')
  BY <1>4, <1>6, <1>7 DEF Fit
<1> HIDE DEF s
<1>9. CASE ReportStatusAlreadyApplied(s)
  BY <1>9 DEF ApplyReport, Return, Decided, s
<1>10. CASE ~ ReportStatusAlreadyApplied(s)
  <2>1. plan'.status = s
    BY <1>10 DEF ApplyReport, ThenPatch, s
  <2> QED
    BY <2>1, <1>8 DEF Decided
<1> QED
  BY <1>9, <1>10

LEMMA CheckRunningFit ==
  ASSUME CycleInv, NEW run \in Runs, ~ Found("repair", run),
         Key("check", run) \in started', CheckRunning(run)
  PROVE  Decided
<1>1. CASE ShouldPatchCheckerRunningStatus
  <2>1. status.phase \notin Cycle!Settled
    BY <1>1 DEF ShouldPatchCheckerRunningStatus, Cycle!Settled
  <2>2. Fit(Status("Unknown", "running", run), started')
    BY <2>1, WorkFit DEF Kinds, Cycle!ProgressOf
  <2>3. plan'.status = Status("Unknown", "running", run)
    BY <1>1 DEF CheckRunning, ThenPatch
  <2> QED
    BY <2>2, <2>3 DEF Decided
<1>2. CASE ~ ShouldPatchCheckerRunningStatus
  BY <1>2 DEF CheckRunning, Return, Decided
<1> QED
  BY <1>1, <1>2

\* Work that the reconcile of a run may begin.
MayBegin(run) ==
  \/ started' = started
  \/ started' = started \cup {Key("check", run)}
  \/ /\ started' = started \cup {Key("repair", run)}
     /\ <<Key("check", run), "DriftDetected">> \in earned

\* Every patch a reconcile decides on is fit, and every Job it creates is work
\* that CheckCycle allows to begin.
LEMMA ReconcileCycle ==
  ASSUME CycleInv, Reconcile
  PROVE  /\ plan = NoPlan
         /\ Decided
         /\ MayBegin(CurrentRun)
         /\ UNCHANGED <<status, clock, generation, reports, reportView, jobView, earned>>
         /\ \A k \in Keys : jobs'[k] # "absent" => jobs[k] # "absent" \/ k \in started'
<1> DEFINE run == CurrentRun
           JobsKept == \A k \in Keys : jobs'[k] # "absent" => jobs[k] # "absent" \/ k \in started'
           Goal == Decided /\ MayBegin(run) /\ status' = status /\ JobsKept
<1>1. plan = NoPlan
  BY ReconcileOrder DEF CycleInv, Provenance
<1>2. UNCHANGED <<clock, generation, reports, reportView, jobView, earned>>
  BY DEF Reconcile, specVars, viewVars
<1>3. run \in Runs
  BY CurrentRunType DEF CycleInv, Provenance
<1> HIDE DEF run
<1>4. CASE ReconcileRepairReport(run)
  <2>1. Decided
    BY <1>3, <1>4, ReportFit DEF ReconcileRepairReport, Kinds
  <2> QED
    BY <2>1, <1>4, <1>1, <1>2 DEF ReconcileRepairReport, ApplyReport, MayBegin, run
<1>5. CASE ReconcileCheckReport(run)
  <2>1. Decided
    BY <1>3, <1>5, ReportFit DEF ReconcileCheckReport, Kinds
  <2> QED
    BY <2>1, <1>5, <1>1, <1>2 DEF ReconcileCheckReport, ApplyReport, MayBegin, run
<1>6. CASE CreateRepairJob(run)
  <2>1. started' = started \cup {Key("repair", run)} /\ JobsKept
    BY <1>6 DEF CreateRepairJob, CreateJob, CycleInv, Provenance, TypeOK
  <2>2. Fit(Status("Repairing", "running", run), started')
    BY <1>3, <1>6, <2>1, WorkFit DEF CreateRepairJob, RepairDue, Kinds, Cycle!ProgressOf
  <2>3. Decided
    BY <1>6, <2>2 DEF CreateRepairJob, ThenPatch, Decided
  <2>4. <<Key("check", run), "DriftDetected">> \in earned
    BY <1>3, <1>6, KeyType DEF CreateRepairJob, RepairDue, CycleInv, Provenance, ViewEarned, Kinds
  <2> QED
    BY <2>1, <2>3, <2>4, <1>6, <1>1, <1>2 DEF CreateRepairJob, MayBegin, run
<1>7. CASE ObserveRepairJob(run)
  <2> DEFINE seen == jobView[Key("repair", run)]
  <2>1. started' = started /\ jobs' = jobs /\ status' = status
    BY <1>7 DEF ObserveRepairJob
  <2>2. Key("repair", run) \in started'
    BY <1>3, <1>7, <2>1, KeyType DEF ObserveRepairJob, CycleInv, JobsBegun, Kinds
  <2>3. ~ Found("repair", run)
    BY <1>7 DEF ObserveRepairJob, RepairDue
  <2>4. \A why \in Failures : Fit(Status("RepairFailed", why, run), started')
    BY <1>3, <2>2, <2>3, WorkFit DEF Kinds, Cycle!FailureOf
  <2>5. Fit(Status("Repairing", "running", run), started')
    BY <1>3, <2>2, <2>3, WorkFit DEF Kinds, Cycle!ProgressOf
  <2>6. \/ \E why \in Failures : plan'.status = Status("RepairFailed", why, run)
        \/ plan'.status = Status("Repairing", "running", run)
    BY <1>7 DEF ObserveRepairJob, ThenPatch, Failures
  <2> QED
    BY <2>1, <2>4, <2>5, <2>6, <1>1, <1>2 DEF Decided, MayBegin, run
<1>8. CASE CreateCheckerJob(run)
  <2>1. started' = started \cup {Key("check", run)} /\ JobsKept
    BY <1>8 DEF CreateCheckerJob, CreateJob, CycleInv, Provenance, TypeOK
  <2>2. Decided
    BY <1>3, <1>8, <2>1, CheckRunningFit DEF CreateCheckerJob, NoReportYet
  <2> QED
    BY <2>1, <2>2, <1>8, <1>1, <1>2 DEF CreateCheckerJob, MayBegin, run
<1>9. CASE ObserveCheckerJob(run)
  <2> DEFINE seen == jobView[Key("check", run)]
  <2>1. started' = started /\ jobs' = jobs /\ status' = status
    BY <1>9 DEF ObserveCheckerJob
  <2>2. Key("check", run) \in started'
    BY <1>3, <1>9, <2>1, KeyType DEF ObserveCheckerJob, CycleInv, JobsBegun, Kinds
  <2>3. ~ Found("repair", run)
    BY <1>9 DEF ObserveCheckerJob, NoReportYet
  <2>4. \A why \in Failures : Fit(Status("CheckFailed", why, run), started')
    BY <1>3, <2>2, <2>3, WorkFit DEF Kinds, Cycle!FailureOf
  <2>5. \/ \E why \in Failures : plan'.status = Status("CheckFailed", why, run)
        \/ CheckRunning(run)
    BY <1>9 DEF ObserveCheckerJob, ThenPatch, Failures
  <2>6. Decided
    <3>1. CASE CheckRunning(run)
      BY <1>3, <3>1, <2>2, <2>3, CheckRunningFit
    <3>2. CASE \E why \in Failures : plan'.status = Status("CheckFailed", why, run)
      BY <3>2, <2>4 DEF Decided
    <3> QED
      BY <2>5, <3>1, <3>2
  <2> QED
    BY <2>1, <2>6, <1>1, <1>2 DEF MayBegin, run
<1> QED
  BY <1>1, <1>2, <1>4, <1>5, <1>6, <1>7, <1>8, <1>9 DEF Reconcile, run

\* A step that leaves the status, the patch and the cached reports alone, and only
\* adds to what was begun and published.
LEMMA QuietStep ==
  ASSUME CycleInv, Provenance', InOrder',
         UNCHANGED <<status, reportView, started, earned>>,
         plan' = plan \/ plan' = NoPlan,
         JobsBegun', ViewBehind'
  PROVE  CycleInv'
BY DEF CycleInv, EarnedPhases, RepairSeen, Fit, Grounded

LEMMA StepCycleInv ==
  ASSUME CycleInv, [Next]_vars, "recreate" \notin Disturbances
  PROVE  CycleInv'
<1>1. Provenance' /\ InOrder'
  BY StepProvenance, StepOrder DEF CycleInv
<1>2. CASE Reconcile
  <2>1. /\ plan = NoPlan /\ Decided /\ MayBegin(CurrentRun)
        /\ UNCHANGED <<status, reports, reportView, jobView, earned>>
        /\ \A k \in Keys : jobs'[k] # "absent" => jobs[k] # "absent" \/ k \in started'
    BY <1>2, ReconcileCycle
  <2>2. JobsBegun'
    BY <2>1 DEF MayBegin, CycleInv, JobsBegun
  <2>3. EarnedPhases' /\ ViewBehind' /\ RepairSeen(status)'
    BY <2>1 DEF CycleInv, EarnedPhases, ViewBehind, RepairSeen
  <2>4. plan' # NoPlan => Fit(plan.status, started)'
    BY <2>1 DEF Decided, Fit, Grounded, RepairSeen
  <2> QED
    BY <1>1, <2>2, <2>3, <2>4 DEF CycleInv
<1>3. CASE PatchStatus
  <2>1. RepairSeen(status)'
    BY <1>3 DEF PatchStatus, viewVars, CycleInv, Fit, RepairSeen
  <2>2. plan' = NoPlan /\ UNCHANGED <<jobs, reports, jobView, reportView, started, earned>>
    BY <1>3 DEF PatchStatus, clusterVars, viewVars, historyVars
  <2> QED
    BY <1>1, <2>1, <2>2 DEF CycleInv, JobsBegun, EarnedPhases, ViewBehind
<1>4. CASE PatchFails \/ CrashOperator
  <2>1. plan' = NoPlan /\ UNCHANGED <<status, jobs, reports, started, earned>>
    BY <1>4 DEF PatchFails, CrashOperator, clusterVars, historyVars
  <2>2. (jobView' = jobView /\ reportView' = reportView) \/ (jobView' = Visible(jobs) /\ reportView' = reports)
    BY <1>4 DEF PatchFails, CrashOperator, viewVars
  <2>3. JobsBegun'
    BY <2>1, <2>2 DEF CycleInv, JobsBegun, Visible
  <2>4. ViewBehind' /\ EarnedPhases' /\ RepairSeen(status)'
    BY <2>1, <2>2 DEF CycleInv, ViewBehind, EarnedPhases, RepairSeen
  <2> QED
    BY <1>1, <2>1, <2>3, <2>4 DEF CycleInv
<1>5. CASE SyncReports
  <2>1. /\ UNCHANGED <<status, plan, jobs, reports, jobView, started, earned>>
        /\ reportView' = reports
    BY <1>5 DEF SyncReports, operatorVars, clusterVars, historyVars
  <2>2. JobsBegun' /\ EarnedPhases' /\ ViewBehind' /\ RepairSeen(status)'
    BY <2>1 DEF CycleInv, JobsBegun, EarnedPhases, ViewBehind, RepairSeen
  <2>3. plan # NoPlan => RepairSeen(plan.status)'
    BY <2>1 DEF CycleInv, Fit, ViewBehind, RepairSeen
  <2> QED
    BY <1>1, <2>1, <2>2, <2>3 DEF CycleInv, Fit, Grounded
<1>6. CASE SyncJobs
  <2>1. UNCHANGED <<status, plan, jobs, reports, reportView, started, earned>>
    BY <1>6 DEF SyncJobs, clusterVars, historyVars
  <2>2. JobsBegun' /\ ViewBehind'
    BY <1>6, <2>1 DEF SyncJobs, CycleInv, JobsBegun, ViewBehind, Visible
  <2> QED
    BY <1>1, <2>1, <2>2, QuietStep
<1>7. ASSUME NEW key \in Keys, NEW phase \in ReportPhases(key.kind), Publish(key, phase)
      PROVE  CycleInv'
  <2>1. /\ UNCHANGED <<status, plan, jobView, reportView, started>>
        /\ earned' = earned \cup {<<key, phase>>}
    BY <1>7 DEF Publish, operatorVars, viewVars
  <2>2. JobsBegun'
    BY <1>7, <2>1 DEF Publish, CycleInv, JobsBegun, Provenance, TypeOK
  <2>3. ViewBehind'
    <3>1. reports' = [reports EXCEPT ![key] = phase] /\ phase # "none"
      BY <1>7 DEF Publish, ReportPhases, CheckPhases, RepairPhases
    <3> QED
      BY <3>1, <2>1 DEF CycleInv, ViewBehind, Provenance, TypeOK
  <2>4. phase \in Cycle!Verdicts(key.kind)
    BY DEF ReportPhases, CheckPhases, RepairPhases, Cycle!Verdicts
  <2>5. EarnedPhases'
    BY <2>1, <2>4 DEF CycleInv, EarnedPhases
  <2>6. RepairSeen(status)' /\ (plan' # NoPlan => Fit(plan.status, started)')
    BY <2>1 DEF CycleInv, RepairSeen, Fit, Grounded
  <2> QED
    BY <1>1, <2>2, <2>3, <2>5, <2>6 DEF CycleInv
<1>8. ASSUME NEW key \in Keys, Complete(key) \/ FailJob(key) \/ RemoveJob(key)
      PROVE  CycleInv'
  <2>1. UNCHANGED <<status, plan, reports, jobView, reportView, started, earned>>
    BY <1>8 DEF Complete, FailJob, RemoveJob, operatorVars, viewVars, historyVars
  <2>2. jobs[key] # "absent"
    BY <1>8 DEF Complete, FailJob, RemoveJob, Finished
  <2>3. \A k \in Keys : k # key => jobs'[k] = jobs[k]
    BY <1>8 DEF Complete, FailJob, RemoveJob, CycleInv, Provenance, TypeOK
  <2>4. JobsBegun' /\ ViewBehind'
    BY <2>1, <2>2, <2>3 DEF CycleInv, JobsBegun, ViewBehind
  <2> QED
    BY <1>1, <2>1, <2>4, QuietStep
<1>9. CASE FireWake \/ Environment \/ UNCHANGED vars
  <2>1. UNCHANGED <<status, plan, jobs, reports, jobView, reportView, started, earned>>
    BY <1>9
       DEF FireWake, Environment, Tick, EditSpec, ChangePolicy, ChangeTopology,
           RotateCredentials, Recreate, operatorVars, clusterVars, viewVars, historyVars,
           vars
  <2>2. JobsBegun' /\ ViewBehind'
    BY <2>1 DEF CycleInv, JobsBegun, ViewBehind
  <2> QED
    BY <1>1, <2>1, <2>2, QuietStep
<1> QED
  BY <1>2, <1>3, <1>4, <1>5, <1>6, <1>7, <1>8, <1>9 DEF Next, Operator, Worker

-----------------------------------------------------------------------------
(***************************************************************************)
(* Each step of the reconcile loop is a step of the cycle or changes       *)
(* nothing a reader can see.                                               *)
(***************************************************************************)
LEMMA WorkIsKey == \A kind, run : Cycle!Work(kind, run) = Key(kind, run)
BY DEF Cycle!Work, Key

LEMMA PatchShows ==
  ASSUME CycleInv, PatchStatus
  PROVE  Cycle!Next
<1> DEFINE s == plan.status
<1>1. /\ plan # NoPlan /\ status' = s
      /\ UNCHANGED <<clock, generation, started, earned>>
  BY DEF PatchStatus, specVars, historyVars
<1>2. CurrentRun' = CurrentRun
  BY <1>1 DEF CurrentRun
<1>3. PICK kind \in Kinds, run \in Runs : Grounded(s, kind, run, started)
  BY <1>1 DEF CycleInv, Fit
<1>4. s.gen = run.gen /\ s.slot = run.slot
  <2>1. \E phase, why : s = Status(phase, why, run)
    BY <1>3, Zenon DEF Grounded
  <2> QED
    BY <2>1 DEF Status
<1>5. ~ Cycle!Later(status, run) /\ ~ Cycle!Later(run, CurrentRun)
  <2>1. status \in Statuses /\ CurrentRun \in Runs
    BY CurrentRunType DEF CycleInv, Provenance, TypeOK
  <2>2. /\ status.gen \in Nat /\ status.slot \in Nat /\ run.gen \in Nat /\ run.slot \in Nat
        /\ CurrentRun.gen \in Nat /\ CurrentRun.slot \in Nat
    BY <2>1, BoundsAssumption DEF Statuses, Runs, Generations, Slots
  <2> QED
    BY <1>1, <1>4, <2>2 DEF CycleInv, InOrder, NotAfter, Cycle!Later
<1>6. ASSUME NEW phase, NEW why, s = Status(phase, why, run)
      PROVE  Cycle!Show(run, phase, why)
  <2>1. s.why = why
    BY <1>6 DEF Status
  <2>2. Cycle!SameRun(status, run) = Cycle!SameRun(status, s)
    BY <1>4 DEF Cycle!SameRun
  <2>3. Cycle!SameRun(status, run) /\ status.why = "repairReport" => why = "repairReport"
    BY <1>1, <2>1, <2>2 DEF CycleInv, Fit
  <2> QED
    BY <1>1, <1>2, <1>5, <1>6, <2>3 DEF Cycle!Show, Status
<1>7. run \in Cycle!Runs /\ kind \in Cycle!Kinds
  BY <1>3 DEF Runs, Generations, Slots, Kinds, Cycle!Runs, Cycle!Kinds
<1>8. CASE \E phase \in Cycle!Verdicts(kind) :
             /\ <<Key(kind, run), phase>> \in earned
             /\ s = Status(phase, Cycle!ReportOf(kind), run)
  <2>1. Cycle!ShowVerdict(kind, run)
    BY <1>6, <1>8, WorkIsKey DEF Cycle!ShowVerdict
  <2> QED
    BY <1>7, <2>1 DEF Cycle!Next
<1>9. CASE /\ Key(kind, run) \in started
           /\ \E why \in Failures : s = Status(Cycle!FailureOf(kind), why, run)
  <2>1. Cycle!ShowFailure(kind, run)
    BY <1>6, <1>9, WorkIsKey DEF Cycle!ShowFailure, Failures
  <2> QED
    BY <1>7, <2>1 DEF Cycle!Next
<1>10. CASE /\ Key(kind, run) \in started
            /\ kind = "check" => status.phase \notin Cycle!Settled
            /\ s = Status(Cycle!ProgressOf(kind), "running", run)
  <2>1. Cycle!ShowProgress(kind, run)
    BY <1>6, <1>10, WorkIsKey DEF Cycle!ShowProgress
  <2> QED
    BY <1>7, <2>1 DEF Cycle!Next
<1> QED
  BY <1>3, <1>8, <1>9, <1>10 DEF Grounded

LEMMA StepCycle ==
  ASSUME CycleInv, [Next]_vars, "recreate" \notin Disturbances
  PROVE  [Cycle!Next]_Cycle!vars
<1>1. CASE Reconcile
  <2>1. /\ MayBegin(CurrentRun)
        /\ UNCHANGED <<status, clock, generation, earned>>
    BY <1>1, ReconcileCycle
  <2>2. CurrentRun' = CurrentRun
    BY <2>1 DEF CurrentRun
  <2>3. CASE started' = started
    BY <2>1, <2>2, <2>3 DEF Cycle!vars
  <2>4. CASE started' = started \cup {Key("check", CurrentRun)}
    BY <2>1, <2>2, <2>4, WorkIsKey DEF Cycle!Next, Cycle!BeginCheck
  <2>5. CASE /\ started' = started \cup {Key("repair", CurrentRun)}
             /\ <<Key("check", CurrentRun), "DriftDetected">> \in earned
    BY <2>1, <2>2, <2>5, WorkIsKey DEF Cycle!Next, Cycle!BeginRepair
  <2> QED
    BY <2>1, <2>3, <2>4, <2>5 DEF MayBegin
<1>2. CASE PatchStatus
  BY <1>2, PatchShows
<1>3. CASE Tick \/ EditSpec
  <2>1. UNCHANGED <<status, started, earned>>
    BY <1>3 DEF Tick, EditSpec, operatorVars, historyVars
  <2>2. TypeOK /\ TypeOK'
    BY StepType DEF CycleInv, Provenance
  <2>3. CurrentRun' \in Cycle!Runs
    <3>1. CurrentRun' \in Runs
      BY <2>2, CurrentRunType, BoundsAssumption
         DEF TypeOK, CurrentRun, Runs, Slots, Generations
    <3> QED
      BY <3>1 DEF Runs, Generations, Slots, Cycle!Runs
  <2>4. CurrentRun' = CurrentRun \/ Cycle!Later(CurrentRun', CurrentRun)
    BY <1>3, <2>2, BoundsAssumption
       DEF Tick, EditSpec, TypeOK, Slots, Generations, CurrentRun, Cycle!Later
  <2>5. CASE CurrentRun' = CurrentRun
    BY <2>1, <2>5 DEF Cycle!vars
  <2>6. CASE Cycle!Later(CurrentRun', CurrentRun)
    BY <2>1, <2>3, <2>6 DEF Cycle!Next, Cycle!MoveOn
  <2> QED
    BY <2>4, <2>5, <2>6
<1>4. ASSUME NEW key \in Keys, NEW phase \in ReportPhases(key.kind), Publish(key, phase)
      PROVE  Cycle!Next
  <2>1. /\ UNCHANGED <<status, clock, generation, started>>
        /\ earned' = earned \cup {<<key, phase>>}
        /\ key \in started
    BY <1>4 DEF Publish, operatorVars, specVars, CycleInv, JobsBegun
  <2>2. CurrentRun' = CurrentRun
    BY <2>1 DEF CurrentRun
  <2>3. PICK kind \in Kinds, run \in Runs : key = Key(kind, run)
    <3> DEFINE r == [gen |-> key.gen, slot |-> key.slot]
    <3>1. r \in Runs /\ key.kind \in Kinds /\ key = Key(key.kind, r)
      BY DEF Keys, Runs, Key
    <3> QED
      BY <3>1
  <2>4. phase \in Cycle!Verdicts(kind)
    BY <2>3 DEF Key, ReportPhases, CheckPhases, RepairPhases, Cycle!Verdicts
  <2>5. Cycle!PublishVerdict(kind, run, phase)
    BY <2>1, <2>2, <2>3, <2>4, WorkIsKey DEF Cycle!PublishVerdict
  <2>6. kind \in Cycle!Kinds /\ run \in Cycle!Runs
    BY DEF Runs, Generations, Slots, Kinds, Cycle!Runs, Cycle!Kinds
  <2> QED
    BY <2>4, <2>5, <2>6 DEF Cycle!Next
<1>5. ASSUME UNCHANGED <<status, clock, generation, started, earned>>
      PROVE  [Cycle!Next]_Cycle!vars
  BY <1>5 DEF Cycle!vars, CurrentRun
<1>6. CASE PatchFails \/ CrashOperator \/ FireWake \/ SyncJobs \/ SyncReports
  BY <1>5, <1>6
     DEF PatchFails, CrashOperator, FireWake, SyncJobs, SyncReports, operatorVars,
         specVars, historyVars
<1>7. ASSUME NEW key \in Keys, Complete(key) \/ FailJob(key) \/ RemoveJob(key)
      PROVE  [Cycle!Next]_Cycle!vars
  BY <1>5, <1>7 DEF Complete, FailJob, RemoveJob, operatorVars, specVars, historyVars
<1>8. CASE ChangePolicy \/ ChangeTopology \/ RotateCredentials
  BY <1>5, <1>8
     DEF ChangePolicy, ChangeTopology, RotateCredentials, operatorVars, specVars,
         historyVars
<1>9. CASE UNCHANGED vars
  BY <1>5, <1>9 DEF vars
<1>10. ~ Recreate
  BY DEF Recreate
<1> QED
  BY <1>1, <1>2, <1>3, <1>4, <1>6, <1>7, <1>8, <1>9, <1>10
     DEF Next, Operator, Worker, Environment

LEMMA InitCycle == Init => Cycle!Init
<1> SUFFICES ASSUME Init PROVE Cycle!Init
  OBVIOUS
<1>1. CurrentRun = [gen |-> 1, slot |-> 0]
  BY DEF Init, CurrentRun
<1> QED
  BY <1>1 DEF Init, Cycle!Init, NoStatus

\* The reconcile loop implements the cycle: for every number of generations, slots,
\* faults and stale cache entries, what a reader of Invariant.status sees is a
\* behaviour of CheckCycle (reconcileJobBackedInvariant, reconcileRepairForDrift,
\* patchInvariantStatus), unless the object is deleted and applied again.
THEOREM OperatorImplementsCycle ==
  ASSUME "recreate" \notin Disturbances
  PROVE  Spec => ImplementsCheckCycle
<1>1. CycleInv /\ [Next]_vars => CycleInv'
  BY StepCycleInv
<1>2. CycleInv /\ [Next]_vars => [Cycle!Next]_Cycle!vars
  BY StepCycle
<1> QED
  BY <1>1, <1>2, InitCycleInv, InitCycle, PTL DEF Spec, ImplementsCheckCycle, Cycle!Spec

\* Every change of the status is a Show, and a bare note that a check is running is
\* shown only over a status that is not settled.
LEMMA ChangeIsShow ==
  ASSUME [Cycle!Next]_Cycle!vars, status' # status
  PROVE  \E run, phase, why :
           /\ Cycle!Show(run, phase, why)
           /\ phase = "Unknown" /\ why = "running" => status.phase \notin Cycle!Settled
<1>1. PICK kind \in Cycle!Kinds, run \in Cycle!Runs :
        \/ Cycle!ShowVerdict(kind, run)
        \/ Cycle!ShowFailure(kind, run)
        \/ Cycle!ShowProgress(kind, run)
  BY DEF Cycle!vars, Cycle!Next, Cycle!MoveOn, Cycle!BeginCheck, Cycle!BeginRepair,
         Cycle!PublishVerdict
<1>2. CASE Cycle!ShowVerdict(kind, run)
  BY <1>2 DEF Cycle!ShowVerdict, Cycle!ReportOf
<1>3. CASE Cycle!ShowFailure(kind, run)
  BY <1>3 DEF Cycle!ShowFailure
<1>4. CASE Cycle!ShowProgress(kind, run)
  BY <1>4 DEF Cycle!ShowProgress, Cycle!ProgressOf, Cycle!Kinds
<1> QED
  BY <1>1, <1>2, <1>3, <1>4

\* Once a status carries the verdict of a repair, nothing else about the same run
\* takes its place: whatever the caches show, the repair report is found first
\* (reconcileJobBackedInvariant, line 93).
THEOREM RepairVerdictStays ==
  ASSUME "recreate" \notin Disturbances
  PROVE  Spec => RepairVerdictSticks
<1> DEFINE Sticks ==
      status.why = "repairReport" /\ status'.gen = status.gen /\ status'.slot = status.slot
        => status'.why = "repairReport"
<1>1. CycleInv /\ [Next]_vars => CycleInv'
  BY StepCycleInv
<1>2. CycleInv /\ [Next]_vars => [Sticks]_status
  <2>1. [Cycle!Next]_Cycle!vars => [Sticks]_status
    BY ChangeIsShow DEF Cycle!Show, Cycle!SameRun
  <2> QED
    BY <2>1, StepCycle
<1> QED
  BY <1>1, <1>2, InitCycleInv, PTL DEF Spec, RepairVerdictSticks

\* A check that is only running never takes the place of a settled verdict, not even
\* by a patch that was decided long before it lands (shouldPatchCheckerRunningStatus).
THEOREM SettledVerdictStays ==
  ASSUME "recreate" \notin Disturbances
  PROVE  Spec => SettledVerdictNotHidden
<1> DEFINE Stays ==
      status.phase \in {"Healthy", "DriftDetected"}
        => ~ (status'.phase = "Unknown" /\ status'.why = "running")
<1>1. CycleInv /\ [Next]_vars => CycleInv'
  BY StepCycleInv
<1>2. CycleInv /\ [Next]_vars => [Stays]_status
  <2>1. [Cycle!Next]_Cycle!vars => [Stays]_status
    BY ChangeIsShow DEF Cycle!Show, Cycle!Settled
  <2> QED
    BY <2>1, StepCycle
<1> QED
  BY <1>1, <1>2, InitCycleInv, PTL DEF Spec, SettledVerdictNotHidden
=============================================================================
