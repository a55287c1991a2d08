-------------------------- MODULE InvariantOperator --------------------------
(***************************************************************************)
(* The job-backed reconcile loop of one Invariant: the operator            *)
(* (internal/controller/job_handoff.go), the checker and repair Jobs it    *)
(* creates, the report ConfigMaps those Jobs publish, and the work queue   *)
(* that wakes the operator up.                                             *)
(*                                                                         *)
(* The operator reads Jobs and ConfigMaps through the informer caches of   *)
(* its manager's client, so a reconcile sees the API server as it was at   *)
(* some earlier moment, a different one for Jobs and for ConfigMaps.  The  *)
(* caches are the variables jobView and reportView.  Because each can lag  *)
(* on its own, reading a report and then a Job in one step loses no        *)
(* outcome of reading them at two moments.  The decision of a reconcile    *)
(* and the status patch that follows it are two steps: a spec edit, a      *)
(* clock tick, a worker step or a crash of the operator may fall between.  *)
(*                                                                         *)
(* A run is one check of the Invariant: a generation, and for a scheduled  *)
(* Invariant the interval slot.  Job and ConfigMap names, and the two      *)
(* guards of statusFromReportConfigMap, identify exactly one run.          *)
(***************************************************************************)
EXTENDS Naturals, FiniteSets

CONSTANTS
  MaxGeneration,  \* bound: generations 1..MaxGeneration of the spec
  MaxSlot,        \* bound: interval slots 0..MaxSlot of the clock
  Scheduled,      \* the generations whose spec sets checkIntervalSeconds > 0
  MaxFaults,      \* bound: faults of the environment in one behaviour
  MaxLag,         \* bound: objects of a cache that may be stale when the next
                  \* worker step changes that cache's kind of object
  Outcomes,       \* the report phases and Job failures that happen
  Disturbances    \* the environment events switched on in this instance

ASSUME BoundsAssumption ==
  /\ MaxGeneration \in Nat \ {0}
  /\ MaxSlot \in Nat
  /\ MaxFaults \in Nat
  /\ MaxLag \in Nat
  /\ Scheduled \subseteq 1 .. MaxGeneration
  /\ Disturbances \subseteq {"policy", "rotate", "topology", "crash", "recreate"}

Generations == 1 .. MaxGeneration
Slots == 0 .. MaxSlot
Runs == [gen : Generations, slot : Slots]
Kinds == {"check", "repair"}
Keys == [kind : Kinds, gen : Generations, slot : Slots]
Key(kind, run) == [kind |-> kind, gen |-> run.gen, slot |-> run.slot]

(***************************************************************************)
(* A Job is absent, running, published (running, its report written), or   *)
(* finished.  The API server does not show that a Job has published.       *)
(***************************************************************************)
Finished == {"complete", "failed", "timedOut"}
JobStates == {"absent", "running", "published"} \cup Finished
Visible(js) == [k \in Keys |-> IF js[k] = "published" THEN "running" ELSE js[k]]

(***************************************************************************)
(* What status.json of a report says, and "none" when there is no report.  *)
(***************************************************************************)
CheckPhases == {"Healthy", "DriftDetected", "Unknown", "CheckFailed"}
RepairPhases == {"Healthy", "RepairFailed"}
ReportPhases(kind) ==
  Outcomes \cap (IF kind = "check" THEN CheckPhases ELSE RepairPhases)
Phases == CheckPhases \cup RepairPhases \cup {"Repairing"}

(***************************************************************************)
(* Invariant.status: its phase, where it came from, and the generation and *)
(* slot (checkID) it names.  checkStatus, healthy, driftCount,             *)
(* counterexampleCount, reason and repairAction follow from phase and why. *)
(***************************************************************************)
FromReport == {"checkReport", "repairReport"}
FromJob == {"running", "jobFailed", "timedOut", "noReport"}
Statuses == [phase : Phases \cup {"None"}, why : FromReport \cup FromJob \cup {"none"},
             gen : 0 .. MaxGeneration, slot : Slots]
NoStatus == [phase |-> "None", why |-> "none", gen |-> 0, slot |-> 0]
Status(phase, why, run) ==
  [phase |-> phase, why |-> why, gen |-> run.gen, slot |-> run.slot]

(***************************************************************************)
(* A wake-up is the first slot in which it may fire.                       *)
(***************************************************************************)
NoWake == MaxSlot + 2
WakeTimes == 0 .. NoWake
Earlier(a, b) == IF a <= b THEN a ELSE b
NoPlan == [status |-> NoStatus, requeue |-> NoWake]
Plans == [status : Statuses, requeue : WakeTimes]

VARIABLES
  clock,       \* the current interval slot
  generation,  \* metadata.generation of the Invariant
  status,      \* Invariant.status
  policy,      \* an auto-repair RepairPolicy exists for the Invariant
  resolvable,  \* its DerivedView and DataSource exist
  jobs,        \* the Jobs on the API server
  reports,     \* the report ConfigMaps on the API server
  jobView,     \* the Jobs in the operator's cache
  reportView,  \* the ConfigMaps in the operator's cache
  queued,      \* the Invariant is in the work queue
  wake,        \* the earliest delayed requeue
  plan,        \* the status patch the running reconcile has decided on
  faults       \* faults spent

VARIABLES      \* history, read by the properties only
  earned,      \* <<key, phase>>: reports published for this Invariant object
  started,     \* keys for which a Job of this Invariant object was created
  rotated      \* credentials rotated since the last checker Job was created

operatorVars == <<status, queued, wake, plan>>
clusterVars == <<jobs, reports>>
viewVars == <<jobView, reportView>>
specVars == <<clock, generation, policy, resolvable>>
historyVars == <<earned, started, rotated>>
vars == <<clock, generation, status, policy, resolvable, jobs, reports, jobView,
          reportView, queued, wake, plan, faults, earned, started, rotated>>

Init ==
  /\ clock = 0
  /\ generation = 1
  /\ status = NoStatus
  /\ policy \in BOOLEAN
  /\ resolvable = TRUE
  /\ jobs = [k \in Keys |-> "absent"]
  /\ reports = [k \in Keys |-> "none"]
  /\ jobView = jobs
  /\ reportView = reports
  /\ queued = TRUE
  /\ wake = NoWake
  /\ plan = NoPlan
  /\ faults = 0
  /\ earned = {}
  /\ started = {}
  /\ rotated = FALSE

-----------------------------------------------------------------------------
(***************************************************************************)
(* The operator.                                                           *)
(***************************************************************************)

\* currentCheckRun: the slot is part of the run only for a scheduled spec.
CurrentRun ==
  [gen |-> generation, slot |-> IF generation \in Scheduled THEN clock ELSE 0]

\* Wrong on purpose: a scheduled run is not requeued.
BadNextInterval(run) == IF run.gen \in Scheduled THEN NoWake ELSE NoWake

\* requeueForRun: the next slot for a scheduled run, nothing otherwise.
NextInterval(run) == IF run.gen \in Scheduled THEN run.slot + 1 ELSE NoWake

\* RequeueAfter: 5 * time.Second, less than a slot.
Soon == clock

\* Wrong on purpose: a missing ConfigMap counts as an empty report.
BadFound(kind, run) == Key(kind, run) \in DOMAIN reportView

Found(kind, run) == reportView[Key(kind, run)] # "none"

ReportStatus(kind, run) ==
  Status(reportView[Key(kind, run)],
         IF kind = "check" THEN "checkReport" ELSE "repairReport", run)

\* Wrong on purpose: any status of this generation counts as up to date.
BadReportStatusAlreadyApplied(s) == s.gen = status.gen

\* The comparison ignores checkID, so the slot is not compared.
ReportStatusAlreadyApplied(s) ==
  /\ s.phase = status.phase
  /\ s.why = status.why
  /\ s.gen = status.gen

\* Wrong on purpose: only Healthy is protected.
BadShouldPatchCheckerRunningStatus == status.phase # "Healthy"

ShouldPatchCheckerRunningStatus == status.phase \notin {"Healthy", "DriftDetected"}

\* A reconcile takes the Invariant off the queue; there is one worker.
Take == queued /\ plan = NoPlan /\ queued' = FALSE

\* The reconcile returns with a delayed requeue and no patch.
Return(requeue) == wake' = Earlier(wake, requeue) /\ UNCHANGED plan

\* The reconcile goes on to patch the status and returns after that.
ThenPatch(s, requeue) ==
  plan' = [status |-> s, requeue |-> requeue] /\ UNCHANGED wake

\* Lines 97-112 and 125-138: a report is copied into the status.
ApplyReport(kind, run) ==
  LET s == ReportStatus(kind, run) IN
  /\ IF ReportStatusAlreadyApplied(s)
       THEN Return(NextInterval(run))
       ELSE ThenPatch(s, NextInterval(run))
  /\ UNCHANGED <<status, jobs, started, rotated>>

ReconcileRepairReport(run) ==
  /\ Found("repair", run)
  /\ Take
  /\ ApplyReport("repair", run)

\* Wrong on purpose: drift reported in any slot of the generation.
BadRepairDueAnySlot(run) ==
  /\ ~ Found("repair", run)
  /\ \E slot \in Slots : reportView[Key("check", [run EXCEPT !.slot = slot])] = "DriftDetected"
  /\ policy

\* Wrong on purpose: only while the checker Job can still be looked up.
BadRepairDueWithJob(run) ==
  /\ ~ Found("repair", run)
  /\ reportView[Key("check", run)] = "DriftDetected"
  /\ jobView[Key("check", run)] # "absent"
  /\ policy

\* The check found drift and a policy allows a repair of this run.
RepairDue(run) ==
  /\ ~ Found("repair", run)
  /\ reportView[Key("check", run)] = "DriftDetected"
  /\ policy

\* Wrong on purpose: the checker's report is read before the repair's.
BadReconcileCheckReportFirst(run) ==
  /\ Found("check", run)
  /\ ~ RepairDue(run)
  /\ Take
  /\ ApplyReport("check", run)

\* Wrong on purpose: the report of any slot of the generation is taken.
BadReconcileCheckReportAnySlot(run) ==
  /\ Take
  /\ \E slot \in Slots :
       LET old == [run EXCEPT !.slot = slot] IN
       /\ ~ Found("repair", old)
       /\ Found("check", old)
       /\ ~ RepairDue(old)
       /\ ApplyReport("check", old)

ReconcileCheckReport(run) ==
  /\ ~ Found("repair", run)
  /\ Found("check", run)
  /\ ~ RepairDue(run)
  /\ Take
  /\ ApplyReport("check", run)

\* Create fails with AlreadyExists when the cache does not show the Job yet,
\* and the environment cannot be resolved without its DerivedView: either
\* error puts the Invariant back on the queue and changes nothing else.
CreateJob(key) ==
  /\ jobView[key] = "absent"
  /\ resolvable
  /\ jobs[key] = "absent"
  /\ jobs' = [jobs EXCEPT ![key] = "running"]
  /\ started' = started \cup {key}

CreateRepairJob(run) ==
  /\ RepairDue(run)
  /\ Take
  /\ CreateJob(Key("repair", run))
  /\ ThenPatch(Status("Repairing", "running", run), Soon)
  /\ UNCHANGED <<status, rotated>>

\* The failure branches return ctrl.Result{}: no requeue.
ObserveRepairJob(run) ==
  LET seen == jobView[Key("repair", run)] IN
  /\ RepairDue(run)
  /\ seen # "absent"
  /\ Take
  /\ CASE seen = "failed"   -> ThenPatch(Status("RepairFailed", "jobFailed", run), NoWake)
       [] seen = "timedOut" -> ThenPatch(Status("RepairFailed", "timedOut", run), NoWake)
       [] seen = "complete" -> ThenPatch(Status("RepairFailed", "noReport", run), NoWake)
       [] OTHER             -> ThenPatch(Status("Repairing", "running", run), Soon)
  /\ UNCHANGED <<status, jobs, started, rotated>>

CheckRunning(run) ==
  IF ShouldPatchCheckerRunningStatus
    THEN ThenPatch(Status("Unknown", "running", run), Soon)
    ELSE Return(Soon)

NoReportYet(run) == ~ Found("repair", run) /\ ~ Found("check", run)

CreateCheckerJob(run) ==
  /\ NoReportYet(run)
  /\ Take
  /\ CreateJob(Key("check", run))
  /\ CheckRunning(run)
  /\ rotated' = FALSE
  /\ UNCHANGED status

\* Wrong on purpose: a checker Job that completed is taken for a healthy check.
BadObserveCheckerJob(run) ==
  LET seen == jobView[Key("check", run)]
      next == NextInterval(run) IN
  /\ NoReportYet(run)
  /\ seen # "absent"
  /\ Take
  /\ CASE seen \in {"failed", "timedOut"} ->
              ThenPatch(Status("CheckFailed", "jobFailed", run), next)
       [] seen = "complete" -> ThenPatch(Status("Healthy", "noReport", run), next)
       [] OTHER             -> CheckRunning(run)
  /\ UNCHANGED <<status, jobs, started, rotated>>

ObserveCheckerJob(run) ==
  LET seen == jobView[Key("check", run)]
      next == NextInterval(run) IN
  /\ NoReportYet(run)
  /\ seen # "absent"
  /\ Take
  /\ CASE seen = "failed"   -> ThenPatch(Status("CheckFailed", "jobFailed", run), next)
       [] seen = "timedOut" -> ThenPatch(Status("CheckFailed", "timedOut", run), next)
       [] seen = "complete" -> ThenPatch(Status("CheckFailed", "noReport", run), next)
       [] OTHER             -> CheckRunning(run)
  /\ UNCHANGED <<status, jobs, started, rotated>>

Reconcile ==
  /\ \/ ReconcileRepairReport(CurrentRun)
     \/ ReconcileCheckReport(CurrentRun)
     \/ CreateRepairJob(CurrentRun)
     \/ ObserveRepairJob(CurrentRun)
     \/ CreateCheckerJob(CurrentRun)
     \/ ObserveCheckerJob(CurrentRun)
  /\ UNCHANGED <<specVars, reports, viewVars, faults, earned>>

\* The patch itself.  Changing the object is an Invariant event that queues the
\* next reconcile; when only lastCheckedAt could differ, the object changes or
\* not depending on whether a second has passed.
PatchStatus ==
  /\ plan # NoPlan
  /\ status' = plan.status
  /\ queued' \in IF plan.status = status THEN {queued, TRUE} ELSE {TRUE}
  /\ wake' = Earlier(wake, plan.requeue)
  /\ plan' = NoPlan
  /\ UNCHANGED <<specVars, clusterVars, viewVars, faults, historyVars>>

\* Wrong on purpose: the error of a failed patch is dropped.
BadPatchFails ==
  /\ "crash" \in Disturbances
  /\ plan # NoPlan
  /\ faults < MaxFaults
  /\ faults' = faults + 1
  /\ plan' = NoPlan
  /\ UNCHANGED <<status, queued, wake, specVars, clusterVars, viewVars, historyVars>>

\* The patch fails: the error requeues the Invariant, the result is dropped.
PatchFails ==
  /\ "crash" \in Disturbances
  /\ plan # NoPlan
  /\ faults < MaxFaults
  /\ faults' = faults + 1
  /\ plan' = NoPlan
  /\ queued' = TRUE
  /\ UNCHANGED <<status, wake, specVars, clusterVars, viewVars, historyVars>>

\* The operator Pod restarts: the queue and its timers are gone, the caches are
\* read anew and every Invariant is queued.
CrashOperator ==
  /\ "crash" \in Disturbances
  /\ faults < MaxFaults
  /\ faults' = faults + 1
  /\ plan' = NoPlan
  /\ wake' = NoWake
  /\ queued' = TRUE
  /\ jobView' = Visible(jobs)
  /\ reportView' = reports
  /\ UNCHANGED <<status, specVars, clusterVars, historyVars>>

\* A delayed requeue comes due.
FireWake ==
  /\ wake <= clock
  /\ wake' = NoWake
  /\ queued' = TRUE
  /\ UNCHANGED <<status, plan, specVars, clusterVars, viewVars, faults, historyVars>>

\* The Job informer catches up; a change of an owned Job queues its Invariant.
SyncJobs ==
  /\ jobView # Visible(jobs)
  /\ jobView' = Visible(jobs)
  /\ queued' = TRUE
  /\ UNCHANGED <<status, wake, plan, specVars, clusterVars, reportView, faults, historyVars>>

\* The ConfigMap informer catches up; ConfigMaps are not watched for events.
SyncReports ==
  /\ reportView # reports
  /\ reportView' = reports
  /\ UNCHANGED <<operatorVars, specVars, clusterVars, jobView, faults, historyVars>>

-----------------------------------------------------------------------------
(***************************************************************************)
(* The workers.                                                            *)
(***************************************************************************)

JobsLag == Cardinality({k \in Keys : jobView[k] # Visible(jobs)[k]})
ReportsLag == Cardinality({k \in Keys : reportView[k] # reports[k]})

\* check-job and repair-job write their report before they exit 0, and replace
\* an older one of the same name.
Publish(key, phase) ==
  /\ ReportsLag <= MaxLag
  /\ jobs[key] = "running"
  /\ phase \in ReportPhases(key.kind)
  /\ jobs' = [jobs EXCEPT ![key] = "published"]
  /\ reports' = [reports EXCEPT ![key] = phase]
  /\ earned' = earned \cup {<<key, phase>>}
  /\ UNCHANGED <<operatorVars, specVars, viewVars, faults, started, rotated>>

Complete(key) ==
  /\ JobsLag <= MaxLag
  /\ jobs[key] = "published"
  /\ jobs' = [jobs EXCEPT ![key] = "complete"]
  /\ UNCHANGED <<operatorVars, specVars, reports, viewVars, faults, historyVars>>

\* backoffLimit 0: a crashed Pod, before or after the report, fails the Job;
\* activeDeadlineSeconds ends it with reason DeadlineExceeded.
FailJob(key) ==
  /\ JobsLag <= MaxLag
  /\ faults < MaxFaults
  /\ jobs[key] \in {"running", "published"}
  /\ \E end \in Outcomes \cap {"failed", "timedOut"} : jobs' = [jobs EXCEPT ![key] = end]
  /\ faults' = faults + 1
  /\ UNCHANGED <<operatorVars, specVars, reports, viewVars, historyVars>>

\* ttlSecondsAfterFinished: the Job is removed, its report stays.
RemoveJob(key) ==
  /\ JobsLag + ReportsLag <= MaxLag
  /\ jobs[key] \in Finished
  /\ jobs' = [jobs EXCEPT ![key] = "absent"]
  /\ UNCHANGED <<operatorVars, specVars, reports, viewVars, faults, historyVars>>

-----------------------------------------------------------------------------
(***************************************************************************)
(* Users and time.                                                         *)
(***************************************************************************)

Tick ==
  /\ clock < MaxSlot
  /\ clock' = clock + 1
  /\ UNCHANGED <<operatorVars, generation, policy, resolvable, clusterVars,
                 viewVars, faults, historyVars>>

EditSpec ==
  /\ generation < MaxGeneration
  /\ generation' = generation + 1
  /\ queued' = TRUE
  /\ UNCHANGED <<status, wake, plan, clock, policy, resolvable, clusterVars,
                 viewVars, faults, historyVars>>

\* RepairPolicies are not watched.
ChangePolicy ==
  /\ "policy" \in Disturbances
  /\ policy' = ~ policy
  /\ UNCHANGED <<operatorVars, clock, generation, resolvable, clusterVars,
                 viewVars, faults, historyVars>>

\* The DerivedView or DataSource is deleted or re-created: a watched event.
ChangeTopology ==
  /\ "topology" \in Disturbances
  /\ \/ resolvable /\ faults < MaxFaults /\ faults' = faults + 1
     \/ ~ resolvable /\ UNCHANGED faults
  /\ resolvable' = ~ resolvable
  /\ queued' = TRUE
  /\ UNCHANGED <<status, wake, plan, clock, generation, policy, clusterVars,
                 viewVars, historyVars>>

\* A referenced Secret changes: a watched event.
RotateCredentials ==
  /\ "rotate" \in Disturbances
  /\ queued' = TRUE
  /\ rotated' = TRUE
  /\ UNCHANGED <<status, wake, plan, specVars, clusterVars, viewVars, faults,
                 earned, started>>

\* The Invariant is deleted with its Jobs (foreground) and applied again: a new
\* object whose generation is 1.  The report ConfigMaps have no owner and stay.
\* Abstraction: not while a patch is in flight.
Recreate ==
  /\ "recreate" \in Disturbances
  /\ faults < MaxFaults
  /\ faults' = faults + 1
  /\ plan = NoPlan
  /\ generation' = 1
  /\ status' = NoStatus
  /\ jobs' = [k \in Keys |-> "absent"]
  /\ queued' = TRUE
  /\ earned' = {}
  /\ started' = {}
  /\ rotated' = FALSE
  /\ UNCHANGED <<wake, plan, clock, policy, resolvable, reports, viewVars>>

-----------------------------------------------------------------------------
Operator ==
  \/ Reconcile \/ PatchStatus \/ PatchFails \/ CrashOperator
  \/ FireWake \/ SyncJobs \/ SyncReports

Worker(key) ==
  \/ \E phase \in ReportPhases(key.kind) : Publish(key, phase)
  \/ Complete(key)
  \/ FailJob(key)
  \/ RemoveJob(key)

Environment ==
  Tick \/ EditSpec \/ ChangePolicy \/ ChangeTopology \/ RotateCredentials \/ Recreate

Next == Operator \/ (\E key \in Keys : Worker(key)) \/ Environment

Spec == Init /\ [][Next]_vars

(***************************************************************************)
(* What the deployment schedules: the work queue, the informers and the    *)
(* status patch make progress; a Job runs to an end (activeDeadlineSeconds *)
(* bounds it) and is removed after its TTL.  Users and time owe nothing.   *)
(***************************************************************************)
Fairness ==
  /\ WF_vars(Reconcile)
  /\ WF_vars(PatchStatus)
  /\ WF_vars(FireWake)
  /\ WF_vars(SyncJobs)
  /\ WF_vars(SyncReports)
  /\ \A key \in Keys :
       /\ WF_vars(\E phase \in ReportPhases(key.kind) : Publish(key, phase))
       /\ WF_vars(Complete(key))
       /\ WF_vars(RemoveJob(key))

FairSpec == Spec /\ Fairness

-----------------------------------------------------------------------------
(***************************************************************************)
(* Properties.                                                             *)
(***************************************************************************)
TypeOK ==
  /\ clock \in Slots
  /\ generation \in Generations
  /\ status \in Statuses
  /\ policy \in BOOLEAN
  /\ resolvable \in BOOLEAN
  /\ jobs \in [Keys -> JobStates]
  /\ reports \in [Keys -> CheckPhases \cup RepairPhases \cup {"none"}]
  /\ jobView \in [Keys -> JobStates]
  /\ reportView \in [Keys -> CheckPhases \cup RepairPhases \cup {"none"}]
  /\ queued \in BOOLEAN
  /\ wake \in WakeTimes
  /\ plan \in Plans
  /\ faults \in 0 .. MaxFaults
  /\ earned \in SUBSET (Keys \X (CheckPhases \cup RepairPhases))
  /\ started \in SUBSET Keys
  /\ rotated \in BOOLEAN

KindOf(s) == IF s.why = "repairReport" THEN "repair" ELSE "check"

Earned(s) ==
  /\ s.phase = "Healthy" => s.why \in FromReport
  /\ s.why \in FromReport => <<Key(KindOf(s), s), s.phase>> \in earned

\* A Healthy status, and every other verdict that claims to come from a report,
\* names a run whose Job published exactly that verdict for this Invariant
\* object: never the verdict of another run, of an earlier object or of no run
\* (reconcileJobBackedInvariant, statusFromReportConfigMap).
VerdictIsEarned == Earned(status)

\* A repair Job exists only for a run whose own checker reported drift
\* (reconcileRepairForDrift), whatever the caches, the clock and the Job TTL did.
RepairFollowsDrift ==
  \A run \in Runs :
    Key("repair", run) \in started => <<Key("check", run), "DriftDetected">> \in earned

\* The operator never forgets a scheduled Invariant: when it is idle, a requeue is
\* pending, or a Job event is still to come because the cache is behind or
\* because a repair Job exists and its removal will be seen.
NoLostWakeup ==
  plan = NoPlan /\ ~ queued /\ generation \in Scheduled =>
    \/ wake # NoWake
    \/ jobView # Visible(jobs)
    \/ \E run \in Runs : jobs[Key("repair", run)] # "absent"

\* When nothing is left that could wake the operator, the status is a verdict on
\* the current generation of an unscheduled Invariant and no progress note.
QuietMeansVerdict ==
  /\ plan = NoPlan
  /\ ~ queued
  /\ wake = NoWake
  /\ jobView = Visible(jobs)
  /\ \A k \in Keys : jobs[k] = "absent"
  /\ generation \notin Scheduled
  => status.gen = generation /\ status.why # "running"

\* The reconcile loop implements CheckCycle: whatever the caches, the queue, crashes
\* and slow patches do, a reader of Invariant.status sees only steps of that cycle
\* (reconcileJobBackedInvariant, reconcileRepairForDrift, patchInvariantStatus).
Cycle == INSTANCE CheckCycle
  WITH current <- CurrentRun, begun <- started, published <- earned, shown <- status

ImplementsCheckCycle == Cycle!Spec

\* README.md:465 "Go operator requeues scheduled invariants for the next check
\* interval": an idle operator with no Job running holds a delayed requeue.
RequeuedForNextInterval ==
  /\ plan = NoPlan
  /\ ~ queued
  /\ generation \in Scheduled
  /\ jobView = Visible(jobs)
  /\ \A k \in Keys : jobs[k] \notin {"running", "published"}
  => wake # NoWake

\* What the operator says about the Invariant never goes back to an older spec or
\* an older slot (currentCheckRun, BuildCheckerJobWithEnv's --check-id).
RunsMoveForward ==
  [][status' = NoStatus \/ status'.gen > status.gen
     \/ (status'.gen = status.gen /\ status'.slot >= status.slot)]_status

\* Once the verdict of a repair is in the status, the same run never falls back to
\* its drift report or to Repairing (the repair report is read first, line 93).
RepairVerdictSticks ==
  [][status.why = "repairReport" /\ status'.gen = status.gen /\ status'.slot = status.slot
     => status'.why = "repairReport"]_status

\* A check that is only running never hides the last settled verdict
\* (shouldPatchCheckerRunningStatus).
SettledVerdictNotHidden ==
  [][status.phase \in {"Healthy", "DriftDetected"}
     => ~ (status'.phase = "Unknown" /\ status'.why = "running")]_status

Verdict(g) == status.gen = g /\ status.why # "running"

\* Every generation that stays current gets a verdict: a report, or a failure of
\* the Job that should have written it.  The exception is an Invariant whose
\* DerivedView or DataSource is missing: resolveCheckerEnv returns an error and
\* the status stays as it is.
EveryGenerationGetsVerdict ==
  \A g \in Generations :
    (generation = g) ~> (generation # g \/ Verdict(g) \/ ~ resolvable)

\* A published report of the current run is not lost: the status ends up with the
\* verdict of a report although the Job may have been judged before the report
\* was seen, unless a repair of that drift was started.
PublishedReportWins ==
  \A run \in Runs :
    (CurrentRun = run /\ reports[Key("check", run)] # "none")
      ~> \/ CurrentRun # run
         \/ status.gen = run.gen /\ status.why \in FromReport
         \/ Key("repair", run) \in started
         \/ ~ resolvable

DriftReported(run) ==
  CurrentRun = run /\ reports[Key("check", run)] = "DriftDetected"
DriftAnswered(run) ==
  \/ ~ DriftReported(run)
  \/ Key("repair", run) \in started
  \/ reports[Key("repair", run)] # "none"
  \/ ~ resolvable

\* Drift of the current run is answered by a repair Job while a policy allows it
\* throughout, whatever crashes, stale caches and re-queued reconciles intervene.
DriftGetsRepair ==
  []policy => \A run \in Runs : DriftReported(run) ~> DriftAnswered(run)

\* docs/ARCHITECTURE.md:371 "rotated credentials trigger fresh checker Jobs instead
\* of waiting for the next interval".
RotationTriggersCheck == rotated ~> ~ rotated
=============================================================================
