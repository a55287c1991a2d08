--------------------------- MODULE ScanCheckpoint ---------------------------
(***************************************************************************)
(* Checkpointed query checks: check_query_invariant (checker.py), the      *)
(* keyset scan it drives (execute_source_query_keyset, db.py), the shared  *)
(* checkpoint it resumes from and advances (checkpoints.py), and the       *)
(* report the Job publishes about what it compared (cli.py).               *)
(*                                                                         *)
(* Several Jobs may run at once: the operator starts a Job per interval    *)
(* slot and does not wait for the Job of an older slot, and a repair Job   *)
(* verifies with the same arguments.  They share one checkpoint, which     *)
(* has neither a lock nor a version.                                       *)
(*                                                                         *)
(* A row is its key.  A page is one SQL statement, so the source and the   *)
(* other Jobs may move between pages.  Each call that reads or writes the  *)
(* checkpoint store is a step of its own.                                  *)
(***************************************************************************)
EXTENDS Naturals, FiniteSets

CONSTANTS
  Workers,     \* slots in which Jobs run
  MaxKey,      \* bound: row keys 1..MaxKey, in the order of the key field
  PageSize,    \* --source-scan-page-size
  MaxQuery,    \* bound: versions 1..MaxQuery of the Invariant's queries
  MaxPages,    \* --source-max-pages in each version, 0 for no limit
  MaxChanges,  \* bound: changes of source rows and target documents
  MaxCrashes,  \* bound: Jobs that die
  ResetAllowed \* someone may run a check with --source-reset-checkpoint

ASSUME ScanAssumption ==
  /\ MaxKey \in Nat
  /\ PageSize \in Nat \ {0}
  /\ MaxQuery \in Nat \ {0}
  /\ MaxPages \in [1 .. MaxQuery -> Nat]
  /\ MaxChanges \in Nat
  /\ MaxCrashes \in Nat
  /\ ResetAllowed \in BOOLEAN

Keys == 1 .. MaxKey
Marks == 0 .. MaxKey      \* a last_key, 0 when there is none
Queries == 1 .. MaxQuery

(***************************************************************************)
(* The checkpoint document: which query it belongs to (query_hash), its    *)
(* last_key, and whether it exists.                                        *)
(***************************************************************************)
NoCheckpoint == [query |-> 0, last |-> 0]
Checkpoints == [query : 0 .. MaxQuery, last : Marks]

Kinds == {"check", "repair"}
Phases == {"Healthy", "DriftDetected", "Unknown", "CheckFailed", "RepairFailed"}
NoReport == [phase |-> "None", missing |-> {}, overlooked |-> {}]

(***************************************************************************)
(* A Job between two of its calls.  It is about to: query the next page,   *)
(* save the page's checkpoint, save the final one, compare with the        *)
(* target, read the checkpoint to add its report_ref, write it back, or    *)
(* publish.  Fields it does not need any more go back to their first value.*)
(***************************************************************************)
Stages == {"idle", "repair", "load", "scan", "save", "close", "compare", "readRef",
           "writeRef", "publish"}
Idle == [at |-> "idle", kind |-> "check", reset |-> FALSE, query |-> 1, resume |-> 0,
         last |-> 0, rows |-> {}, pages |-> 0, more |-> TRUE, completed |-> TRUE,
         missing |-> {}, held |-> NoCheckpoint, stable |-> {}, overlooked |-> {}]

VARIABLES
  source,      \* keys the source query selects
  target,      \* keys the target query selects
  query,       \* the version of the queries in the Invariant's spec
  checkpoint,  \* the stored checkpoint document
  job,         \* the Job of each worker
  report,      \* the report published last
  changes,     \* changes spent
  crashes      \* crashes spent

VARIABLES      \* history, read by the properties only
  old,         \* initial source rows that were never removed
  seen         \* <<query, key>>: rows some Job has read

dataVars == <<source, target, query, old, changes>>
vars == <<source, target, query, checkpoint, job, report, changes, crashes, old, seen>>

Init ==
  /\ source \in SUBSET Keys
  /\ target \in SUBSET source
  /\ query = 1
  /\ checkpoint = NoCheckpoint
  /\ job = [w \in Workers |-> Idle]
  /\ report = NoReport
  /\ changes = 0
  /\ crashes = 0
  /\ old = source
  /\ seen = {}

-----------------------------------------------------------------------------
(***************************************************************************)
(* The Job.                                                                *)
(***************************************************************************)
Become(w, j) == job' = [job EXCEPT ![w] = j]

StartCheck(w) ==
  /\ job[w].at = "idle"
  /\ \E reset \in {FALSE, ResetAllowed} :
       Become(w, [Idle EXCEPT !.at = "load", !.query = query, !.reset = reset])
  /\ UNCHANGED <<dataVars, checkpoint, report, crashes, seen>>

\* The operator starts a repair Job on a report of drift.
StartRepair(w) ==
  /\ job[w].at = "idle"
  /\ report.phase = "DriftDetected"
  /\ Become(w, [Idle EXCEPT !.at = "repair", !.kind = "repair", !.query = query,
                            !.missing = report.missing])
  /\ UNCHANGED <<dataVars, checkpoint, report, crashes, seen>>

\* Wrong on purpose: documents are written back from the report alone.
BadRewritable(w) == job[w].missing

\* The rows of the report that still exist.
Rewritable(w) == job[w].missing \cap source

\* direct-reindex writes them one by one; the other modes only ask the owner of the
\* pipeline to do so.
Repair(w) ==
  /\ job[w].at = "repair"
  /\ \E fixed \in SUBSET Rewritable(w) : target' = target \cup fixed
  /\ Become(w, [job[w] EXCEPT !.at = "load", !.missing = {}])
  /\ UNCHANGED <<source, query, old, changes, checkpoint, report, crashes, seen>>

\* Wrong on purpose: the query of the checkpoint is not compared.
BadAcceptable(w) == TRUE

\* A checkpoint of another query is refused.
Acceptable(w) ==
  \/ job[w].reset
  \/ checkpoint.query \in {0, job[w].query}

\* Wrong on purpose: the scan resumes one key late.
BadResumeAfter(w) == IF job[w].reset THEN 0 ELSE checkpoint.last + 1

ResumeAfter(w) == IF job[w].reset THEN 0 ELSE checkpoint.last

LoadCheckpoint(w) ==
  /\ job[w].at = "load"
  /\ Acceptable(w)
  /\ Become(w, [job[w] EXCEPT !.at = "scan", !.resume = ResumeAfter(w),
                              !.last = ResumeAfter(w), !.stable = source,
                              !.reset = FALSE])
  /\ UNCHANGED <<dataVars, checkpoint, report, crashes, seen>>

\* The exception becomes a CheckFailed report of a check; a repair Job fails.
RefuseCheckpoint(w) ==
  /\ job[w].at = "load"
  /\ ~ Acceptable(w)
  /\ report' = IF job[w].kind = "check" THEN [NoReport EXCEPT !.phase = "CheckFailed"]
                                        ELSE report
  /\ Become(w, Idle)
  /\ UNCHANGED <<dataVars, checkpoint, crashes, seen>>

Rest(w) == {k \in source : k > job[w].last}

\* where key > last_key order by key limit PageSize
Page(w) == {k \in Rest(w) : Cardinality({j \in Rest(w) : j < k}) < PageSize}

Limited(w) == LET limit == MaxPages[job[w].query] IN limit > 0 /\ job[w].pages >= limit

StopAtMaxPages(w) ==
  /\ job[w].at = "scan"
  /\ Limited(w)
  /\ Become(w, [job[w] EXCEPT !.at = "close", !.completed = FALSE])
  /\ UNCHANGED <<dataVars, checkpoint, report, crashes, seen>>

ReadPage(w) ==
  /\ job[w].at = "scan"
  /\ ~ Limited(w)
  /\ Page(w) # {}
  /\ \E last \in Page(w) :
       /\ \A k \in Page(w) : k <= last
       /\ Become(w, [job[w] EXCEPT !.at = "save", !.rows = @ \cup Page(w), !.last = last,
                                   !.pages = @ + 1,
                                   !.more = Cardinality(Page(w)) = PageSize])
  /\ seen' = seen \cup {<<job[w].query, k>> : k \in Page(w)}
  /\ UNCHANGED <<dataVars, checkpoint, report, crashes>>

ReachEnd(w) ==
  /\ job[w].at = "scan"
  /\ ~ Limited(w)
  /\ Page(w) = {}
  /\ Become(w, [job[w] EXCEPT !.at = "close"])
  /\ UNCHANGED <<dataVars, checkpoint, report, crashes, seen>>

\* on_page: the checkpoint moves before the page is compared.
SavePage(w) ==
  /\ job[w].at = "save"
  /\ checkpoint' = [query |-> job[w].query, last |-> job[w].last]
  /\ Become(w, [job[w] EXCEPT !.at = IF job[w].more THEN "scan" ELSE "close"])
  /\ UNCHANGED <<dataVars, report, crashes, seen>>

SaveFinal(w) ==
  /\ job[w].at = "close"
  /\ checkpoint' = [query |-> job[w].query, last |-> job[w].last]
  /\ Become(w, [job[w] EXCEPT !.at = "compare", !.last = 0, !.pages = 0, !.more = TRUE])
  /\ UNCHANGED <<dataVars, report, crashes, seen>>

\* Wrong on purpose: a resumed scan that reached the end counts as complete.
BadPartial(j) == ~ j.completed

\* check_status is "partial".
Partial(j) == j.resume # 0 \/ ~ j.completed

\* The target query runs after the scan; rows are compared in memory.
Compare(w) ==
  /\ job[w].at = "compare"
  /\ Become(w, [job[w] EXCEPT !.at = "readRef", !.missing = job[w].rows \ target,
                              !.overlooked = IF Partial(job[w]) THEN {}
                                             ELSE job[w].stable \ target,
                              !.rows = {}, !.stable = {}])
  /\ UNCHANGED <<dataVars, checkpoint, report, crashes, seen>>

\* update_checkpoint_report_ref reads the whole document and writes it back.
ReadForReportRef(w) ==
  /\ job[w].at = "readRef"
  /\ Become(w, [job[w] EXCEPT !.at = "writeRef", !.held = checkpoint])
  /\ UNCHANGED <<dataVars, checkpoint, report, crashes, seen>>

WriteReportRef(w) ==
  /\ job[w].at = "writeRef"
  /\ checkpoint' = job[w].held
  /\ Become(w, [job[w] EXCEPT !.at = "publish", !.held = NoCheckpoint])
  /\ UNCHANGED <<dataVars, report, crashes, seen>>

\* DriftReport.status, and build_repair_job_result for a repair Job.
Phase(j) ==
  LET healthy == ~ Partial(j) /\ j.missing = {} IN
  CASE healthy -> "Healthy"
    [] ~ healthy /\ j.kind = "repair" -> "RepairFailed"
    [] ~ healthy /\ j.kind = "check" /\ Partial(j) -> "Unknown"
    [] ~ healthy /\ j.kind = "check" /\ ~ Partial(j) -> "DriftDetected"

\* Abstraction: of a report only what is read again is kept.
Publish(w) ==
  /\ job[w].at = "publish"
  /\ LET phase == Phase(job[w]) IN
     report' = [phase |-> phase,
                missing |-> IF phase \in {"DriftDetected", "RepairFailed"}
                              THEN job[w].missing ELSE {},
                overlooked |-> IF phase = "Healthy" THEN job[w].overlooked ELSE {}]
  /\ Become(w, Idle)
  /\ UNCHANGED <<dataVars, checkpoint, crashes, seen>>

\* The Pod dies or the Job's deadline passes.
Crash(w) ==
  /\ crashes < MaxCrashes
  /\ job[w].at # "idle"
  /\ crashes' = crashes + 1
  /\ Become(w, Idle)
  /\ UNCHANGED <<dataVars, checkpoint, report, seen>>

-----------------------------------------------------------------------------
(***************************************************************************)
(* The application and its pipeline.                                       *)
(***************************************************************************)
Change == changes < MaxChanges /\ changes' = changes + 1

InsertRow(k) ==
  /\ Change
  /\ k \notin source
  /\ source' = source \cup {k}
  /\ UNCHANGED <<target, query, old, checkpoint, job, report, crashes, seen>>

\* The row is deleted, or no longer selected by the query.
RemoveRow(k) ==
  /\ Change
  /\ k \in source
  /\ source' = source \ {k}
  /\ old' = old \ {k}
  /\ job' = [w \in Workers |-> [job[w] EXCEPT !.stable = @ \ {k}]]
  /\ UNCHANGED <<target, query, checkpoint, report, crashes, seen>>

IndexRow(k) ==
  /\ Change
  /\ k \in source \ target
  /\ target' = target \cup {k}
  /\ UNCHANGED <<source, query, old, checkpoint, job, report, crashes, seen>>

LoseDocument(k) ==
  /\ Change
  /\ k \in target
  /\ target' = target \ {k}
  /\ UNCHANGED <<source, query, old, checkpoint, job, report, crashes, seen>>

EditQuery ==
  /\ query < MaxQuery
  /\ query' = query + 1
  /\ UNCHANGED <<source, target, old, changes, checkpoint, job, report, crashes, seen>>

-----------------------------------------------------------------------------
Job(w) ==
  \/ StartCheck(w) \/ StartRepair(w) \/ Repair(w)
  \/ LoadCheckpoint(w) \/ RefuseCheckpoint(w)
  \/ StopAtMaxPages(w) \/ ReadPage(w) \/ ReachEnd(w) \/ SavePage(w) \/ SaveFinal(w)
  \/ Compare(w) \/ ReadForReportRef(w) \/ WriteReportRef(w) \/ Publish(w)
  \/ Crash(w)

Data ==
  \/ \E k \in Keys : InsertRow(k) \/ RemoveRow(k) \/ IndexRow(k) \/ LoseDocument(k)
  \/ EditQuery

Next == (\E w \in Workers : Job(w)) \/ Data

Spec == Init /\ [][Next]_vars

-----------------------------------------------------------------------------
(***************************************************************************)
(* Properties.                                                             *)
(***************************************************************************)
Jobs == [at : Stages, kind : Kinds, reset : BOOLEAN, query : Queries, resume : Marks,
         last : Marks, rows : SUBSET Keys, pages : Nat, more : BOOLEAN,
         completed : BOOLEAN, missing : SUBSET Keys, held : Checkpoints,
         stable : SUBSET Keys, overlooked : SUBSET Keys]
Reports == [phase : Phases \cup {"None"}, missing : SUBSET Keys, overlooked : SUBSET Keys]

TypeOK ==
  /\ source \in SUBSET Keys
  /\ target \in SUBSET Keys
  /\ query \in Queries
  /\ checkpoint \in Checkpoints
  /\ job \in [Workers -> Jobs]
  /\ report \in Reports
  /\ changes \in 0 .. MaxChanges
  /\ crashes \in 0 .. MaxCrashes
  /\ old \in SUBSET Keys
  /\ seen \in SUBSET (Queries \X Keys)

\* A Healthy report overlooks nothing: every row that was in the source from the
\* load of the checkpoint until the target was read was found in the target, no
\* matter how pages, other Jobs and changes of the source interleave
\* (check_query_invariant, execute_source_query_keyset).
HealthyOverlooksNothing == report.phase = "Healthy" => report.overlooked = {}

Covered(q, last) == \A k \in old : k <= last => <<q, k>> \in seen

\* The checkpoint never claims more than was read: every row which has been there
\* all along and lies at or before last_key was read by some Job for the query the
\* checkpoint belongs to (save_checkpoint, load_scan_checkpoint).
CheckpointCovered == Covered(checkpoint.query, checkpoint.last)

\* README.md:85 "long scans can be bounded per run without losing the last
\* processed key": the stored last_key of a query never moves back.
LastKeyNotLost ==
  [][checkpoint'.query = checkpoint.query => checkpoint'.last >= checkpoint.last]_checkpoint

-----------------------------------------------------------------------------
(***************************************************************************)
(* What the checks promise (ScanPromise): to a reader of that module a     *)
(* check begins when its checkpoint is loaded and has its verdict from the *)
(* moment it has read the target.                                          *)
(***************************************************************************)
Verdict(j) ==
  IF Partial(j) THEN "open" ELSE IF j.missing = {} THEN "clean" ELSE "drift"

Standing(j) ==
  CASE j.at \in {"idle", "repair", "load"} -> "idle"
    [] j.at \in {"scan", "save", "close", "compare"} -> "looking"
    [] j.at \in {"readRef", "writeRef", "publish"} -> Verdict(j)

Promise ==
  INSTANCE ScanPromise WITH
    claim <- checkpoint,
    looked <- seen,
    stayed <- old,
    standing <- [w \in Workers |-> Standing(job[w])],
    window <- [w \in Workers |-> job[w].stable],
    shown <- report.phase

\* Paging, resuming, the shared checkpoint and its rewrite, crashes, query edits and
\* changes of the data together keep that promise (check_query_invariant,
\* execute_source_query_keyset, save_checkpoint, repair_from_payload).
ImplementsScanPromise == Promise!Spec

\* cli.py:705 gives "repair verification still found drift" as the reason of every
\* RepairFailed report: such a report names a row that is missing.
RepairFailedMeansDrift == report.phase = "RepairFailed" => report.missing # {}
=============================================================================
