------------------------ MODULE ScanCheckpointProofs ------------------------
(***************************************************************************)
(* Theorems about ScanCheckpoint for every value of its constants.         *)
(***************************************************************************)
EXTENDS ScanCheckpoint, FiniteSetTheorems, WellFoundedInduction, TLAPS

LEMMA IdleType == Idle \in Jobs /\ Idle.last = 0 /\ Idle.held = NoCheckpoint
BY ScanAssumption
   DEF Idle, Jobs, Stages, Kinds, Queries, Marks, Checkpoints, NoCheckpoint

LEMMA ZeroType == 0 \in Marks /\ NoCheckpoint \in Checkpoints
BY ScanAssumption DEF Marks, NoCheckpoint, Checkpoints

LEMMA BecomeType ==
  ASSUME TypeOK, NEW w \in Workers, NEW j \in Jobs, Become(w, j)
  PROVE  job' \in [Workers -> Jobs]
BY DEF TypeOK, Become

LEMMA ReportType ==
  /\ NoReport \in Reports
  /\ [NoReport EXCEPT !.phase = "CheckFailed"] \in Reports
BY DEF NoReport, Reports, Phases

LEMMA PhaseType == ASSUME NEW j \in Jobs PROVE Phase(j) \in Phases
BY DEF Phase, Phases, Jobs, Kinds

LEMMA InitType == Init => TypeOK
<1> SUFFICES ASSUME Init PROVE TypeOK
  OBVIOUS
<1>1. query \in Queries /\ checkpoint \in Checkpoints
  BY ScanAssumption DEF Init, Queries, NoCheckpoint, Checkpoints, Marks
<1>2. job \in [Workers -> Jobs]
  BY IdleType DEF Init
<1>3. report \in Reports
  BY ReportType DEF Init
<1> QED
  BY <1>1, <1>2, <1>3, ScanAssumption DEF Init, TypeOK

LEMMA JobType ==
  ASSUME TypeOK, NEW w \in Workers, Job(w)
  PROVE  TypeOK'
<1> DEFINE j == job[w]
<1>0. j \in Jobs
  BY DEF TypeOK
<1>1. CASE StartCheck(w)
  <2>1. PICK reset \in {FALSE, ResetAllowed} :
          Become(w, [Idle EXCEPT !.at = "load", !.query = query, !.reset = reset])
    BY <1>1 DEF StartCheck
  <2>2. [Idle EXCEPT !.at = "load", !.query = query, !.reset = reset] \in Jobs
    BY IdleType, ScanAssumption DEF TypeOK, Jobs, Stages
  <2> QED
    BY <1>1, <2>1, <2>2, BecomeType DEF StartCheck, TypeOK, dataVars
<1>2. CASE StartRepair(w)
  <2>1. [Idle EXCEPT !.at = "repair", !.kind = "repair", !.query = query,
                     !.missing = report.missing] \in Jobs
    BY IdleType DEF TypeOK, Jobs, Stages, Kinds, Reports
  <2> QED
    BY <1>2, <2>1, BecomeType DEF StartRepair, TypeOK, dataVars
<1>3. CASE Repair(w)
  <2>1. [j EXCEPT !.at = "load", !.missing = {}] \in Jobs
    BY <1>0 DEF Jobs, Stages
  <2>2. target' \in SUBSET Keys
    BY <1>3 DEF Repair, Rewritable, TypeOK
  <2> QED
    BY <1>3, <2>1, <2>2, BecomeType DEF Repair, TypeOK
<1>4. CASE LoadCheckpoint(w)
  <2>1. ResumeAfter(w) \in Marks
    BY ScanAssumption DEF ResumeAfter, TypeOK, Marks, Checkpoints
  <2>2. [j EXCEPT !.at = "scan", !.resume = ResumeAfter(w), !.last = ResumeAfter(w),
                  !.stable = source, !.reset = FALSE] \in Jobs
    BY <1>0, <2>1 DEF TypeOK, Jobs, Stages
  <2> QED
    BY <1>4, <2>2, BecomeType DEF LoadCheckpoint, TypeOK, dataVars
<1>5. CASE RefuseCheckpoint(w)
  <2>1. report' \in Reports
    BY <1>5, ReportType DEF RefuseCheckpoint, TypeOK
  <2> QED
    BY <1>5, <2>1, IdleType, BecomeType DEF RefuseCheckpoint, TypeOK, dataVars
<1>6. CASE StopAtMaxPages(w)
  <2>1. [j EXCEPT !.at = "close", !.completed = FALSE] \in Jobs
    BY <1>0 DEF Jobs, Stages
  <2> QED
    BY <1>6, <2>1, BecomeType DEF StopAtMaxPages, TypeOK, dataVars
<1>7. CASE ReadPage(w)
  <2>1. Page(w) \in SUBSET Keys
    BY DEF Page, Rest, TypeOK
  <2>2. PICK last \in Page(w) :
          Become(w, [j EXCEPT !.at = "save", !.rows = @ \cup Page(w), !.last = last,
                              !.pages = @ + 1, !.more = Cardinality(Page(w)) = PageSize])
    BY <1>7 DEF ReadPage
  <2>3. last \in Marks
    BY <2>1, ScanAssumption DEF Keys, Marks
  <2>4. [j EXCEPT !.at = "save", !.rows = @ \cup Page(w), !.last = last,
                  !.pages = @ + 1, !.more = Cardinality(Page(w)) = PageSize] \in Jobs
    <3> DEFINE full == Cardinality(Page(w)) = PageSize
    <3>1. full \in BOOLEAN /\ j.pages + 1 \in Nat /\ j.rows \cup Page(w) \in SUBSET Keys
      BY <1>0, <2>1 DEF Jobs
    <3> HIDE DEF full
    <3> QED
      BY <1>0, <2>3, <3>1 DEF Jobs, Stages, full
  <2>5. seen' \in SUBSET (Queries \X Keys)
    BY <1>0, <1>7, <2>1 DEF ReadPage, TypeOK, Jobs
  <2> QED
    BY <1>7, <2>2, <2>4, <2>5, BecomeType DEF ReadPage, TypeOK, dataVars
<1>8. CASE ReachEnd(w)
  <2>1. [j EXCEPT !.at = "close"] \in Jobs
    BY <1>0 DEF Jobs, Stages
  <2> QED
    BY <1>8, <2>1, BecomeType DEF ReachEnd, TypeOK, dataVars
<1>9. CASE SavePage(w)
  <2>1. checkpoint' \in Checkpoints
    BY <1>0, <1>9 DEF SavePage, Checkpoints, Jobs, Queries
  <2>2. [j EXCEPT !.at = IF j.more THEN "scan" ELSE "close"] \in Jobs
    BY <1>0 DEF Jobs, Stages
  <2> QED
    BY <1>9, <2>1, <2>2, BecomeType DEF SavePage, TypeOK, dataVars
<1>10. CASE SaveFinal(w)
  <2>1. checkpoint' \in Checkpoints
    BY <1>0, <1>10 DEF SaveFinal, Checkpoints, Jobs, Queries
  <2>2. [j EXCEPT !.at = "compare", !.last = 0, !.pages = 0, !.more = TRUE] \in Jobs
    BY <1>0, ZeroType DEF Jobs, Stages
  <2> QED
    BY <1>10, <2>1, <2>2, BecomeType DEF SaveFinal, TypeOK, dataVars
<1>11. CASE Compare(w)
  <2> DEFINE lost == IF Partial(j) THEN {} ELSE j.stable \ target
  <2>1. lost \in SUBSET Keys /\ j.rows \ target \in SUBSET Keys
    BY <1>0 DEF Jobs
  <2> HIDE DEF lost
  <2>2. [j EXCEPT !.at = "readRef", !.missing = j.rows \ target, !.overlooked = lost,
                  !.rows = {}, !.stable = {}] \in Jobs
    BY <1>0, <2>1 DEF Jobs, Stages
  <2> QED
    BY <1>11, <2>2, BecomeType DEF Compare, TypeOK, dataVars, lost
<1>12. CASE ReadForReportRef(w)
  <2>1. [j EXCEPT !.at = "writeRef", !.held = checkpoint] \in Jobs
    BY <1>0 DEF TypeOK, Jobs, Stages
  <2> QED
    BY <1>12, <2>1, BecomeType DEF ReadForReportRef, TypeOK, dataVars
<1>13. CASE WriteReportRef(w)
  <2>1. [j EXCEPT !.at = "publish", !.held = NoCheckpoint] \in Jobs
    BY <1>0, ZeroType DEF Jobs, Stages
  <2>2. checkpoint' \in Checkpoints
    BY <1>0, <1>13 DEF WriteReportRef, Jobs
  <2> QED
    BY <1>13, <2>1, <2>2, BecomeType DEF WriteReportRef, TypeOK, dataVars
<1>14. CASE Publish(w)
  <2>1. report' \in Reports
    BY <1>0, <1>14, PhaseType DEF Publish, Reports, Jobs
  <2> QED
    BY <1>14, <2>1, IdleType, BecomeType DEF Publish, TypeOK, dataVars
<1>15. CASE Crash(w)
  <2>1. crashes' \in 0 .. MaxCrashes
    BY <1>15, ScanAssumption DEF Crash, TypeOK
  <2> QED
    BY <1>15, <2>1, IdleType, BecomeType DEF Crash, TypeOK, dataVars
<1> QED
  BY <1>1, <1>2, <1>3, <1>4, <1>5, <1>6, <1>7, <1>8, <1>9, <1>10, <1>11, <1>12, <1>13,
     <1>14, <1>15 DEF Job

LEMMA ChangeType == ASSUME TypeOK, Change PROVE changes' \in 0 .. MaxChanges
BY ScanAssumption DEF TypeOK, Change

LEMMA DataType ==
  ASSUME TypeOK, Data
  PROVE  TypeOK'
<1>1. ASSUME NEW k \in Keys, InsertRow(k) PROVE TypeOK'
  BY <1>1, ChangeType DEF InsertRow, TypeOK
<1>2. ASSUME NEW k \in Keys, RemoveRow(k) PROVE TypeOK'
  <2>1. ASSUME NEW w \in Workers PROVE [job[w] EXCEPT !.stable = @ \ {k}] \in Jobs
    BY DEF TypeOK, Jobs
  <2> QED
    BY <1>2, <2>1, ChangeType DEF RemoveRow, TypeOK
<1>3. ASSUME NEW k \in Keys, IndexRow(k) PROVE TypeOK'
  BY <1>3, ChangeType DEF IndexRow, TypeOK
<1>4. ASSUME NEW k \in Keys, LoseDocument(k) PROVE TypeOK'
  BY <1>4, ChangeType DEF LoseDocument, TypeOK
<1>5. CASE EditQuery
  BY <1>5, ScanAssumption DEF EditQuery, TypeOK, Queries
<1> QED
  BY <1>1, <1>2, <1>3, <1>4, <1>5 DEF Data

\* Every reachable state is well typed.
THEOREM ScanTypeCorrect == Spec => []TypeOK
<1>1. TypeOK /\ [Next]_vars => TypeOK'
  <2> SUFFICES ASSUME TypeOK, [Next]_vars PROVE TypeOK'
    OBVIOUS
  <2>1. CASE UNCHANGED vars
    BY <2>1 DEF vars, TypeOK
  <2> QED
    BY <2>1, JobType, DataType DEF Next
<1> QED
  BY <1>1, InitType, PTL DEF Spec

-----------------------------------------------------------------------------
(***************************************************************************)
(* The checkpoint covers what was read.  The inductive invariant says the  *)
(* same of every other place a last_key lives in: a Job's own position in  *)
(* the scan, and the document a Job holds between reading it and writing   *)
(* it back with its report_ref.                                            *)
(***************************************************************************)
Coverage ==
  /\ old \subseteq source
  /\ CheckpointCovered
  /\ \A w \in Workers : Covered(job[w].query, job[w].last)
  /\ \A w \in Workers : Covered(job[w].held.query, job[w].held.last)

\* The rows of a page leave no row out: one that is beyond last_key but not beyond
\* the last row of the page is in the page.
LEMMA PageHasNoGap ==
  ASSUME TypeOK, NEW w \in Workers, NEW last \in Page(w), NEW k \in Rest(w), k <= last
  PROVE  k \in Page(w)
<1> DEFINE Before(m) == {i \in Rest(w) : i < m}
<1>1. Rest(w) \subseteq 1 .. MaxKey
  BY DEF Rest, TypeOK, Keys
<1>2. IsFiniteSet(1 .. MaxKey)
  BY FS_Interval, ScanAssumption
<1>3. last \in Rest(w) /\ Cardinality(Before(last)) < PageSize
  BY DEF Page
<1>4. IsFiniteSet(Before(last)) /\ IsFiniteSet(Before(k))
  BY <1>1, <1>2, FS_Subset
<1>5. Before(k) \subseteq Before(last)
  BY <1>1, <1>3
<1>6. Cardinality(Before(k)) <= Cardinality(Before(last))
  BY <1>4, <1>5, FS_Subset
<1>7. Cardinality(Before(k)) \in Nat /\ Cardinality(Before(last)) \in Nat
  BY <1>4, FS_CardinalityType
<1>8. Cardinality(Before(k)) < PageSize
  BY <1>3, <1>6, <1>7, ScanAssumption
<1> QED
  BY <1>8 DEF Page

\* What the next state has read of the rows that are still there.
StaysCovered(q, last) == \A k \in old' : k <= last => <<q, k>> \in seen'

LEMMA JobFrame ==
  ASSUME TypeOK, NEW w \in Workers, Job(w)
  PROVE  /\ source' = source
         /\ old' = old
         /\ seen \subseteq seen'
BY DEF Job, StartCheck, StartRepair, Repair, LoadCheckpoint, RefuseCheckpoint,
       StopAtMaxPages, ReadPage, ReachEnd, SavePage, SaveFinal, Compare,
       ReadForReportRef, WriteReportRef, Publish, Crash, dataVars

\* A step of one Job keeps the invariant if it keeps it at the checkpoint and at that
\* Job.
LEMMA CoverageOfStep ==
  ASSUME TypeOK, Coverage, NEW w \in Workers, Job(w), NEW j, Become(w, j),
         StaysCovered(checkpoint'.query, checkpoint'.last),
         StaysCovered(j.query, j.last),
         StaysCovered(j.held.query, j.held.last)
  PROVE  Coverage'
<1>1. old' \subseteq source'
  BY JobFrame DEF Coverage
<1>2. CheckpointCovered'
  BY DEF CheckpointCovered, Covered, StaysCovered
<1>3. ASSUME NEW v \in Workers
      PROVE  /\ Covered(job[v].query, job[v].last)'
             /\ Covered(job[v].held.query, job[v].held.last)'
  <2>1. CASE v = w
    <3>1. job'[v] = j
      BY <2>1 DEF Become, TypeOK
    <3> QED
      BY <3>1 DEF Covered, StaysCovered
  <2>2. CASE v # w
    <3>1. job'[v] = job[v]
      BY <2>2 DEF Become, TypeOK
    <3>2. /\ StaysCovered(job[v].query, job[v].last)
          /\ StaysCovered(job[v].held.query, job[v].held.last)
      BY JobFrame DEF Coverage, Covered, StaysCovered
    <3> QED
      BY <3>1, <3>2 DEF Covered, StaysCovered
  <2> QED
    BY <2>1, <2>2
<1> QED
  BY <1>1, <1>2, <1>3 DEF Coverage

LEMMA JobCoverage ==
  ASSUME TypeOK, Coverage, NEW w \in Workers, Job(w)
  PROVE  Coverage'
<1> DEFINE j == job[w]
<1>0. j \in Jobs
  BY DEF TypeOK
<1>a. /\ StaysCovered(checkpoint.query, checkpoint.last)
      /\ StaysCovered(j.query, j.last)
      /\ StaysCovered(j.held.query, j.held.last)
  BY JobFrame DEF Coverage, CheckpointCovered, Covered, StaysCovered
<1>b. \A q : StaysCovered(q, 0)
  <2>1. old' \subseteq Keys
    BY JobFrame DEF TypeOK
  <2>2. \A k \in Keys : ~ k <= 0
    BY ScanAssumption DEF Keys
  <2> QED
    BY <2>1, <2>2 DEF StaysCovered
<1>c. StaysCovered(Idle.query, Idle.last) /\ StaysCovered(Idle.held.query, Idle.held.last)
  BY <1>b, IdleType DEF NoCheckpoint
<1>1. CASE StartCheck(w)
  <2>1. PICK reset \in {FALSE, ResetAllowed} :
          Become(w, [Idle EXCEPT !.at = "load", !.query = query, !.reset = reset])
    BY <1>1 DEF StartCheck
  <2> DEFINE n == [Idle EXCEPT !.at = "load", !.query = query, !.reset = reset]
  <2>2. n.last = 0 /\ n.held = NoCheckpoint
    BY DEF Idle
  <2>3. checkpoint' = checkpoint /\ Become(w, n)
    BY <1>1, <2>1 DEF StartCheck
  <2>4. StaysCovered(n.query, n.last) /\ StaysCovered(n.held.query, n.held.last)
    BY <1>b, <2>2 DEF NoCheckpoint
  <2> HIDE DEF n
  <2> QED
    BY <1>a, <2>3, <2>4, CoverageOfStep
<1>2. CASE StartRepair(w)
  <2> DEFINE n == [Idle EXCEPT !.at = "repair", !.kind = "repair", !.query = query,
                               !.missing = report.missing]
  <2>1. n.last = 0 /\ n.held = NoCheckpoint
    BY DEF Idle
  <2>2. checkpoint' = checkpoint /\ Become(w, n)
    BY <1>2 DEF StartRepair
  <2>3. StaysCovered(n.query, n.last) /\ StaysCovered(n.held.query, n.held.last)
    BY <1>b, <2>1 DEF NoCheckpoint
  <2> HIDE DEF n
  <2> QED
    BY <1>a, <2>2, <2>3, CoverageOfStep
<1>3. CASE Repair(w)
  <2> DEFINE n == [j EXCEPT !.at = "load", !.missing = {}]
  <2>1. n.query = j.query /\ n.last = j.last /\ n.held = j.held
    BY <1>0 DEF Jobs
  <2>2. checkpoint' = checkpoint /\ Become(w, n)
    BY <1>3 DEF Repair
  <2> QED
    BY <1>a, <2>1, <2>2, CoverageOfStep
<1>4. CASE LoadCheckpoint(w)
  <2> DEFINE n == [j EXCEPT !.at = "scan", !.resume = ResumeAfter(w),
                            !.last = ResumeAfter(w), !.stable = source, !.reset = FALSE]
  <2>1. n.query = j.query /\ n.last = ResumeAfter(w) /\ n.held = j.held
    BY <1>0 DEF Jobs
  <2>2. checkpoint' = checkpoint /\ Become(w, n)
    BY <1>4 DEF LoadCheckpoint
  <2>3. StaysCovered(j.query, ResumeAfter(w))
    <3>1. CASE j.reset
      BY <3>1, <1>b DEF ResumeAfter
    <3>2. CASE ~ j.reset /\ checkpoint.query = j.query
      BY <3>2, <1>a DEF ResumeAfter
    <3>3. CASE ~ j.reset /\ checkpoint.query = 0
      <4>1. \A k \in old : ~ k <= checkpoint.last
        <5>1. \A k : <<0, k>> \notin seen
          BY ScanAssumption DEF TypeOK, Queries
        <5> QED
          BY <5>1, <3>3 DEF Coverage, CheckpointCovered, Covered
      <4> QED
        BY <3>3, <4>1, JobFrame DEF ResumeAfter, StaysCovered
    <3> QED
      BY <1>4, <3>1, <3>2, <3>3 DEF LoadCheckpoint, Acceptable
  <2> QED
    BY <1>a, <2>1, <2>2, <2>3, CoverageOfStep
<1>5. CASE RefuseCheckpoint(w)
  BY <1>5, <1>a, <1>c, CoverageOfStep DEF RefuseCheckpoint
<1>6. CASE StopAtMaxPages(w)
  <2> DEFINE n == [j EXCEPT !.at = "close", !.completed = FALSE]
  <2>1. n.query = j.query /\ n.last = j.last /\ n.held = j.held
    BY <1>0 DEF Jobs
  <2>2. checkpoint' = checkpoint /\ Become(w, n)
    BY <1>6 DEF StopAtMaxPages
  <2> QED
    BY <1>a, <2>1, <2>2, CoverageOfStep
<1>7. CASE ReadPage(w)
  <2>1. PICK last \in Page(w) :
          Become(w, [j EXCEPT !.at = "save", !.rows = @ \cup Page(w), !.last = last,
                              !.pages = @ + 1, !.more = Cardinality(Page(w)) = PageSize])
    BY <1>7 DEF ReadPage
  <2> DEFINE n == [j EXCEPT !.at = "save", !.rows = @ \cup Page(w), !.last = last,
                            !.pages = @ + 1, !.more = Cardinality(Page(w)) = PageSize]
  <2>2. n.query = j.query /\ n.last = last /\ n.held = j.held
    BY <1>0 DEF Jobs
  <2>3. checkpoint' = checkpoint /\ Become(w, n)
    BY <1>7, <2>1 DEF ReadPage
  <2>4. StaysCovered(j.query, last)
    <3> SUFFICES ASSUME NEW k \in old, k <= last PROVE <<j.query, k>> \in seen'
      BY JobFrame DEF StaysCovered
    <3>1. CASE k <= j.last
      BY <3>1, <1>a, JobFrame DEF StaysCovered
    <3>2. CASE ~ k <= j.last
      <4>1. k \in Rest(w)
        BY <3>2, <1>0, ScanAssumption DEF Rest, Coverage, TypeOK, Keys, Jobs, Marks
      <4>2. k \in Page(w)
        BY <4>1, PageHasNoGap
      <4> QED
        BY <4>2, <1>7 DEF ReadPage
    <3> QED
      BY <3>1, <3>2
  <2> QED
    BY <1>a, <2>2, <2>3, <2>4, CoverageOfStep
<1>8. CASE ReachEnd(w)
  <2> DEFINE n == [j EXCEPT !.at = "close"]
  <2>1. n.query = j.query /\ n.last = j.last /\ n.held = j.held
    BY <1>0 DEF Jobs
  <2>2. checkpoint' = checkpoint /\ Become(w, n)
    BY <1>8 DEF ReachEnd
  <2> QED
    BY <1>a, <2>1, <2>2, CoverageOfStep
<1>9. CASE SavePage(w)
  <2> DEFINE n == [j EXCEPT !.at = IF j.more THEN "scan" ELSE "close"]
  <2>1. n.query = j.query /\ n.last = j.last /\ n.held = j.held
    BY <1>0 DEF Jobs
  <2>2. checkpoint' = [query |-> j.query, last |-> j.last] /\ Become(w, n)
    BY <1>9 DEF SavePage
  <2> QED
    BY <1>a, <2>1, <2>2, CoverageOfStep
<1>10. CASE SaveFinal(w)
  <2> DEFINE n == [j EXCEPT !.at = "compare", !.last = 0, !.pages = 0, !.more = TRUE]
  <2>1. n.query = j.query /\ n.last = 0 /\ n.held = j.held
    BY <1>0 DEF Jobs
  <2>2. checkpoint' = [query |-> j.query, last |-> j.last] /\ Become(w, n)
    BY <1>10 DEF SaveFinal
  <2> QED
    BY <1>a, <1>b, <2>1, <2>2, CoverageOfStep
<1>11. CASE Compare(w)
  <2>1. PICK lost : Become(w, [j EXCEPT !.at = "readRef", !.missing = j.rows \ target,
                                        !.overlooked = lost, !.rows = {}, !.stable = {}])
    BY <1>11 DEF Compare
  <2> DEFINE n == [j EXCEPT !.at = "readRef", !.missing = j.rows \ target,
                            !.overlooked = lost, !.rows = {}, !.stable = {}]
  <2>2. n.query = j.query /\ n.last = j.last /\ n.held = j.held
    BY <1>0 DEF Jobs
  <2>3. checkpoint' = checkpoint /\ Become(w, n)
    BY <1>11, <2>1 DEF Compare
  <2> QED
    BY <1>a, <2>2, <2>3, CoverageOfStep
<1>12. CASE ReadForReportRef(w)
  <2> DEFINE n == [j EXCEPT !.at = "writeRef", !.held = checkpoint]
  <2>1. n.query = j.query /\ n.last = j.last /\ n.held = checkpoint
    BY <1>0 DEF Jobs
  <2>2. checkpoint' = checkpoint /\ Become(w, n)
    BY <1>12 DEF ReadForReportRef
  <2> QED
    BY <1>a, <2>1, <2>2, CoverageOfStep
<1>13. CASE WriteReportRef(w)
  <2> DEFINE n == [j EXCEPT !.at = "publish", !.held = NoCheckpoint]
  <2>1. n.query = j.query /\ n.last = j.last /\ n.held.last = 0
    BY <1>0 DEF Jobs, NoCheckpoint
  <2>2. checkpoint' = j.held /\ Become(w, n)
    BY <1>13 DEF WriteReportRef
  <2> QED
    BY <1>a, <1>b, <2>1, <2>2, CoverageOfStep
<1>14. CASE Publish(w)
  BY <1>14, <1>a, <1>c, CoverageOfStep DEF Publish
<1>15. CASE Crash(w)
  BY <1>15, <1>a, <1>c, CoverageOfStep DEF Crash
<1> QED
  BY <1>1, <1>2, <1>3, <1>4, <1>5, <1>6, <1>7, <1>8, <1>9, <1>10, <1>11, <1>12, <1>13,
     <1>14, <1>15 DEF Job

\* The application only takes rows out of old, and only those it removes.
LEMMA DataCoverage ==
  ASSUME TypeOK, Coverage, Data
  PROVE  Coverage'
<1>1. /\ checkpoint' = checkpoint
      /\ seen' = seen
      /\ old' \subseteq old
      /\ old' \subseteq source'
  BY DEF Data, InsertRow, RemoveRow, IndexRow, LoseDocument, EditQuery, Coverage
<1>2. ASSUME NEW w \in Workers
      PROVE  /\ job'[w].query = job[w].query
             /\ job'[w].last = job[w].last
             /\ job'[w].held = job[w].held
  BY DEF Data, InsertRow, RemoveRow, IndexRow, LoseDocument, EditQuery, TypeOK, Jobs
<1> QED
  BY <1>1, <1>2 DEF Coverage, CheckpointCovered, Covered

\* No interleaving of Jobs, crashes, query edits and changes of the data makes the
\* checkpoint claim a row that no Job has read for the checkpoint's query.
THEOREM CheckpointTruthful == Spec => []CheckpointCovered
<1>1. Init => Coverage
  BY DEF Init, Coverage, CheckpointCovered, Covered, Idle, NoCheckpoint, Keys
<1>2. TypeOK /\ Coverage /\ [Next]_vars => Coverage'
  <2> SUFFICES ASSUME TypeOK, Coverage, [Next]_vars PROVE Coverage'
    OBVIOUS
  <2>1. CASE UNCHANGED vars
    BY <2>1 DEF vars, Coverage, CheckpointCovered, Covered
  <2> QED
    BY <2>1, JobCoverage, DataCoverage DEF Next
<1>3. Coverage => CheckpointCovered
  BY DEF Coverage
<1> QED
  BY <1>1, <1>2, <1>3, ScanTypeCorrect, PTL DEF Spec

-----------------------------------------------------------------------------
(***************************************************************************)
(* A Healthy report overlooks nothing.  A scan that started at the first   *)
(* row has, at every point, read each row of stable that is not beyond its *)
(* last_key; it ends complete only on a short or empty page, and then no   *)
(* row is beyond.                                                          *)
(***************************************************************************)
\* A nonempty finite set of numbers has a least element: the one whose set of smaller
\* elements is least by inclusion.
LEMMA LeastKey ==
  ASSUME NEW n \in Nat, NEW S, S \subseteq 1 .. n, S # {}
  PROVE  \E m \in S : \A k \in S : m <= k
<1> DEFINE Smaller(m) == {i \in S : i < m}
           T == {Smaller(m) : m \in S}
           R == StrictSubsetOrdering(S)
<1>0. S \subseteq Int
  OBVIOUS
<1>1. IsFiniteSet(S)
  <2>1. IsFiniteSet(1 .. n)
    BY FS_Interval
  <2> QED
    BY <2>1, FS_Subset
<1>2. T \subseteq FiniteSubsetsOf(S) /\ T # {}
  <2>1. \A m \in S : Smaller(m) \in FiniteSubsetsOf(S)
    BY <1>1, FS_Subset DEF FiniteSubsetsOf
  <2> QED
    BY <2>1
<1>3. IsWellFoundedOn(R, FiniteSubsetsOf(S))
  BY FS_StrictSubsetOrderingWellFounded
<1> HIDE DEF R
<1>4. PICK x \in T : \A y \in T : <<y, x>> \notin R
  BY <1>2, <1>3, WFMin
<1>5. PICK m \in S : x = Smaller(m)
  BY <1>4
<1>6. ASSUME NEW k \in S, ~ m <= k PROVE FALSE
  <2>1. k \in Smaller(m) /\ k \notin Smaller(k)
    BY <1>0, <1>6
  <2>2. Smaller(k) \subseteq Smaller(m)
    <3>1. ASSUME NEW i \in S, i < k PROVE i < m
      BY <3>1, <1>0, <1>6
    <3> QED
      BY <3>1
  <2>3. <<Smaller(k), Smaller(m)>> \in R
    BY <2>1, <2>2 DEF R, StrictSubsetOrdering
  <2> QED
    BY <2>3, <1>4, <1>5
<1> QED
  BY <1>6

\* A page that is not full holds all that was left.
LEMMA ShortPageIsTheRest ==
  ASSUME TypeOK, NEW w \in Workers, Cardinality(Page(w)) < PageSize
  PROVE  Page(w) = Rest(w)
<1> DEFINE Before(m) == {i \in Rest(w) : i < m}
<1> SUFFICES ASSUME Rest(w) \ Page(w) # {} PROVE FALSE
  BY DEF Page
<1>1. Rest(w) \subseteq 1 .. MaxKey /\ Page(w) \subseteq 1 .. MaxKey
  BY DEF Rest, Page, TypeOK, Keys
<1>2. IsFiniteSet(1 .. MaxKey)
  BY FS_Interval, ScanAssumption
<1>3. PICK m \in Rest(w) \ Page(w) : \A k \in Rest(w) \ Page(w) : m <= k
  <2>1. Rest(w) \ Page(w) \subseteq 1 .. MaxKey
    BY <1>1
  <2> QED
    BY <2>1, LeastKey, ScanAssumption
<1>4. Before(m) \subseteq Page(w)
  BY <1>1, <1>3, ScanAssumption
<1>5. IsFiniteSet(Page(w))
  BY <1>1, <1>2, FS_Subset
<1>6. IsFiniteSet(Before(m)) /\ Cardinality(Before(m)) <= Cardinality(Page(w))
  BY <1>4, <1>5, FS_Subset
<1>7. ~ Cardinality(Before(m)) < PageSize
  BY <1>3 DEF Page
<1> QED
  BY <1>5, <1>6, <1>7, FS_CardinalityType, ScanAssumption

\* The SQL limit: no page has more than PageSize rows.
LEMMA PageFits ==
  ASSUME TypeOK, NEW w \in Workers,
         NEW last \in Page(w), \A k \in Page(w) : k <= last
  PROVE  Cardinality(Page(w)) \in Nat /\ Cardinality(Page(w)) <= PageSize
<1> DEFINE before == {i \in Rest(w) : i < last}
<1>1. Rest(w) \subseteq 1 .. MaxKey
  BY DEF Rest, TypeOK, Keys
<1>2. IsFiniteSet(1 .. MaxKey)
  BY FS_Interval, ScanAssumption
<1>3. IsFiniteSet(before)
  BY <1>1, <1>2, FS_Subset
<1>4. Cardinality(before) \in Nat /\ Cardinality(before) + 1 <= PageSize
  BY <1>3, FS_CardinalityType, ScanAssumption DEF Page
<1>5. Page(w) \subseteq before \cup {last}
  <2>1. ASSUME NEW k \in Page(w), k # last PROVE k \in before
    <3>1. k \in Rest(w) /\ k \in Int /\ last \in Int /\ k <= last
      BY <1>1 DEF Page
    <3> QED
      BY <2>1, <3>1
  <2> QED
    BY <2>1
<1>6. /\ IsFiniteSet(before \cup {last})
      /\ Cardinality(before \cup {last}) = Cardinality(before) + 1
  <2>1. last \notin before
    BY <1>1
  <2> QED
    BY <2>1, <1>3, FS_AddElement
<1>7. /\ Cardinality(Page(w)) <= Cardinality(before \cup {last})
      /\ IsFiniteSet(Page(w))
  BY <1>5, <1>6, FS_Subset
<1>8. Cardinality(Page(w)) \in Nat
  BY <1>7, FS_CardinalityType
<1> QED
  BY <1>4, <1>6, <1>7, <1>8, ScanAssumption

Thorough(j) ==
  /\ j.stable \subseteq source
  /\ j.overlooked \subseteq j.missing
  /\ j.at \notin {"readRef", "writeRef", "publish"} => j.overlooked = {}
  /\ j.at \in {"scan", "save"} /\ j.resume = 0 =>
       \A k \in j.stable : k \in j.rows \/ k > j.last
  /\ j.at \in {"close", "compare"} \/ (j.at = "save" /\ ~ j.more) =>
       (~ Partial(j) => j.stable \subseteq j.rows)

Thoroughness ==
  /\ \A w \in Workers : Thorough(job[w])
  /\ HealthyOverlooksNothing

LEMMA IdleThorough == Thorough(Idle)
BY DEF Thorough, Idle

LEMMA ThoroughOfStep ==
  ASSUME TypeOK, Thoroughness, NEW w \in Workers, Job(w), NEW j, Become(w, j),
         Thorough(j), HealthyOverlooksNothing'
  PROVE  Thoroughness'
<1>1. source' = source
  BY JobFrame
<1>2. ASSUME NEW v \in Workers PROVE Thorough(job[v])'
  <2>1. CASE v = w
    <3>1. job'[v] = j
      BY <2>1 DEF Become, TypeOK
    <3> QED
      BY <1>1, <3>1 DEF Thorough, Partial
  <2>2. CASE v # w
    <3>1. job'[v] = job[v]
      BY <2>2 DEF Become, TypeOK
    <3> QED
      BY <1>1, <3>1 DEF Thorough, Thoroughness, Partial
  <2> QED
    BY <2>1, <2>2
<1> QED
  BY <1>2 DEF Thoroughness

LEMMA SameReport ==
  ASSUME Thoroughness, report' = report
  PROVE  HealthyOverlooksNothing'
BY DEF Thoroughness, HealthyOverlooksNothing

LEMMA JobThorough ==
  ASSUME TypeOK, Thoroughness, NEW w \in Workers, Job(w)
  PROVE  Thoroughness'
<1> DEFINE j == job[w]
<1>0. j \in Jobs /\ Thorough(j)
  BY DEF TypeOK, Thoroughness
<1>1. CASE StartCheck(w)
  <2>1. PICK reset \in {FALSE, ResetAllowed} :
          Become(w, [Idle EXCEPT !.at = "load", !.query = query, !.reset = reset])
    BY <1>1 DEF StartCheck
  <2>2. Thorough([Idle EXCEPT !.at = "load", !.query = query, !.reset = reset])
    BY DEF Thorough, Idle
  <2> QED
    BY <1>1, <2>1, <2>2, ThoroughOfStep, SameReport DEF StartCheck
<1>2. CASE StartRepair(w)
  <2>1. Thorough([Idle EXCEPT !.at = "repair", !.kind = "repair", !.query = query,
                              !.missing = report.missing])
    BY DEF Thorough, Idle
  <2> QED
    BY <1>2, <2>1, ThoroughOfStep, SameReport DEF StartRepair
<1>3. CASE Repair(w)
  <2>1. Thorough([j EXCEPT !.at = "load", !.missing = {}])
    BY <1>0, <1>3 DEF Thorough, Jobs, Repair
  <2> QED
    BY <1>3, <2>1, ThoroughOfStep, SameReport DEF Repair
<1>4. CASE LoadCheckpoint(w)
  <2>1. Thorough([j EXCEPT !.at = "scan", !.resume = ResumeAfter(w),
                           !.last = ResumeAfter(w), !.stable = source, !.reset = FALSE])
    <3>1. \A k \in source : k > 0
      BY ScanAssumption DEF TypeOK, Keys
    <3> QED
      BY <1>0, <1>4, <3>1 DEF Thorough, Jobs, LoadCheckpoint
  <2> QED
    BY <1>4, <2>1, ThoroughOfStep, SameReport DEF LoadCheckpoint
<1>5. CASE RefuseCheckpoint(w)
  <2>1. HealthyOverlooksNothing'
    BY <1>5 DEF RefuseCheckpoint, NoReport, HealthyOverlooksNothing, Thoroughness
  <2> QED
    BY <1>5, <2>1, IdleThorough, ThoroughOfStep DEF RefuseCheckpoint
<1>6. CASE StopAtMaxPages(w)
  <2>1. Thorough([j EXCEPT !.at = "close", !.completed = FALSE])
    BY <1>0, <1>6 DEF Thorough, Jobs, Partial, StopAtMaxPages
  <2> QED
    BY <1>6, <2>1, ThoroughOfStep, SameReport DEF StopAtMaxPages
<1>7. CASE ReadPage(w)
  <2>1. PICK last \in Page(w) :
          /\ \A k \in Page(w) : k <= last
          /\ Become(w, [j EXCEPT !.at = "save", !.rows = @ \cup Page(w), !.last = last,
                                 !.pages = @ + 1,
                                 !.more = Cardinality(Page(w)) = PageSize])
    BY <1>7 DEF ReadPage
  <2> DEFINE full == Cardinality(Page(w)) = PageSize
  <2>2. ASSUME NEW k \in j.stable, j.resume = 0
        PROVE  k \in j.rows \/ k \in Rest(w)
    BY <1>0, <1>7, <2>2 DEF Thorough, Rest, ReadPage
  <2>3. ASSUME NEW k \in j.stable, j.resume = 0
        PROVE  k \in j.rows \cup Page(w) \/ k > last
    <3>1. CASE k \in Rest(w) /\ k <= last
      BY <3>1, PageHasNoGap
    <3>2. CASE k \in Rest(w) /\ ~ k <= last
      BY <3>2, ScanAssumption DEF Page, Rest, TypeOK, Keys
    <3> QED
      BY <2>2, <2>3, <3>1, <3>2
  <2>4. ASSUME ~ full, j.resume = 0 PROVE j.stable \subseteq j.rows \cup Page(w)
    <3>1. Cardinality(Page(w)) < PageSize
      BY <2>1, <2>4, PageFits, ScanAssumption
    <3> QED
      BY <2>2, <2>4, <3>1, ShortPageIsTheRest
  <2> HIDE DEF full
  <2>5. Thorough([j EXCEPT !.at = "save", !.rows = @ \cup Page(w), !.last = last,
                           !.pages = @ + 1, !.more = full])
    BY <1>0, <1>7, <2>3, <2>4 DEF Thorough, Jobs, Partial, ReadPage
  <2> QED
    BY <1>7, <2>1, <2>5, ThoroughOfStep, SameReport DEF ReadPage, full
<1>8. CASE ReachEnd(w)
  <2>1. Rest(w) = {}
    <3>1. Page(w) = {}
      BY <1>8 DEF ReachEnd
    <3>2. Cardinality(Page(w)) < PageSize
      BY <3>1, FS_EmptySet, ScanAssumption
    <3> QED
      BY <3>1, <3>2, ShortPageIsTheRest
  <2>2. Thorough([j EXCEPT !.at = "close"])
    BY <1>0, <1>8, <2>1 DEF Thorough, Jobs, Partial, ReachEnd, Rest
  <2> QED
    BY <1>8, <2>2, ThoroughOfStep, SameReport DEF ReachEnd
<1>9. CASE SavePage(w)
  <2>1. Thorough([j EXCEPT !.at = IF j.more THEN "scan" ELSE "close"])
    BY <1>0, <1>9 DEF Thorough, Jobs, Partial, SavePage
  <2> QED
    BY <1>9, <2>1, ThoroughOfStep, SameReport DEF SavePage
<1>10. CASE SaveFinal(w)
  <2>1. Thorough([j EXCEPT !.at = "compare", !.last = 0, !.pages = 0, !.more = TRUE])
    BY <1>0, <1>10 DEF Thorough, Jobs, Partial, SaveFinal
  <2> QED
    BY <1>10, <2>1, ThoroughOfStep, SameReport DEF SaveFinal
<1>11. CASE Compare(w)
  <2> DEFINE lost == IF Partial(j) THEN {} ELSE j.stable \ target
  <2>1. lost \subseteq j.rows \ target
    BY <1>0, <1>11 DEF Thorough, Compare
  <2> HIDE DEF lost
  <2>2. Thorough([j EXCEPT !.at = "readRef", !.missing = j.rows \ target,
                           !.overlooked = lost, !.rows = {}, !.stable = {}])
    BY <1>0, <2>1 DEF Thorough, Jobs
  <2> QED
    BY <1>11, <2>2, ThoroughOfStep, SameReport DEF Compare, lost
<1>12. CASE ReadForReportRef(w)
  <2>1. Thorough([j EXCEPT !.at = "writeRef", !.held = checkpoint])
    BY <1>0 DEF Thorough, Jobs
  <2> QED
    BY <1>12, <2>1, ThoroughOfStep, SameReport DEF ReadForReportRef
<1>13. CASE WriteReportRef(w)
  <2>1. Thorough([j EXCEPT !.at = "publish", !.held = NoCheckpoint])
    BY <1>0 DEF Thorough, Jobs
  <2> QED
    BY <1>13, <2>1, ThoroughOfStep, SameReport DEF WriteReportRef
<1>14. CASE Publish(w)
  <2>1. HealthyOverlooksNothing'
    <3>1. ASSUME Phase(j) = "Healthy" PROVE j.missing = {}
      BY <3>1, <1>0 DEF Phase, Jobs, Kinds
    <3>2. report'.phase = "Healthy" => report'.overlooked = j.overlooked /\ j.missing = {}
      BY <1>14, <3>1 DEF Publish
    <3> QED
      BY <1>0, <3>2 DEF HealthyOverlooksNothing, Thorough
  <2> QED
    BY <1>14, <2>1, IdleThorough, ThoroughOfStep DEF Publish
<1>15. CASE Crash(w)
  BY <1>15, IdleThorough, ThoroughOfStep, SameReport DEF Crash
<1> QED
  BY <1>1, <1>2, <1>3, <1>4, <1>5, <1>6, <1>7, <1>8, <1>9, <1>10, <1>11, <1>12, <1>13,
     <1>14, <1>15 DEF Job

LEMMA DataThorough ==
  ASSUME TypeOK, Thoroughness, Data
  PROVE  Thoroughness'
<1>1. HealthyOverlooksNothing'
  BY SameReport DEF Data, InsertRow, RemoveRow, IndexRow, LoseDocument, EditQuery
<1>2. ASSUME NEW w \in Workers PROVE Thorough(job[w])'
  <2>0. job[w] \in Jobs /\ Thorough(job[w])
    BY DEF TypeOK, Thoroughness
  <2>1. CASE source \subseteq source' /\ job' = job
    BY <2>0, <2>1 DEF Thorough, Partial
  <2>2. ASSUME NEW k \in Keys, RemoveRow(k) PROVE Thorough(job[w])'
    <3>1. job'[w] = [job[w] EXCEPT !.stable = @ \ {k}] /\ source' = source \ {k}
      BY <2>2 DEF RemoveRow
    <3> QED
      BY <2>0, <3>1 DEF Thorough, Partial, Jobs
  <2> QED
    BY <2>1, <2>2 DEF Data, InsertRow, IndexRow, LoseDocument, EditQuery
<1> QED
  BY <1>1, <1>2 DEF Thoroughness

\* A report is Healthy only if every row that stayed in the source throughout the
\* scan was compared and found in the target.
THEOREM HealthyIsThorough == Spec => []HealthyOverlooksNothing
<1>1. Init => Thoroughness
  BY IdleThorough DEF Init, Thoroughness, HealthyOverlooksNothing, NoReport
<1>2. TypeOK /\ Thoroughness /\ [Next]_vars => Thoroughness'
  <2> SUFFICES ASSUME TypeOK, Thoroughness, [Next]_vars PROVE Thoroughness'
    OBVIOUS
  <2>1. CASE UNCHANGED vars
    BY <2>1 DEF vars, Thoroughness, Thorough, Partial, HealthyOverlooksNothing
  <2> QED
    BY <2>1, JobThorough, DataThorough DEF Next
<1>3. Thoroughness => HealthyOverlooksNothing
  BY DEF Thoroughness
<1> QED
  BY <1>1, <1>2, <1>3, ScanTypeCorrect, PTL DEF Spec

-----------------------------------------------------------------------------
(***************************************************************************)
(* The stored last_key under one Job at a time.  The operator's slots      *)
(* overlap, and then the key can move back (LastKeyNotLost does not hold); *)
(* with one worker and no reset a Job's own position is never behind the   *)
(* checkpoint of its query, and what it holds while it adds its report_ref *)
(* is the checkpoint itself.                                               *)
(***************************************************************************)
InStep(j) ==
  /\ j.reset = FALSE
  /\ j.at \in {"scan", "save", "close"} =>
       /\ checkpoint.query \in {0, j.query}
       /\ checkpoint.last <= j.last
  /\ j.at = "writeRef" => j.held = checkpoint

KeptInStep ==
  /\ checkpoint.query = 0 => checkpoint.last = 0
  /\ \A w \in Workers : InStep(job[w])

KeyKept == checkpoint'.query = checkpoint.query => checkpoint'.last >= checkpoint.last

LEMMA KeyKeptIfSame ==
  ASSUME TypeOK, checkpoint' = checkpoint
  PROVE  KeyKept
<1>1. checkpoint.last \in Int
  BY ScanAssumption DEF TypeOK, Checkpoints, Marks
<1> QED
  BY <1>1 DEF KeyKept

LEMMA InStepOfStep ==
  ASSUME TypeOK, NEW w, Workers = {w}, NEW j, Become(w, j),
         checkpoint'.query = 0 => checkpoint'.last = 0,
         j.reset = FALSE,
         j.at \in {"scan", "save", "close"} =>
           checkpoint'.query \in {0, j.query} /\ checkpoint'.last <= j.last,
         j.at = "writeRef" => j.held = checkpoint'
  PROVE  KeptInStep'
<1>1. job'[w] = j
  BY DEF Become, TypeOK
<1> QED
  BY <1>1 DEF KeptInStep, InStep

LEMMA SavedKey ==
  ASSUME TypeOK, KeptInStep, NEW w \in Workers, job[w].at \in {"save", "close"},
         checkpoint' = [query |-> job[w].query, last |-> job[w].last]
  PROVE  KeyKept /\ checkpoint'.query # 0
<1>1. /\ job[w].last \in Int
      /\ checkpoint.last \in Int
      /\ job[w].query # 0
  BY ScanAssumption DEF TypeOK, Jobs, Checkpoints, Marks, Queries
<1>2. checkpoint.last <= job[w].last
  BY DEF KeptInStep, InStep
<1>3. checkpoint'.query = job[w].query /\ checkpoint'.last = job[w].last
  OBVIOUS
<1> QED
  BY <1>1, <1>2, <1>3 DEF KeyKept

LEMMA JobInStep ==
  ASSUME TypeOK, KeptInStep, NEW w, Workers = {w}, ResetAllowed = FALSE, Job(w)
  PROVE  KeptInStep' /\ KeyKept
<1> DEFINE j == job[w]
<1>0. j \in Jobs /\ InStep(j) /\ (checkpoint.query = 0 => checkpoint.last = 0)
  BY DEF TypeOK, KeptInStep
<1>a. Idle.at = "idle" /\ Idle.reset = FALSE
  BY DEF Idle
<1>1. CASE StartCheck(w)
  <2>1. PICK reset \in {FALSE, ResetAllowed} :
          Become(w, [Idle EXCEPT !.at = "load", !.query = query, !.reset = reset])
    BY <1>1 DEF StartCheck
  <2> DEFINE n == [Idle EXCEPT !.at = "load", !.query = query, !.reset = reset]
  <2>2. n.at = "load" /\ n.reset = FALSE
    BY <2>1 DEF Idle
  <2>3. Become(w, n) /\ checkpoint' = checkpoint
    BY <1>1, <2>1 DEF StartCheck
  <2> HIDE DEF n
  <2> QED
    BY <1>0, <2>2, <2>3, InStepOfStep, KeyKeptIfSame
<1>2. CASE StartRepair(w)
  <2> DEFINE n == [Idle EXCEPT !.at = "repair", !.kind = "repair", !.query = query,
                               !.missing = report.missing]
  <2>1. n.at = "repair" /\ n.reset = FALSE
    BY DEF Idle
  <2>2. Become(w, n) /\ checkpoint' = checkpoint
    BY <1>2 DEF StartRepair
  <2> HIDE DEF n
  <2> QED
    BY <1>0, <2>1, <2>2, InStepOfStep, KeyKeptIfSame
<1>3. CASE Repair(w)
  <2> DEFINE n == [j EXCEPT !.at = "load", !.missing = {}]
  <2>1. n.at = "load" /\ n.reset = j.reset
    BY <1>0 DEF Jobs
  <2>2. Become(w, n) /\ checkpoint' = checkpoint
    BY <1>3 DEF Repair
  <2> HIDE DEF n
  <2> QED
    BY <1>0, <2>1, <2>2, InStepOfStep, KeyKeptIfSame DEF InStep
<1>4. CASE LoadCheckpoint(w)
  <2> DEFINE n == [j EXCEPT !.at = "scan", !.resume = ResumeAfter(w),
                            !.last = ResumeAfter(w), !.stable = source, !.reset = FALSE]
  <2>1. n.at = "scan" /\ n.reset = FALSE /\ n.query = j.query /\ n.last = ResumeAfter(w)
    BY <1>0 DEF Jobs
  <2>2. Become(w, n) /\ checkpoint' = checkpoint
    BY <1>4 DEF LoadCheckpoint
  <2>3. checkpoint.query \in {0, j.query} /\ ResumeAfter(w) = checkpoint.last
    BY <1>0, <1>4 DEF LoadCheckpoint, Acceptable, ResumeAfter, InStep
  <2>4. checkpoint.last <= checkpoint.last
    BY ScanAssumption DEF TypeOK, Checkpoints, Marks
  <2> HIDE DEF n
  <2> QED
    BY <1>0, <2>1, <2>2, <2>3, <2>4, InStepOfStep, KeyKeptIfSame
<1>5. CASE RefuseCheckpoint(w)
  BY <1>0, <1>5, <1>a, InStepOfStep, KeyKeptIfSame DEF RefuseCheckpoint
<1>6. CASE StopAtMaxPages(w)
  <2> DEFINE n == [j EXCEPT !.at = "close", !.completed = FALSE]
  <2>1. n.at = "close" /\ n.reset = j.reset /\ n.query = j.query /\ n.last = j.last
    BY <1>0 DEF Jobs
  <2>2. Become(w, n) /\ checkpoint' = checkpoint /\ j.at = "scan"
    BY <1>6 DEF StopAtMaxPages
  <2> HIDE DEF n
  <2> QED
    BY <1>0, <2>1, <2>2, InStepOfStep, KeyKeptIfSame DEF InStep
<1>7. CASE ReadPage(w)
  <2>1. PICK last \in Page(w) :
          Become(w, [j EXCEPT !.at = "save", !.rows = @ \cup Page(w), !.last = last,
                              !.pages = @ + 1, !.more = Cardinality(Page(w)) = PageSize])
    BY <1>7 DEF ReadPage
  <2> DEFINE n == [j EXCEPT !.at = "save", !.rows = @ \cup Page(w), !.last = last,
                            !.pages = @ + 1, !.more = Cardinality(Page(w)) = PageSize]
  <2>2. n.at = "save" /\ n.reset = j.reset /\ n.query = j.query /\ n.last = last
    BY <1>0 DEF Jobs
  <2>3. Become(w, n) /\ checkpoint' = checkpoint /\ j.at = "scan"
    BY <1>7, <2>1 DEF ReadPage
  <2>4. checkpoint.last <= last
    <3>1. last > j.last /\ last \in Int
      BY ScanAssumption DEF Page, Rest, TypeOK, Keys
    <3>2. checkpoint.last \in Int /\ j.last \in Int
      BY <1>0, ScanAssumption DEF TypeOK, Jobs, Checkpoints, Marks
    <3>3. checkpoint.last <= j.last
      BY <1>0, <2>3 DEF InStep
    <3> QED
      BY <3>1, <3>2, <3>3
  <2> HIDE DEF n
  <2> QED
    BY <1>0, <2>2, <2>3, <2>4, InStepOfStep, KeyKeptIfSame DEF InStep
<1>8. CASE ReachEnd(w)
  <2> DEFINE n == [j EXCEPT !.at = "close"]
  <2>1. n.at = "close" /\ n.reset = j.reset /\ n.query = j.query /\ n.last = j.last
    BY <1>0 DEF Jobs
  <2>2. Become(w, n) /\ checkpoint' = checkpoint /\ j.at = "scan"
    BY <1>8 DEF ReachEnd
  <2> HIDE DEF n
  <2> QED
    BY <1>0, <2>1, <2>2, InStepOfStep, KeyKeptIfSame DEF InStep
<1>9. CASE SavePage(w)
  <2> DEFINE n == [j EXCEPT !.at = IF j.more THEN "scan" ELSE "close"]
  <2>1. /\ n.at \in {"scan", "close"}
        /\ n.reset = j.reset /\ n.query = j.query /\ n.last = j.last
    BY <1>0 DEF Jobs
  <2>2. /\ Become(w, n) /\ j.at = "save"
        /\ checkpoint' = [query |-> j.query, last |-> j.last]
    BY <1>9 DEF SavePage
  <2>3. KeyKept /\ checkpoint'.query # 0
    BY <2>2, SavedKey
  <2>4. checkpoint'.query = j.query /\ checkpoint'.last = j.last /\ j.last <= j.last
    BY <1>0, <2>2, ScanAssumption DEF Jobs, Marks
  <2> HIDE DEF n
  <2> QED
    BY <1>0, <2>1, <2>2, <2>3, <2>4, InStepOfStep DEF InStep
<1>10. CASE SaveFinal(w)
  <2> DEFINE n == [j EXCEPT !.at = "compare", !.last = 0, !.pages = 0, !.more = TRUE]
  <2>1. n.at = "compare" /\ n.reset = j.reset
    BY <1>0 DEF Jobs
  <2>2. /\ Become(w, n) /\ j.at = "close"
        /\ checkpoint' = [query |-> j.query, last |-> j.last]
    BY <1>10 DEF SaveFinal
  <2>3. KeyKept /\ checkpoint'.query # 0
    BY <2>2, SavedKey
  <2> HIDE DEF n
  <2> QED
    BY <1>0, <2>1, <2>2, <2>3, InStepOfStep DEF InStep
<1>11. CASE Compare(w)
  <2> DEFINE n == [j EXCEPT !.at = "readRef", !.missing = j.rows \ target,
                            !.overlooked = IF Partial(j) THEN {} ELSE j.stable \ target,
                            !.rows = {}, !.stable = {}]
  <2>1. n.at = "readRef" /\ n.reset = j.reset
    BY <1>0 DEF Jobs
  <2>2. Become(w, n) /\ checkpoint' = checkpoint
    BY <1>11 DEF Compare
  <2> HIDE DEF n
  <2> QED
    BY <1>0, <2>1, <2>2, InStepOfStep, KeyKeptIfSame DEF InStep
<1>12. CASE ReadForReportRef(w)
  <2> DEFINE n == [j EXCEPT !.at = "writeRef", !.held = checkpoint]
  <2>1. n.at = "writeRef" /\ n.reset = j.reset /\ n.held = checkpoint
    BY <1>0 DEF Jobs
  <2>2. Become(w, n) /\ checkpoint' = checkpoint
    BY <1>12 DEF ReadForReportRef
  <2> HIDE DEF n
  <2> QED
    BY <1>0, <2>1, <2>2, InStepOfStep, KeyKeptIfSame DEF InStep
<1>13. CASE WriteReportRef(w)
  <2> DEFINE n == [j EXCEPT !.at = "publish", !.held = NoCheckpoint]
  <2>1. n.at = "publish" /\ n.reset = j.reset
    BY <1>0 DEF Jobs
  <2>2. Become(w, n) /\ checkpoint' = checkpoint
    BY <1>0, <1>13 DEF WriteReportRef, InStep
  <2> HIDE DEF n
  <2> QED
    BY <1>0, <2>1, <2>2, InStepOfStep, KeyKeptIfSame DEF InStep
<1>14. CASE Publish(w)
  BY <1>0, <1>14, <1>a, InStepOfStep, KeyKeptIfSame DEF Publish
<1>15. CASE Crash(w)
  BY <1>0, <1>15, <1>a, InStepOfStep, KeyKeptIfSame DEF Crash
<1> QED
  BY <1>1, <1>2, <1>3, <1>4, <1>5, <1>6, <1>7, <1>8, <1>9, <1>10, <1>11, <1>12, <1>13,
     <1>14, <1>15 DEF Job

LEMMA DataInStep ==
  ASSUME TypeOK, KeptInStep, Data
  PROVE  KeptInStep' /\ KeyKept
<1>1. checkpoint' = checkpoint
  BY DEF Data, InsertRow, RemoveRow, IndexRow, LoseDocument, EditQuery
<1>2. ASSUME NEW w \in Workers PROVE InStep(job[w])'
  <2>0. job[w] \in Jobs /\ InStep(job[w])
    BY DEF TypeOK, KeptInStep
  <2>1. CASE job' = job
    BY <1>1, <2>0, <2>1 DEF InStep
  <2>2. ASSUME NEW k \in Keys, RemoveRow(k) PROVE InStep(job[w])'
    <3>1. job'[w] = [job[w] EXCEPT !.stable = @ \ {k}]
      BY <2>2 DEF RemoveRow
    <3> QED
      BY <1>1, <2>0, <3>1 DEF InStep, Jobs
  <2> QED
    BY <2>1, <2>2 DEF Data, InsertRow, IndexRow, LoseDocument, EditQuery
<1> QED
  BY <1>1, <1>2, KeyKeptIfSame DEF KeptInStep

\* README.md:85 holds of Jobs that run one at a time and never reset: whatever
\* crashes, page limits, query edits and changes of the data do, the stored last_key
\* of a query does not move back.
THEOREM OneJobKeepsTheKey ==
  ASSUME NEW w, Workers = {w}, ResetAllowed = FALSE
  PROVE  Spec => LastKeyNotLost
<1>1. Init => KeptInStep
  BY DEF Init, KeptInStep, InStep, Idle, NoCheckpoint
<1>2. TypeOK /\ KeptInStep /\ [Next]_vars => KeptInStep' /\ [KeyKept]_checkpoint
  <2> SUFFICES ASSUME TypeOK, KeptInStep, [Next]_vars
               PROVE  KeptInStep' /\ [KeyKept]_checkpoint
    OBVIOUS
  <2>1. CASE UNCHANGED vars
    BY <2>1 DEF vars, KeptInStep, InStep
  <2> QED
    BY <2>1, JobInStep, DataInStep DEF Next
<1> QED
  BY <1>1, <1>2, ScanTypeCorrect, PTL DEF Spec, LastKeyNotLost, KeyKept

-----------------------------------------------------------------------------
(***************************************************************************)
(* The refinement of ScanPromise.  Beyond what Coverage and Thoroughness   *)
(* say of the checkpoint and of a comparison, the mapping needs that what  *)
(* a Job carries and what the report names has been read, and that only a  *)
(* check which is looking has a window.                                    *)
(***************************************************************************)
Carries(j) ==
  /\ j.rows \cup j.missing \subseteq Promise!LookedAt
  /\ j.at \notin {"scan", "save", "close", "compare"} => j.stable = {}

Grounded ==
  /\ report.missing \subseteq Promise!LookedAt
  /\ \A w \in Workers : Carries(job[w])

LEMMA LookedAtGrows ==
  ASSUME seen \subseteq seen'
  PROVE  Promise!LookedAt \subseteq Promise!LookedAt'
BY DEF Promise!LookedAt

LEMMA IdleCarries ==
  /\ Idle.at = "idle" /\ Idle.rows = {} /\ Idle.missing = {} /\ Idle.stable = {}
  /\ Carries(Idle)
BY DEF Carries, Idle

LEMMA GroundedOfStep ==
  ASSUME TypeOK, Grounded, NEW w \in Workers, Job(w), NEW j, Become(w, j),
         report'.missing \subseteq Promise!LookedAt,
         j.rows \subseteq Promise!LookedAt',
         j.missing \subseteq Promise!LookedAt,
         j.at \notin {"scan", "save", "close", "compare"} => j.stable = {}
  PROVE  Grounded'
<1>1. Promise!LookedAt \subseteq Promise!LookedAt'
  BY JobFrame, LookedAtGrows
<1>2. ASSUME NEW v \in Workers PROVE Carries(job[v])'
  <2>1. CASE v = w
    <3>1. job'[v] = j
      BY <2>1 DEF Become, TypeOK
    <3> QED
      BY <1>1, <3>1 DEF Carries
  <2>2. CASE v # w
    <3>1. job'[v] = job[v]
      BY <2>2 DEF Become, TypeOK
    <3> QED
      BY <1>1, <3>1 DEF Carries, Grounded
  <2> QED
    BY <2>1, <2>2
<1> QED
  BY <1>1, <1>2 DEF Grounded

\* A Job whose rows, findings and window stay the same stays grounded.
LEMMA GroundedIfKept ==
  ASSUME TypeOK, Grounded, NEW w \in Workers, Job(w), NEW j, Become(w, j),
         report' = report,
         j.rows \in {{}, job[w].rows},
         j.missing \in {{}, job[w].missing, report.missing},
         j.at \notin {"scan", "save", "close", "compare"} => j.stable = {}
  PROVE  Grounded'
<1>1. Promise!LookedAt \subseteq Promise!LookedAt'
  BY JobFrame, LookedAtGrows
<1>2. /\ report.missing \subseteq Promise!LookedAt
      /\ job[w].rows \cup job[w].missing \subseteq Promise!LookedAt
  BY DEF Grounded, Carries
<1> QED
  BY <1>1, <1>2, GroundedOfStep

LEMMA JobGrounded ==
  ASSUME TypeOK, Grounded, NEW w \in Workers, Job(w)
  PROVE  Grounded'
<1> DEFINE j == job[w]
<1>0. j \in Jobs /\ Carries(j)
  BY DEF TypeOK, Grounded
<1>1. CASE StartCheck(w)
  <2>1. PICK reset \in {FALSE, ResetAllowed} :
          Become(w, [Idle EXCEPT !.at = "load", !.query = query, !.reset = reset])
    BY <1>1 DEF StartCheck
  <2> DEFINE n == [Idle EXCEPT !.at = "load", !.query = query, !.reset = reset]
  <2>2. n.rows = {} /\ n.missing = {} /\ n.stable = {}
    BY DEF Idle
  <2>3. Become(w, n) /\ report' = report
    BY <1>1, <2>1 DEF StartCheck
  <2> HIDE DEF n
  <2> QED
    BY <2>2, <2>3, GroundedIfKept
<1>2. CASE StartRepair(w)
  <2> DEFINE n == [Idle EXCEPT !.at = "repair", !.kind = "repair", !.query = query,
                               !.missing = report.missing]
  <2>1. n.rows = {} /\ n.missing = report.missing /\ n.stable = {}
    BY DEF Idle
  <2>2. Become(w, n) /\ report' = report
    BY <1>2 DEF StartRepair
  <2> HIDE DEF n
  <2> QED
    BY <2>1, <2>2, GroundedIfKept
<1>3. CASE Repair(w)
  <2> DEFINE n == [j EXCEPT !.at = "load", !.missing = {}]
  <2>1. n.rows = j.rows /\ n.missing = {} /\ n.stable = j.stable
    BY <1>0 DEF Jobs
  <2>2. Become(w, n) /\ report' = report /\ j.stable = {}
    BY <1>0, <1>3 DEF Repair, Carries
  <2> HIDE DEF n
  <2> QED
    BY <2>1, <2>2, GroundedIfKept
<1>4. CASE LoadCheckpoint(w)
  <2> DEFINE n == [j EXCEPT !.at = "scan", !.resume = ResumeAfter(w),
                            !.last = ResumeAfter(w), !.stable = source, !.reset = FALSE]
  <2>1. n.at = "scan" /\ n.rows = j.rows /\ n.missing = j.missing
    BY <1>0 DEF Jobs
  <2>2. Become(w, n) /\ report' = report
    BY <1>4 DEF LoadCheckpoint
  <2> HIDE DEF n
  <2> QED
    BY <2>1, <2>2, GroundedIfKept
<1>5. CASE RefuseCheckpoint(w)
  <2>1. Become(w, Idle) /\ report'.missing \subseteq Promise!LookedAt
    BY <1>5 DEF RefuseCheckpoint, NoReport, Grounded
  <2> QED
    BY <2>1, IdleCarries, GroundedOfStep
<1>6. CASE StopAtMaxPages(w)
  <2> DEFINE n == [j EXCEPT !.at = "close", !.completed = FALSE]
  <2>1. n.at = "close" /\ n.rows = j.rows /\ n.missing = j.missing
    BY <1>0 DEF Jobs
  <2>2. Become(w, n) /\ report' = report
    BY <1>6 DEF StopAtMaxPages
  <2> HIDE DEF n
  <2> QED
    BY <2>1, <2>2, GroundedIfKept
<1>7. CASE ReadPage(w)
  <2>1. PICK last \in Page(w) :
          Become(w, [j EXCEPT !.at = "save", !.rows = @ \cup Page(w), !.last = last,
                              !.pages = @ + 1, !.more = Cardinality(Page(w)) = PageSize])
    BY <1>7 DEF ReadPage
  <2> DEFINE n == [j EXCEPT !.at = "save", !.rows = @ \cup Page(w), !.last = last,
                            !.pages = @ + 1, !.more = Cardinality(Page(w)) = PageSize]
  <2>2. n.at = "save" /\ n.rows = j.rows \cup Page(w) /\ n.missing = j.missing
    BY <1>0 DEF Jobs
  <2>3. Become(w, n) /\ report' = report
    BY <1>7, <2>1 DEF ReadPage
  <2>4. Page(w) \subseteq Promise!LookedAt'
    <3>1. Page(w) \subseteq Keys /\ j.query \in Queries
      BY <1>0 DEF Page, Rest, TypeOK, Jobs
    <3>2. \A k \in Page(w) : <<j.query, k>> \in seen'
      BY <1>7 DEF ReadPage
    <3> QED
      BY <3>1, <3>2 DEF Promise!LookedAt
  <2>5. j.rows \subseteq Promise!LookedAt'
    BY <1>0, JobFrame, LookedAtGrows DEF Carries
  <2>6. j.missing \subseteq Promise!LookedAt /\ report.missing \subseteq Promise!LookedAt
    BY <1>0 DEF Carries, Grounded
  <2> HIDE DEF n
  <2> QED
    BY <2>2, <2>3, <2>4, <2>5, <2>6, GroundedOfStep
<1>8. CASE ReachEnd(w)
  <2> DEFINE n == [j EXCEPT !.at = "close"]
  <2>1. n.at = "close" /\ n.rows = j.rows /\ n.missing = j.missing
    BY <1>0 DEF Jobs
  <2>2. Become(w, n) /\ report' = report
    BY <1>8 DEF ReachEnd
  <2> HIDE DEF n
  <2> QED
    BY <2>1, <2>2, GroundedIfKept
<1>9. CASE SavePage(w)
  <2> DEFINE n == [j EXCEPT !.at = IF j.more THEN "scan" ELSE "close"]
  <2>1. n.at \in {"scan", "close"} /\ n.rows = j.rows /\ n.missing = j.missing
    BY <1>0 DEF Jobs
  <2>2. Become(w, n) /\ report' = report
    BY <1>9 DEF SavePage
  <2> HIDE DEF n
  <2> QED
    BY <2>1, <2>2, GroundedIfKept
<1>10. CASE SaveFinal(w)
  <2> DEFINE n == [j EXCEPT !.at = "compare", !.last = 0, !.pages = 0, !.more = TRUE]
  <2>1. n.at = "compare" /\ n.rows = j.rows /\ n.missing = j.missing
    BY <1>0 DEF Jobs
  <2>2. Become(w, n) /\ report' = report
    BY <1>10 DEF SaveFinal
  <2> HIDE DEF n
  <2> QED
    BY <2>1, <2>2, GroundedIfKept
<1>11. CASE Compare(w)
  <2> DEFINE n == [j EXCEPT !.at = "readRef", !.missing = j.rows \ target,
                            !.overlooked = IF Partial(j) THEN {} ELSE j.stable \ target,
                            !.rows = {}, !.stable = {}]
  <2>1. n.rows = {} /\ n.missing = j.rows \ target /\ n.stable = {}
    BY <1>0 DEF Jobs
  <2>2. Become(w, n) /\ report' = report
    BY <1>11 DEF Compare
  <2>3. j.rows \subseteq Promise!LookedAt /\ report.missing \subseteq Promise!LookedAt
    BY <1>0 DEF Carries, Grounded
  <2> HIDE DEF n
  <2> QED
    BY <2>1, <2>2, <2>3, GroundedOfStep
<1>12. CASE ReadForReportRef(w)
  <2> DEFINE n == [j EXCEPT !.at = "writeRef", !.held = checkpoint]
  <2>1. n.rows = j.rows /\ n.missing = j.missing /\ n.stable = j.stable
    BY <1>0 DEF Jobs
  <2>2. Become(w, n) /\ report' = report /\ j.stable = {}
    BY <1>0, <1>12 DEF ReadForReportRef, Carries
  <2> HIDE DEF n
  <2> QED
    BY <2>1, <2>2, GroundedIfKept
<1>13. CASE WriteReportRef(w)
  <2> DEFINE n == [j EXCEPT !.at = "publish", !.held = NoCheckpoint]
  <2>1. n.rows = j.rows /\ n.missing = j.missing /\ n.stable = j.stable
    BY <1>0 DEF Jobs
  <2>2. Become(w, n) /\ report' = report /\ j.stable = {}
    BY <1>0, <1>13 DEF WriteReportRef, Carries
  <2> HIDE DEF n
  <2> QED
    BY <2>1, <2>2, GroundedIfKept
<1>14. CASE Publish(w)
  <2>1. Become(w, Idle) /\ report'.missing \in {{}, j.missing}
    BY <1>14 DEF Publish
  <2>2. report'.missing \subseteq Promise!LookedAt
    BY <1>0, <2>1 DEF Carries
  <2> QED
    BY <2>1, <2>2, IdleCarries, GroundedOfStep
<1>15. CASE Crash(w)
  BY <1>15, IdleCarries, GroundedIfKept DEF Crash
<1> QED
  BY <1>1, <1>2, <1>3, <1>4, <1>5, <1>6, <1>7, <1>8, <1>9, <1>10, <1>11, <1>12, <1>13,
     <1>14, <1>15 DEF Job

LEMMA DataGrounded ==
  ASSUME TypeOK, Grounded, Data
  PROVE  Grounded'
<1>1. seen' = seen /\ report' = report
  BY DEF Data, InsertRow, RemoveRow, IndexRow, LoseDocument, EditQuery
<1>2. Promise!LookedAt' = Promise!LookedAt
  BY <1>1 DEF Promise!LookedAt
<1>3. ASSUME NEW w \in Workers PROVE Carries(job[w])'
  <2>0. job[w] \in Jobs /\ Carries(job[w])
    BY DEF TypeOK, Grounded
  <2>1. CASE job' = job
    BY <1>2, <2>0, <2>1 DEF Carries
  <2>2. ASSUME NEW k \in Keys, RemoveRow(k) PROVE Carries(job[w])'
    <3>1. job'[w] = [job[w] EXCEPT !.stable = @ \ {k}]
      BY <2>2 DEF RemoveRow
    <3> QED
      BY <1>2, <2>0, <3>1 DEF Carries, Jobs
  <2> QED
    BY <2>1, <2>2 DEF Data, InsertRow, IndexRow, LoseDocument, EditQuery
<1> QED
  BY <1>1, <1>2, <1>3 DEF Grounded

Standings == [w \in Workers |-> Standing(job[w])]
Windows == [w \in Workers |-> job[w].stable]

LEMMA MappedStep ==
  ASSUME TypeOK, NEW w \in Workers, NEW j, Become(w, j)
  PROVE  /\ Standings' = [Standings EXCEPT ![w] = Standing(j)]
         /\ Windows' = [Windows EXCEPT ![w] = j.stable]
<1>1. \A v \in Workers : job'[v] = IF v = w THEN j ELSE job[v]
  BY DEF Become, TypeOK
<1> QED
  BY <1>1 DEF Standings, Windows

LEMMA SameStanding ==
  ASSUME TypeOK, NEW w \in Workers, NEW j, Become(w, j),
         Standing(j) = Standing(job[w]), j.stable = job[w].stable
  PROVE  Standings' = Standings /\ Windows' = Windows
<1>1. \A v \in Workers : job'[v] = IF v = w THEN j ELSE job[v]
  BY DEF Become, TypeOK
<1> QED
  BY <1>1 DEF Standings, Windows

\* A step no reader of the promise can see.
LEMMA Unseen ==
  ASSUME UNCHANGED <<source, target, old, seen, checkpoint>>, report'.phase = report.phase,
         Standings' = Standings, Windows' = Windows
  PROVE  UNCHANGED Promise!vars
BY DEF Promise!vars, Standings, Windows

\* Writing the checkpoint, whatever is written.
LEMMA ClaimStep ==
  ASSUME Coverage', UNCHANGED <<source, target, old, seen, report>>,
         Standings' = Standings, Windows' = Windows
  PROVE  [Promise!Next]_Promise!vars
<1>1. CASE checkpoint' = checkpoint
  BY <1>1, Unseen
<1>2. CASE checkpoint' # checkpoint
  <2>1. \A k \in old : k <= checkpoint'.last => <<checkpoint'.query, k>> \in seen
    BY DEF Coverage, CheckpointCovered, Covered
  <2>2. Promise!Claim
    BY <1>2, <2>1 DEF Promise!Claim, Standings, Windows
  <2> QED
    BY <2>2 DEF Promise!Next
<1> QED
  BY <1>1, <1>2

LEMMA StandingOf ==
  ASSUME NEW j
  PROVE  /\ j.at \in {"idle", "repair", "load"} => Standing(j) = "idle"
         /\ j.at \in {"scan", "save", "close", "compare"} => Standing(j) = "looking"
         /\ j.at \in {"readRef", "writeRef", "publish"} => Standing(j) = Verdict(j)
BY DEF Standing

\* What a report says of a verdict.
LEMMA PhaseIsWording ==
  ASSUME NEW j \in Jobs
  PROVE  /\ Verdict(j) \in {"clean", "drift", "open"}
         /\ Phase(j) \in Promise!Wording(Verdict(j))
<1>1. CASE Partial(j)
  BY <1>1 DEF Verdict, Phase, Promise!Wording, Jobs, Kinds
<1>2. CASE ~ Partial(j) /\ j.missing = {}
  BY <1>2 DEF Verdict, Phase, Promise!Wording, Jobs, Kinds
<1>3. CASE ~ Partial(j) /\ j.missing # {}
  BY <1>3 DEF Verdict, Phase, Promise!Wording, Jobs, Kinds
<1> QED
  BY <1>1, <1>2, <1>3

\* The comparison decides: rows in the window were read, so none of them is missing
\* if no row that was read is.
LEMMA DecideStep ==
  ASSUME TypeOK, Thoroughness, Grounded, NEW w \in Workers, Compare(w)
  PROVE  Promise!Decide(w)
<1> DEFINE j == job[w]
           n == [j EXCEPT !.at = "readRef", !.missing = j.rows \ target,
                          !.overlooked = IF Partial(j) THEN {} ELSE j.stable \ target,
                          !.rows = {}, !.stable = {}]
<1>0. j \in Jobs /\ Thorough(j) /\ Carries(j) /\ j.at = "compare"
  BY DEF TypeOK, Thoroughness, Grounded, Compare
<1>1. /\ n.at = "readRef" /\ n.missing = j.rows \ target /\ n.stable = {}
      /\ n.resume = j.resume /\ n.completed = j.completed
  BY <1>0 DEF Jobs
<1>2. Become(w, n) /\ UNCHANGED <<source, target, old, checkpoint, report, seen>>
  BY DEF Compare, dataVars
<1> DEFINE verdict == Verdict(n)
<1> HIDE DEF n
<1>3. Standings' = [Standings EXCEPT ![w] = verdict] /\ Windows' = [Windows EXCEPT ![w] = {}]
  <2>1. Standing(n) = verdict
    BY <1>1, StandingOf
  <2> QED
    BY <1>1, <1>2, <2>1, MappedStep
<1>4. verdict \in {"clean", "drift", "open"}
  BY DEF Verdict
<1>5. verdict = "clean" => j.stable \subseteq target
  <2>1. verdict = "clean" => ~ Partial(j) /\ j.rows \subseteq target
    BY <1>1 DEF Verdict, Partial
  <2>2. ~ Partial(j) => j.stable \subseteq j.rows
    BY <1>0 DEF Thorough
  <2> QED
    BY <2>1, <2>2
<1>6. verdict = "drift" => ~ Promise!LookedAt \subseteq target
  <2>1. verdict = "drift" => j.rows \ target # {}
    BY <1>1 DEF Verdict
  <2>2. j.rows \subseteq Promise!LookedAt
    BY <1>0 DEF Carries
  <2> QED
    BY <2>1, <2>2
<1>7. Standings[w] = "looking" /\ Windows[w] = j.stable
  BY <1>0, StandingOf DEF Standings, Windows
<1> HIDE DEF verdict
<1>8. \E v \in {"clean", "drift", "open"} :
        /\ v = "clean" => Windows[w] \subseteq target
        /\ v = "drift" => ~ Promise!LookedAt \subseteq target
        /\ Standings' = [Standings EXCEPT ![w] = v]
  BY <1>3, <1>4, <1>5, <1>6, <1>7
<1> QED
  BY <1>2, <1>3, <1>7, <1>8 DEF Promise!Decide, Standings, Windows

LEMMA LookStep ==
  ASSUME TypeOK, NEW w \in Workers, ReadPage(w)
  PROVE  Promise!Look(w)
<1> DEFINE j == job[w]
<1>0. j \in Jobs /\ j.at = "scan"
  BY DEF TypeOK, ReadPage
<1>1. PICK last \in Page(w) :
        Become(w, [j EXCEPT !.at = "save", !.rows = @ \cup Page(w), !.last = last,
                            !.pages = @ + 1, !.more = Cardinality(Page(w)) = PageSize])
  BY DEF ReadPage
<1> DEFINE n == [j EXCEPT !.at = "save", !.rows = @ \cup Page(w), !.last = last,
                          !.pages = @ + 1, !.more = Cardinality(Page(w)) = PageSize]
<1>2. n.at = "save" /\ n.stable = j.stable
  BY <1>0 DEF Jobs
<1>3. /\ Become(w, n)
      /\ UNCHANGED <<source, target, old, checkpoint, report>>
  BY <1>1 DEF ReadPage, dataVars
<1> HIDE DEF n
<1>4. Standings' = Standings /\ Windows' = Windows /\ Standings[w] = "looking"
  BY <1>0, <1>2, <1>3, SameStanding, StandingOf DEF Standings
<1>5. /\ j.query \in Queries /\ Page(w) \subseteq source
      /\ seen' = seen \cup {<<j.query, k>> : k \in Page(w)}
  BY <1>0 DEF Jobs, Page, Rest, ReadPage
<1>6. seen \subseteq seen' /\ \E q \in Queries : seen' \ seen \subseteq {q} \X source
  BY <1>5
<1> QED
  BY <1>3, <1>4, <1>6 DEF Promise!Look, Standings, Windows

LEMMA ShowStep ==
  ASSUME TypeOK, Grounded, NEW w \in Workers, Publish(w)
  PROVE  Promise!Show(w)
<1> DEFINE j == job[w]
<1>0. j \in Jobs /\ Carries(j) /\ j.at = "publish"
  BY DEF TypeOK, Grounded, Publish
<1>1. /\ Become(w, Idle) /\ report'.phase = Phase(j)
      /\ UNCHANGED <<source, target, old, checkpoint, seen>>
  BY DEF Publish, dataVars
<1>2. Standings[w] = Verdict(j) /\ Windows[w] = {}
  BY <1>0, StandingOf DEF Standings, Windows, Carries
<1>3. /\ Standings' = [Standings EXCEPT ![w] = "idle"]
      /\ Windows' = [Windows EXCEPT ![w] = {}]
  BY <1>1, IdleCarries, MappedStep, StandingOf
<1>4. Windows' = Windows
  BY <1>2, <1>3 DEF Windows
<1>5. Verdict(j) \in {"clean", "drift", "open"} /\ Phase(j) \in Promise!Wording(Verdict(j))
  BY <1>0, PhaseIsWording
<1> QED
  BY <1>1, <1>2, <1>3, <1>4, <1>5 DEF Promise!Show, Standings, Windows

\* A step that moves a Job between two stages of the same standing.
LEMMA QuietStep ==
  ASSUME TypeOK, NEW w \in Workers, NEW j, Become(w, j),
         Standing(j) = Standing(job[w]), j.stable = job[w].stable,
         UNCHANGED <<source, target, old, seen, checkpoint>>, report'.phase = report.phase
  PROVE  [Promise!Next]_Promise!vars
BY SameStanding, Unseen

LEMMA JobKeepsPromise ==
  ASSUME TypeOK, Coverage', Thoroughness, Grounded, NEW w \in Workers, Job(w)
  PROVE  [Promise!Next]_Promise!vars
<1> DEFINE j == job[w]
<1>0. j \in Jobs /\ Carries(j)
  BY DEF TypeOK, Grounded
<1>a. Standing(Idle) = "idle"
  BY IdleCarries, StandingOf
<1>1. CASE StartCheck(w)
  <2>1. PICK reset \in {FALSE, ResetAllowed} :
          Become(w, [Idle EXCEPT !.at = "load", !.query = query, !.reset = reset])
    BY <1>1 DEF StartCheck
  <2> DEFINE n == [Idle EXCEPT !.at = "load", !.query = query, !.reset = reset]
  <2>2. n.at = "load" /\ n.stable = {}
    BY DEF Idle
  <2>3. Become(w, n) /\ UNCHANGED <<source, target, old, seen, checkpoint, report>>
    BY <1>1, <2>1 DEF StartCheck, dataVars
  <2> HIDE DEF n
  <2>4. Standing(n) = Standing(j) /\ j.stable = {}
    BY <1>0, <1>1, <2>2, StandingOf DEF StartCheck, Carries
  <2> QED
    BY <2>2, <2>3, <2>4, QuietStep
<1>2. CASE StartRepair(w)
  <2> DEFINE n == [Idle EXCEPT !.at = "repair", !.kind = "repair", !.query = query,
                               !.missing = report.missing]
  <2>1. n.at = "repair" /\ n.stable = {}
    BY DEF Idle
  <2>2. Become(w, n) /\ UNCHANGED <<source, target, old, seen, checkpoint, report>>
    BY <1>2 DEF StartRepair, dataVars
  <2> HIDE DEF n
  <2>3. Standing(n) = Standing(j) /\ j.stable = {}
    BY <1>0, <1>2, <2>1, StandingOf DEF StartRepair, Carries
  <2> QED
    BY <2>1, <2>2, <2>3, QuietStep
<1>3. CASE Repair(w)
  <2> DEFINE n == [j EXCEPT !.at = "load", !.missing = {}]
  <2>1. n.at = "load" /\ n.stable = j.stable
    BY <1>0 DEF Jobs
  <2>2. Become(w, n) /\ UNCHANGED <<source, old, seen, checkpoint, report>>
    BY <1>3 DEF Repair
  <2> HIDE DEF n
  <2>3. Standings' = Standings /\ Windows' = Windows
    <3>1. Standing(n) = Standing(j)
      BY <1>3, <2>1, StandingOf DEF Repair
    <3> QED
      BY <2>1, <2>2, <3>1, SameStanding
  <2>4. target \subseteq target' /\ target' \ target \subseteq source \cap Promise!LookedAt
    BY <1>0, <1>3 DEF Repair, Rewritable, Carries
  <2>5. CASE target' = target
    BY <2>2, <2>3, <2>5, Unseen
  <2>6. CASE target' # target
    <3>1. Promise!Restore
      BY <2>2, <2>3, <2>4, <2>6 DEF Promise!Restore, Promise!checks, Standings, Windows
    <3> QED
      BY <3>1 DEF Promise!Next
  <2> QED
    BY <2>5, <2>6
<1>4. CASE LoadCheckpoint(w)
  <2> DEFINE n == [j EXCEPT !.at = "scan", !.resume = ResumeAfter(w),
                            !.last = ResumeAfter(w), !.stable = source, !.reset = FALSE]
  <2>1. n.at = "scan" /\ n.stable = source
    BY <1>0 DEF Jobs
  <2>2. Become(w, n) /\ UNCHANGED <<source, target, old, seen, checkpoint, report>>
    BY <1>4 DEF LoadCheckpoint, dataVars
  <2> HIDE DEF n
  <2>3. /\ Standings[w] = "idle"
        /\ Standings' = [Standings EXCEPT ![w] = "looking"]
        /\ Windows' = [Windows EXCEPT ![w] = source]
    <3>1. Standing(n) = "looking" /\ Standing(j) = "idle"
      BY <1>4, <2>1, StandingOf DEF LoadCheckpoint
    <3>2. Standings[w] = Standing(j)
      BY DEF Standings
    <3> QED
      BY <2>1, <2>2, <3>1, <3>2, MappedStep
  <2>4. Promise!Begin(w)
    BY <2>2, <2>3 DEF Promise!Begin, Standings, Windows
  <2> QED
    BY <2>4 DEF Promise!Next
<1>5. CASE RefuseCheckpoint(w)
  <2>1. /\ Become(w, Idle) /\ UNCHANGED <<source, target, old, seen, checkpoint>>
        /\ report' = report \/ report'.phase = "CheckFailed"
    BY <1>5 DEF RefuseCheckpoint, dataVars, NoReport
  <2>2. Standing(Idle) = Standing(j) /\ Idle.stable = j.stable
    BY <1>0, <1>5, <1>a, IdleCarries, StandingOf DEF RefuseCheckpoint, Carries
  <2>3. CASE report' = report
    BY <2>1, <2>2, <2>3, QuietStep
  <2>4. CASE report'.phase = "CheckFailed"
    <3>1. Standings' = Standings /\ Windows' = Windows
      BY <2>1, <2>2, SameStanding
    <3>2. Promise!ShowFailure
      BY <2>1, <2>4, <3>1 DEF Promise!ShowFailure, Standings, Windows
    <3> QED
      BY <3>2 DEF Promise!Next
  <2> QED
    BY <2>1, <2>3, <2>4
<1>6. CASE StopAtMaxPages(w)
  <2> DEFINE n == [j EXCEPT !.at = "close", !.completed = FALSE]
  <2>1. n.at = "close" /\ n.stable = j.stable
    BY <1>0 DEF Jobs
  <2>2. Become(w, n) /\ UNCHANGED <<source, target, old, seen, checkpoint, report>>
    BY <1>6 DEF StopAtMaxPages, dataVars
  <2> HIDE DEF n
  <2>3. Standing(n) = Standing(j)
    BY <1>6, <2>1, StandingOf DEF StopAtMaxPages
  <2> QED
    BY <2>1, <2>2, <2>3, QuietStep
<1>7. CASE ReadPage(w)
  BY <1>7, LookStep DEF Promise!Next
<1>8. CASE ReachEnd(w)
  <2> DEFINE n == [j EXCEPT !.at = "close"]
  <2>1. n.at = "close" /\ n.stable = j.stable
    BY <1>0 DEF Jobs
  <2>2. Become(w, n) /\ UNCHANGED <<source, target, old, seen, checkpoint, report>>
    BY <1>8 DEF ReachEnd, dataVars
  <2> HIDE DEF n
  <2>3. Standing(n) = Standing(j)
    BY <1>8, <2>1, StandingOf DEF ReachEnd
  <2> QED
    BY <2>1, <2>2, <2>3, QuietStep
<1>9. CASE SavePage(w)
  <2> DEFINE n == [j EXCEPT !.at = IF j.more THEN "scan" ELSE "close"]
  <2>1. n.at \in {"scan", "close"} /\ n.stable = j.stable
    BY <1>0 DEF Jobs
  <2>2. Become(w, n) /\ UNCHANGED <<source, target, old, seen, report>>
    BY <1>9 DEF SavePage, dataVars
  <2> HIDE DEF n
  <2>3. Standing(n) = Standing(j)
    BY <1>9, <2>1, StandingOf DEF SavePage
  <2> QED
    BY <2>1, <2>2, <2>3, SameStanding, ClaimStep
<1>10. CASE SaveFinal(w)
  <2> DEFINE n == [j EXCEPT !.at = "compare", !.last = 0, !.pages = 0, !.more = TRUE]
  <2>1. n.at = "compare" /\ n.stable = j.stable
    BY <1>0 DEF Jobs
  <2>2. Become(w, n) /\ UNCHANGED <<source, target, old, seen, report>>
    BY <1>10 DEF SaveFinal, dataVars
  <2> HIDE DEF n
  <2>3. Standing(n) = Standing(j)
    BY <1>10, <2>1, StandingOf DEF SaveFinal
  <2> QED
    BY <2>1, <2>2, <2>3, SameStanding, ClaimStep
<1>11. CASE Compare(w)
  BY <1>11, DecideStep DEF Promise!Next
<1>12. CASE ReadForReportRef(w)
  <2> DEFINE n == [j EXCEPT !.at = "writeRef", !.held = checkpoint]
  <2>1. /\ n.at = "writeRef" /\ n.stable = j.stable /\ n.missing = j.missing
        /\ n.resume = j.resume /\ n.completed = j.completed
    BY <1>0 DEF Jobs
  <2>2. Become(w, n) /\ UNCHANGED <<source, target, old, seen, checkpoint, report>>
    BY <1>12 DEF ReadForReportRef, dataVars
  <2> HIDE DEF n
  <2>3. Standing(n) = Standing(j)
    <3>1. Verdict(n) = Verdict(j)
      BY <2>1 DEF Verdict, Partial
    <3> QED
      BY <1>12, <2>1, <3>1, StandingOf DEF ReadForReportRef
  <2> QED
    BY <2>1, <2>2, <2>3, QuietStep
<1>13. CASE WriteReportRef(w)
  <2> DEFINE n == [j EXCEPT !.at = "publish", !.held = NoCheckpoint]
  <2>1. /\ n.at = "publish" /\ n.stable = j.stable /\ n.missing = j.missing
        /\ n.resume = j.resume /\ n.completed = j.completed
    BY <1>0 DEF Jobs
  <2>2. Become(w, n) /\ UNCHANGED <<source, target, old, seen, report>>
    BY <1>13 DEF WriteReportRef, dataVars
  <2> HIDE DEF n
  <2>3. Standing(n) = Standing(j)
    <3>1. Verdict(n) = Verdict(j)
      BY <2>1 DEF Verdict, Partial
    <3> QED
      BY <1>13, <2>1, <3>1, StandingOf DEF WriteReportRef
  <2> QED
    BY <2>1, <2>2, <2>3, SameStanding, ClaimStep
<1>14. CASE Publish(w)
  BY <1>14, ShowStep DEF Promise!Next
<1>15. CASE Crash(w)
  <2>1. Become(w, Idle) /\ UNCHANGED <<source, target, old, seen, checkpoint, report>>
    BY <1>15 DEF Crash, dataVars
  <2>2. /\ Standings' = [Standings EXCEPT ![w] = "idle"]
        /\ Windows' = [Windows EXCEPT ![w] = {}]
    BY <1>a, <2>1, IdleCarries, MappedStep
  <2>3. CASE Standings[w] # "idle"
    <3>1. Promise!Abandon(w)
      BY <2>1, <2>2, <2>3 DEF Promise!Abandon, Standings, Windows
    <3> QED
      BY <3>1 DEF Promise!Next
  <2>4. CASE Standings[w] = "idle"
    <3>1. Standing(j) = "idle" /\ j.stable = {}
      <4>1. Standing(j) = "idle"
        BY <2>4 DEF Standings
      <4>2. j.at \in Stages
        BY <1>0 DEF Jobs
      <4>3. j.at \notin {"scan", "save", "close", "compare"}
        BY <4>1, StandingOf
      <4> QED
        BY <1>0, <4>1, <4>3 DEF Carries
    <3> QED
      BY <1>a, <2>1, <3>1, IdleCarries, QuietStep
  <2> QED
    BY <2>3, <2>4
<1> QED
  BY <1>1, <1>2, <1>3, <1>4, <1>5, <1>6, <1>7, <1>8, <1>9, <1>10, <1>11, <1>12, <1>13,
     <1>14, <1>15 DEF Job

LEMMA DataKeepsPromise ==
  ASSUME TypeOK, Grounded, Data
  PROVE  [Promise!Next]_Promise!vars
<1>1. ASSUME job' = job PROVE Standings' = Standings /\ Windows' = Windows
  BY <1>1 DEF Standings, Windows
<1>2. ASSUME NEW k \in Keys, InsertRow(k) PROVE [Promise!Next]_Promise!vars
  <2>1. Promise!Insert(k)
    BY <1>1, <1>2 DEF InsertRow, Promise!Insert, Promise!checks, Standings, Windows
  <2> QED
    BY <2>1 DEF Promise!Next
<1>3. ASSUME NEW k \in Keys, RemoveRow(k) PROVE [Promise!Next]_Promise!vars
  <2>1. ASSUME NEW w \in Workers
        PROVE  Standing(job'[w]) = Standing(job[w]) /\ job'[w].stable = job[w].stable \ {k}
    <3> DEFINE n == [job[w] EXCEPT !.stable = @ \ {k}]
    <3>1. job'[w] = n
      BY <1>3 DEF RemoveRow
    <3>2. /\ n.at = job[w].at /\ n.missing = job[w].missing
          /\ n.resume = job[w].resume /\ n.completed = job[w].completed
          /\ n.stable = job[w].stable \ {k}
      BY DEF TypeOK, Jobs
    <3> HIDE DEF n
    <3>3. Standing(n) = Standing(job[w])
      BY <3>2 DEF Standing, Verdict, Partial
    <3> QED
      BY <3>1, <3>2, <3>3
  <2>2. Standings' = Standings /\ Windows' = [w \in Workers |-> Windows[w] \ {k}]
    BY <2>1 DEF Standings, Windows
  <2>3. Promise!Remove(k)
    BY <1>3, <2>2 DEF RemoveRow, Promise!Remove, Standings, Windows
  <2> QED
    BY <2>3 DEF Promise!Next
<1>4. ASSUME NEW k \in Keys, IndexRow(k) PROVE [Promise!Next]_Promise!vars
  <2>1. Promise!Index(k)
    BY <1>1, <1>4 DEF IndexRow, Promise!Index, Promise!checks, Standings, Windows
  <2> QED
    BY <2>1 DEF Promise!Next
<1>5. ASSUME NEW k \in Keys, LoseDocument(k) PROVE [Promise!Next]_Promise!vars
  <2>1. Promise!Lose(k)
    BY <1>1, <1>5 DEF LoseDocument, Promise!Lose, Promise!checks, Standings, Windows
  <2> QED
    BY <2>1 DEF Promise!Next
<1>6. CASE EditQuery
  BY <1>1, <1>6, Unseen DEF EditQuery
<1> QED
  BY <1>2, <1>3, <1>4, <1>5, <1>6 DEF Data

\* Every behaviour of the Jobs, the shared checkpoint and the data is one that
\* ScanPromise allows.
THEOREM ScanImplementsPromise == Spec => ImplementsScanPromise
<1>1. Init => Coverage /\ Thoroughness /\ Grounded
  <2> SUFFICES ASSUME Init PROVE Coverage /\ Thoroughness /\ Grounded
    OBVIOUS
  <2>1. Coverage
    BY DEF Init, Coverage, CheckpointCovered, Covered, Idle, NoCheckpoint, Keys
  <2>2. Thoroughness
    BY IdleThorough DEF Init, Thoroughness, HealthyOverlooksNothing, NoReport
  <2>3. Grounded
    BY IdleCarries DEF Init, Grounded, NoReport
  <2> QED
    BY <2>1, <2>2, <2>3
<1>2. Init => Promise!Init
  <2> SUFFICES ASSUME Init PROVE Promise!Init
    OBVIOUS
  <2>1. Standing(Idle) = "idle" /\ Idle.stable = {}
    BY IdleCarries, StandingOf
  <2>2. Standings = [w \in Workers |-> "idle"] /\ Windows = [w \in Workers |-> {}]
    BY <2>1 DEF Init, Standings, Windows
  <2> QED
    BY <2>2 DEF Init, Promise!Init, NoCheckpoint, NoReport, Standings, Windows
<1>3. TypeOK /\ Coverage /\ Thoroughness /\ Grounded /\ [Next]_vars
        => Coverage' /\ Thoroughness' /\ Grounded'
  <2> SUFFICES ASSUME TypeOK, Coverage, Thoroughness, Grounded, [Next]_vars
               PROVE  Coverage' /\ Thoroughness' /\ Grounded'
    OBVIOUS
  <2>1. CASE UNCHANGED vars
    <3>1. Promise!LookedAt' = Promise!LookedAt
      BY <2>1 DEF vars, Promise!LookedAt
    <3>2. Grounded'
      BY <2>1, <3>1 DEF vars, Grounded, Carries
    <3> QED
      BY <2>1, <3>2 DEF vars, Coverage, CheckpointCovered, Covered, Thoroughness, Thorough,
                        Partial, HealthyOverlooksNothing
  <2> QED
    BY <2>1, JobCoverage, DataCoverage, JobThorough, DataThorough, JobGrounded,
       DataGrounded DEF Next
<1>4. /\ TypeOK /\ Thoroughness /\ Grounded /\ Coverage'
      /\ [Next]_vars
      => [Promise!Next]_Promise!vars
  <2> SUFFICES ASSUME TypeOK, Thoroughness, Grounded, Coverage', [Next]_vars
               PROVE  [Promise!Next]_Promise!vars
    OBVIOUS
  <2>1. CASE UNCHANGED vars
    BY <2>1, Unseen DEF vars, Standings, Windows
  <2> QED
    BY <2>1, JobKeepsPromise, DataKeepsPromise DEF Next
<1> QED
  BY <1>1, <1>2, <1>3, <1>4, ScanTypeCorrect, PTL
     DEF Spec, ImplementsScanPromise, Promise!Spec
=============================================================================
