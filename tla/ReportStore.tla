---------------------------- MODULE ReportStore ----------------------------
(***************************************************************************)
(* The artifacts of reports: the files a check or repair process writes    *)
(* into its report directory, the retention it applies there, and the      *)
(* upload of its files to the shared bucket (REPORT_STORE = s3).           *)
(*                                                                         *)
(* A process writes one report.  Processes on one host share a directory,  *)
(* a Pod has its own, and the bucket and its prefix are shared by all.     *)
(* File names hold the second in which the process formed its stamp.       *)
(* Retention by age (REPORT_RETENTION_DAYS) is left out: no report here is *)
(* a day old.                                                              *)
(***************************************************************************)
EXTENDS Integers, FiniteSets, Sequences, Functions

CONSTANTS Reports,            \* the processes, each with its one report
          Directory,          \* the report directory of each
          Keep,               \* REPORT_RETENTION_COUNT, 0 for no bound
          MaxSecond           \* bound: the clock

VARIABLES second,             \* the clock
          writer,             \* the processes
          local,              \* directory -> file -> the report in it
          mtime,              \* directory -> stamp -> when its JSON was written, or 0
          bucket,             \* key -> the report in it
          writes,             \* directory -> the JSON files ever written, which is
                              \* the clock of its mtimes
          wrote,              \* history: the mtime that its JSON has been given, or 0
          listed              \* history: the writes when it listed the directory

history == <<wrote, listed>>
storeVars == <<second, writer, local, mtime, bucket, writes, history>>

Nobody == "nobody"

ASSUME StoreAssumption ==
    /\ IsFiniteSet(Reports) /\ Nobody \notin Reports
    /\ Keep \in Nat /\ MaxSecond \in Nat \ {0}

Directories == {Directory[r] : r \in Reports}

\* In the order in which they are written and uploaded.
Parts == <<"json", "markdown", "compact", "latest">>

\* drift-<stamp>.json, .md, .compact.json; latest.json has no stamp.
BadStamp(time) == (time + 1) \div 2            \* a coarser clock
Stamp(time) == time
Name(stamp, part) == IF part = "latest" THEN <<0, part>> ELSE <<stamp, part>>
Names == (0..MaxSecond) \X Range(Parts)
Family(stamp) == {Name(stamp, part) : part \in {"json", "markdown", "compact"}}

Stamps == 0..MaxSecond
NoTimes == [s \in Stamps |-> 0]
Present(times) == {s \in Stamps : times[s] # 0}

Running == {"write", "list", "delete", "upload"}
WriterStages == Running \union {"idle", "done", "lost", "failed", "killed"}
Idle == [stage |-> "idle", time |-> 0, part |-> 1, list |-> NoTimes, victims |-> {}]

StoreTypeOK ==
    /\ second \in 1..MaxSecond
    /\ writer \in [Reports -> [stage : WriterStages, time : Stamps, part : 1..Len(Parts),
                               list : [Stamps -> Nat], victims : SUBSET Stamps]]
    /\ local \in [Directories -> [Names -> Reports \union {Nobody}]]
    /\ mtime \in [Directories -> [Stamps -> Nat]]
    /\ bucket \in [Names -> Reports \union {Nobody}]
    /\ writes \in [Directories -> Nat]
    /\ wrote \in [Reports -> Nat] /\ listed \in [Reports -> Nat]

StoreInit ==
    /\ second = 1
    /\ writer = [r \in Reports |-> Idle]
    /\ local = [d \in Directories |-> [n \in Names |-> Nobody]]
    /\ mtime = [d \in Directories |-> NoTimes]
    /\ bucket = [n \in Names |-> Nobody]
    /\ writes = [d \in Directories |-> 0]
    /\ wrote = [r \in Reports |-> 0] /\ listed = [r \in Reports |-> 0]

NameOf(r) == Name(Stamp(writer[r].time), Parts[writer[r].part])

\* The next part, or after the last one the next stage.
Advance(r, then) ==
    writer' = IF writer[r].part < Len(Parts)
              THEN [writer EXCEPT ![r].part = @ + 1]
              ELSE [writer EXCEPT ![r].stage = then, ![r].part = 1]

ClockTicks ==
    /\ second < MaxSecond
    /\ second' = second + 1
    /\ UNCHANGED <<writer, local, mtime, bucket, writes, history>>

\* write_reports: the stamp.
Begin(r) ==
    /\ writer[r].stage = "idle"
    /\ writer' = [writer EXCEPT ![r].stage = "write", ![r].time = second]
    /\ UNCHANGED <<second, local, mtime, bucket, writes, history>>

\* write_reports: one file after the other, over what has the same name.
WriteFile(r) ==
    /\ writer[r].stage = "write"
    /\ local' = [local EXCEPT ![Directory[r]][NameOf(r)] = r]
    /\ IF Parts[writer[r].part] = "json"
       THEN LET now == writes[Directory[r]] + 1 IN
            /\ mtime' = [mtime EXCEPT ![Directory[r]][NameOf(r)[1]] = now]
            /\ writes' = [writes EXCEPT ![Directory[r]] = now]
            /\ wrote' = [wrote EXCEPT ![r] = now]
       ELSE UNCHANGED <<mtime, writes, wrote>>
    /\ Advance(r, "list")
    /\ UNCHANGED <<second, bucket, listed>>

\* The reports at or after the index report_count, newest first: those with so many
\* newer ones.  The second version sorts the other way round, the third is one off.
Newer(times, s) == {t \in Stamps : times[t] > times[s]}
BadOrder(times) ==
    {s \in Present(times) :
       Keep > 0 /\ Cardinality({t \in Present(times) : times[t] < times[s]}) >= Keep}
BadIndex(times) == {s \in Present(times) : Keep > 0 /\ Cardinality(Newer(times, s)) > Keep}
Beyond(times) == {s \in Present(times) : Keep > 0 /\ Cardinality(Newer(times, s)) >= Keep}

\* apply_local_retention: the list of reports by mtime (glob and stat in one step).
ListReports(r) ==
    /\ writer[r].stage = "list"
    /\ writer' = [writer EXCEPT ![r].stage = "delete",
                                ![r].list = mtime[Directory[r]],
                                ![r].victims = Beyond(mtime[Directory[r]])]
    /\ listed' = [listed EXCEPT ![r] = writes[Directory[r]]]
    /\ UNCHANGED <<second, local, mtime, bucket, writes, wrote>>

\* The loop over the list is at this report, newest first.
AtReport(r, stamp) ==
    /\ writer[r].stage = "delete"
    /\ stamp \in Present(writer[r].list)
    /\ \A s \in Present(writer[r].list) : writer[r].list[s] <= writer[r].list[stamp]

\* Its file is there still, and is deleted with its family if there are too many.
VisitReport(r) ==
    /\ \E stamp \in Stamps :
          /\ AtReport(r, stamp)
          /\ mtime[Directory[r]][stamp] # 0
          /\ IF stamp \in writer[r].victims
             THEN /\ local' = [local EXCEPT
                       ![Directory[r]] = [n \in Names |->
                                            IF n \in Family(stamp) THEN Nobody ELSE @[n]]]
                  /\ mtime' = [mtime EXCEPT ![Directory[r]][stamp] = 0]
             ELSE UNCHANGED <<local, mtime>>
          /\ writer' = [writer EXCEPT ![r].list[stamp] = 0, ![r].victims = @ \ {stamp}]
    /\ UNCHANGED <<second, bucket, writes, history>>

\* Another process has deleted it meanwhile: stat raises, and nothing is uploaded.
StatFails(r) ==
    /\ \E stamp \in Stamps : AtReport(r, stamp) /\ mtime[Directory[r]][stamp] = 0
    /\ writer' = [writer EXCEPT ![r].stage = "failed"]
    /\ UNCHANGED <<second, local, mtime, bucket, writes, history>>

RetentionDone(r) ==
    /\ writer[r].stage = "delete" /\ Present(writer[r].list) = {}
    /\ writer' = [writer EXCEPT ![r].stage = "upload"]
    /\ UNCHANGED <<second, local, mtime, bucket, writes, history>>

\* publish_s3_artifacts: one file after the other, whatever is in it by now; after
\* the last one the references are returned.
Upload(r) ==
    /\ writer[r].stage = "upload"
    /\ local[Directory[r]][NameOf(r)] # Nobody
    /\ bucket' = [bucket EXCEPT ![NameOf(r)] = local[Directory[r]][NameOf(r)]]
    /\ Advance(r, "done")
    /\ UNCHANGED <<second, local, mtime, writes, history>>

\* ... the file is gone: upload_file raises.
UploadFails(r) ==
    /\ writer[r].stage = "upload"
    /\ local[Directory[r]][NameOf(r)] = Nobody
    /\ writer' = [writer EXCEPT ![r].stage = "lost"]
    /\ UNCHANGED <<second, local, mtime, bucket, writes, history>>

\* The Pod is killed at its deadline.
Kill(r) ==
    /\ writer[r].stage \in Running
    /\ writer' = [writer EXCEPT ![r].stage = "killed"]
    /\ UNCHANGED <<second, local, mtime, bucket, writes, history>>

StoreNext ==
    \/ ClockTicks
    \/ \E r \in Reports :
          \/ Begin(r)
          \/ WriteFile(r)
          \/ ListReports(r)
          \/ VisitReport(r)
          \/ StatFails(r)
          \/ RetentionDone(r)
          \/ Upload(r)
          \/ UploadFails(r)
          \/ Kill(r)

StoreSpec == StoreInit /\ [][StoreNext]_storeVars

-----------------------------------------------------------------------------
\* The references of a report lead to it: if no other process formed its stamp in
\* the same second, the bucket holds the three artifacts of that very report when
\* the references are returned, and ever after.  Two processes of one second, of
\* whatever Invariants, write over each other.
\* (reporting.py: write_reports, publish_s3_artifacts)
RefLeadsToReport ==
    \A r \in Reports :
       /\ writer[r].stage = "done"
       /\ \A o \in Reports \ {r} : writer[o].time # writer[r].time
       => \A name \in Family(Stamp(writer[r].time)) : bucket[name] = r

\* The reports of the directory whose JSON was written after that of r.
Overtakers(r) == {o \in Reports : Directory[o] = Directory[r] /\ wrote[o] > wrote[r]}

\* A report is not lost to retention for no reason: a process whose files have gone
\* before their upload was overtaken, by as many newer reports of its directory as
\* are kept.  A process of the same second is the exception: what retention does to
\* the report of the one, it does to the report of the other.
\* (reporting.py: apply_local_retention, publish_s3_artifacts)
LostMeansOvertaken ==
    \A r \in Reports :
       /\ writer[r].stage = "lost"
       /\ \A o \in Reports \ {r} :
             Directory[o] = Directory[r] => writer[o].time # writer[r].time
       => Cardinality(Overtakers(r)) >= Keep

\* Retention bounds the directory: when no process writes there or applies retention,
\* it holds at most Keep reports and those of processes that were killed or whose
\* retention failed, perhaps before it deleted anything.  A list taken earlier, the
\* same victim on two lists and an upload that is still under way change nothing
\* about that.  (reporting.py: apply_local_retention, delete_report_family)
DirectoryIsBounded ==
    \A d \in Directories :
       /\ Keep > 0
       /\ \A r \in Reports :
             Directory[r] = d => writer[r].stage \notin {"write", "list", "delete"}
       => Cardinality(Present(mtime[d])) <=
             Keep + Cardinality({r \in Reports :
                                   Directory[r] = d /\ writer[r].stage \in {"killed", "failed"}})
=============================================================================
