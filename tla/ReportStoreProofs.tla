------------------------- MODULE ReportStoreProofs -------------------------
(***************************************************************************)
(* Theorems about ReportStore for any processes, directories, retention    *)
(* and clock.                                                              *)
(***************************************************************************)
EXTENDS ReportStore, FiniteSetTheorems, WellFoundedInduction, TLAPS

-----------------------------------------------------------------------------
(* Types, and what each action does to the process, its directory and the  *)
(* history; every other process stays as it is.                            *)

IsWriter(w) ==
    /\ w = [stage |-> w.stage, time |-> w.time, part |-> w.part,
            list |-> w.list, victims |-> w.victims]
    /\ w.stage \in WriterStages /\ w.time \in Stamps /\ w.part \in 1..4
    /\ w.list \in [Stamps -> Nat] /\ w.victims \subseteq Stamps
    /\ IF w.stage = "idle" THEN w.time = 0 ELSE w.time \in 1..MaxSecond
    /\ w.stage \in {"idle", "list", "delete"} => w.part = 1

LEMMA WriterFields ==
  ASSUME NEW w, w = [stage |-> w.stage, time |-> w.time, part |-> w.part,
                     list |-> w.list, victims |-> w.victims], NEW x
  PROVE  /\ [w EXCEPT !.stage = x] = [stage |-> x, time |-> w.time, part |-> w.part,
                                     list |-> w.list, victims |-> w.victims]
         /\ [w EXCEPT !.time = x] = [stage |-> w.stage, time |-> x, part |-> w.part,
                                    list |-> w.list, victims |-> w.victims]
         /\ [w EXCEPT !.part = x] = [stage |-> w.stage, time |-> w.time, part |-> x,
                                    list |-> w.list, victims |-> w.victims]
         /\ [w EXCEPT !.list = x] = [stage |-> w.stage, time |-> w.time, part |-> w.part,
                                    list |-> x, victims |-> w.victims]
         /\ [w EXCEPT !.victims = x] = [stage |-> w.stage, time |-> w.time, part |-> w.part,
                                       list |-> w.list, victims |-> x]
OBVIOUS

AreWriters(ws) == ws = [r \in Reports |-> ws[r]] /\ \A r \in Reports : IsWriter(ws[r])

StoreTyped ==
    /\ second \in 1..MaxSecond
    /\ AreWriters(writer)
    /\ local \in [Directories -> [Names -> Reports \union {Nobody}]]
    /\ mtime \in [Directories -> [Stamps -> Nat]]
    /\ bucket \in [Names -> Reports \union {Nobody}]
    /\ writes \in [Directories -> Nat]
    /\ wrote \in [Reports -> Nat] /\ listed \in [Reports -> Nat]

LEMMA PartsAre ==
  /\ Len(Parts) = 4
  /\ Parts[1] = "json" /\ Parts[2] = "markdown" /\ Parts[3] = "compact" /\ Parts[4] = "latest"
  /\ Range(Parts) = {"json", "markdown", "compact", "latest"}
BY DEF Parts, Range

LEMMA InitTyped == StoreInit => StoreTyped /\ \A r \in Reports : writer[r] = Idle
<1> SUFFICES ASSUME StoreInit PROVE StoreTyped /\ \A r \in Reports : writer[r] = Idle
  OBVIOUS
<1>1. 0 \in Stamps /\ 1 \in 1..MaxSecond /\ NoTimes \in [Stamps -> Nat]
  BY StoreAssumption DEF Stamps, NoTimes
<1>2. IsWriter(Idle)
  BY <1>1 DEF Idle, IsWriter, WriterStages
<1>3. AreWriters(writer) /\ \A r \in Reports : writer[r] = Idle
  BY <1>2 DEF StoreInit, AreWriters
<1> QED
  BY <1>1, <1>3 DEF StoreInit, StoreTyped

LEMMA WriterUpdate ==
  ASSUME AreWriters(writer), NEW r \in Reports, NEW w, IsWriter(w),
         writer' = [writer EXCEPT ![r] = w]
  PROVE  /\ AreWriters(writer') /\ writer'[r] = w
         /\ \A o \in Reports \ {r} : writer'[o] = writer[o]
BY DEF AreWriters

LEMMA NameIs ==
  ASSUME StoreTyped, NEW r \in Reports, writer[r].stage # "idle"
  PROVE  /\ NameOf(r) \in Names
         /\ writer[r].part <= 3 => NameOf(r) = <<writer[r].time, Parts[writer[r].part]>>
         /\ writer[r].part = 4 => NameOf(r) = <<0, "latest">>
         /\ writer[r].part \in 1..4 /\ writer[r].time \in 1..MaxSecond
<1>1. writer[r].part \in 1..4 /\ writer[r].time \in 1..MaxSecond
  BY DEF StoreTyped, AreWriters, IsWriter
<1>2. Parts[writer[r].part] \in Range(Parts)
  BY <1>1, PartsAre
<1>3. 0 \in 0..MaxSecond /\ writer[r].time \in 0..MaxSecond
  BY <1>1, StoreAssumption
<1>4. NameOf(r) = IF Parts[writer[r].part] = "latest"
                  THEN <<0, Parts[writer[r].part]>>
                  ELSE <<writer[r].time, Parts[writer[r].part]>>
  BY DEF NameOf, Name, Stamp
<1>5. (writer[r].part <= 3 => Parts[writer[r].part] # "latest")
      /\ (writer[r].part = 4 => Parts[writer[r].part] = "latest")
  BY <1>1, PartsAre
<1> QED
  BY <1>1, <1>2, <1>3, <1>4, <1>5 DEF Names

\* The stage and the part after a file is written or uploaded.
LEMMA AdvanceDoes ==
  ASSUME StoreTyped, NEW r \in Reports, NEW then \in {"list", "done"}, Advance(r, then),
         writer[r].stage \in {"write", "upload"}
  PROVE  /\ AreWriters(writer') /\ \A o \in Reports \ {r} : writer'[o] = writer[o]
         /\ writer'[r].time = writer[r].time /\ writer'[r].list = writer[r].list
         /\ writer'[r].victims = writer[r].victims
         /\ writer[r].part < 4 => /\ writer'[r].stage = writer[r].stage
                                 /\ writer'[r].part = writer[r].part + 1
         /\ writer[r].part = 4 => writer'[r].stage = then /\ writer'[r].part = 1
<1>a. AreWriters(writer) /\ IsWriter(writer[r]) /\ writer[r].part \in 1..4 /\ Len(Parts) = 4
  BY PartsAre DEF StoreTyped, AreWriters, IsWriter
<1>1. CASE writer[r].part < 4
  <2> DEFINE w == [stage |-> writer[r].stage, time |-> writer[r].time,
                   part |-> writer[r].part + 1,
                   list |-> writer[r].list, victims |-> writer[r].victims]
  <2>1. writer' = [writer EXCEPT ![r].part = @ + 1]
    BY <1>a, <1>1 DEF Advance
  <2>b. [writer[r] EXCEPT !.part = @ + 1] = w
    BY <1>a, WriterFields DEF IsWriter
  <2>2. writer' = [writer EXCEPT ![r] = w]
    BY <2>1, <2>b
  <2>3. IsWriter(w)
    BY <1>a, <1>1 DEF IsWriter
  <2>4. /\ AreWriters(writer') /\ writer'[r] = w
        /\ \A o \in Reports \ {r} : writer'[o] = writer[o]
    BY <1>a, <2>2, <2>3, WriterUpdate
  <2> QED
    BY <1>1, <2>4
<1>2. CASE writer[r].part = 4
  <2> DEFINE w0 == [writer[r] EXCEPT !.stage = then]
             w == [stage |-> then, time |-> writer[r].time, part |-> 1,
                   list |-> writer[r].list, victims |-> writer[r].victims]
  <2>1. writer' = [writer EXCEPT ![r].stage = then, ![r].part = 1]
    BY <1>a, <1>2 DEF Advance
  <2>2. writer' = [writer EXCEPT ![r] = [w0 EXCEPT !.part = 1]]
    BY <2>1
  <2>b. w0 = [stage |-> then, time |-> writer[r].time, part |-> writer[r].part,
              list |-> writer[r].list, victims |-> writer[r].victims]
    BY <1>a, WriterFields DEF IsWriter
  <2>3. [w0 EXCEPT !.part = 1] = w
    <3> HIDE DEF w0
    <3> QED
      BY <2>b, WriterFields
  <2>4. IsWriter(w)
    BY <1>a DEF IsWriter, WriterStages, Running
  <2>5. /\ AreWriters(writer') /\ writer'[r] = w
        /\ \A o \in Reports \ {r} : writer'[o] = writer[o]
    BY <1>a, <2>2, <2>3, <2>4, WriterUpdate
  <2> QED
    BY <1>2, <2>5
<1> QED
  BY <1>a, <1>1, <1>2

LEMMA BeginDoes ==
  ASSUME StoreTyped, NEW r \in Reports, Begin(r)
  PROVE  /\ StoreTyped' /\ \A o \in Reports \ {r} : writer'[o] = writer[o]
         /\ writer[r].stage = "idle" /\ writer'[r].stage = "write" /\ writer'[r].part = 1
         /\ writer'[r].time \in 1..MaxSecond
         /\ UNCHANGED <<local, mtime, bucket, writes, wrote, listed>>
<1>a. AreWriters(writer) /\ IsWriter(writer[r]) /\ second \in 1..MaxSecond
  BY DEF StoreTyped, AreWriters
<1> DEFINE w0 == [writer[r] EXCEPT !.stage = "write"]
           w == [stage |-> "write", time |-> second, part |-> writer[r].part,
                 list |-> writer[r].list, victims |-> writer[r].victims]
<1>1. writer' = [writer EXCEPT ![r] = [w0 EXCEPT !.time = second]]
  BY DEF Begin
<1>b. w0 = [stage |-> "write", time |-> writer[r].time, part |-> writer[r].part,
            list |-> writer[r].list, victims |-> writer[r].victims]
  BY <1>a, WriterFields DEF IsWriter
<1>2. [w0 EXCEPT !.time = second] = w
  <2> HIDE DEF w0
  <2> QED
    BY <1>b, WriterFields
<1>3. IsWriter(w)
  BY <1>a, StoreAssumption DEF IsWriter, WriterStages, Running, Stamps
<1>4. /\ AreWriters(writer') /\ writer'[r] = w
      /\ \A o \in Reports \ {r} : writer'[o] = writer[o]
  <2> HIDE DEF w0, w
  <2> QED
    BY <1>a, <1>1, <1>2, <1>3, WriterUpdate
<1>5. writer[r].stage = "idle" /\ UNCHANGED <<second, local, mtime, bucket, writes, wrote, listed>>
  BY DEF Begin, history
<1>6. StoreTyped'
  BY <1>4, <1>5 DEF StoreTyped
<1>7. writer[r].part = 1
  BY <1>5, <1>a DEF IsWriter
<1> QED
  BY <1>a, <1>4, <1>5, <1>6, <1>7

\* The process goes to a stage, and nothing else changes.
LEMMA StageDoes ==
  ASSUME StoreTyped, NEW r \in Reports, NEW stage \in {"upload", "lost", "failed", "killed"},
         writer[r].stage # "idle",
         writer' = [writer EXCEPT ![r].stage = stage],
         UNCHANGED <<second, local, mtime, bucket, writes, history>>
  PROVE  /\ StoreTyped' /\ \A o \in Reports \ {r} : writer'[o] = writer[o]
         /\ writer'[r].stage = stage /\ writer'[r].part = writer[r].part
         /\ writer'[r].time = writer[r].time /\ writer'[r].list = writer[r].list
         /\ writer'[r].victims = writer[r].victims
         /\ UNCHANGED <<local, mtime, bucket, writes, wrote, listed>>
<1>a. AreWriters(writer) /\ IsWriter(writer[r])
  BY DEF StoreTyped, AreWriters
<1> DEFINE w == [stage |-> stage, time |-> writer[r].time, part |-> writer[r].part,
                 list |-> writer[r].list, victims |-> writer[r].victims]
<1>b. [writer[r] EXCEPT !.stage = stage] = w
  BY <1>a, WriterFields DEF IsWriter
<1>1. writer' = [writer EXCEPT ![r] = w]
  BY <1>b
<1>2. IsWriter(w)
  BY <1>a DEF IsWriter, WriterStages, Running
<1>3. /\ AreWriters(writer') /\ writer'[r] = w
      /\ \A o \in Reports \ {r} : writer'[o] = writer[o]
  BY <1>a, <1>1, <1>2, WriterUpdate
<1> QED
  BY <1>3 DEF history, StoreTyped

LEMMA WriteFileDoes ==
  ASSUME StoreTyped, NEW r \in Reports, WriteFile(r)
  PROVE  LET d == Directory[r]
             k == writer[r].part
         IN
         /\ StoreTyped' /\ \A o \in Reports \ {r} : writer'[o] = writer[o]
         /\ d \in Directories /\ writer[r].stage = "write" /\ k \in 1..4
         /\ writer'[r].time = writer[r].time /\ writer[r].time \in 1..MaxSecond
         /\ k < 4 => writer'[r].stage = "write" /\ writer'[r].part = k + 1
         /\ k = 4 => writer'[r].stage = "list" /\ writer'[r].part = 1
         /\ k < 4 => local' = [local EXCEPT ![d][<<writer[r].time, Parts[k]>>] = r]
         /\ k = 4 => local' = [local EXCEPT ![d][<<0, "latest">>] = r]
         /\ k = 1 => /\ mtime' = [mtime EXCEPT ![d][writer[r].time] = writes[d] + 1]
                     /\ writes' = [writes EXCEPT ![d] = writes[d] + 1]
                     /\ wrote' = [wrote EXCEPT ![r] = writes[d] + 1]
         /\ k # 1 => UNCHANGED <<mtime, writes, wrote>>
         /\ UNCHANGED <<bucket, listed>>
<1> DEFINE d == Directory[r]
           k == writer[r].part
<1>1. writer[r].stage = "write" /\ Advance(r, "list") /\ UNCHANGED <<second, bucket, listed>>
      /\ local' = [local EXCEPT ![d][NameOf(r)] = r]
  BY DEF WriteFile
<1>2. /\ k \in 1..4 /\ writer[r].time \in 1..MaxSecond /\ NameOf(r) \in Names
      /\ k <= 3 => NameOf(r) = <<writer[r].time, Parts[k]>>
      /\ k = 4 => NameOf(r) = <<0, "latest">>
  BY <1>1, NameIs
<1>3. /\ AreWriters(writer') /\ \A o \in Reports \ {r} : writer'[o] = writer[o]
      /\ writer'[r].time = writer[r].time
      /\ k < 4 => writer'[r].stage = "write" /\ writer'[r].part = k + 1
      /\ k = 4 => writer'[r].stage = "list" /\ writer'[r].part = 1
  BY <1>1, AdvanceDoes
<1>4. d \in Directories
  BY DEF Directories
<1>5. k < 4 <=> k <= 3
  BY <1>2
<1>6. k = 1 <=> Parts[k] = "json"
  BY <1>2, PartsAre
<1>7. k = 1 => NameOf(r)[1] = writer[r].time
  BY <1>2
<1>8. /\ k = 1 => /\ mtime' = [mtime EXCEPT ![d][writer[r].time] = writes[d] + 1]
                  /\ writes' = [writes EXCEPT ![d] = writes[d] + 1]
                  /\ wrote' = [wrote EXCEPT ![r] = writes[d] + 1]
      /\ k # 1 => UNCHANGED <<mtime, writes, wrote>>
  BY <1>6, <1>7 DEF WriteFile
<1>9. local' \in [Directories -> [Names -> Reports \union {Nobody}]]
  BY <1>1, <1>2, <1>4 DEF StoreTyped
<1>10. writes[d] + 1 \in Nat
  BY <1>4 DEF StoreTyped
<1>11. /\ mtime' \in [Directories -> [Stamps -> Nat]] /\ writes' \in [Directories -> Nat]
       /\ wrote' \in [Reports -> Nat]
  <2>1. CASE k = 1
    <3>1. writer[r].time \in Stamps
      BY <1>2 DEF Stamps
    <3>2. mtime[d] \in [Stamps -> Nat]
      BY <1>4 DEF StoreTyped
    <3> HIDE DEF d
    <3>3. [mtime[d] EXCEPT ![writer[r].time] = writes[d] + 1] \in [Stamps -> Nat]
      BY <1>10, <3>1, <3>2
    <3>4. mtime' = [mtime EXCEPT ![d] = [mtime[d] EXCEPT ![writer[r].time] = writes[d] + 1]]
      BY <1>8, <2>1
    <3>5. mtime' \in [Directories -> [Stamps -> Nat]]
      BY <1>4, <3>3, <3>4 DEF StoreTyped
    <3>6. writes' \in [Directories -> Nat] /\ wrote' \in [Reports -> Nat]
      BY <1>4, <1>8, <1>10, <2>1 DEF StoreTyped
    <3> QED
      BY <3>5, <3>6
  <2>2. CASE k # 1
    BY <1>8, <2>2 DEF StoreTyped
  <2> QED
    BY <2>1, <2>2
<1>12. StoreTyped'
  BY <1>1, <1>3, <1>9, <1>11 DEF StoreTyped
<1> HIDE DEF d, k
<1> QED
  BY <1>1, <1>2, <1>3, <1>4, <1>5, <1>8, <1>12 DEF d, k

LEMMA BeyondAreStamps == ASSUME NEW times PROVE Beyond(times) \subseteq Stamps
BY DEF Beyond, Present

LEMMA ListReportsDoes ==
  ASSUME StoreTyped, NEW r \in Reports, ListReports(r)
  PROVE  LET d == Directory[r] IN
         /\ StoreTyped' /\ \A o \in Reports \ {r} : writer'[o] = writer[o]
         /\ d \in Directories /\ writer[r].stage = "list" /\ writer'[r].stage = "delete"
         /\ writer'[r].time = writer[r].time
         /\ writer'[r].list = mtime[d] /\ writer'[r].victims = Beyond(mtime[d])
         /\ listed' = [listed EXCEPT ![r] = writes[d]]
         /\ UNCHANGED <<local, mtime, bucket, writes, wrote>>
<1> DEFINE d == Directory[r]
           v == Beyond(mtime[d])
           w0 == [writer[r] EXCEPT !.stage = "delete"]
           w1 == [w0 EXCEPT !.list = mtime[d]]
           w == [stage |-> "delete", time |-> writer[r].time, part |-> writer[r].part,
                 list |-> mtime[d], victims |-> v]
<1>a. AreWriters(writer) /\ IsWriter(writer[r]) /\ d \in Directories
  BY DEF StoreTyped, AreWriters, Directories
<1>b. writer[r].stage = "list" /\ UNCHANGED <<second, local, mtime, bucket, writes, wrote>>
      /\ listed' = [listed EXCEPT ![r] = writes[d]]
  BY DEF ListReports
<1>1. writer' = [writer EXCEPT ![r] = [w1 EXCEPT !.victims = v]]
  BY DEF ListReports
<1>c. w0 = [stage |-> "delete", time |-> writer[r].time, part |-> writer[r].part,
            list |-> writer[r].list, victims |-> writer[r].victims]
  BY <1>a, WriterFields DEF IsWriter
<1>d. w1 = [stage |-> "delete", time |-> writer[r].time, part |-> writer[r].part,
            list |-> mtime[d], victims |-> writer[r].victims]
  <2> HIDE DEF w0, d
  <2> QED
    BY <1>c, WriterFields
<1>2. [w1 EXCEPT !.victims = v] = w
  <2> HIDE DEF w1, v, d
  <2> QED
    BY <1>d, WriterFields
<1>3. IsWriter(w)
  <2>1. v \subseteq Stamps
    BY BeyondAreStamps
  <2>2. mtime[d] \in [Stamps -> Nat]
    BY <1>a DEF StoreTyped
  <2> HIDE DEF v, d
  <2> QED
    BY <1>a, <1>b, <2>1, <2>2 DEF IsWriter, WriterStages, Running
<1>4. /\ AreWriters(writer') /\ writer'[r] = w
      /\ \A o \in Reports \ {r} : writer'[o] = writer[o]
  <2> HIDE DEF w1, w, v
  <2> QED
    BY <1>a, <1>1, <1>2, <1>3, WriterUpdate
<1>5. listed' \in [Reports -> Nat]
  BY <1>a, <1>b DEF StoreTyped
<1>6. StoreTyped'
  BY <1>4, <1>5, <1>b DEF StoreTyped
<1> QED
  BY <1>a, <1>b, <1>4, <1>6

LEMMA VisitReportDoes ==
  ASSUME StoreTyped, NEW r \in Reports, VisitReport(r)
  PROVE  LET d == Directory[r] IN
         /\ StoreTyped' /\ \A o \in Reports \ {r} : writer'[o] = writer[o]
         /\ d \in Directories /\ writer[r].stage = "delete" /\ writer'[r].stage = "delete"
         /\ writer'[r].time = writer[r].time
         /\ UNCHANGED <<bucket, writes, wrote, listed>>
         /\ \E stamp \in Stamps :
               /\ writer'[r].list = [writer[r].list EXCEPT ![stamp] = 0]
               /\ writer'[r].victims = writer[r].victims \ {stamp}
               /\ stamp \in writer[r].victims =>
                     /\ local' = [local EXCEPT
                                    ![d] = [n \in Names |->
                                              IF n \in Family(stamp) THEN Nobody ELSE local[d][n]]]
                     /\ mtime' = [mtime EXCEPT ![d] = [mtime[d] EXCEPT ![stamp] = 0]]
               /\ stamp \notin writer[r].victims => UNCHANGED <<local, mtime>>
<1> DEFINE d == Directory[r]
<1>1. PICK stamp \in Stamps :
          /\ AtReport(r, stamp)
          /\ IF stamp \in writer[r].victims
             THEN /\ local' = [local EXCEPT
                       ![Directory[r]] = [n \in Names |->
                                            IF n \in Family(stamp) THEN Nobody ELSE @[n]]]
                  /\ mtime' = [mtime EXCEPT ![Directory[r]][stamp] = 0]
             ELSE UNCHANGED <<local, mtime>>
          /\ writer' = [writer EXCEPT ![r].list[stamp] = 0, ![r].victims = @ \ {stamp}]
  BY DEF VisitReport
<1>b. UNCHANGED <<second, bucket, writes, wrote, listed>> /\ writer[r].stage = "delete"
  BY <1>1 DEF VisitReport, history, AtReport
<1>a. AreWriters(writer) /\ IsWriter(writer[r]) /\ d \in Directories
  BY DEF StoreTyped, AreWriters, Directories
<1> DEFINE list == [writer[r].list EXCEPT ![stamp] = 0]
           v == writer[r].victims \ {stamp}
           w0 == [writer[r] EXCEPT !.list = list]
           w == [stage |-> "delete", time |-> writer[r].time, part |-> writer[r].part,
                 list |-> list, victims |-> v]
<1>2. writer' = [writer EXCEPT ![r] = [w0 EXCEPT !.victims = v]]
  BY <1>1
<1>c. w0 = [stage |-> "delete", time |-> writer[r].time, part |-> writer[r].part,
            list |-> list, victims |-> writer[r].victims]
  <2> HIDE DEF list
  <2> QED
    BY <1>a, <1>b, WriterFields DEF IsWriter
<1>3. [w0 EXCEPT !.victims = v] = w
  <2> HIDE DEF w0, v, list
  <2> QED
    BY <1>c, WriterFields
<1>4. list \in [Stamps -> Nat] /\ v \subseteq Stamps
  BY <1>a DEF IsWriter
<1>5. IsWriter(w)
  <2> HIDE DEF list, v
  <2> QED
    BY <1>4, <1>a, <1>b DEF IsWriter, WriterStages, Running
<1>6. /\ AreWriters(writer') /\ writer'[r] = w
      /\ \A o \in Reports \ {r} : writer'[o] = writer[o]
  <2> HIDE DEF w0, w, v, list
  <2> QED
    BY <1>a, <1>2, <1>3, <1>5, WriterUpdate
<1>7. stamp \in writer[r].victims =>
        /\ local' = [local EXCEPT
                       ![d] = [n \in Names |->
                                 IF n \in Family(stamp) THEN Nobody ELSE local[d][n]]]
        /\ mtime' = [mtime EXCEPT ![d] = [mtime[d] EXCEPT ![stamp] = 0]]
  BY <1>1
<1>8. stamp \notin writer[r].victims => UNCHANGED <<local, mtime>>
  BY <1>1
<1>9. /\ local' \in [Directories -> [Names -> Reports \union {Nobody}]]
      /\ mtime' \in [Directories -> [Stamps -> Nat]]
  <2>1. CASE stamp \in writer[r].victims
    <3>1. [n \in Names |-> IF n \in Family(stamp) THEN Nobody ELSE local[d][n]]
             \in [Names -> Reports \union {Nobody}]
      BY <1>a DEF StoreTyped
    <3>2. mtime[d] \in [Stamps -> Nat]
      BY <1>a DEF StoreTyped
    <3>3. [mtime[d] EXCEPT ![stamp] = 0] \in [Stamps -> Nat]
      BY <3>2
    <3> QED
      BY <1>7, <1>a, <2>1, <3>1, <3>3 DEF StoreTyped
  <2>2. CASE stamp \notin writer[r].victims
    BY <1>8, <2>2 DEF StoreTyped
  <2> QED
    BY <2>1, <2>2
<1>10. StoreTyped'
  BY <1>6, <1>9, <1>b DEF StoreTyped
<1>11. /\ writer'[r].stage = "delete" /\ writer'[r].time = writer[r].time
       /\ writer'[r].list = list /\ writer'[r].victims = v
  <2> HIDE DEF list, v
  <2> QED
    BY <1>6
<1>12. \E s \in Stamps :
          /\ writer'[r].list = [writer[r].list EXCEPT ![s] = 0]
          /\ writer'[r].victims = writer[r].victims \ {s}
          /\ s \in writer[r].victims =>
                /\ local' = [local EXCEPT
                               ![d] = [n \in Names |->
                                         IF n \in Family(s) THEN Nobody ELSE local[d][n]]]
                /\ mtime' = [mtime EXCEPT ![d] = [mtime[d] EXCEPT ![s] = 0]]
          /\ s \notin writer[r].victims => UNCHANGED <<local, mtime>>
  <2> HIDE DEF d
  <2> QED
    BY <1>7, <1>8, <1>11
<1> QED
  BY <1>6, <1>10, <1>11, <1>12, <1>a, <1>b

LEMMA UploadDoes ==
  ASSUME StoreTyped, NEW r \in Reports, Upload(r)
  PROVE  LET d == Directory[r]
             k == writer[r].part
         IN
         /\ StoreTyped' /\ \A o \in Reports \ {r} : writer'[o] = writer[o]
         /\ d \in Directories /\ writer[r].stage = "upload" /\ k \in 1..4
         /\ writer'[r].time = writer[r].time /\ writer[r].time \in 1..MaxSecond
         /\ writer'[r].victims = writer[r].victims /\ writer'[r].list = writer[r].list
         /\ k < 4 => writer'[r].stage = "upload" /\ writer'[r].part = k + 1
         /\ k = 4 => writer'[r].stage = "done" /\ writer'[r].part = 1
         /\ k < 4 => NameOf(r) = <<writer[r].time, Parts[k]>>
         /\ NameOf(r) \in Names /\ local[d][NameOf(r)] # Nobody
         /\ bucket' = [bucket EXCEPT ![NameOf(r)] = local[d][NameOf(r)]]
         /\ UNCHANGED <<local, mtime, writes, wrote, listed>>
<1> DEFINE d == Directory[r]
           k == writer[r].part
           name == NameOf(r)
<1>1. writer[r].stage = "upload" /\ Advance(r, "done")
      /\ UNCHANGED <<second, local, mtime, writes, wrote, listed>>
      /\ local[d][name] # Nobody /\ bucket' = [bucket EXCEPT ![name] = local[d][name]]
  BY DEF Upload, history
<1>2. /\ k \in 1..4 /\ writer[r].time \in 1..MaxSecond /\ name \in Names
      /\ k < 4 => name = <<writer[r].time, Parts[k]>>
  BY <1>1, NameIs
<1>3. /\ AreWriters(writer') /\ \A o \in Reports \ {r} : writer'[o] = writer[o]
      /\ writer'[r].time = writer[r].time
      /\ writer'[r].victims = writer[r].victims /\ writer'[r].list = writer[r].list
      /\ k < 4 => writer'[r].stage = "upload" /\ writer'[r].part = k + 1
      /\ k = 4 => writer'[r].stage = "done" /\ writer'[r].part = 1
  BY <1>1, AdvanceDoes
<1>4. d \in Directories
  BY DEF Directories
<1>5. local[d][name] \in Reports \union {Nobody}
  BY <1>2, <1>4 DEF StoreTyped
<1>6. StoreTyped'
  <2> HIDE DEF name
  <2> QED
    BY <1>1, <1>2, <1>3, <1>5 DEF StoreTyped
<1> HIDE DEF d, k, name
<1> QED
  BY <1>1, <1>2, <1>3, <1>4, <1>6 DEF d, k, name

\* What RetentionDone, UploadFails, StatFails and Kill do.
GoesTo(r, stage) ==
    /\ \A o \in Reports \ {r} : writer'[o] = writer[o]
    /\ writer'[r].stage = stage /\ writer'[r].part = writer[r].part
    /\ writer'[r].time = writer[r].time /\ writer'[r].list = writer[r].list
    /\ writer'[r].victims = writer[r].victims
    /\ UNCHANGED <<local, mtime, bucket, writes, wrote, listed>>
    /\ \/ stage = "upload" /\ writer[r].stage = "delete" /\ Present(writer[r].list) = {}
       \/ /\ stage = "lost" /\ writer[r].stage = "upload"
          /\ local[Directory[r]][NameOf(r)] = Nobody
       \/ stage = "failed" /\ writer[r].stage = "delete"
       \/ stage = "killed" /\ writer[r].stage \in Running

LEMMA StageSteps ==
  ASSUME StoreTyped, NEW r \in Reports,
         RetentionDone(r) \/ UploadFails(r) \/ StatFails(r) \/ Kill(r)
  PROVE  StoreTyped' /\ \E stage \in {"upload", "lost", "failed", "killed"} : GoesTo(r, stage)
<1>1. CASE RetentionDone(r)
  BY <1>1, StageDoes DEF RetentionDone, GoesTo
<1>2. CASE UploadFails(r)
  BY <1>2, StageDoes DEF UploadFails, GoesTo
<1>3. CASE StatFails(r)
  BY <1>3, StageDoes DEF StatFails, AtReport, GoesTo
<1>4. CASE Kill(r)
  BY <1>4, StageDoes DEF Kill, Running, GoesTo
<1> QED
  BY <1>1, <1>2, <1>3, <1>4

StandsStill == UNCHANGED <<writer, local, mtime, bucket, writes, wrote, listed>>

\* Every step has the types and is one of six.
LEMMA StepIs ==
  ASSUME StoreTyped, [StoreNext]_storeVars
  PROVE  /\ StoreTyped'
         /\ \/ StandsStill
            \/ \E r \in Reports :
                 \/ Begin(r)
                 \/ WriteFile(r)
                 \/ ListReports(r)
                 \/ VisitReport(r)
                 \/ Upload(r)
                 \/ \E stage \in {"upload", "lost", "failed", "killed"} : GoesTo(r, stage)
<1>1. CASE ClockTicks \/ UNCHANGED storeVars
  <2>1. second' \in 1..MaxSecond /\ StandsStill
    BY <1>1, StoreAssumption DEF ClockTicks, storeVars, history, StoreTyped, StandsStill
  <2> QED
    BY <2>1 DEF StandsStill, StoreTyped
<1>2. CASE \E r \in Reports : Begin(r) \/ WriteFile(r) \/ ListReports(r) \/ VisitReport(r)
                               \/ Upload(r)
  BY <1>2, BeginDoes, WriteFileDoes, ListReportsDoes, VisitReportDoes, UploadDoes
<1>3. CASE \E r \in Reports : RetentionDone(r) \/ UploadFails(r) \/ StatFails(r) \/ Kill(r)
  BY <1>3, StageSteps
<1> QED
  BY <1>1, <1>2, <1>3 DEF StoreNext

\* Writers, files, times of writing and the history keep their types, for any
\* processes, directories, retention and clock.  (reporting.py: write_reports,
\* apply_local_retention, publish_s3_artifacts)
THEOREM StoreIsTyped == StoreSpec => []StoreTypeOK
<1>1. StoreInit => StoreTyped
  BY InitTyped
<1>2. StoreTyped /\ [StoreNext]_storeVars => StoreTyped'
  BY StepIs
<1>3. StoreTyped => StoreTypeOK
  <2> SUFFICES ASSUME StoreTyped PROVE StoreTypeOK
    OBVIOUS
  <2>1. ASSUME NEW r \in Reports
        PROVE  writer[r] \in [stage : WriterStages, time : Stamps, part : 1..Len(Parts),
                              list : [Stamps -> Nat], victims : SUBSET Stamps]
    BY PartsAre DEF StoreTyped, AreWriters, IsWriter
  <2> QED
    BY <2>1 DEF StoreTyped, StoreTypeOK, AreWriters
<1> QED
  BY <1>1, <1>2, <1>3, PTL DEF StoreSpec

-----------------------------------------------------------------------------
(* What lies under a name with a stamp was written by a process of that    *)
(* stamp, and a process has uploaded its parts in order.                   *)

Uploaded(w, k) == w.stage = "done" \/ (w.stage = "upload" /\ k < w.part)

StampInv ==
    /\ \A d \in Directories, n \in Names :
          n[1] # 0 /\ local[d][n] # Nobody => /\ writer[local[d][n]].stage # "idle"
                                              /\ writer[local[d][n]].time = n[1]
    /\ \A n \in Names :
          n[1] # 0 /\ bucket[n] # Nobody => /\ writer[bucket[n]].stage # "idle"
                                            /\ writer[bucket[n]].time = n[1]
    /\ \A r \in Reports, k \in 1..3 :
          Uploaded(writer[r], k) => bucket[<<writer[r].time, Parts[k]>>] # Nobody

\* Begin gives an idle process its time; no other step changes the time of a process.
TimesKept == \A o \in Reports :
    writer[o].stage # "idle" => writer'[o].stage # "idle" /\ writer'[o].time = writer[o].time

\* Files appear in a directory only by writing, under the stamp of the writer, and in
\* the bucket only from a directory.
LEMMA FilesStep ==
  ASSUME StoreTyped, StoreTyped', StampInv, TimesKept,
         \A d \in Directories, n \in Names :
            \/ local'[d][n] \in {local[d][n], Nobody} \/ n[1] = 0
            \/ /\ writer'[local'[d][n]].stage # "idle"
               /\ writer'[local'[d][n]].time = n[1],
         \A n \in Names : \/ bucket'[n] = bucket[n]
                         \/ \E d \in Directories : bucket'[n] = local[d][n],
         \A r \in Reports, k \in 1..3 :
            Uploaded(writer'[r], k) => bucket'[<<writer'[r].time, Parts[k]>>] # Nobody
  PROVE  StampInv'
<1>a. /\ \A d \in Directories, n \in Names : local[d][n] \in Reports \union {Nobody}
      /\ \A n \in Names : bucket[n] \in Reports \union {Nobody}
  BY DEF StoreTyped
<1>b. /\ \A d \in Directories, n \in Names :
           n[1] # 0 /\ local[d][n] # Nobody => /\ writer'[local[d][n]].stage # "idle"
                                               /\ writer'[local[d][n]].time = n[1]
      /\ \A n \in Names :
           n[1] # 0 /\ bucket[n] # Nobody => /\ writer'[bucket[n]].stage # "idle"
                                             /\ writer'[bucket[n]].time = n[1]
  BY <1>a DEF StampInv, TimesKept
<1>1. \A d \in Directories, n \in Names :
         n[1] # 0 /\ local'[d][n] # Nobody => /\ writer'[local'[d][n]].stage # "idle"
                                              /\ writer'[local'[d][n]].time = n[1]
  BY <1>b
<1>2. \A n \in Names :
         n[1] # 0 /\ bucket'[n] # Nobody => /\ writer'[bucket'[n]].stage # "idle"
                                            /\ writer'[bucket'[n]].time = n[1]
  BY <1>b
<1> QED
  BY <1>1, <1>2 DEF StampInv

\* ... in particular a step that uploads nothing.
LEMMA NothingUploaded ==
  ASSUME StoreTyped, StoreTyped', StampInv, TimesKept, bucket' = bucket,
         \A d \in Directories, n \in Names :
            \/ local'[d][n] \in {local[d][n], Nobody} \/ n[1] = 0
            \/ /\ writer'[local'[d][n]].stage # "idle"
               /\ writer'[local'[d][n]].time = n[1],
         \A r \in Reports, k \in 1..3 : Uploaded(writer'[r], k) => Uploaded(writer[r], k)
  PROVE  StampInv'
<1>1. \A r \in Reports, k \in 1..3 :
         Uploaded(writer'[r], k) => bucket'[<<writer'[r].time, Parts[k]>>] # Nobody
  BY DEF StampInv, TimesKept, Uploaded
<1> QED
  BY <1>1, FilesStep

LEMMA NoneBeforeFirst ==
  \A k \in 1..3 : ~ (k < 1)
OBVIOUS

LEMMA StepStamped ==
  ASSUME StoreTyped, StampInv, [StoreNext]_storeVars PROVE StampInv'
<1>a. StoreTyped'
  BY StepIs
<1>1. CASE StandsStill
  BY <1>1, <1>a, NothingUploaded DEF StandsStill, TimesKept
<1>2. ASSUME NEW r \in Reports, Begin(r) PROVE StampInv'
  <2>1. /\ TimesKept /\ UNCHANGED <<local, bucket>>
        /\ \A o \in Reports, k \in 1..3 : Uploaded(writer'[o], k) => Uploaded(writer[o], k)
    BY <1>2, BeginDoes DEF TimesKept, Uploaded
  <2> QED
    BY <1>a, <2>1, NothingUploaded
<1>3. ASSUME NEW r \in Reports, WriteFile(r) PROVE StampInv'
  <2> DEFINE d == Directory[r]
             k == writer[r].part
             name == IF k = 4 THEN <<0, "latest">> ELSE <<writer[r].time, Parts[k]>>
  <2>1. /\ \A o \in Reports \ {r} : writer'[o] = writer[o]
        /\ writer[r].stage = "write" /\ writer'[r].stage \in {"write", "list"}
        /\ writer'[r].time = writer[r].time /\ bucket' = bucket
        /\ local' = [local EXCEPT ![d][name] = r]
    <3>1. /\ \A o \in Reports \ {r} : writer'[o] = writer[o]
          /\ writer[r].stage = "write" /\ k \in 1..4
          /\ k < 4 => writer'[r].stage = "write"
          /\ k = 4 => writer'[r].stage = "list"
          /\ writer'[r].time = writer[r].time /\ bucket' = bucket
          /\ k < 4 => local' = [local EXCEPT ![d][<<writer[r].time, Parts[k]>>] = r]
          /\ k = 4 => local' = [local EXCEPT ![d][<<0, "latest">>] = r]
      BY <1>3, WriteFileDoes
    <3>2. k = 4 \/ (k < 4 /\ k # 4)
      BY <3>1
    <3> QED
      BY <3>1, <3>2
  <2>2. TimesKept
        /\ \A o \in Reports, j \in 1..3 : Uploaded(writer'[o], j) => Uploaded(writer[o], j)
    BY <2>1 DEF TimesKept, Uploaded
  <2>3. name[1] \in {0, writer[r].time}
    OBVIOUS
  <2>4. ASSUME NEW e \in Directories, NEW n \in Names
        PROVE  \/ local'[e][n] \in {local[e][n], Nobody} \/ n[1] = 0
               \/ writer'[local'[e][n]].stage # "idle" /\ writer'[local'[e][n]].time = n[1]
    <3> HIDE DEF name, d
    <3>1. local'[e][n] = local[e][n] \/ (n = name /\ local'[e][n] = r)
      BY <2>1 DEF StoreTyped
    <3> QED
      BY <2>1, <2>3, <3>1
  <2> QED
    BY <1>a, <2>1, <2>2, <2>4, NothingUploaded
<1>4. ASSUME NEW r \in Reports, ListReports(r) PROVE StampInv'
  <2>1. /\ TimesKept /\ UNCHANGED <<local, bucket>>
        /\ \A o \in Reports, k \in 1..3 : Uploaded(writer'[o], k) => Uploaded(writer[o], k)
    BY <1>4, ListReportsDoes DEF TimesKept, Uploaded
  <2> QED
    BY <1>a, <2>1, NothingUploaded
<1>5. ASSUME NEW r \in Reports, VisitReport(r) PROVE StampInv'
  <2>1. /\ TimesKept /\ bucket' = bucket
        /\ \A o \in Reports, k \in 1..3 : Uploaded(writer'[o], k) => Uploaded(writer[o], k)
    BY <1>5, VisitReportDoes DEF TimesKept, Uploaded
  <2>2. PICK stamp \in Stamps :
          \/ local' = local
          \/ local' = [local EXCEPT
                        ![Directory[r]] = [n \in Names |-> IF n \in Family(stamp) THEN Nobody
                                                           ELSE local[Directory[r]][n]]]
    BY <1>5, VisitReportDoes
  <2>3. \A e \in Directories, n \in Names : local'[e][n] \in {local[e][n], Nobody}
    BY <2>2 DEF StoreTyped
  <2> QED
    BY <1>a, <2>1, <2>3, NothingUploaded
<1>6. ASSUME NEW r \in Reports, Upload(r) PROVE StampInv'
  <2> DEFINE d == Directory[r]
             name == NameOf(r)
             j == writer[r].part
  <2>1. /\ \A o \in Reports \ {r} : writer'[o] = writer[o]
        /\ d \in Directories /\ j \in 1..4 /\ writer[r].stage = "upload"
        /\ writer'[r].time = writer[r].time
        /\ j < 4 => writer'[r].stage = "upload" /\ writer'[r].part = j + 1
        /\ j = 4 => writer'[r].stage = "done"
        /\ j < 4 => name = <<writer[r].time, Parts[j]>>
        /\ name \in Names /\ local[d][name] # Nobody
        /\ bucket' = [bucket EXCEPT ![name] = local[d][name]]
        /\ local' = local
    BY <1>6, UploadDoes
  <2>2. TimesKept
    <3> HIDE DEF name, j
    <3> QED
      BY <2>1 DEF TimesKept
  <2>3. /\ \A n \in Names : bucket'[n] = bucket[n] \/ bucket'[n] = local[d][n]
        /\ \A n \in Names : bucket[n] # Nobody \/ n = name => bucket'[n] # Nobody
    <3> HIDE DEF name, d
    <3> QED
      BY <2>1 DEF StoreTyped
  <2> HIDE DEF name, d
  <2>4. ASSUME NEW o \in Reports, NEW k \in 1..3, Uploaded(writer'[o], k)
        PROVE  bucket'[<<writer'[o].time, Parts[k]>>] # Nobody
    <3>1. writer'[o].time \in 1..MaxSecond /\ writer'[o].time = writer[o].time
      BY <1>a, <2>1, <2>4 DEF StoreTyped, AreWriters, IsWriter, Uploaded
    <3>2. Parts[k] \in Range(Parts)
      BY PartsAre
    <3>3. <<writer[o].time, Parts[k]>> \in Names
      BY <3>1, <3>2 DEF Names
    <3>4. (o = r /\ k = j) \/ Uploaded(writer[o], k)
      BY <2>1, <2>4 DEF Uploaded
    <3>5. CASE o = r /\ k = j
      BY <2>1, <2>3, <3>1, <3>3, <3>5
    <3>6. CASE Uploaded(writer[o], k)
      <4>1. bucket[<<writer[o].time, Parts[k]>>] # Nobody
        BY <3>6 DEF StampInv
      <4> QED
        BY <2>3, <3>1, <3>3, <4>1
    <3> QED
      BY <3>4, <3>5, <3>6
  <2> QED
    BY <1>a, <2>1, <2>2, <2>3, <2>4, FilesStep
<1>7. ASSUME NEW r \in Reports, NEW stage \in {"upload", "lost", "failed", "killed"},
             GoesTo(r, stage)
      PROVE  StampInv'
  <2>1. /\ TimesKept /\ UNCHANGED <<local, bucket>>
        /\ \A o \in Reports \ {r} : writer'[o] = writer[o]
    BY <1>7 DEF GoesTo, TimesKept, Running
  <2>2. writer'[r].stage = "upload" => writer'[r].part = 1
    BY <1>7 DEF GoesTo, StoreTyped, AreWriters, IsWriter
  <2>3. ASSUME NEW k \in 1..3, Uploaded(writer'[r], k) PROVE Uploaded(writer[r], k)
    BY <1>7, <2>2, <2>3, NoneBeforeFirst DEF GoesTo, Uploaded
  <2> QED
    BY <1>a, <2>1, <2>3, NothingUploaded
<1> QED
  BY <1>1, <1>2, <1>3, <1>4, <1>5, <1>6, <1>7, StepIs

\* The references of a report lead to its own artifacts if no other process has its
\* second, for any processes, directories, retention and clock.
\* (reporting.py: write_reports, publish_s3_artifacts)
THEOREM RefIsTrue == StoreSpec => []RefLeadsToReport
<1>1. StoreInit => StoreTyped /\ StampInv
  <2> SUFFICES ASSUME StoreInit PROVE StoreTyped /\ StampInv
    OBVIOUS
  <2>1. \A r \in Reports, k \in 1..3 : ~ Uploaded(writer[r], k)
    BY InitTyped DEF Uploaded, Idle
  <2> QED
    BY <2>1, InitTyped DEF StoreInit, StampInv
<1>2. StoreTyped /\ StampInv /\ [StoreNext]_storeVars => StoreTyped' /\ StampInv'
  BY StepIs, StepStamped
<1>3. StoreTyped /\ StampInv => RefLeadsToReport
  <2> SUFFICES ASSUME StoreTyped, StampInv, NEW r \in Reports, writer[r].stage = "done",
                      \A o \in Reports \ {r} : writer[o].time # writer[r].time,
                      NEW name \in Family(Stamp(writer[r].time))
               PROVE  bucket[name] = r
    BY DEF RefLeadsToReport
  <2>1. writer[r].time \in 1..MaxSecond
    BY DEF StoreTyped, AreWriters, IsWriter
  <2>2. PICK k \in 1..3 : name = <<writer[r].time, Parts[k]>>
    BY PartsAre DEF Family, Name, Stamp
  <2>3. Parts[k] \in Range(Parts)
    BY PartsAre
  <2>4. name \in Names /\ name[1] = writer[r].time /\ name[1] # 0
    BY <2>1, <2>2, <2>3 DEF Names
  <2>5. bucket[name] # Nobody
    BY <2>2 DEF StampInv, Uploaded
  <2>6. bucket[name] \in Reports /\ writer[bucket[name]].time = writer[r].time
    BY <2>4, <2>5 DEF StampInv, StoreTyped
  <2> QED
    BY <2>6
<1> QED
  BY <1>1, <1>2, <1>3, PTL DEF StoreSpec

-----------------------------------------------------------------------------
(* The times of writing are those of a clock of the directory: a file that *)
(* is there was written by a process of its stamp, and a list is as old as *)
(* the number of writes at which it was taken.                             *)

NothingWritten(w) == w.stage = "idle" \/ (w.stage = "write" /\ w.part = 1)
JsonWritten(w) == \/ w.stage = "write" /\ w.part > 1
                  \/ w.stage \in {"list", "delete", "upload", "done", "lost", "failed"}
HasListed == {"delete", "upload", "done", "lost"}

WriterTimes(r) ==
    /\ NothingWritten(writer[r]) => wrote[r] = 0
    /\ JsonWritten(writer[r]) => wrote[r] # 0
    /\ wrote[r] <= writes[Directory[r]]
    /\ writer[r].stage \in HasListed => /\ listed[r] <= writes[Directory[r]]
                                       /\ wrote[r] <= listed[r]
    /\ writer[r].stage = "delete" => writer[r].victims \subseteq Present(writer[r].list)
    /\ writer[r].stage \in HasListed \ {"delete"} => writer[r].victims = {}

OwnTimes ==
    \A q, r \in Reports : Directory[q] = Directory[r] /\ wrote[q] = wrote[r] /\ wrote[q] # 0 => q = r

WrittenBySomebody ==
    \A d \in Directories, s \in Stamps :
       mtime[d][s] # 0 =>
          \E q \in Reports : Directory[q] = d /\ writer[q].time = s /\ wrote[q] = mtime[d][s]

VictimsWereWritten ==
    \A p \in Reports : writer[p].stage = "delete" =>
       \A s \in writer[p].victims :
          \E q \in Reports : Directory[q] = Directory[p] /\ writer[q].time = s /\ wrote[q] # 0

ClockInv ==
    /\ \A r \in Reports : WriterTimes(r)
    /\ OwnTimes
    /\ WrittenBySomebody
    /\ VictimsWereWritten

\* A step of a process that has written no JSON, or whose JSON keeps its time.
JsonKeepsTime == \A o \in Reports : wrote[o] # 0 => writer'[o].time = writer[o].time

\* Files disappear, and nothing is written or listed.
OnlyDeletes ==
    /\ UNCHANGED <<writes, wrote, listed>>
    /\ \A d \in Directories, s \in Stamps : mtime'[d][s] \in {mtime[d][s], 0}

\* The process neither writes its JSON nor lists the directory, and if it deletes on,
\* then what is on its list.
GoesOn(o) ==
    /\ NothingWritten(writer'[o]) => NothingWritten(writer[o])
    /\ JsonWritten(writer'[o]) => JsonWritten(writer[o])
    /\ writer'[o].stage \in HasListed => writer[o].stage \in HasListed
    /\ writer'[o].stage = "delete" =>
          /\ writer[o].stage = "delete" /\ writer'[o].victims \subseteq writer[o].victims
          /\ writer'[o].victims \subseteq Present(writer'[o].list)
    /\ writer'[o].stage \in HasListed \ {"delete"} => writer'[o].victims = {}

LEMMA ClockKept ==
  ASSUME ClockInv, JsonKeepsTime, OnlyDeletes,
         \A o \in Reports : GoesOn(o)
  PROVE  ClockInv'
<1>1. ASSUME NEW r \in Reports PROVE WriterTimes(r)'
  <2>1. WriterTimes(r)
    BY DEF ClockInv
  <2>2. UNCHANGED <<writes, wrote, listed>>
    BY DEF OnlyDeletes
  <2> QED
    BY <2>1, <2>2 DEF WriterTimes, GoesOn
<1>2. OwnTimes'
  BY DEF ClockInv, OwnTimes, OnlyDeletes
<1>3. WrittenBySomebody'
  BY DEF ClockInv, WrittenBySomebody, OnlyDeletes, JsonKeepsTime
<1>4. VictimsWereWritten'
  BY DEF ClockInv, VictimsWereWritten, OnlyDeletes, JsonKeepsTime, GoesOn
<1> QED
  BY <1>1, <1>2, <1>3, <1>4 DEF ClockInv

\* The first file of a process is its JSON.
LEMMA JsonDoes ==
  ASSUME StoreTyped, NEW r \in Reports, WriteFile(r), writer[r].part = 1
  PROVE  LET d == Directory[r]
             now == writes[d] + 1
         IN
         /\ \A o \in Reports \ {r} : writer'[o] = writer[o] /\ wrote'[o] = wrote[o]
         /\ d \in Directories /\ writer[r].stage = "write"
         /\ writer'[r].stage = "write" /\ writer'[r].part = 2
         /\ writer'[r].time = writer[r].time /\ writer[r].time \in Stamps
         /\ writes'[d] = now /\ wrote'[r] = now /\ now \in Nat \ {0}
         /\ \A e \in Directories \ {d} : writes'[e] = writes[e] /\ mtime'[e] = mtime[e]
         /\ mtime'[d][writer[r].time] = now
         /\ \A s \in Stamps \ {writer[r].time} : mtime'[d][s] = mtime[d][s]
         /\ listed' = listed
<1> DEFINE d == Directory[r]
           now == writes[d] + 1
           s0 == writer[r].time
<1>1. /\ \A o \in Reports \ {r} : writer'[o] = writer[o]
      /\ d \in Directories /\ writer[r].stage = "write"
      /\ writer'[r].stage = "write" /\ writer'[r].part = 2
      /\ writer'[r].time = s0 /\ s0 \in 1..MaxSecond
      /\ mtime' = [mtime EXCEPT ![d][s0] = now]
      /\ writes' = [writes EXCEPT ![d] = now]
      /\ wrote' = [wrote EXCEPT ![r] = now]
      /\ listed' = listed
  <2> DEFINE k == writer[r].part
  <2>1. /\ \A o \in Reports \ {r} : writer'[o] = writer[o]
        /\ d \in Directories /\ writer[r].stage = "write"
        /\ k < 4 => writer'[r].stage = "write" /\ writer'[r].part = k + 1
        /\ writer'[r].time = s0 /\ s0 \in 1..MaxSecond
        /\ k = 1 => /\ mtime' = [mtime EXCEPT ![d][s0] = now]
                    /\ writes' = [writes EXCEPT ![d] = now]
                    /\ wrote' = [wrote EXCEPT ![r] = now]
        /\ listed' = listed
    BY WriteFileDoes
  <2>2. k = 1 /\ k < 4 /\ k + 1 = 2
    OBVIOUS
  <2> HIDE DEF k, d, s0, now
  <2> QED
    BY <2>1, <2>2
<1>2. s0 \in Stamps
  BY <1>1 DEF Stamps
<1>3. mtime \in [Directories -> [Stamps -> Nat]] /\ writes \in [Directories -> Nat]
      /\ wrote \in [Reports -> Nat]
  BY DEF StoreTyped
<1>4. now \in Nat \ {0}
  BY <1>1, <1>3
<1> HIDE DEF d, now, s0
<1>5. mtime' = [mtime EXCEPT ![d] = [mtime[d] EXCEPT ![s0] = now]]
  BY <1>1
<1>6. mtime'[d] = [mtime[d] EXCEPT ![s0] = now] /\ mtime[d] \in [Stamps -> Nat]
      /\ \A e \in Directories \ {d} : mtime'[e] = mtime[e]
  BY <1>1, <1>3, <1>5
<1>7. mtime'[d][s0] = now /\ \A s \in Stamps \ {s0} : mtime'[d][s] = mtime[d][s]
  BY <1>2, <1>6
<1>8. /\ writes'[d] = now /\ \A e \in Directories \ {d} : writes'[e] = writes[e]
      /\ wrote'[r] = now /\ \A o \in Reports \ {r} : wrote'[o] = wrote[o]
  BY <1>1, <1>3
<1> QED
  BY <1>1, <1>2, <1>4, <1>6, <1>7, <1>8 DEF d, now, s0

LEMMA ClockAtJson ==
  ASSUME StoreTyped, ClockInv, NEW r \in Reports, WriteFile(r), writer[r].part = 1
  PROVE  ClockInv'
<1> DEFINE d == Directory[r]
           now == writes[d] + 1
<1>1. /\ \A o \in Reports \ {r} : writer'[o] = writer[o] /\ wrote'[o] = wrote[o]
      /\ d \in Directories /\ writer[r].stage = "write"
      /\ writer'[r].stage = "write" /\ writer'[r].part = 2
      /\ writer'[r].time = writer[r].time /\ writer[r].time \in Stamps
      /\ writes'[d] = now /\ wrote'[r] = now /\ now \in Nat \ {0}
      /\ \A e \in Directories \ {d} : writes'[e] = writes[e] /\ mtime'[e] = mtime[e]
      /\ mtime'[d][writer[r].time] = now
      /\ \A s \in Stamps \ {writer[r].time} : mtime'[d][s] = mtime[d][s]
      /\ listed' = listed
  BY JsonDoes
<1>2. /\ writes \in [Directories -> Nat] /\ wrote \in [Reports -> Nat]
      /\ listed \in [Reports -> Nat]
      /\ \A o \in Reports : Directory[o] \in Directories
  BY DEF StoreTyped, Directories
<1>3. wrote[r] = 0 /\ \A o \in Reports : wrote[o] <= writes[Directory[o]]
  BY <1>1 DEF ClockInv, WriterTimes, NothingWritten
<1>4. \A o \in Reports : /\ writes[Directory[o]] <= writes'[Directory[o]]
                         /\ Directory[o] = d => wrote[o] < now
  BY <1>1, <1>2, <1>3
<1> HIDE DEF d, now
<1>5. ASSUME NEW o \in Reports PROVE WriterTimes(o)'
  <2>1. CASE o = r
    <3>1. wrote'[r] <= writes'[Directory[r]] /\ wrote'[r] # 0
      BY <1>1 DEF d
    <3> QED
      BY <1>1, <2>1, <3>1 DEF WriterTimes, NothingWritten, HasListed
  <2>2. CASE o # r
    <3>1. WriterTimes(o) /\ writer'[o] = writer[o] /\ wrote'[o] = wrote[o] /\ listed'[o] = listed[o]
      BY <1>1, <2>2 DEF ClockInv
    <3>2. /\ writes[Directory[o]] \in Nat /\ writes'[Directory[o]] \in Nat
          /\ wrote[o] \in Nat /\ listed[o] \in Nat
      BY <1>1, <1>2
    <3> QED
      BY <1>4, <3>1, <3>2 DEF WriterTimes
  <2> QED
    BY <2>1, <2>2
<1>6. OwnTimes'
  <2> SUFFICES ASSUME NEW p \in Reports, NEW q \in Reports, Directory[p] = Directory[q],
                      wrote'[p] = wrote'[q], wrote'[p] # 0
               PROVE  p = q
    BY DEF OwnTimes
  <2>1. CASE p = r \/ q = r
    BY <1>1, <1>2, <1>4, <2>1 DEF d
  <2>2. CASE p # r /\ q # r
    BY <1>1, <2>2 DEF ClockInv, OwnTimes
  <2> QED
    BY <2>1, <2>2
<1>7. WrittenBySomebody'
  <2> SUFFICES ASSUME NEW e \in Directories, NEW s \in Stamps, mtime'[e][s] # 0
               PROVE  \E q \in Reports : /\ Directory[q] = e /\ writer'[q].time = s
                                         /\ wrote'[q] = mtime'[e][s]
    BY DEF WrittenBySomebody
  <2>1. CASE e = d /\ s = writer[r].time
    BY <1>1, <2>1 DEF d
  <2>2. CASE ~ (e = d /\ s = writer[r].time)
    <3>1. mtime'[e][s] = mtime[e][s]
      BY <1>1, <2>2
    <3>2. PICK q \in Reports : Directory[q] = e /\ writer[q].time = s /\ wrote[q] = mtime[e][s]
      BY <3>1 DEF ClockInv, WrittenBySomebody
    <3>3. q # r
      BY <1>3, <3>1, <3>2
    <3> QED
      BY <1>1, <3>1, <3>2, <3>3
  <2> QED
    BY <2>1, <2>2
<1>8. VictimsWereWritten'
  <2> SUFFICES ASSUME NEW p \in Reports, writer'[p].stage = "delete", NEW s \in writer'[p].victims
               PROVE  \E q \in Reports : /\ Directory[q] = Directory[p] /\ writer'[q].time = s
                                         /\ wrote'[q] # 0
    BY DEF VictimsWereWritten
  <2>1. p # r /\ writer'[p] = writer[p]
    BY <1>1
  <2>2. PICK q \in Reports : Directory[q] = Directory[p] /\ writer[q].time = s /\ wrote[q] # 0
    BY <2>1 DEF ClockInv, VictimsWereWritten
  <2>3. q # r
    BY <1>3, <2>2
  <2> QED
    BY <1>1, <2>2, <2>3
<1> QED
  BY <1>5, <1>6, <1>7, <1>8 DEF ClockInv

LEMMA ClockAtList ==
  ASSUME StoreTyped, ClockInv, NEW r \in Reports, ListReports(r)
  PROVE  ClockInv'
<1> DEFINE d == Directory[r]
<1>1. /\ \A o \in Reports \ {r} : writer'[o] = writer[o]
      /\ d \in Directories /\ writer[r].stage = "list" /\ writer'[r].stage = "delete"
      /\ writer'[r].time = writer[r].time
      /\ writer'[r].list = mtime[d] /\ writer'[r].victims = Beyond(mtime[d])
      /\ listed' = [listed EXCEPT ![r] = writes[d]]
      /\ UNCHANGED <<mtime, writes, wrote>>
  BY ListReportsDoes
<1>2. \A o \in Reports : writer'[o].time = writer[o].time
  BY <1>1
<1>3. listed'[r] = writes[d] /\ writes[d] \in Nat
      /\ \A o \in Reports \ {r} : listed'[o] = listed[o]
  BY <1>1 DEF StoreTyped
<1>4. Beyond(mtime[d]) \subseteq Present(mtime[d])
  BY DEF Beyond
<1>5. ASSUME NEW o \in Reports PROVE WriterTimes(o)'
  <2>1. CASE o = r
    <3>1. wrote[r] <= writes[Directory[r]] /\ wrote[r] # 0
      BY <1>1 DEF ClockInv, WriterTimes, JsonWritten
    <3> QED
      BY <1>1, <1>3, <1>4, <2>1, <3>1 DEF WriterTimes, NothingWritten, HasListed
  <2>2. CASE o # r
    BY <1>1, <1>3, <2>2 DEF ClockInv, WriterTimes
  <2> QED
    BY <2>1, <2>2
<1>6. OwnTimes' /\ WrittenBySomebody'
  BY <1>1, <1>2 DEF ClockInv, OwnTimes, WrittenBySomebody
<1>7. VictimsWereWritten'
  <2> SUFFICES ASSUME NEW p \in Reports, writer'[p].stage = "delete", NEW s \in writer'[p].victims
               PROVE  \E q \in Reports : /\ Directory[q] = Directory[p] /\ writer'[q].time = s
                                         /\ wrote'[q] # 0
    BY DEF VictimsWereWritten
  <2>1. CASE p = r
    <3>1. s \in Stamps /\ mtime[d][s] # 0
      BY <1>1, <1>4, <2>1 DEF Present
    <3> QED
      BY <1>1, <1>2, <2>1, <3>1 DEF ClockInv, WrittenBySomebody
  <2>2. CASE p # r
    BY <1>1, <1>2, <2>2 DEF ClockInv, VictimsWereWritten
  <2> QED
    BY <2>1, <2>2
<1> QED
  BY <1>5, <1>6, <1>7 DEF ClockInv

\* Begin, and a file after the first, write no JSON and delete nothing.
LEMMA ClockAtBegin ==
  ASSUME StoreTyped, ClockInv, NEW r \in Reports, Begin(r)
  PROVE  ClockInv' /\ JsonKeepsTime /\ OnlyDeletes
<1>1. /\ \A o \in Reports \ {r} : writer'[o] = writer[o]
      /\ writer[r].stage = "idle" /\ writer'[r].stage = "write" /\ writer'[r].part = 1
      /\ UNCHANGED <<mtime, writes, wrote, listed>>
  BY BeginDoes
<1>2. wrote[r] = 0
  BY <1>1 DEF ClockInv, WriterTimes, NothingWritten
<1>3. JsonKeepsTime /\ OnlyDeletes
  BY <1>1, <1>2 DEF JsonKeepsTime, OnlyDeletes
<1>4. ASSUME NEW o \in Reports PROVE GoesOn(o)
  <2>1. CASE o = r
    BY <1>1, <2>1 DEF NothingWritten, JsonWritten, HasListed, GoesOn
  <2>2. CASE o # r
    BY <1>1, <2>2 DEF ClockInv, WriterTimes, GoesOn
  <2> QED
    BY <2>1, <2>2
<1> QED
  BY <1>3, <1>4, ClockKept

LEMMA ClockAtFile ==
  ASSUME StoreTyped, ClockInv, NEW r \in Reports, WriteFile(r), writer[r].part # 1
  PROVE  ClockInv' /\ JsonKeepsTime /\ OnlyDeletes
<1> DEFINE k == writer[r].part
<1>1. /\ \A o \in Reports \ {r} : writer'[o] = writer[o]
      /\ k \in 1..4 /\ writer[r].stage = "write" /\ writer'[r].time = writer[r].time
      /\ k < 4 => writer'[r].stage = "write" /\ writer'[r].part = k + 1
      /\ k = 4 => writer'[r].stage = "list"
      /\ k # 1 => UNCHANGED <<mtime, writes, wrote>>
      /\ listed' = listed
  BY WriteFileDoes
<1>2. JsonKeepsTime /\ OnlyDeletes
  BY <1>1 DEF JsonKeepsTime, OnlyDeletes
<1>3. JsonWritten(writer[r]) /\ ~ NothingWritten(writer'[r])
      /\ writer'[r].stage \notin HasListed /\ writer'[r].stage # "delete"
  BY <1>1 DEF NothingWritten, JsonWritten, HasListed
<1>4. ASSUME NEW o \in Reports PROVE GoesOn(o)
  <2>1. CASE o = r
    BY <1>3, <2>1 DEF GoesOn
  <2>2. CASE o # r
    BY <1>1, <2>2 DEF ClockInv, WriterTimes, GoesOn
  <2> QED
    BY <2>1, <2>2
<1> QED
  BY <1>2, <1>4, ClockKept

LEMMA ClockAtVisit ==
  ASSUME StoreTyped, ClockInv, NEW r \in Reports, VisitReport(r)
  PROVE  ClockInv' /\ JsonKeepsTime /\ OnlyDeletes
<1> DEFINE d == Directory[r]
<1>1. /\ \A o \in Reports \ {r} : writer'[o] = writer[o]
      /\ d \in Directories /\ writer[r].stage = "delete" /\ writer'[r].stage = "delete"
      /\ writer'[r].time = writer[r].time
      /\ UNCHANGED <<writes, wrote, listed>>
  BY VisitReportDoes
<1>2. PICK stamp \in Stamps :
         /\ writer'[r].list = [writer[r].list EXCEPT ![stamp] = 0]
         /\ writer'[r].victims = writer[r].victims \ {stamp}
         /\ \/ mtime' = [mtime EXCEPT ![d] = [mtime[d] EXCEPT ![stamp] = 0]]
            \/ mtime' = mtime
  BY VisitReportDoes
<1>3. \A e \in Directories, s \in Stamps : mtime'[e][s] \in {mtime[e][s], 0}
  BY <1>2 DEF StoreTyped
<1>4. JsonKeepsTime /\ OnlyDeletes
  BY <1>1, <1>3 DEF JsonKeepsTime, OnlyDeletes
<1>5. writer'[r].victims \subseteq Present(writer'[r].list)
  <2>1. writer[r].victims \subseteq Present(writer[r].list) /\ writer[r].list \in [Stamps -> Nat]
    BY <1>1 DEF ClockInv, WriterTimes, StoreTyped, AreWriters, IsWriter
  <2> QED
    BY <1>2, <2>1 DEF Present
<1>6. ASSUME NEW o \in Reports PROVE GoesOn(o)
  <2>1. CASE o = r
    BY <1>1, <1>2, <1>5, <2>1 DEF NothingWritten, JsonWritten, GoesOn
  <2>2. CASE o # r
    BY <1>1, <2>2 DEF ClockInv, WriterTimes, GoesOn
  <2> QED
    BY <2>1, <2>2
<1> QED
  BY <1>4, <1>6, ClockKept

LEMMA ClockAtUpload ==
  ASSUME StoreTyped, ClockInv, NEW r \in Reports, Upload(r)
  PROVE  ClockInv' /\ JsonKeepsTime /\ OnlyDeletes
<1> DEFINE k == writer[r].part
<1>1. /\ \A o \in Reports \ {r} : writer'[o] = writer[o]
      /\ k \in 1..4 /\ writer[r].stage = "upload" /\ writer'[r].time = writer[r].time
      /\ k < 4 => writer'[r].stage = "upload"
      /\ k = 4 => writer'[r].stage = "done"
      /\ writer'[r].victims = writer[r].victims
      /\ UNCHANGED <<mtime, writes, wrote, listed>>
  BY UploadDoes
<1>2. JsonKeepsTime /\ OnlyDeletes
  BY <1>1 DEF JsonKeepsTime, OnlyDeletes
<1>3. writer'[r].stage \in {"upload", "done"} /\ writer[r].victims = {}
  BY <1>1 DEF ClockInv, WriterTimes, HasListed
<1>4. ASSUME NEW o \in Reports PROVE GoesOn(o)
  <2>1. CASE o = r
    BY <1>1, <1>3, <2>1 DEF NothingWritten, JsonWritten, HasListed, GoesOn
  <2>2. CASE o # r
    BY <1>1, <2>2 DEF ClockInv, WriterTimes, GoesOn
  <2> QED
    BY <2>1, <2>2
<1> QED
  BY <1>2, <1>4, ClockKept

LEMMA ClockAtStage ==
  ASSUME StoreTyped, ClockInv, NEW r \in Reports,
         NEW stage \in {"upload", "lost", "failed", "killed"}, GoesTo(r, stage)
  PROVE  ClockInv' /\ JsonKeepsTime /\ OnlyDeletes
<1>1. JsonKeepsTime /\ OnlyDeletes
  BY DEF JsonKeepsTime, OnlyDeletes, GoesTo
<1>2. stage \in HasListed => writer[r].victims = {}
  <2>1. CASE stage = "upload"
    <3>1. writer[r].victims \subseteq {}
      BY <2>1 DEF GoesTo, ClockInv, WriterTimes
    <3> QED
      BY <3>1
  <2>2. CASE stage = "lost"
    BY <2>2 DEF GoesTo, ClockInv, WriterTimes, HasListed
  <2> QED
    BY <2>1, <2>2 DEF HasListed
<1>3. ASSUME NEW o \in Reports PROVE GoesOn(o)
  <2>1. CASE o = r
    <3>1. /\ writer'[r].stage = stage /\ writer'[r].victims = writer[r].victims
          /\ stage = "upload" => writer[r].stage = "delete"
          /\ stage = "lost" => writer[r].stage = "upload"
          /\ stage = "failed" => writer[r].stage = "delete"
      BY DEF GoesTo
    <3> QED
      BY <1>2, <2>1, <3>1 DEF NothingWritten, JsonWritten, HasListed, GoesOn
  <2>2. CASE o # r
    BY <2>2 DEF ClockInv, WriterTimes, GoesTo, GoesOn
  <2> QED
    BY <2>1, <2>2
<1> QED
  BY <1>1, <1>3, ClockKept

LEMMA ClockStandsStill ==
  ASSUME ClockInv, StandsStill PROVE ClockInv' /\ JsonKeepsTime /\ OnlyDeletes
<1>1. JsonKeepsTime /\ OnlyDeletes
  BY DEF StandsStill, JsonKeepsTime, OnlyDeletes
<1> QED
  BY <1>1, ClockKept DEF StandsStill, ClockInv, WriterTimes, GoesOn

LEMMA StepClocked ==
  ASSUME StoreTyped, ClockInv, [StoreNext]_storeVars PROVE ClockInv'
BY StepIs, ClockStandsStill, ClockAtBegin, ClockAtJson, ClockAtFile, ClockAtList,
   ClockAtVisit, ClockAtUpload, ClockAtStage

LEMMA InitClocked == ASSUME StoreInit PROVE ClockInv
<1>1. \A r \in Reports : wrote[r] = 0 /\ writer[r].stage = "idle"
                         /\ writes[Directory[r]] = 0
  BY InitTyped DEF StoreInit, Idle, Directories
<1>2. \A d \in Directories, s \in Stamps : mtime[d][s] = 0
  BY DEF StoreInit, NoTimes
<1> QED
  BY <1>1, <1>2 DEF ClockInv, WriterTimes, OwnTimes, WrittenBySomebody, VictimsWereWritten,
                    NothingWritten, JsonWritten, HasListed

-----------------------------------------------------------------------------
(* What retention leaves, and what is newer than its list.                 *)

LEMMA StampsAreFinite == IsFiniteSet(Stamps)
BY StoreAssumption, FS_Interval DEF Stamps

LEMMA CardinalityIsNat ==
  ASSUME NEW S, IsFiniteSet(S) PROVE Cardinality(S) \in Nat
BY FS_CardinalityType

LEMMA LeastIn ==
  ASSUME NEW T \in SUBSET Nat, T # {}
  PROVE  \E m \in T : \A i \in T : m <= i
<1>1. PICK m \in T : \A i \in T : ~ (<<i, m>> \in OpToRel(<, Nat))
  BY NatLessThanWellFounded, WFMin
<1>2. \A i \in T : m <= i
  <2> SUFFICES ASSUME NEW i \in T, i < m PROVE FALSE
    OBVIOUS
  <2>1. <<i, m>> \in Nat \X Nat /\ <<i, m>>[1] = i /\ <<i, m>>[2] = m
    OBVIOUS
  <2>2. <<i, m>> \in OpToRel(<, Nat)
    BY <2>1 DEF OpToRel
  <2> QED
    BY <1>1, <2>2
<1> QED
  BY <1>2

LEMMA NewerAreStamps ==
  ASSUME NEW times, NEW s
  PROVE  Newer(times, s) \subseteq Stamps /\ IsFiniteSet(Newer(times, s))
         /\ Cardinality(Newer(times, s)) \in Nat
<1>1. Newer(times, s) \in SUBSET Stamps
  BY DEF Newer
<1>2. IsFiniteSet(Newer(times, s))
  BY <1>1, StampsAreFinite, FS_Subset
<1> QED
  BY <1>1, <1>2, CardinalityIsNat

\* Of files with different times, at most Keep are not beyond the retention: all of
\* them but the oldest are newer than it.
LEMMA KeptAreFew ==
  ASSUME NEW times \in [Stamps -> Nat], Keep > 0,
         \A s, t \in Present(times) : times[s] = times[t] => s = t
  PROVE  Cardinality(Present(times) \ Beyond(times)) <= Keep
<1> DEFINE kept == Present(times) \ Beyond(times)
<1>1. kept \in SUBSET Stamps
  BY DEF Present
<1>2. IsFiniteSet(kept) /\ Cardinality(kept) \in Nat
  BY <1>1, StampsAreFinite, FS_Subset, CardinalityIsNat
<1>3. CASE kept = {}
  BY <1>3, FS_EmptySet, StoreAssumption
<1>4. CASE kept # {}
  <2> DEFINE T == {times[s] : s \in kept}
  <2>1. T \in SUBSET Nat /\ T # {}
    BY <1>1, <1>4
  <2>2. PICK m \in T : \A i \in T : m <= i
    BY <2>1, LeastIn
  <2>3. PICK oldest \in kept : times[oldest] = m
    BY <2>2
  <2>4. \A s \in kept : times[oldest] <= times[s]
    BY <2>2, <2>3
  <2>5. kept \ {oldest} \subseteq Newer(times, oldest)
    <3> SUFFICES ASSUME NEW s \in kept, s # oldest PROVE s \in Newer(times, oldest)
      OBVIOUS
    <3>1. times[s] # times[oldest] /\ s \in Stamps /\ oldest \in Stamps
      BY <1>1
    <3> QED
      BY <2>4, <3>1 DEF Newer
  <2>6. Cardinality(Newer(times, oldest)) < Keep
    BY NewerAreStamps, StoreAssumption DEF Beyond
  <2>7. Cardinality(kept \ {oldest}) <= Cardinality(Newer(times, oldest))
    BY <2>5, NewerAreStamps, FS_Subset
  <2>8. Cardinality(kept \ {oldest}) = Cardinality(kept) - 1
    BY <1>2, FS_RemoveElement
  <2>9. Cardinality(Newer(times, oldest)) \in Nat /\ Keep \in Nat
    BY NewerAreStamps, StoreAssumption
  <2>10. Cardinality(kept) <= Keep
    <3> HIDE DEF kept
    <3> QED
      BY <1>2, <2>6, <2>7, <2>8, <2>9
  <2> QED
    BY <2>10
<1> QED
  BY <1>3, <1>4

\* Two files of a directory have different times, for they are of different writers
\* or of the same.
LEMMA TimesDiffer ==
  ASSUME ClockInv, NEW d \in Directories, NEW s \in Present(mtime[d]), NEW t \in Present(mtime[d]),
         mtime[d][s] = mtime[d][t]
  PROVE  s = t
<1>1. PICK q \in Reports : Directory[q] = d /\ writer[q].time = s /\ wrote[q] = mtime[d][s]
  BY DEF ClockInv, WrittenBySomebody, Present
<1>2. PICK r \in Reports : Directory[r] = d /\ writer[r].time = t /\ wrote[r] = mtime[d][t]
  BY DEF ClockInv, WrittenBySomebody, Present
<1>3. wrote[q] # 0 /\ wrote[q] = wrote[r]
  BY <1>1, <1>2 DEF Present
<1>4. q = r
  BY <1>1, <1>2, <1>3 DEF ClockInv, OwnTimes
<1> QED
  BY <1>1, <1>2, <1>4

NewerThanList(p, s) ==
    \E q \in Reports : Directory[q] = Directory[p] /\ writer[q].time = s /\ wrote[q] > listed[p]

LeftBy(p) == Present(mtime[Directory[p]]) \ writer[p].victims

\* What a process that has listed its directory leaves there is among Keep files or
\* newer than its list.
BoundInv ==
    \A p \in Reports :
       Keep > 0 /\ writer[p].stage \in HasListed =>
          \E K \in SUBSET Stamps :
             Cardinality(K) <= Keep /\ \A s \in LeftBy(p) \ K : NewerThanList(p, s)

LEMMA BoundKept ==
  ASSUME StoreTyped, BoundInv, JsonKeepsTime, UNCHANGED <<wrote, listed>>,
         \A p \in Reports : writer'[p].stage \in HasListed =>
            writer[p].stage \in HasListed /\ LeftBy(p)' \subseteq LeftBy(p)
  PROVE  BoundInv'
<1> SUFFICES ASSUME NEW p \in Reports, Keep > 0, writer'[p].stage \in HasListed
             PROVE  \E K \in SUBSET Stamps :
                       Cardinality(K) <= Keep /\ \A s \in LeftBy(p)' \ K : NewerThanList(p, s)'
  BY DEF BoundInv
<1>1. PICK K \in SUBSET Stamps :
         Cardinality(K) <= Keep /\ \A s \in LeftBy(p) \ K : NewerThanList(p, s)
  BY DEF BoundInv
<1>2. \A s \in LeftBy(p)' \ K : NewerThanList(p, s)
  BY <1>1
<1>3. ASSUME NEW s, NewerThanList(p, s) PROVE NewerThanList(p, s)'
  <2>1. PICK q \in Reports : Directory[q] = Directory[p] /\ writer[q].time = s /\ wrote[q] > listed[p]
    BY <1>3 DEF NewerThanList
  <2>2. wrote[q] # 0
    BY <2>1 DEF StoreTyped
  <2> QED
    BY <2>1, <2>2 DEF JsonKeepsTime, NewerThanList
<1> QED
  BY <1>1, <1>2, <1>3

LEMMA BoundAtJson ==
  ASSUME StoreTyped, ClockInv, BoundInv, NEW r \in Reports, WriteFile(r), writer[r].part = 1
  PROVE  BoundInv'
<1> DEFINE d == Directory[r]
           now == writes[d] + 1
<1>1. /\ \A o \in Reports \ {r} : writer'[o] = writer[o] /\ wrote'[o] = wrote[o]
      /\ d \in Directories /\ writer[r].stage = "write" /\ writer'[r].stage = "write"
      /\ writer'[r].time = writer[r].time /\ writer[r].time \in Stamps
      /\ wrote'[r] = now /\ now \in Nat \ {0}
      /\ \A e \in Directories \ {d} : mtime'[e] = mtime[e]
      /\ \A s \in Stamps \ {writer[r].time} : mtime'[d][s] = mtime[d][s]
      /\ listed' = listed
  BY JsonDoes
<1>2. wrote[r] = 0
  BY <1>1 DEF ClockInv, WriterTimes, NothingWritten
<1> SUFFICES ASSUME NEW p \in Reports, Keep > 0, writer'[p].stage \in HasListed
             PROVE  \E K \in SUBSET Stamps :
                       Cardinality(K) <= Keep /\ \A s \in LeftBy(p)' \ K : NewerThanList(p, s)'
  BY DEF BoundInv
<1>3. writer'[p] = writer[p] /\ Directory[p] \in Directories
  BY <1>1 DEF HasListed, Directories
<1>4. PICK K \in SUBSET Stamps :
         Cardinality(K) <= Keep /\ \A s \in LeftBy(p) \ K : NewerThanList(p, s)
  BY <1>3 DEF BoundInv
<1>5. ASSUME NEW s \in LeftBy(p)' \ K PROVE NewerThanList(p, s)'
  <2>1. CASE s \in LeftBy(p)
    <3>1. PICK q \in Reports :
             Directory[q] = Directory[p] /\ writer[q].time = s /\ wrote[q] > listed[p]
      BY <1>4, <1>5, <2>1 DEF NewerThanList
    <3>2. q # r
      BY <1>2, <3>1 DEF StoreTyped
    <3> QED
      BY <1>1, <3>1, <3>2 DEF NewerThanList
  <2>2. CASE s \notin LeftBy(p)
    <3>1. Directory[p] = d /\ s = writer[r].time
      <4>1. s \in Stamps /\ mtime'[Directory[p]][s] # 0 /\ s \notin writer[p].victims
        BY <1>3, <1>5 DEF LeftBy, Present
      <4>2. mtime[Directory[p]][s] = 0
        BY <2>2, <4>1 DEF LeftBy, Present
      <4> HIDE DEF d
      <4> QED
        BY <1>1, <1>3, <4>1, <4>2
    <3>2. listed[p] <= writes[d]
      BY <1>3, <3>1 DEF ClockInv, WriterTimes
    <3>3. wrote'[r] > listed'[p]
      BY <1>1, <3>2 DEF StoreTyped
    <3> QED
      BY <1>1, <3>1, <3>3 DEF NewerThanList
  <2> QED
    BY <2>1, <2>2
<1> QED
  BY <1>4, <1>5

LEMMA BoundAtList ==
  ASSUME StoreTyped, ClockInv, BoundInv, NEW r \in Reports, ListReports(r)
  PROVE  BoundInv'
<1> DEFINE d == Directory[r]
<1>1. /\ \A o \in Reports \ {r} : writer'[o] = writer[o]
      /\ d \in Directories
      /\ writer'[r].time = writer[r].time /\ writer'[r].victims = Beyond(mtime[d])
      /\ listed' = [listed EXCEPT ![r] = writes[d]]
      /\ UNCHANGED <<mtime, wrote>>
  BY ListReportsDoes
<1>2. \A o \in Reports : writer'[o].time = writer[o].time
  BY <1>1
<1> SUFFICES ASSUME NEW p \in Reports, Keep > 0, writer'[p].stage \in HasListed
             PROVE  \E K \in SUBSET Stamps :
                       Cardinality(K) <= Keep /\ \A s \in LeftBy(p)' \ K : NewerThanList(p, s)'
  BY DEF BoundInv
<1>3. CASE p = r
  <2> DEFINE K == Present(mtime[d]) \ Beyond(mtime[d])
  <2>1. K \in SUBSET Stamps
    BY DEF Present
  <2>2. mtime[d] \in [Stamps -> Nat]
    BY <1>1 DEF StoreTyped
  <2>3. \A s, t \in Present(mtime[d]) : mtime[d][s] = mtime[d][t] => s = t
    BY <1>1, TimesDiffer
  <2>4. Cardinality(K) <= Keep
    BY <2>2, <2>3, KeptAreFew
  <2>5. LeftBy(p)' = K
    BY <1>1, <1>3 DEF LeftBy
  <2> QED
    BY <2>1, <2>4, <2>5
<1>4. CASE p # r
  <2>1. writer'[p] = writer[p] /\ listed'[p] = listed[p] /\ LeftBy(p)' = LeftBy(p)
    BY <1>1, <1>4 DEF StoreTyped, LeftBy
  <2>2. \A s : NewerThanList(p, s)' <=> NewerThanList(p, s)
    BY <1>1, <1>2, <2>1 DEF NewerThanList
  <2> QED
    BY <2>1, <2>2 DEF BoundInv
<1> QED
  BY <1>3, <1>4

LEMMA StepBounded ==
  ASSUME StoreTyped, ClockInv, BoundInv, [StoreNext]_storeVars PROVE BoundInv'
<1>1. CASE StandsStill
  BY <1>1, BoundKept, ClockStandsStill DEF StandsStill, LeftBy
<1>2. ASSUME NEW r \in Reports, Begin(r) PROVE BoundInv'
  <2>1. /\ JsonKeepsTime /\ UNCHANGED <<mtime, wrote, listed>>
        /\ \A o \in Reports \ {r} : writer'[o] = writer[o]
        /\ writer'[r].stage = "write"
    BY <1>2, BeginDoes, ClockAtBegin
  <2> QED
    BY <2>1, BoundKept DEF LeftBy, HasListed
<1>3. ASSUME NEW r \in Reports, WriteFile(r), writer[r].part # 1 PROVE BoundInv'
  <2>1. /\ JsonKeepsTime /\ UNCHANGED <<mtime, wrote, listed>>
        /\ \A o \in Reports \ {r} : writer'[o] = writer[o]
        /\ writer'[r].stage \in {"write", "list"}
    <3> DEFINE k == writer[r].part
    <3>1. /\ k \in 1..4 /\ \A o \in Reports \ {r} : writer'[o] = writer[o]
          /\ k < 4 => writer'[r].stage = "write"
          /\ k = 4 => writer'[r].stage = "list"
          /\ k # 1 => UNCHANGED <<mtime, writes, wrote>>
          /\ listed' = listed
      BY <1>3, WriteFileDoes
    <3>2. JsonKeepsTime
      BY <1>3, ClockAtFile
    <3> QED
      BY <1>3, <3>1, <3>2
  <2> QED
    BY <2>1, BoundKept DEF LeftBy, HasListed
<1>4. ASSUME NEW r \in Reports, VisitReport(r) PROVE BoundInv'
  <2> DEFINE d == Directory[r]
  <2>1. /\ \A o \in Reports \ {r} : writer'[o] = writer[o]
        /\ d \in Directories /\ writer[r].stage = "delete"
        /\ JsonKeepsTime /\ UNCHANGED <<wrote, listed>>
    BY <1>4, VisitReportDoes, ClockAtVisit
  <2>2. PICK stamp \in Stamps :
           /\ writer'[r].victims = writer[r].victims \ {stamp}
           /\ stamp \in writer[r].victims =>
                 mtime' = [mtime EXCEPT ![d] = [mtime[d] EXCEPT ![stamp] = 0]]
           /\ stamp \notin writer[r].victims => mtime' = mtime
    BY <1>4, VisitReportDoes
  <2>3. \A e \in Directories : Present(mtime'[e]) \subseteq Present(mtime[e])
    BY <2>2 DEF StoreTyped, Present
  <2>4. stamp \in writer[r].victims => Present(mtime'[d]) \subseteq Present(mtime[d]) \ {stamp}
    BY <2>1, <2>2 DEF StoreTyped, Present
  <2>5. ASSUME NEW p \in Reports, writer'[p].stage \in HasListed
        PROVE  writer[p].stage \in HasListed /\ LeftBy(p)' \subseteq LeftBy(p)
    <3>1. CASE p = r
      BY <2>1, <2>2, <2>3, <2>4, <3>1 DEF LeftBy, HasListed
    <3>2. CASE p # r
      BY <2>1, <2>3, <2>5, <3>2 DEF LeftBy, Directories
    <3> QED
      BY <3>1, <3>2
  <2> QED
    BY <2>1, <2>5, BoundKept
<1>5. ASSUME NEW r \in Reports, Upload(r) PROVE BoundInv'
  <2>1. /\ JsonKeepsTime /\ UNCHANGED <<mtime, wrote, listed>>
        /\ \A o \in Reports \ {r} : writer'[o] = writer[o]
        /\ writer[r].stage = "upload" /\ writer'[r].victims = writer[r].victims
    BY <1>5, UploadDoes, ClockAtUpload
  <2> QED
    BY <2>1, BoundKept DEF LeftBy, HasListed
<1>6. ASSUME NEW r \in Reports, NEW stage \in {"upload", "lost", "failed", "killed"},
             GoesTo(r, stage)
      PROVE  BoundInv'
  <2>1. /\ JsonKeepsTime /\ UNCHANGED <<mtime, wrote, listed>>
        /\ \A o \in Reports \ {r} : writer'[o] = writer[o]
        /\ writer'[r].victims = writer[r].victims /\ writer'[r].stage = stage
        /\ stage \in {"upload", "lost"} => writer[r].stage \in {"delete", "upload"}
    BY <1>6, ClockAtStage DEF GoesTo
  <2> QED
    BY <1>6, <2>1, BoundKept DEF LeftBy, HasListed
<1> QED
  BY <1>1, <1>2, <1>3, <1>4, <1>5, <1>6, StepIs, BoundAtJson, BoundAtList

LEMMA ImageIsSmaller ==
  ASSUME NEW S, IsFiniteSet(S), NEW T, NEW f,
         T = {f[x] : x \in S}
  PROVE  IsFiniteSet(T) /\ Cardinality(T) <= Cardinality(S)
<1> DEFINE g == [x \in S |-> f[x]]
<1>1. g \in Surjection(S, T)
  BY DEF Surjection
<1> QED
  BY <1>1, FS_Surjection

\* The processes of the directory that were killed or whose retention failed.
Stopped(d) == {r \in Reports : Directory[r] = d /\ writer[r].stage \in {"killed", "failed"}}

\* The process of the newest list among those that have finished their retention, if
\* there is one: whatever is newer than its list has no list itself.
LEMMA BoundIs ==
  ASSUME StoreTyped, ClockInv, BoundInv PROVE DirectoryIsBounded
<1> SUFFICES ASSUME NEW d \in Directories, Keep > 0,
                    \A r \in Reports :
                       Directory[r] = d => writer[r].stage \notin {"write", "list", "delete"}
             PROVE  Cardinality(Present(mtime[d])) <= Keep + Cardinality(Stopped(d))
  BY DEF DirectoryIsBounded, Stopped
<1> DEFINE files == Present(mtime[d])
           Finished == {r \in Reports : Directory[r] = d /\ writer[r].stage \in HasListed}
           times == [r \in Stopped(d) |-> writer[r].time]
           stoppedTimes == {times[r] : r \in Stopped(d)}
<1>1. /\ IsFiniteSet(Stopped(d)) /\ Cardinality(Stopped(d)) \in Nat
      /\ Stopped(d) \subseteq Reports
  <2>1. Stopped(d) \in SUBSET Reports
    BY DEF Stopped
  <2> QED
    BY <2>1, StoreAssumption, FS_Subset, CardinalityIsNat
<1>2. IsFiniteSet(stoppedTimes) /\ Cardinality(stoppedTimes) <= Cardinality(Stopped(d))
      /\ Cardinality(stoppedTimes) \in Nat
  <2> HIDE DEF times
  <2> QED
    BY <1>1, ImageIsSmaller, CardinalityIsNat
<1>3. \A q \in Stopped(d) : writer[q].time \in stoppedTimes
  OBVIOUS
<1>4. ASSUME NEW q \in Reports, Directory[q] = d, wrote[q] # 0
      PROVE  q \in Stopped(d) \/ q \in Finished
  <2>1. writer[q].stage \in WriterStages /\ writer[q].stage # "idle"
    BY <1>4 DEF StoreTyped, AreWriters, IsWriter, ClockInv, WriterTimes, NothingWritten
  <2> QED
    BY <1>4, <2>1 DEF WriterStages, Running, HasListed, Stopped
<1>5. IsFiniteSet(files) /\ Cardinality(files) \in Nat /\ files \subseteq Stamps
  <2>1. files \in SUBSET Stamps
    BY DEF Present
  <2> QED
    BY <2>1, StampsAreFinite, FS_Subset, CardinalityIsNat
<1>6. CASE Finished = {}
  <2>1. files \in SUBSET stoppedTimes
    <3> SUFFICES ASSUME NEW s \in files PROVE s \in stoppedTimes
      OBVIOUS
    <3>1. PICK q \in Reports : Directory[q] = d /\ writer[q].time = s /\ wrote[q] = mtime[d][s]
      BY DEF Present, ClockInv, WrittenBySomebody
    <3>2. wrote[q] # 0
      BY <3>1 DEF Present
    <3> QED
      BY <1>3, <1>4, <1>6, <3>1, <3>2
  <2>2. Cardinality(files) <= Cardinality(stoppedTimes)
    BY <1>2, <2>1, FS_Subset
  <2> HIDE DEF files, stoppedTimes
  <2>3. Cardinality(files) <= Keep + Cardinality(Stopped(d))
    BY <1>1, <1>2, <1>5, <2>2, StoreAssumption
  <2> QED
    BY <2>3 DEF files
<1>7. CASE Finished # {}
  <2> DEFINE ages == {writes[d] - listed[r] : r \in Finished}
  <2>1. \A r \in Finished : writes[d] \in Nat /\ listed[r] \in Nat /\ listed[r] <= writes[d]
    BY DEF StoreTyped, ClockInv, WriterTimes
  <2>2. ages \in SUBSET Nat /\ ages # {}
    BY <1>7, <2>1
  <2>3. PICK p \in Finished : \A r \in Finished : listed[r] <= listed[p]
    <3>1. PICK m \in ages : \A i \in ages : m <= i
      BY <2>2, LeastIn
    <3>2. PICK p \in Finished : m = writes[d] - listed[p]
      BY <3>1
    <3>3. ASSUME NEW r \in Finished PROVE listed[r] <= listed[p]
      <4>1. writes[d] - listed[p] <= writes[d] - listed[r]
        BY <3>1, <3>2
      <4> QED
        BY <2>1, <4>1
    <3> QED
      BY <3>3
  <2>4. writer[p].victims = {} /\ Directory[p] = d /\ p \in Reports
    BY DEF ClockInv, WriterTimes, HasListed
  <2>5. LeftBy(p) = files
    BY <2>4 DEF LeftBy
  <2>6. PICK K \in SUBSET Stamps : Cardinality(K) <= Keep /\ \A s \in files \ K : NewerThanList(p, s)
    BY <2>4, <2>5 DEF BoundInv
  <2>7. files \in SUBSET (K \union stoppedTimes)
    <3> SUFFICES ASSUME NEW s \in files \ K PROVE s \in stoppedTimes
      OBVIOUS
    <3>1. PICK q \in Reports : Directory[q] = d /\ writer[q].time = s /\ wrote[q] > listed[p]
      BY <2>4, <2>6 DEF NewerThanList
    <3>2. wrote[q] # 0 /\ wrote[q] \in Nat /\ listed[p] \in Nat
      BY <2>4, <3>1 DEF StoreTyped
    <3>3. q \notin Finished
      <4> SUFFICES ASSUME q \in Finished PROVE FALSE
        OBVIOUS
      <4>1. wrote[q] <= listed[q] /\ listed[q] <= listed[p] /\ listed[q] \in Nat
        BY <2>1, <2>3 DEF ClockInv, WriterTimes
      <4> HIDE DEF Finished
      <4> QED
        BY <3>1, <3>2, <4>1
    <3> QED
      BY <1>3, <1>4, <3>1, <3>2, <3>3
  <2>8. IsFiniteSet(K) /\ Cardinality(K) \in Nat
    BY StampsAreFinite, FS_Subset, CardinalityIsNat
  <2>9. /\ IsFiniteSet(K \union stoppedTimes) /\ Cardinality(K \union stoppedTimes) \in Nat
        /\ Cardinality(K \union stoppedTimes) <= Cardinality(K) + Cardinality(stoppedTimes)
    <3>1. Cardinality(K \intersect stoppedTimes) \in Nat
      BY <2>8, FS_Intersection, CardinalityIsNat
    <3>2. /\ IsFiniteSet(K \union stoppedTimes)
          /\ Cardinality(K \union stoppedTimes) =
                Cardinality(K) + Cardinality(stoppedTimes) - Cardinality(K \intersect stoppedTimes)
      BY <1>2, <2>8, FS_Union
    <3> HIDE DEF stoppedTimes
    <3> QED
      BY <1>2, <2>8, <3>1, <3>2, CardinalityIsNat
  <2>10. Cardinality(files) <= Cardinality(K \union stoppedTimes)
    BY <2>7, <2>9, FS_Subset
  <2> HIDE DEF files, stoppedTimes
  <2>11. Cardinality(files) <= Keep + Cardinality(Stopped(d))
    BY <1>1, <1>2, <1>5, <2>6, <2>8, <2>9, <2>10, StoreAssumption
  <2> QED
    BY <2>11 DEF files
<1> QED
  BY <1>6, <1>7

\* Retention bounds a directory that is at rest by REPORT_RETENTION_COUNT and the
\* processes that stopped on their way, whatever their number and their order.
\* (reporting.py: apply_local_retention, delete_report_family)
THEOREM DirectoryStaysBounded == StoreSpec => []DirectoryIsBounded
<1>1. StoreInit => StoreTyped /\ ClockInv /\ BoundInv
  <2>1. StoreInit => BoundInv
    BY InitTyped DEF BoundInv, HasListed, Idle
  <2> QED
    BY <2>1, InitTyped, InitClocked
<1>2. StoreTyped /\ ClockInv /\ BoundInv /\ [StoreNext]_storeVars
         => StoreTyped' /\ ClockInv' /\ BoundInv'
  BY StepIs, StepClocked, StepBounded
<1>3. StoreTyped /\ ClockInv /\ BoundInv => DirectoryIsBounded
  BY BoundIs
<1> QED
  BY <1>1, <1>2, <1>3, PTL DEF StoreSpec

-----------------------------------------------------------------------------
(* A report that retention deletes has been overtaken by as many as are    *)
(* kept, if it shares its stamp with no other of the directory; so has one *)
(* of whose files one is missing.                                          *)

Alone(r) ==
    \A o \in Reports \ {r} : Directory[o] = Directory[r] => writer[o].time # writer[r].time

Superseded(r) == wrote[r] # 0 /\ Cardinality(Overtakers(r)) >= Keep

\* The process has written this part of its report and has not uploaded all of it.
HasPart(w, k) ==
    \/ w.stage = "write" /\ k < w.part
    \/ w.stage \in {"list", "delete", "upload"}

Missing(r, k) == local[Directory[r]][<<writer[r].time, Parts[k]>>] = Nobody

VictimsOvertaken ==
    \A p, r \in Reports :
       /\ writer[p].stage = "delete" /\ Directory[p] = Directory[r]
       /\ writer[r].stage # "idle" /\ writer[r].time \in writer[p].victims /\ Alone(r)
       => Superseded(r)

MissingOvertaken ==
    \A r \in Reports, k \in 1..3 :
       HasPart(writer[r], k) /\ Missing(r, k) /\ Alone(r) => Superseded(r)

LatestIsThere ==
    \A r \in Reports :
       writer[r].stage \in {"list", "delete", "upload"} =>
          local[Directory[r]][<<0, "latest">>] # Nobody

LostInv ==
    /\ VictimsOvertaken
    /\ MissingOvertaken
    /\ LatestIsThere
    /\ \A r \in Reports : writer[r].stage = "lost" /\ Alone(r) => Superseded(r)

\* A time of writing is given once.
WroteKept == \A o \in Reports : wrote[o] # 0 => wrote'[o] = wrote[o]

LEMMA OvertakersAreFinite ==
  ASSUME NEW r \in Reports
  PROVE  IsFiniteSet(Overtakers(r)) /\ Cardinality(Overtakers(r)) \in Nat
         /\ Overtakers(r) \subseteq Reports
<1>1. Overtakers(r) \in SUBSET Reports
  BY DEF Overtakers
<1> QED
  BY <1>1, StoreAssumption, FS_Subset, CardinalityIsNat

LEMMA SupersededStays ==
  ASSUME StoreTyped, WroteKept, NEW r \in Reports, Superseded(r)
  PROVE  Superseded(r)'
<1>1. wrote[r] # 0 /\ wrote'[r] = wrote[r] /\ wrote \in [Reports -> Nat]
  BY DEF Superseded, WroteKept, StoreTyped
<1>2. Overtakers(r) \subseteq Overtakers(r)'
  BY <1>1 DEF Overtakers, WroteKept
<1>3. Overtakers(r)' \in SUBSET Reports
  BY DEF Overtakers
<1>4. IsFiniteSet(Overtakers(r)') /\ Cardinality(Overtakers(r)') \in Nat
  BY <1>3, StoreAssumption, FS_Subset, CardinalityIsNat
<1>5. Cardinality(Overtakers(r)) <= Cardinality(Overtakers(r)')
  BY <1>2, <1>4, FS_Subset
<1>6. Cardinality(Overtakers(r)') >= Keep
  <2> DEFINE a == Cardinality(Overtakers(r))
             b == Cardinality(Overtakers(r)')
  <2>1. a \in Nat /\ b \in Nat /\ Keep \in Nat /\ a <= b /\ a >= Keep
    BY <1>4, <1>5, OvertakersAreFinite, StoreAssumption DEF Superseded
  <2> HIDE DEF a, b
  <2>2. b >= Keep
    BY <2>1
  <2> QED
    BY <2>2 DEF b
<1> QED
  BY <1>1, <1>6 DEF Superseded

\* Who is alone with its stamp now was so before.
LEMMA WasAlone ==
  ASSUME StoreTyped, TimesKept, NEW r \in Reports, writer[r].stage # "idle", Alone(r)'
  PROVE  Alone(r)
<1> SUFFICES ASSUME NEW o \in Reports \ {r}, Directory[o] = Directory[r]
             PROVE  writer[o].time # writer[r].time
  BY DEF Alone
<1>1. writer'[o].time # writer'[r].time
  BY DEF Alone
<1>2. writer'[r].time = writer[r].time /\ writer[r].time \in 1..MaxSecond
  BY DEF TimesKept, StoreTyped, AreWriters, IsWriter
<1>3. CASE writer[o].stage = "idle"
  <2>1. writer[o].time = 0
    BY <1>3 DEF StoreTyped, AreWriters, IsWriter
  <2> QED
    BY <1>2, <2>1
<1>4. CASE writer[o].stage # "idle"
  BY <1>1, <1>2, <1>4 DEF TimesKept
<1> QED
  BY <1>3, <1>4

\* What a step has to do to keep the invariant.
NewVictimsOvertaken ==
    \A p, r \in Reports :
       /\ writer'[p].stage = "delete" /\ Directory[p] = Directory[r]
       /\ writer[r].stage # "idle" /\ writer[r].time \in writer'[p].victims /\ Alone(r)
       => \/ writer[p].stage = "delete" /\ writer[r].time \in writer[p].victims
          \/ Superseded(r)

NewlyMissingOvertaken ==
    \A r \in Reports, k \in 1..3 :
       HasPart(writer'[r], k) /\ writer[r].stage # "idle"
       /\ local'[Directory[r]][<<writer[r].time, Parts[k]>>] = Nobody /\ Alone(r)
       => (HasPart(writer[r], k) /\ Missing(r, k)) \/ Superseded(r)

NewlyLostOvertaken ==
    \A r \in Reports :
       writer'[r].stage = "lost" =>
          writer[r].stage # "idle" /\ (writer[r].stage = "lost" \/ (Alone(r) => Superseded(r)))

BeginsWithNothing ==
    \A r \in Reports : writer[r].stage = "idle" => NothingWritten(writer'[r])

LEMMA LostKept ==
  ASSUME StoreTyped, ClockInv', LostInv, TimesKept, WroteKept, BeginsWithNothing,
         NewVictimsOvertaken, NewlyMissingOvertaken, NewlyLostOvertaken, LatestIsThere'
  PROVE  LostInv'
<1>1. VictimsOvertaken'
  <2> SUFFICES ASSUME NEW p \in Reports, NEW r \in Reports,
                      writer'[p].stage = "delete", Directory[p] = Directory[r],
                      writer'[r].time \in writer'[p].victims, Alone(r)'
               PROVE  Superseded(r)'
    BY DEF VictimsOvertaken
  <2>1. writer[r].stage # "idle"
    <3> SUFFICES ASSUME writer[r].stage = "idle" PROVE FALSE
      OBVIOUS
    <3>1. wrote'[r] = 0
      BY DEF BeginsWithNothing, ClockInv, WriterTimes
    <3>2. PICK q \in Reports :
             Directory[q] = Directory[p] /\ writer'[q].time = writer'[r].time /\ wrote'[q] # 0
      BY DEF ClockInv, VictimsWereWritten
    <3> QED
      BY <3>1, <3>2 DEF Alone
  <2>2. Alone(r) /\ writer'[r].time = writer[r].time
    BY <2>1, WasAlone DEF TimesKept
  <2>3. Superseded(r)
    BY <2>1, <2>2 DEF NewVictimsOvertaken, LostInv, VictimsOvertaken
  <2> QED
    BY <2>3, SupersededStays
<1>2. MissingOvertaken'
  <2> SUFFICES ASSUME NEW r \in Reports, NEW k \in 1..3,
                      HasPart(writer'[r], k), Missing(r, k)', Alone(r)'
               PROVE  Superseded(r)'
    BY DEF MissingOvertaken
  <2>1. writer[r].stage # "idle"
    <3> SUFFICES ASSUME writer[r].stage = "idle" PROVE FALSE
      OBVIOUS
    <3>1. NothingWritten(writer'[r])
      BY DEF BeginsWithNothing
    <3> QED
      BY <3>1, NoneBeforeFirst DEF NothingWritten, HasPart
  <2>2. Alone(r) /\ writer'[r].time = writer[r].time
    BY <2>1, WasAlone DEF TimesKept
  <2>3. local'[Directory[r]][<<writer[r].time, Parts[k]>>] = Nobody
    BY <2>2 DEF Missing
  <2>4. Superseded(r)
    BY <2>1, <2>2, <2>3 DEF NewlyMissingOvertaken, LostInv, MissingOvertaken
  <2> QED
    BY <2>4, SupersededStays
<1>3. ASSUME NEW r \in Reports, writer'[r].stage = "lost", Alone(r)'
      PROVE  Superseded(r)'
  <2>1. Alone(r)
    BY <1>3, WasAlone DEF NewlyLostOvertaken
  <2>2. Superseded(r)
    BY <1>3, <2>1 DEF NewlyLostOvertaken, LostInv
  <2> QED
    BY <2>2, SupersededStays
<1> QED
  BY <1>1, <1>2, <1>3 DEF LostInv

\* What retention finds beyond its limit has as many newer ones as are kept, and each
\* of them has a writer of its own.
LEMMA BeyondIsOvertaken ==
  ASSUME StoreTyped, ClockInv, NEW r \in Reports, Alone(r),
         writer[r].time \in Beyond(mtime[Directory[r]])
  PROVE  Superseded(r)
<1> DEFINE d == Directory[r]
           s == writer[r].time
           newer == Newer(mtime[d], s)
<1>1. s \in Stamps /\ mtime[d][s] # 0 /\ Cardinality(newer) >= Keep /\ d \in Directories
  BY DEF Beyond, Present, Directories
<1>2. mtime[d] \in [Stamps -> Nat]
  BY <1>1 DEF StoreTyped
<1>3. PICK q \in Reports : Directory[q] = d /\ writer[q].time = s /\ wrote[q] = mtime[d][s]
  BY <1>1 DEF ClockInv, WrittenBySomebody
<1>4. wrote[r] = mtime[d][s]
  BY <1>3 DEF Alone
<1> DEFINE IsWriterOf(w, t) == Directory[w] = d /\ writer[w].time = t /\ wrote[w] = mtime[d][t]
           f == [t \in newer |-> CHOOSE w \in Reports : IsWriterOf(w, t)]
<1>5. ASSUME NEW t \in newer
      PROVE  f[t] \in Overtakers(r) /\ writer[f[t]].time = t
  <2>1. t \in Stamps /\ mtime[d][t] > mtime[d][s] /\ mtime[d][t] # 0
    BY <1>1, <1>2 DEF Newer
  <2>2. \E w \in Reports : IsWriterOf(w, t)
    BY <1>1, <2>1 DEF ClockInv, WrittenBySomebody
  <2>3. f[t] \in Reports /\ IsWriterOf(f[t], t)
    BY <2>2
  <2> HIDE DEF f
  <2> QED
    BY <1>4, <2>1, <2>3 DEF Overtakers
<1>6. f \in [newer -> Overtakers(r)] /\ \A t, u \in newer : f[t] = f[u] => t = u
  <2>1. f = [t \in newer |-> f[t]]
    OBVIOUS
  <2> HIDE DEF f, newer
  <2> QED
    BY <1>5, <2>1
<1>7. f \in Injection(newer, Overtakers(r))
  <2> HIDE DEF f, newer
  <2> QED
    BY <1>6 DEF Injection, IsInjective
<1>8. Cardinality(newer) <= Cardinality(Overtakers(r))
  <2> HIDE DEF f, newer
  <2> QED
    BY <1>7, OvertakersAreFinite, FS_Injection
<1>9. Cardinality(Overtakers(r)) >= Keep
  <2>1. Cardinality(newer) \in Nat /\ Keep \in Nat
    BY NewerAreStamps, StoreAssumption
  <2> HIDE DEF newer
  <2> QED
    BY <1>1, <1>8, <2>1, OvertakersAreFinite
<1> QED
  BY <1>1, <1>4, <1>9 DEF Superseded

LEMMA LostStandsStill ==
  ASSUME StoreTyped, ClockInv', LostInv, StandsStill PROVE LostInv'
<1>1. TimesKept /\ WroteKept /\ BeginsWithNothing
  BY DEF StandsStill, TimesKept, WroteKept, BeginsWithNothing, NothingWritten
<1>2. NewVictimsOvertaken /\ NewlyMissingOvertaken /\ NewlyLostOvertaken
  BY DEF StandsStill, NewVictimsOvertaken, NewlyMissingOvertaken, NewlyLostOvertaken, Missing
<1>3. LatestIsThere'
  BY DEF StandsStill, LostInv, LatestIsThere
<1> QED
  BY <1>1, <1>2, <1>3, LostKept

LEMMA LostAtBegin ==
  ASSUME StoreTyped, ClockInv', LostInv, NEW r \in Reports, Begin(r) PROVE LostInv'
<1>1. /\ \A o \in Reports \ {r} : writer'[o] = writer[o]
      /\ writer[r].stage = "idle" /\ writer'[r].stage = "write" /\ writer'[r].part = 1
      /\ UNCHANGED <<local, wrote>>
  BY BeginDoes
<1>2. TimesKept /\ WroteKept /\ BeginsWithNothing
  BY <1>1 DEF TimesKept, WroteKept, BeginsWithNothing, NothingWritten
<1>3. NewVictimsOvertaken /\ NewlyMissingOvertaken /\ NewlyLostOvertaken
  BY <1>1 DEF NewVictimsOvertaken, NewlyMissingOvertaken, NewlyLostOvertaken, Missing
<1>4. LatestIsThere'
  BY <1>1 DEF LostInv, LatestIsThere
<1> QED
  BY <1>2, <1>3, <1>4, LostKept

LEMMA LostAtFile ==
  ASSUME StoreTyped, ClockInv, ClockInv', LostInv, NEW r \in Reports, WriteFile(r)
  PROVE  LostInv'
<1> DEFINE d == Directory[r]
           k == writer[r].part
           name == IF k = 4 THEN <<0, "latest">> ELSE <<writer[r].time, Parts[k]>>
<1>1. /\ \A o \in Reports \ {r} : writer'[o] = writer[o]
      /\ d \in Directories /\ k \in 1..4
      /\ writer[r].stage = "write" /\ writer'[r].time = writer[r].time
      /\ writer[r].time \in 1..MaxSecond
      /\ k < 4 => writer'[r].stage = "write" /\ writer'[r].part = k + 1
      /\ k = 4 => writer'[r].stage = "list"
      /\ k < 4 => local' = [local EXCEPT ![d][<<writer[r].time, Parts[k]>>] = r]
      /\ k = 4 => local' = [local EXCEPT ![d][<<0, "latest">>] = r]
  BY WriteFileDoes
<1>2. local' = [local EXCEPT ![d][name] = r] /\ (k = 4 \/ (k < 4 /\ k # 4))
  BY <1>1
<1>3. name \in Names
  <2>1. 0 \in 0..MaxSecond /\ writer[r].time \in 0..MaxSecond /\ Parts[k] \in Range(Parts)
        /\ "latest" \in Range(Parts)
    BY <1>1, PartsAre, StoreAssumption
  <2> QED
    BY <2>1 DEF Names
<1>4. /\ local'[d][name] # Nobody
      /\ \A e \in Directories, n \in Names : local'[e][n] = Nobody => local[e][n] = Nobody
  <2> HIDE DEF name, d
  <2> QED
    BY <1>1, <1>2, <1>3, StoreAssumption DEF StoreTyped
<1>5. WroteKept
  <2>1. CASE k = 1
    <3>1. wrote[r] = 0 /\ \A o \in Reports \ {r} : wrote'[o] = wrote[o]
      BY <1>1, <2>1, JsonDoes DEF ClockInv, WriterTimes, NothingWritten
    <3> QED
      BY <3>1 DEF WroteKept
  <2>2. CASE k # 1
    BY <2>2, ClockAtFile DEF WroteKept, OnlyDeletes
  <2> QED
    BY <2>1, <2>2
<1>6. TimesKept /\ BeginsWithNothing /\ writer'[r].stage \in {"write", "list"}
  BY <1>1, <1>2 DEF TimesKept, BeginsWithNothing, NothingWritten
<1>7. NewVictimsOvertaken /\ NewlyLostOvertaken
  BY <1>1, <1>6 DEF NewVictimsOvertaken, NewlyLostOvertaken
<1>8. NewlyMissingOvertaken
  <2> SUFFICES ASSUME NEW o \in Reports, NEW j \in 1..3, HasPart(writer'[o], j),
                      writer[o].stage # "idle",
                      local'[Directory[o]][<<writer[o].time, Parts[j]>>] = Nobody
               PROVE  HasPart(writer[o], j) /\ Missing(o, j)
    BY DEF NewlyMissingOvertaken
  <2>1. <<writer[o].time, Parts[j]>> \in Names /\ Directory[o] \in Directories
    <3>1. writer[o].time \in 0..MaxSecond /\ Parts[j] \in Range(Parts)
      BY PartsAre DEF StoreTyped, AreWriters, IsWriter
    <3> QED
      BY <3>1 DEF Names, Directories
  <2>2. Missing(o, j)
    BY <1>4, <2>1 DEF Missing
  <2>3. HasPart(writer[o], j)
    <3>1. CASE o = r
      <4>1. j # k
        BY <1>4, <3>1
      <4>2. j < k
        BY <1>1, <1>2, <3>1, <4>1 DEF HasPart
      <4> QED
        BY <1>1, <3>1, <4>2 DEF HasPart
    <3>2. CASE o # r
      BY <1>1, <3>2
    <3> QED
      BY <3>1, <3>2
  <2> QED
    BY <2>2, <2>3
<1>9. LatestIsThere'
  <2> SUFFICES ASSUME NEW o \in Reports, writer'[o].stage \in {"list", "delete", "upload"}
               PROVE  local'[Directory[o]][<<0, "latest">>] # Nobody
    BY DEF LatestIsThere
  <2>1. CASE o = r
    BY <1>1, <1>2, <1>4, <2>1
  <2>2. CASE o # r
    <3>1. local[Directory[o]][<<0, "latest">>] # Nobody
      BY <1>1, <2>2 DEF LostInv, LatestIsThere
    <3>2. <<0, "latest">> \in Names /\ Directory[o] \in Directories
      BY PartsAre, StoreAssumption DEF Names, Directories
    <3> QED
      BY <1>4, <3>1, <3>2
  <2> QED
    BY <2>1, <2>2
<1> QED
  BY <1>5, <1>6, <1>7, <1>8, <1>9, LostKept

LEMMA LostAtList ==
  ASSUME StoreTyped, ClockInv, ClockInv', LostInv, NEW r \in Reports, ListReports(r)
  PROVE  LostInv'
<1> DEFINE d == Directory[r]
<1>1. /\ \A o \in Reports \ {r} : writer'[o] = writer[o]
      /\ writer[r].stage = "list" /\ writer'[r].stage = "delete"
      /\ writer'[r].time = writer[r].time
      /\ writer'[r].victims = Beyond(mtime[d])
      /\ UNCHANGED <<local, wrote>>
  BY ListReportsDoes
<1>2. TimesKept /\ WroteKept /\ BeginsWithNothing
  BY <1>1 DEF TimesKept, WroteKept, BeginsWithNothing, NothingWritten
<1>3. NewVictimsOvertaken
  <2> SUFFICES ASSUME NEW p \in Reports, NEW o \in Reports,
                      writer'[p].stage = "delete", Directory[p] = Directory[o],
                      writer[o].time \in writer'[p].victims, Alone(o)
               PROVE  \/ writer[p].stage = "delete" /\ writer[o].time \in writer[p].victims
                      \/ Superseded(o)
    BY DEF NewVictimsOvertaken
  <2>1. CASE p = r
    BY <1>1, <2>1, BeyondIsOvertaken
  <2>2. CASE p # r
    BY <1>1, <2>2
  <2> QED
    BY <2>1, <2>2
<1>4. NewlyMissingOvertaken /\ NewlyLostOvertaken
  BY <1>1 DEF NewlyMissingOvertaken, NewlyLostOvertaken, Missing, HasPart
<1>5. LatestIsThere'
  BY <1>1 DEF LostInv, LatestIsThere
<1> QED
  BY <1>2, <1>3, <1>4, <1>5, LostKept

LEMMA LostAtVisit ==
  ASSUME StoreTyped, ClockInv, ClockInv', LostInv, NEW r \in Reports, VisitReport(r)
  PROVE  LostInv'
<1> DEFINE d == Directory[r]
<1>1. /\ \A o \in Reports \ {r} : writer'[o] = writer[o]
      /\ d \in Directories /\ writer[r].stage = "delete" /\ writer'[r].stage = "delete"
      /\ writer'[r].time = writer[r].time /\ wrote' = wrote
  BY VisitReportDoes
<1>2. PICK stamp \in Stamps :
         /\ writer'[r].victims = writer[r].victims \ {stamp}
         /\ stamp \in writer[r].victims =>
               local' = [local EXCEPT ![d] = [n \in Names |-> IF n \in Family(stamp) THEN Nobody
                                                              ELSE local[d][n]]]
         /\ stamp \notin writer[r].victims => local' = local
  BY VisitReportDoes
<1>3. TimesKept /\ WroteKept /\ BeginsWithNothing
  BY <1>1 DEF TimesKept, WroteKept, BeginsWithNothing, NothingWritten
<1>4. NewVictimsOvertaken /\ NewlyLostOvertaken
  BY <1>1, <1>2 DEF NewVictimsOvertaken, NewlyLostOvertaken
<1>5. \A e \in Directories, n \in Names :
         \/ local'[e][n] = local[e][n]
         \/ e = d /\ n \in Family(stamp) /\ stamp \in writer[r].victims
  <2> HIDE DEF d
  <2> QED
    BY <1>1, <1>2 DEF StoreTyped
<1>6. \A n \in Family(stamp) : n[1] = stamp /\ n[2] # "latest"
  BY DEF Family, Name
<1>7. NewlyMissingOvertaken
  <2> SUFFICES ASSUME NEW o \in Reports, NEW j \in 1..3, HasPart(writer'[o], j),
                      writer[o].stage # "idle",
                      local'[Directory[o]][<<writer[o].time, Parts[j]>>] = Nobody, Alone(o)
               PROVE  (HasPart(writer[o], j) /\ Missing(o, j)) \/ Superseded(o)
    BY DEF NewlyMissingOvertaken
  <2>1. HasPart(writer[o], j)
    BY <1>1 DEF HasPart
  <2>2. <<writer[o].time, Parts[j]>> \in Names /\ Directory[o] \in Directories
    <3>1. writer[o].time \in 0..MaxSecond /\ Parts[j] \in Range(Parts)
      BY PartsAre DEF StoreTyped, AreWriters, IsWriter
    <3> QED
      BY <3>1 DEF Names, Directories
  <2>3. CASE local'[Directory[o]][<<writer[o].time, Parts[j]>>]
                = local[Directory[o]][<<writer[o].time, Parts[j]>>]
    BY <2>1, <2>3 DEF Missing
  <2>4. CASE Directory[o] = d /\ <<writer[o].time, Parts[j]>> \in Family(stamp)
             /\ stamp \in writer[r].victims
    <3>1. writer[o].time = stamp
      BY <1>6, <2>4
    <3> QED
      BY <1>1, <2>4, <3>1 DEF LostInv, VictimsOvertaken
  <2> QED
    BY <1>5, <2>2, <2>3, <2>4
<1>8. LatestIsThere'
  <2> SUFFICES ASSUME NEW o \in Reports, writer'[o].stage \in {"list", "delete", "upload"}
               PROVE  local'[Directory[o]][<<0, "latest">>] # Nobody
    BY DEF LatestIsThere
  <2>1. local[Directory[o]][<<0, "latest">>] # Nobody
    BY <1>1 DEF LostInv, LatestIsThere
  <2>2. <<0, "latest">> \in Names /\ Directory[o] \in Directories
    BY PartsAre, StoreAssumption DEF Names, Directories
  <2>3. <<0, "latest">> \notin Family(stamp)
    BY <1>6
  <2> QED
    BY <1>5, <2>1, <2>2, <2>3
<1> QED
  BY <1>3, <1>4, <1>7, <1>8, LostKept

LEMMA LostAtUpload ==
  ASSUME StoreTyped, ClockInv', LostInv, NEW r \in Reports, Upload(r)
  PROVE  LostInv'
<1> DEFINE k == writer[r].part
<1>1. /\ \A o \in Reports \ {r} : writer'[o] = writer[o]
      /\ k \in 1..4 /\ writer[r].stage = "upload" /\ writer'[r].time = writer[r].time
      /\ k < 4 => writer'[r].stage = "upload"
      /\ k = 4 => writer'[r].stage = "done"
      /\ UNCHANGED <<local, wrote>>
  BY UploadDoes
<1>2. writer'[r].stage \in {"upload", "done"}
  BY <1>1
<1>3. TimesKept /\ WroteKept /\ BeginsWithNothing
  BY <1>1, <1>2 DEF TimesKept, WroteKept, BeginsWithNothing, NothingWritten
<1>4. NewVictimsOvertaken /\ NewlyMissingOvertaken /\ NewlyLostOvertaken
  BY <1>1, <1>2
     DEF NewVictimsOvertaken, NewlyMissingOvertaken, NewlyLostOvertaken, Missing, HasPart
<1>5. LatestIsThere'
  BY <1>1 DEF LostInv, LatestIsThere
<1> QED
  BY <1>3, <1>4, <1>5, LostKept

LEMMA LostAtStage ==
  ASSUME StoreTyped, ClockInv', LostInv, NEW r \in Reports,
         NEW stage \in {"upload", "lost", "failed", "killed"}, GoesTo(r, stage)
  PROVE  LostInv'
<1>1. /\ \A o \in Reports \ {r} : writer'[o] = writer[o]
      /\ writer'[r].stage = stage /\ writer'[r].time = writer[r].time
      /\ writer[r].stage \in Running
      /\ stage = "upload" => writer[r].stage = "delete"
      /\ stage = "lost" => /\ writer[r].stage = "upload"
                          /\ local[Directory[r]][NameOf(r)] = Nobody
      /\ UNCHANGED <<local, wrote>>
  BY DEF GoesTo, Running
<1>2. TimesKept /\ WroteKept /\ BeginsWithNothing
  BY <1>1 DEF TimesKept, WroteKept, BeginsWithNothing, NothingWritten, Running
<1>3. NewVictimsOvertaken /\ NewlyMissingOvertaken
  BY <1>1 DEF NewVictimsOvertaken, NewlyMissingOvertaken, Missing, HasPart, Running
<1>4. ASSUME stage = "lost", Alone(r) PROVE Superseded(r)
  <2> DEFINE k == writer[r].part
  <2>1. /\ writer[r].stage = "upload" /\ k \in 1..4
        /\ k <= 3 => NameOf(r) = <<writer[r].time, Parts[k]>>
        /\ k = 4 => NameOf(r) = <<0, "latest">>
    BY <1>1, <1>4, NameIs
  <2>2. k # 4
    BY <1>1, <1>4, <2>1 DEF LostInv, LatestIsThere
  <2>3. k \in 1..3 /\ Missing(r, k) /\ HasPart(writer[r], k)
    BY <1>1, <1>4, <2>1, <2>2 DEF Missing, HasPart
  <2> QED
    BY <1>4, <2>3 DEF LostInv, MissingOvertaken
<1>5. NewlyLostOvertaken
  BY <1>1, <1>4 DEF NewlyLostOvertaken
<1>6. LatestIsThere'
  BY <1>1 DEF LostInv, LatestIsThere
<1> QED
  BY <1>2, <1>3, <1>5, <1>6, LostKept

\* Whoever finds its files gone before the upload shares its stamp with another of its
\* directory or has been overtaken, by as many as are kept.
\* (reporting.py: apply_local_retention, publish_s3_artifacts)
THEOREM LostIsOvertaken == StoreSpec => []LostMeansOvertaken
<1>1. StoreInit => StoreTyped /\ ClockInv /\ LostInv
  <2>1. StoreInit => LostInv
    BY InitTyped, NoneBeforeFirst
       DEF LostInv, VictimsOvertaken, MissingOvertaken, LatestIsThere, HasPart, Idle
  <2> QED
    BY <2>1, InitTyped, InitClocked
<1>2. StoreTyped /\ ClockInv /\ LostInv /\ [StoreNext]_storeVars
         => StoreTyped' /\ ClockInv' /\ LostInv'
  <2>1. StoreTyped /\ ClockInv /\ [StoreNext]_storeVars => StoreTyped' /\ ClockInv'
    BY StepIs, StepClocked
  <2> QED
    BY <2>1, StepIs, LostStandsStill, LostAtBegin, LostAtFile, LostAtList, LostAtVisit,
       LostAtUpload, LostAtStage
<1>3. StoreTyped /\ ClockInv /\ LostInv => LostMeansOvertaken
  BY DEF LostInv, LostMeansOvertaken, Alone, Superseded
<1> QED
  BY <1>1, <1>2, <1>3, PTL DEF StoreSpec
=============================================================================
