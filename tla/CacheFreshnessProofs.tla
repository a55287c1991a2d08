------------------------ MODULE CacheFreshnessProofs ------------------------
(***************************************************************************)
(* Theorems about CacheFreshness for any keys, tick length, lag and clock. *)
(***************************************************************************)
EXTENDS CacheFreshness, TLAPS

-----------------------------------------------------------------------------
(* Times in ticks and in whole seconds.                                    *)

LEMMA DivBounds ==
  ASSUME NEW a \in Nat, NEW d \in Nat \ {0}
  PROVE  a \div d \in Nat /\ (a \div d) * d <= a /\ a < (a \div d) * d + d
BY SMTT(30)

LEMMA Monotone ==
  ASSUME NEW a \in Int, NEW b \in Int, NEW d \in Nat \ {0}, a <= b
  PROVE  a * d <= b * d
BY SMTT(30)

LEMMA Product == ASSUME NEW a \in Int, NEW d \in Int PROVE a * d \in Int
BY SMTT(30)

\* cached_at is at most a second, less a tick, before the document was written.
LEMMA CachedAtBounds ==
  ASSUME NEW document, document.at \in Nat
  PROVE  /\ CachedAt(document) \in Int
         /\ CachedAt(document) <= document.at
         /\ document.at < CachedAt(document) + TicksPerSecond
<1>1. TicksPerSecond \in Nat \ {0}
  BY CacheAssumption
<1>2. /\ document.at \div TicksPerSecond \in Nat
      /\ (document.at \div TicksPerSecond) * TicksPerSecond <= document.at
      /\ document.at < (document.at \div TicksPerSecond) * TicksPerSecond + TicksPerSecond
  BY <1>1, DivBounds
<1>3. (document.at \div TicksPerSecond) * TicksPerSecond \in Int
  BY <1>1, <1>2, Product
<1> QED
  BY <1>2, <1>3 DEF CachedAt

\* A negative number of whole seconds takes a whole second of ticks, and n seconds
\* of ticks make at least n whole seconds.
LEMMA SecondsBounds ==
  ASSUME NEW t \in Int
  PROVE  /\ Seconds(t) \in Int
         /\ Seconds(t) < 0 <=> t <= -TicksPerSecond
         /\ \A n \in Nat : t >= n * TicksPerSecond => Seconds(t) >= n
<1>1. TicksPerSecond \in Nat \ {0}
  BY CacheAssumption
<1>2. CASE t >= 0
  <2>1. t \in Nat
    BY <1>2
  <2> DEFINE q == t \div TicksPerSecond
  <2>2. q \in Nat /\ q * TicksPerSecond <= t /\ t < q * TicksPerSecond + TicksPerSecond
    BY <1>1, <2>1, DivBounds
  <2>3. Seconds(t) = q
    BY <1>2 DEF Seconds
  <2> HIDE DEF q
  <2>4. ASSUME NEW n \in Nat, t >= n * TicksPerSecond PROVE q >= n
    <3> SUFFICES ASSUME q + 1 <= n PROVE FALSE
      BY <2>2
    <3>1. (q + 1) * TicksPerSecond <= n * TicksPerSecond
      BY <1>1, <2>2, Monotone
    <3>2. (q + 1) * TicksPerSecond = q * TicksPerSecond + TicksPerSecond
      BY <1>1, <2>2
    <3>3. n * TicksPerSecond \in Int /\ q * TicksPerSecond \in Int
      BY <1>1, <2>2, Product
    <3> QED
      BY <1>1, <2>2, <2>4, <3>1, <3>2, <3>3
  <2> QED
    BY <1>1, <1>2, <2>2, <2>3, <2>4
<1>3. CASE t < 0
  <2>1. -t \in Nat /\ -t > 0
    BY <1>3
  <2> DEFINE q == (-t) \div TicksPerSecond
  <2>2. q \in Nat /\ q * TicksPerSecond <= -t /\ -t < q * TicksPerSecond + TicksPerSecond
    BY <1>1, <2>1, DivBounds
  <2>3. Seconds(t) = -q
    BY <1>3 DEF Seconds
  <2> HIDE DEF q
  <2>4. t <= -TicksPerSecond => q # 0
    BY <1>1, <1>3, <2>2
  <2>6. q # 0 => t <= -TicksPerSecond
    <3> SUFFICES ASSUME q # 0 PROVE t <= -TicksPerSecond
      OBVIOUS
    <3>1. 1 * TicksPerSecond <= q * TicksPerSecond
      BY <1>1, <2>2, Monotone
    <3>2. q * TicksPerSecond \in Int /\ 1 * TicksPerSecond = TicksPerSecond
      BY <1>1, <2>2, Product
    <3> QED
      BY <1>1, <1>3, <2>2, <3>1, <3>2
  <2>5. ASSUME NEW n \in Nat PROVE ~(t >= n * TicksPerSecond)
    <3>1. 0 * TicksPerSecond <= n * TicksPerSecond
      BY <1>1, Monotone
    <3>2. n * TicksPerSecond \in Int /\ 0 * TicksPerSecond = 0
      BY <1>1, Product
    <3> QED
      BY <1>3, <3>1, <3>2
  <2> QED
    BY <1>1, <1>3, <2>2, <2>3, <2>4, <2>5, <2>6
<1> QED
  BY <1>2, <1>3

-----------------------------------------------------------------------------
(* What a document's times say, whatever was delivered again or evicted.   *)

Docs == [at : Nat, content : Nat, first : Nat]

Good(d) == d = NoDocument \/ (1 <= d.content /\ d.content <= d.first /\ d.first <= d.at)

TimesInv ==
    /\ clock \in Nat /\ clock >= 1
    /\ updated \in [Keys -> Nat]
    /\ topic \in Seq([key : Keys, at : Nat])
    /\ \A i \in 1..Len(topic) : 1 <= topic[i].at /\ topic[i].at <= clock
    /\ committed \in Nat
    /\ cache \in [Keys -> Docs]
    /\ \A k \in Keys : Good(cache[k]) /\ cache[k].at <= clock

LookInv ==
    /\ look \in [stage : {"idle", "rows", "done"}, rows : [Keys -> Nat],
                 violations : SUBSET Keys, breaches : SUBSET Keys, read : [Keys -> Docs]]
    /\ look.stage = "done"
          => /\ \A k \in Keys : Good(look.read[k])
             /\ look.violations = {k \in Rows : Unseen(look.rows[k], look.read[k])}
             /\ look.breaches = {k \in Rows : Late(look.rows[k], look.read[k])}

CacheInv == TimesInv /\ LookInv

LEMMA NoDocumentType == NoDocument \in Docs
BY DEF NoDocument, Docs

LEMMA NoLookInv == look' = NoLook => LookInv'
<1> SUFFICES ASSUME look' = NoLook PROVE LookInv'
  OBVIOUS
<1>1. NoLook \in [stage : {"idle", "rows", "done"}, rows : [Keys -> Nat],
                  violations : SUBSET Keys, breaches : SUBSET Keys, read : [Keys -> Docs]]
  BY NoDocumentType DEF NoLook
<1>2. look'.stage = "idle"
  BY DEF NoLook
<1> QED
  BY <1>1, <1>2 DEF LookInv

LEMMA InitTimes == CacheInit => CacheInv
<1> SUFFICES ASSUME CacheInit PROVE CacheInv
  OBVIOUS
<1>1. /\ clock = 1 /\ updated \in [Keys -> Nat] /\ committed = 0
      /\ cache \in [Keys -> Docs] /\ \A k \in Keys : cache[k] = NoDocument
  BY NoDocumentType DEF CacheInit
<1>2. topic = <<>>
  BY DEF CacheInit
<1>3. TimesInv
  BY <1>1, <1>2 DEF TimesInv, Good, NoDocument
<1>4. NoLook \in [stage : {"idle", "rows", "done"}, rows : [Keys -> Nat],
                  violations : SUBSET Keys, breaches : SUBSET Keys, read : [Keys -> Docs]]
  BY NoDocumentType DEF NoLook
<1>5. look = NoLook /\ NoLook.stage = "idle"
  BY DEF CacheInit, NoLook
<1> QED
  BY <1>3, <1>4, <1>5 DEF CacheInv, LookInv

LEMMA TimesStep == TimesInv /\ [CacheNext]_cacheVars => TimesInv'
<1> SUFFICES ASSUME TimesInv, [CacheNext]_cacheVars PROVE TimesInv'
  OBVIOUS
<1>a. \A i \in 1..Len(topic) : topic[i] \in [key : Keys, at : Nat]
  <2> DEFINE Events == [key : Keys, at : Nat]
  <2>1. topic \in Seq(Events)
    BY DEF TimesInv
  <2> HIDE DEF Events
  <2>2. \A i \in 1..Len(topic) : topic[i] \in Events
    BY <2>1
  <2> QED
    BY <2>2 DEF Events
<1>b. \A k \in Keys : cache[k].at \in Nat
  BY DEF TimesInv, Docs
<1>1. CASE Tick
  <2>1. clock' = clock + 1 /\ UNCHANGED <<updated, topic, committed, cache>> /\ clock \in Nat
    BY <1>1 DEF Tick, TimesInv
  <2>2. \A i \in 1..Len(topic) : topic[i].at \in Nat
    BY <1>a
  <2>3. \A i \in 1..Len(topic) : 1 <= topic[i].at /\ topic[i].at <= clock + 1
    BY <2>1, <2>2 DEF TimesInv
  <2>4. \A k \in Keys : Good(cache[k]) /\ cache[k].at <= clock + 1
    BY <1>b, <2>1 DEF TimesInv
  <2> QED
    BY <2>1, <2>3, <2>4 DEF TimesInv
<1>2. ASSUME NEW k \in Keys, Save(k) PROVE TimesInv'
  <2>1. updated' \in [Keys -> Nat]
    BY <1>2 DEF Save, TimesInv
  <2>2. [key |-> k, at |-> clock] \in [key : Keys, at : Nat]
    BY DEF TimesInv
  <2>3. /\ topic' \in Seq([key : Keys, at : Nat])
        /\ \A i \in 1..Len(topic') : 1 <= topic'[i].at /\ topic'[i].at <= clock
    BY <1>2, <2>2 DEF Save, TimesInv
  <2> QED
    BY <1>2, <2>1, <2>3 DEF Save, TimesInv
<1>3. ASSUME NEW k \in Keys, Evict(k) PROVE TimesInv'
  <2>1. /\ cache' \in [Keys -> Docs]
        /\ \A j \in Keys : cache'[j] = cache[j] \/ cache'[j] = NoDocument
    BY <1>3, NoDocumentType DEF Evict, TimesInv
  <2>2. Good(NoDocument) /\ NoDocument.at <= clock
    BY DEF Good, NoDocument, TimesInv
  <2> QED
    BY <1>3, <2>1, <2>2 DEF Evict, TimesInv
<1>4. CASE CacheOrder
  <2> DEFINE event == topic[committed + 1]
             old == cache[event.key]
             new == [at |-> clock, content |-> event.at,
                     first |-> IF old.content = event.at THEN old.first ELSE clock]
  <2>1. event \in [key : Keys, at : Nat] /\ 1 <= event.at /\ event.at <= clock
    <3>1. committed + 1 \in 1..Len(topic)
      BY <1>4 DEF CacheOrder, TimesInv
    <3> QED
      BY <1>a, <3>1 DEF TimesInv
  <2>2. event.key \in Keys /\ event.at \in Nat
    BY <2>1
  <2>3. cache' = [cache EXCEPT ![event.key] = new]
    BY <1>4 DEF CacheOrder, Event
  <2>4. old \in Docs /\ Good(old) /\ old.at <= clock /\ clock \in Nat
    BY <2>2 DEF TimesInv
  <2> HIDE DEF event, old
  <2>5. new \in Docs
    BY <2>2, <2>4 DEF Docs
  <2>6. Good(new) /\ new.at <= clock
    BY <2>1, <2>2, <2>4 DEF Good, NoDocument, Docs
  <2> HIDE DEF new
  <2>7. /\ cache' \in [Keys -> Docs]
        /\ \A j \in Keys : cache'[j] = cache[j] \/ cache'[j] = new
    BY <2>2, <2>3, <2>5 DEF TimesInv
  <2> QED
    BY <1>4, <2>6, <2>7 DEF CacheOrder, TimesInv
<1>5. CASE CommitEvent \/ SkipEvent
  BY <1>5 DEF CommitEvent, SkipEvent, TimesInv
<1>6. CASE RestartIndexer \/ ReadRows \/ ReadCache \/ EndLook \/ UNCHANGED cacheVars
  BY <1>6 DEF RestartIndexer, ReadRows, ReadCache, EndLook, cacheVars, TimesInv
<1> QED
  BY <1>1, <1>2, <1>3, <1>4, <1>5, <1>6 DEF CacheNext

LEMMA LookStep == CacheInv /\ [CacheNext]_cacheVars => LookInv'
<1> SUFFICES ASSUME TimesInv, LookInv, [CacheNext]_cacheVars PROVE LookInv'
  BY DEF CacheInv
<1>1. CASE UNCHANGED look
  BY <1>1 DEF LookInv, Rows
<1>2. CASE ReadRows
  <2> DEFINE chosen == [k \in Keys |-> IF updated[k] + MaxLag * TicksPerSecond <= clock
                                       THEN updated[k] ELSE 0]
  <2>1. chosen \in [Keys -> Nat]
    BY DEF TimesInv
  <2>2. look' = [NoLook EXCEPT !.stage = "rows", !.rows = chosen]
    BY <1>2 DEF ReadRows
  <2> HIDE DEF chosen
  <2>3. look' = [stage |-> "rows", rows |-> chosen, violations |-> {}, breaches |-> {},
                 read |-> [k \in Keys |-> NoDocument]]
    BY <2>2 DEF NoLook
  <2> QED
    BY <2>1, <2>3, NoDocumentType DEF LookInv
<1>3. CASE ReadCache
  <2>1. /\ look' \in [stage : {"idle", "rows", "done"}, rows : [Keys -> Nat],
                      violations : SUBSET Keys, breaches : SUBSET Keys, read : [Keys -> Docs]]
        /\ look'.rows = look.rows /\ look'.read = cache
        /\ look'.violations = {k \in Rows : Unseen(look.rows[k], cache[k])}
        /\ look'.breaches = {k \in Rows : Late(look.rows[k], cache[k])}
    BY <1>3 DEF ReadCache, LookInv, TimesInv, Rows
  <2>2. Rows' = Rows
    BY <2>1 DEF Rows
  <2> QED
    BY <2>1, <2>2 DEF LookInv, TimesInv
<1>4. CASE EndLook
  BY <1>4, NoLookInv DEF EndLook
<1> QED
  BY <1>1, <1>2, <1>3, <1>4
     DEF CacheNext, Tick, Save, Evict, CacheOrder, CommitEvent, SkipEvent, RestartIndexer,
         cacheVars

LEMMA CacheInductive == CacheSpec => []CacheInv
<1>1. CacheInv /\ [CacheNext]_cacheVars => CacheInv'
  BY TimesStep, LookStep DEF CacheInv
<1> QED
  BY <1>1, InitTimes, PTL DEF CacheSpec

-----------------------------------------------------------------------------
(* Types.  The event at hand is one that has not been committed.           *)

CacheTyped == CacheTypeOK /\ (run.written => committed < Len(topic))

LEMMA NoDocumentTyped == NoDocument \in Documents /\ 0 \in Times
BY CacheAssumption DEF NoDocument, Documents, Times

LEMMA NoLookTyped ==
  NoLook \in [stage : {"idle", "rows", "done"}, rows : [Keys -> Times],
              violations : SUBSET Keys, breaches : SUBSET Keys, read : [Keys -> Documents]]
BY NoDocumentTyped DEF NoLook

\* What an indexer has when it starts, caches or commits.
LEMMA NewRun ==
  ASSUME NEW r \in [skips : BOOLEAN, seen : {0}, written : {FALSE}]
  PROVE  r \in [skips : BOOLEAN, seen : Nat, written : BOOLEAN] /\ ~ r.written
<1>1. r = [skips |-> r.skips, seen |-> r.seen, written |-> r.written]
      /\ r.skips \in BOOLEAN /\ r.seen = 0 /\ r.written = FALSE
  OBVIOUS
<1>2. 0 \in Nat /\ FALSE \in BOOLEAN
  OBVIOUS
<1> QED
  BY <1>1, <1>2

LEMMA RunStep ==
  ASSUME NEW r \in [skips : BOOLEAN, seen : Nat, written : BOOLEAN]
  PROVE  [r EXCEPT !.written = TRUE, !.seen = @ + 1]
            \in [skips : BOOLEAN, seen : Nat, written : BOOLEAN]
<1> DEFINE r1 == [r EXCEPT !.written = TRUE]
<1>1. r1 \in [skips : BOOLEAN, seen : Nat, written : BOOLEAN]
  OBVIOUS
<1> HIDE DEF r1
<1>2. [r1 EXCEPT !.seen = @ + 1] \in [skips : BOOLEAN, seen : Nat, written : BOOLEAN]
  BY <1>1
<1> QED
  BY <1>2 DEF r1

LEMMA CacheTypedStep == CacheTyped /\ [CacheNext]_cacheVars => CacheTyped'
<1> SUFFICES ASSUME CacheTyped, [CacheNext]_cacheVars PROVE CacheTyped'
  OBVIOUS
<1>a. /\ topic \in Seq([key : Keys, at : Times]) /\ committed \in 0..Len(topic)
      /\ run \in [skips : BOOLEAN, seen : Nat, written : BOOLEAN] /\ clock \in Times
      /\ cache \in [Keys -> Documents] /\ updated \in [Keys -> Times]
      /\ look \in [stage : {"idle", "rows", "done"}, rows : [Keys -> Times],
                   violations : SUBSET Keys, breaches : SUBSET Keys,
                   read : [Keys -> Documents]]
  BY DEF CacheTyped, CacheTypeOK
<1>b. Len(topic) \in Nat
  <2> DEFINE Events == [key : Keys, at : Times]
  <2>1. topic \in Seq(Events)
    BY <1>a
  <2> HIDE DEF Events
  <2> QED
    BY <2>1
<1>1. CASE Tick
  <2>1. clock' \in Times
    BY <1>1, <1>a, CacheAssumption DEF Tick, Times
  <2> QED
    BY <1>1, <2>1 DEF Tick, CacheTyped, CacheTypeOK
<1>2. ASSUME NEW k \in Keys, Save(k) PROVE CacheTyped'
  <2> DEFINE Events == [key : Keys, at : Times]
             event == [key |-> k, at |-> clock]
  <2>1. event \in Events /\ topic \in Seq(Events) /\ topic' = Append(topic, event)
    BY <1>2, <1>a DEF Save
  <2>2. updated' \in [Keys -> Times] /\ UNCHANGED <<clock, committed, run, cache, look>>
    BY <1>2, <1>a DEF Save
  <2>3. topic' \in Seq(Events) /\ Len(topic') = Len(topic) + 1
    <3> HIDE DEF Events, event
    <3> QED
      BY <2>1
  <2>4. committed' \in 0..Len(topic') /\ (run'.written => committed' < Len(topic'))
    BY <1>a, <1>b, <2>2, <2>3 DEF CacheTyped
  <2> QED
    BY <1>a, <2>2, <2>3, <2>4 DEF CacheTyped, CacheTypeOK
<1>3. ASSUME NEW k \in Keys, Evict(k) PROVE CacheTyped'
  <2>1. cache' \in [Keys -> Documents]
    BY <1>3, <1>a, NoDocumentTyped DEF Evict
  <2> QED
    BY <1>3, <2>1 DEF Evict, CacheTyped, CacheTypeOK
<1>4. CASE CacheOrder
  <2> DEFINE event == topic[committed + 1]
             old == cache[event.key]
             new == [at |-> clock, content |-> event.at,
                     first |-> IF old.content = event.at THEN old.first ELSE clock]
  <2>1. event \in [key : Keys, at : Times]
    <3> DEFINE Events == [key : Keys, at : Times]
    <3>1. committed + 1 \in 1..Len(topic) /\ topic \in Seq(Events)
      BY <1>4, <1>a, <1>b DEF CacheOrder
    <3> HIDE DEF Events
    <3>2. topic[committed + 1] \in Events
      BY <3>1
    <3> QED
      BY <3>2 DEF Events
  <2>2. event.key \in Keys /\ event.at \in Times
    BY <2>1
  <2>3. old \in Documents
    BY <1>a, <2>2
  <2>4. cache' = [cache EXCEPT ![event.key] = new]
    BY <1>4 DEF CacheOrder, Event
  <2> HIDE DEF event, old
  <2>5. new \in Documents
    BY <1>a, <2>2, <2>3 DEF Documents
  <2> HIDE DEF new
  <2>6. cache' \in [Keys -> Documents]
    BY <1>a, <2>4, <2>5
  <2>7. /\ run' \in [skips : BOOLEAN, seen : Nat, written : BOOLEAN]
        /\ committed < Len(topic)
    BY <1>4, <1>a, RunStep DEF CacheOrder
  <2> QED
    BY <1>4, <2>6, <2>7 DEF CacheOrder, CacheTyped, CacheTypeOK
<1>5. CASE CommitEvent \/ SkipEvent
  <2>1. /\ committed < Len(topic) /\ committed' = committed + 1
        /\ UNCHANGED <<clock, updated, topic, cache, look>>
    BY <1>5 DEF CommitEvent, SkipEvent, CacheTyped
  <2>2. /\ run' \in [skips : BOOLEAN, seen : Nat, written : BOOLEAN]
        /\ run'.written = FALSE
    <3>1. CASE CommitEvent
      BY <1>a, <3>1 DEF CommitEvent
    <3>2. CASE SkipEvent
      <4>1. run' = [run EXCEPT !.seen = @ + 1] /\ ~ run.written
        BY <3>2 DEF SkipEvent
      <4>2. run'.written = run.written /\ run' \in [skips : BOOLEAN, seen : Nat, written : BOOLEAN]
        BY <1>a, <4>1
      <4>3. run.written \in BOOLEAN
        BY <1>a
      <4> QED
        BY <4>1, <4>2, <4>3
    <3> QED
      BY <1>5, <3>1, <3>2
  <2>3. committed' \in 0..Len(topic')
    BY <1>a, <1>b, <2>1
  <2> QED
    BY <2>1, <2>2, <2>3 DEF CacheTyped, CacheTypeOK
<1>6. CASE RestartIndexer
  BY <1>6, NewRun DEF RestartIndexer, CacheTyped, CacheTypeOK
<1>7. CASE ReadRows
  <2> DEFINE chosen == [k \in Keys |-> IF updated[k] + MaxLag * TicksPerSecond <= clock
                                       THEN updated[k] ELSE 0]
  <2>1. chosen \in [Keys -> Times]
    BY <1>a, NoDocumentTyped
  <2>2. look' = [NoLook EXCEPT !.stage = "rows", !.rows = chosen]
    BY <1>7 DEF ReadRows
  <2> HIDE DEF chosen
  <2>3. look' \in [stage : {"idle", "rows", "done"}, rows : [Keys -> Times],
                   violations : SUBSET Keys, breaches : SUBSET Keys, read : [Keys -> Documents]]
    BY <2>1, <2>2, NoLookTyped
  <2> QED
    BY <1>7, <2>3 DEF ReadRows, CacheTyped, CacheTypeOK
<1>8. CASE ReadCache
  <2>1. look' \in [stage : {"idle", "rows", "done"}, rows : [Keys -> Times],
                   violations : SUBSET Keys, breaches : SUBSET Keys, read : [Keys -> Documents]]
    BY <1>8, <1>a DEF ReadCache, Rows
  <2> QED
    BY <1>8, <2>1 DEF ReadCache, CacheTyped, CacheTypeOK
<1>9. CASE EndLook
  BY <1>9, NoLookTyped DEF EndLook, CacheTyped, CacheTypeOK
<1>10. CASE UNCHANGED cacheVars
  BY <1>10 DEF cacheVars, CacheTyped, CacheTypeOK
<1> QED
  BY <1>1, <1>2, <1>3, <1>4, <1>5, <1>6, <1>7, <1>8, <1>9, <1>10 DEF CacheNext

\* The consumer group never commits an event that is not in the topic, a check finds
\* times of the clock, for any keys, tick length, lag and bounds.
\* (cache_indexer.py: run_cache_indexer; checker.py: check_paid_orders_redis_freshness)
THEOREM CacheIsTyped == CacheSpec => []CacheTypeOK
<1>1. CacheInit => CacheTyped
  <2> SUFFICES ASSUME CacheInit PROVE CacheTyped
    OBVIOUS
  <2>1. /\ clock \in Times /\ updated \in [Keys -> Times] /\ committed = 0 /\ topic = <<>>
        /\ run \in [skips : BOOLEAN, seen : {0}, written : {FALSE}] /\ look = NoLook
        /\ cache \in [Keys -> Documents]
    <3>1. 1 \in Times
      BY CacheAssumption DEF Times
    <3> QED
      BY <3>1, NoDocumentTyped DEF CacheInit
  <2>2. /\ topic \in Seq([key : Keys, at : Times]) /\ committed \in 0..Len(topic)
        /\ run \in [skips : BOOLEAN, seen : Nat, written : BOOLEAN] /\ ~ run.written
    <3>1. <<>> \in Seq([key : Keys, at : Times]) /\ Len(<<>>) = 0
      OBVIOUS
    <3>2. committed \in 0..Len(topic) /\ topic \in Seq([key : Keys, at : Times])
      BY <2>1, <3>1
    <3> QED
      BY <2>1, <3>2, NewRun
  <2> QED
    BY <2>1, <2>2, NoLookTyped DEF CacheTyped, CacheTypeOK
<1>2. CacheTyped => CacheTypeOK
  BY DEF CacheTyped
<1> QED
  BY <1>1, <1>2, CacheTypedStep, PTL DEF CacheSpec

-----------------------------------------------------------------------------
\* What a check found, in ticks.
LEMMA FoundTimes ==
  ASSUME LookInv, look.stage = "done", NEW k \in Rows
  PROVE  /\ k \in Keys /\ look.rows[k] \in Nat /\ look.rows[k] # 0
         /\ look.read[k] \in Docs /\ Good(look.read[k])
         /\ CachedAt(look.read[k]) - look.rows[k] \in Int
         /\ CachedAt(look.read[k]) <= look.read[k].at
         /\ look.read[k].at < CachedAt(look.read[k]) + TicksPerSecond
         /\ k \in look.violations <=> Unseen(look.rows[k], look.read[k])
         /\ k \in look.breaches <=> Late(look.rows[k], look.read[k])
<1>1. k \in Keys /\ look.rows[k] \in Nat /\ look.rows[k] # 0
  BY DEF Rows, LookInv
<1>2. look.read[k] \in Docs /\ Good(look.read[k])
  BY <1>1 DEF LookInv
<1>3. look.read[k].at \in Nat
  BY <1>2 DEF Docs
<1> QED
  BY <1>1, <1>2, <1>3, CachedAtBounds DEF LookInv

\* A freshness violation is never a rounding error or a race, for any tick and lag.
\* (invariants.py: compare_paid_order_freshness; cache.py: cache_order)
THEOREM ViolationIsReal == CacheSpec => []ViolationMeansUnseen
<1>1. LookInv => ViolationMeansUnseen
  <2> SUFFICES ASSUME LookInv, look.stage = "done", NEW k \in look.violations
               PROVE  look.read[k].content < look.rows[k]
    BY DEF ViolationMeansUnseen
  <2>1. k \in Rows
    BY DEF LookInv
  <2> DEFINE document == look.read[k]
             row == look.rows[k]
  <2>2. /\ row \in Nat /\ row # 0 /\ document \in Docs /\ Good(document)
        /\ CachedAt(document) - row \in Int
        /\ CachedAt(document) <= document.at
        /\ document.at < CachedAt(document) + TicksPerSecond
        /\ Unseen(row, document)
    BY <2>1, FoundTimes
  <2> HIDE DEF document, row
  <2>3. CASE document = NoDocument
    BY <2>2, <2>3 DEF NoDocument, document, row
  <2>4. CASE document # NoDocument
    <3>1. Seconds(CachedAt(document) - row) < 0
      BY <2>2, <2>4 DEF Unseen, ObservedLag
    <3>2. CachedAt(document) - row <= -TicksPerSecond
      BY <2>2, <3>1, SecondsBounds
    <3>3. CachedAt(document) \in Int
      BY <2>2, CachedAtBounds DEF Docs
    <3>4. document.at < row
      BY <2>2, <3>2, <3>3, CacheAssumption DEF Docs
    <3> QED
      BY <2>2, <2>4, <3>4 DEF Good, Docs, document, row
  <2> QED
    BY <2>3, <2>4
<1> QED
  BY <1>1, CacheInductive, PTL DEF CacheInv

\* An update that the cache has not seen is listed, or the older document was written
\* in its second or later.  (invariants.py: compare_paid_order_freshness)
THEOREM UnseenIsSaid == CacheSpec => []UnseenIsListed
<1>1. LookInv => UnseenIsListed
  <2> SUFFICES ASSUME LookInv, look.stage = "done", NEW k \in Rows,
                      ~(look.read[k].at > look.rows[k] - TicksPerSecond)
               PROVE  k \in look.violations
    BY DEF UnseenIsListed
  <2> DEFINE document == look.read[k]
             row == look.rows[k]
  <2>1. /\ row \in Nat /\ document \in Docs
        /\ CachedAt(document) - row \in Int
        /\ CachedAt(document) <= document.at
        /\ k \in look.violations <=> Unseen(row, document)
    BY FoundTimes
  <2>2. ~(document.at > row - TicksPerSecond)
    OBVIOUS
  <2> HIDE DEF document, row
  <2>3. CachedAt(document) \in Int
    BY <2>1, CachedAtBounds DEF Docs
  <2>4. CachedAt(document) - row <= -TicksPerSecond
    BY <2>1, <2>2, <2>3, CacheAssumption DEF Docs
  <2>5. Unseen(row, document)
    BY <2>1, <2>4, SecondsBounds DEF Unseen, ObservedLag
  <2> QED
    BY <2>1, <2>5
<1> QED
  BY <1>1, CacheInductive, PTL DEF CacheInv

\* An update cached more than two seconds past the lag is a breach, however often its
\* event is delivered again.  (invariants.py: compare_paid_order_freshness)
THEOREM LateIsSaid == CacheSpec => []LateIsReported
<1>1. LookInv => LateIsReported
  <2> SUFFICES ASSUME LookInv, look.stage = "done", NEW k \in Rows,
                      look.read[k].content = look.rows[k],
                      look.read[k].first - look.rows[k] >= (MaxLag + 2) * TicksPerSecond
               PROVE  k \in look.breaches
    BY DEF LateIsReported
  <2> DEFINE document == look.read[k]
             row == look.rows[k]
  <2>1. /\ row \in Nat /\ row # 0 /\ document \in Docs /\ Good(document)
        /\ CachedAt(document) - row \in Int
        /\ document.at < CachedAt(document) + TicksPerSecond
        /\ k \in look.breaches <=> Late(row, document)
    BY FoundTimes
  <2>2. document.content = row /\ document.first - row >= (MaxLag + 2) * TicksPerSecond
    OBVIOUS
  <2> HIDE DEF document, row
  <2>3. document # NoDocument
    BY <2>1, <2>2 DEF NoDocument
  <2>4. document.at >= document.first
    BY <2>1, <2>3 DEF Good
  <2>5. CachedAt(document) \in Int
    BY <2>1, CachedAtBounds DEF Docs
  <2>6. /\ (MaxLag + 2) * TicksPerSecond = (MaxLag + 1) * TicksPerSecond + TicksPerSecond
        /\ (MaxLag + 1) * TicksPerSecond \in Int /\ MaxLag + 1 \in Nat
    BY CacheAssumption, Product
  <2>7. CachedAt(document) - row >= (MaxLag + 1) * TicksPerSecond
    BY <2>1, <2>2, <2>4, <2>5, <2>6, CacheAssumption DEF Docs
  <2>8. Seconds(CachedAt(document) - row) >= MaxLag + 1
    BY <2>1, <2>6, <2>7, SecondsBounds
  <2>9. Seconds(CachedAt(document) - row) \in Int
    BY <2>1, SecondsBounds
  <2>10. Late(row, document)
    BY <2>3, <2>8, <2>9, CacheAssumption DEF Late, Unseen, ObservedLag
  <2> QED
    BY <2>1, <2>10
<1> QED
  BY <1>1, CacheInductive, PTL DEF CacheInv
=============================================================================
