--------------------------- MODULE CacheFreshness ---------------------------
(***************************************************************************)
(* The Redis cache of orders, the indexer that fills it, and the           *)
(* redis-freshness check, which reads times only: it takes an order for    *)
(* seen when the document was cached at or after the order's updated_at.   *)
(*                                                                         *)
(* updated_at has fractions of a second, cached_at is a whole second, and  *)
(* the difference of the two is cut off to whole seconds towards zero.     *)
(* The clock runs in ticks, TicksPerSecond to the second, and is the same  *)
(* for the database, the indexer and the check.                            *)
(***************************************************************************)
EXTENDS Integers, Sequences

CONSTANTS Keys,               \* the orders' ids
          TicksPerSecond,
          MaxLag,             \* max_lag_seconds
          CacheSkipEvery,     \* --skip-every-paid of a run with the bug
          MaxClock,           \* bound: ticks
          MaxSaves            \* bound: updates of orders

ASSUME CacheAssumption ==
    /\ TicksPerSecond \in Nat \ {0} /\ CacheSkipEvery \in Nat \ {0}
    /\ MaxLag \in Nat /\ MaxClock \in Nat \ {0} /\ MaxSaves \in Nat

VARIABLES clock,
          updated,            \* updated_at of each order, 0 while there is none
          topic,              \* the events: an order as it was at its update
          committed,          \* events that the consumer group has committed
          run,                \* the indexer: does it skip, paid_seen, and
                              \* whether the event at hand is in the cache
          cache,              \* the documents; first is history: when this
                              \* update was first cached
          look                \* the check: its stage, the rows and what it
                              \* found; history: the documents it read

cacheVars == <<clock, updated, topic, committed, run, cache, look>>

Times == 0..MaxClock
Documents == [at : Times, content : Times, first : Times]
NoDocument == [at |-> 0, content |-> 0, first |-> 0]
NoLook == [stage |-> "idle", rows |-> [k \in Keys |-> 0], violations |-> {},
           breaches |-> {}, read |-> [k \in Keys |-> NoDocument]]

CacheTypeOK ==
    /\ clock \in Times
    /\ updated \in [Keys -> Times]
    /\ topic \in Seq([key : Keys, at : Times])
    /\ committed \in 0..Len(topic)
    /\ run \in [skips : BOOLEAN, seen : Nat, written : BOOLEAN]
    /\ cache \in [Keys -> Documents]
    /\ look \in [stage : {"idle", "rows", "done"}, rows : [Keys -> Times],
                 violations : SUBSET Keys, breaches : SUBSET Keys,
                 read : [Keys -> Documents]]

CacheInit ==
    /\ clock = 1
    /\ updated = [k \in Keys |-> 0]
    /\ topic = <<>>
    /\ committed = 0
    /\ run \in [skips : BOOLEAN, seen : {0}, written : {FALSE}]
    /\ cache = [k \in Keys |-> NoDocument]
    /\ look = NoLook

Tick ==
    /\ clock < MaxClock
    /\ clock' = clock + 1
    /\ UNCHANGED <<updated, topic, committed, run, cache, look>>

\* An order is inserted or updated, and its event is published.
Save(k) ==
    /\ Len(topic) < MaxSaves
    /\ updated' = [updated EXCEPT ![k] = clock]
    /\ topic' = Append(topic, [key |-> k, at |-> clock])
    /\ UNCHANGED <<clock, committed, run, cache, look>>

-----------------------------------------------------------------------------
\* run_cache_indexer.

Event == topic[committed + 1]

SkipsThis == run.skips /\ (run.seen + 1) % CacheSkipEvery = 0

\* cache_order; an event that is delivered again is cached again.
CacheOrder ==
    /\ committed < Len(topic) /\ ~run.written /\ ~SkipsThis
    /\ cache' = [cache EXCEPT ![Event.key] =
                   [at |-> clock, content |-> Event.at,
                    first |-> IF @.content = Event.at THEN @.first ELSE clock]]
    /\ run' = [run EXCEPT !.written = TRUE, !.seen = @ + 1]
    /\ UNCHANGED <<clock, updated, topic, committed, look>>

CommitEvent ==
    /\ run.written
    /\ committed' = committed + 1
    /\ run' = [run EXCEPT !.written = FALSE]
    /\ UNCHANGED <<clock, updated, topic, cache, look>>

\* The simulated bug: committed without caching.
SkipEvent ==
    /\ committed < Len(topic) /\ ~run.written /\ SkipsThis
    /\ committed' = committed + 1
    /\ run' = [run EXCEPT !.seen = @ + 1]
    /\ UNCHANGED <<clock, updated, topic, cache, look>>

\* The process ends, wherever it is, and another one continues the group.
RestartIndexer ==
    /\ run' \in [skips : BOOLEAN, seen : {0}, written : {FALSE}]
    /\ run' # run
    /\ UNCHANGED <<clock, updated, topic, committed, cache, look>>

\* Redis loses a key.
Evict(k) ==
    /\ cache[k] # NoDocument
    /\ cache' = [cache EXCEPT ![k] = NoDocument]
    /\ UNCHANGED <<clock, updated, topic, committed, run, look>>

-----------------------------------------------------------------------------
\* check_paid_orders_redis_freshness.

\* int(timedelta.total_seconds()), and a version that rounds down.
BadSeconds(ticks) == ticks \div TicksPerSecond
Seconds(ticks) == IF ticks >= 0 THEN ticks \div TicksPerSecond
                                ELSE -((-ticks) \div TicksPerSecond)

\* cached_at, formatted without a fraction.
CachedAt(document) == (document.at \div TicksPerSecond) * TicksPerSecond

ObservedLag(row, document) == Seconds(CachedAt(document) - row)

BadUnseen(row, document) == document = NoDocument
Unseen(row, document) == document = NoDocument \/ ObservedLag(row, document) < 0

BadLate(row, document) == ~Unseen(row, document) /\ ObservedLag(row, document) > MaxLag + 1
Late(row, document) == ~Unseen(row, document) /\ ObservedLag(row, document) > MaxLag

ReadRows ==
    /\ look.stage = "idle"
    /\ look' = [NoLook EXCEPT
                  !.stage = "rows",
                  !.rows = [k \in Keys |->
                              IF updated[k] + MaxLag * TicksPerSecond <= clock
                              THEN updated[k] ELSE 0]]
    /\ UNCHANGED <<clock, updated, topic, committed, run, cache>>

Rows == {k \in Keys : look.rows[k] # 0}

ReadCache ==
    /\ look.stage = "rows"
    /\ look' = [look EXCEPT
                  !.stage = "done",
                  !.violations = {k \in Rows : Unseen(look.rows[k], cache[k])},
                  !.breaches = {k \in Rows : Late(look.rows[k], cache[k])},
                  !.read = cache]
    /\ UNCHANGED <<clock, updated, topic, committed, run, cache>>

EndLook ==
    /\ look.stage = "done"
    /\ look' = NoLook
    /\ UNCHANGED <<clock, updated, topic, committed, run, cache>>

CacheNext ==
    \/ Tick
    \/ \E k \in Keys : Save(k) \/ Evict(k)
    \/ CacheOrder
    \/ CommitEvent
    \/ SkipEvent
    \/ RestartIndexer
    \/ ReadRows
    \/ ReadCache
    \/ EndLook

CacheSpec == CacheInit /\ [][CacheNext]_cacheVars

-----------------------------------------------------------------------------
\* A violation is never a rounding error or a race with the indexer: the cache did
\* not hold the update that the check had read, but an older one or none, however
\* close the two times are.  (invariants.py: compare_paid_order_freshness;
\* cache.py: cache_order)
ViolationMeansUnseen ==
    look.stage = "done"
        => \A k \in look.violations : look.read[k].content < look.rows[k]

\* An update that the cache has not seen is listed, unless the older document was
\* written in the second of the update or later: an event that is delivered late
\* or once more gives an old document a new cached_at.
\* (invariants.py: compare_paid_order_freshness; cache_indexer.py:
\* run_cache_indexer)
UnseenIsListed ==
    look.stage = "done"
        => \A k \in Rows :
              \/ look.read[k].content >= look.rows[k]
              \/ k \in look.violations
              \/ look.read[k].at > look.rows[k] - TicksPerSecond

\* A late update stays late: an update first cached more than two seconds past the
\* lag is reported as a breach of the bound, and a delivery of its event once more,
\* which gives the document another cached_at, does not take that back.
\* (invariants.py: compare_paid_order_freshness; cache.py: cache_order)
LateIsReported ==
    look.stage = "done"
        => \A k \in Rows :
              /\ look.read[k].content = look.rows[k]
              /\ look.read[k].first - look.rows[k] >= (MaxLag + 2) * TicksPerSecond
              => k \in look.breaches
=============================================================================
