---------------------------- MODULE WatchFanout ----------------------------
(***************************************************************************)
(* What wakes up the operator when the topology of an Invariant changes:   *)
(* events of DataSources, DerivedViews, Secrets and Invariants, the map    *)
(* functions that turn them into requests, and the reads of the reconcile  *)
(* that follows.                                                           *)
(*                                                                         *)
(* The client is not cached for unstructured objects, so every List and    *)
(* Get reads the API server, each as a step of its own, while users go on  *)
(* editing.  Events of one kind are mapped one after the other, in any     *)
(* order; kinds do not wait for each other.  The names are those of one    *)
(* namespace.  An object that does not exist refers to nothing.            *)
(***************************************************************************)
EXTENDS Integers

CONSTANTS Invariants, DerivedViews, DataSources, Secrets,
          None,               \* an empty reference
          MaxEdits            \* bound: what users change

ASSUME FanoutAssumption ==
    /\ MaxEdits \in Nat
    /\ None \notin DerivedViews \union DataSources \union Secrets

VARIABLES viewRef,            \* spec.derivedViewRef of each Invariant
          views,              \* DerivedViews: the source and the two Secrets
          secretOf,           \* DataSources: spec.connectionSecret
          version,            \* the content of each Secret
          edits,
          events,             \* changes that no handler has taken up
          handlers,           \* kind -> the event being mapped
          requests,           \* Invariants in the work queue
          worker,             \* the reconcile under way
          known,              \* history: what the last reconcile has read, or
                              \* would have, had it needed a Job
          dropped             \* history: a List failed while mapping

world == <<viewRef, views, secretOf, version, edits>>
fanoutVars == <<world, events, handlers, requests, worker, known, dropped>>

Kinds == {"DataSource", "DerivedView", "Secret"}
Specs == [source : DataSources \union {None}, target : Secrets \union {None},
          pipeline : Secrets \union {None}]
NoSpec == [source |-> None, target |-> None, pipeline |-> None]
NoEvent == [step |-> "idle", name |-> None, sources |-> {}, views |-> {}]
NoWork == [step |-> "idle", invariant |-> None, ref |-> None, view |-> NoSpec]

SecretIn(source) == IF source = None THEN None ELSE secretOf[source]

\* resolveCheckerEnv: what a Job is given, with the contents of the Secrets that
\* its Pod will find behind the references.
Environment(view, secret) ==
    [view     |-> view,
     secret   |-> secret,
     contents |-> {<<s, version[s]>> : s \in {secret, view.target, view.pipeline} \ {None}}]

EnvironmentOf(i) == Environment(views[viewRef[i]], SecretIn(views[viewRef[i]].source))

FanoutTypeOK ==
    /\ viewRef \in [Invariants -> DerivedViews]
    /\ views \in [DerivedViews -> Specs]
    /\ secretOf \in [DataSources -> Secrets \union {None}]
    /\ version \in [Secrets -> 0..MaxEdits]
    /\ edits \in 0..MaxEdits
    /\ \A e \in events : e.kind \in Kinds \union {"Invariant"}
    /\ \A kind \in Kinds :
          /\ handlers[kind].step \in {"idle", "sources", "views", "invariants"}
          /\ handlers[kind].sources \subseteq DataSources
          /\ handlers[kind].views \subseteq DerivedViews
    /\ requests \subseteq Invariants
    /\ worker.step \in {"idle", "view", "source"}
    /\ dropped \in BOOLEAN

\* The operator starts: the initial lists of its informers queue every Invariant.
FanoutInit ==
    /\ viewRef \in [Invariants -> DerivedViews]
    /\ views \in [DerivedViews -> Specs]
    /\ secretOf \in [DataSources -> Secrets \union {None}]
    /\ version = [s \in Secrets |-> 0]
    /\ edits = 0
    /\ events = {}
    /\ handlers = [kind \in Kinds |-> NoEvent]
    /\ requests = Invariants
    /\ worker = NoWork
    /\ known = [i \in Invariants |-> None]
    /\ dropped = FALSE

-----------------------------------------------------------------------------
\* Users.

Edit(kind, name) ==
    /\ edits < MaxEdits
    /\ edits' = edits + 1
    /\ events' = events \union {[kind |-> kind, name |-> name]}
    /\ UNCHANGED <<handlers, requests, worker, known, dropped>>

EditInvariant(i, v) ==
    /\ viewRef' = [viewRef EXCEPT ![i] = v]
    /\ Edit("Invariant", i)
    /\ UNCHANGED <<views, secretOf, version>>

EditDerivedView(v, spec) ==
    /\ views' = [views EXCEPT ![v] = spec]
    /\ Edit("DerivedView", v)
    /\ UNCHANGED <<viewRef, secretOf, version>>

EditDataSource(d, secret) ==
    /\ secretOf' = [secretOf EXCEPT ![d] = secret]
    /\ Edit("DataSource", d)
    /\ UNCHANGED <<viewRef, views, version>>

RotateSecret(s) ==
    /\ version' = [version EXCEPT ![s] = @ + 1]
    /\ Edit("Secret", s)
    /\ UNCHANGED <<viewRef, views, secretOf>>

-----------------------------------------------------------------------------
\* The map functions.

\* For(invariant): the request is the object itself.
QueueInvariant(i) ==
    /\ [kind |-> "Invariant", name |-> i] \in events
    /\ events' = events \ {[kind |-> "Invariant", name |-> i]}
    /\ requests' = requests \union {i}
    /\ UNCHANGED <<world, handlers, worker, known, dropped>>

FirstStep(kind) == CASE kind = "DataSource"  -> "views"
                     [] kind = "DerivedView" -> "invariants"
                     [] kind = "Secret"      -> "sources"

TakeEvent(kind) ==
    /\ handlers[kind].step = "idle"
    /\ \E e \in events :
          /\ e.kind = kind
          /\ events' = events \ {e}
          /\ handlers' = [handlers EXCEPT ![kind] =
                [step    |-> FirstStep(kind), name |-> e.name,
                 sources |-> IF kind = "DataSource"  THEN {e.name} ELSE {},
                 views   |-> IF kind = "DerivedView" THEN {e.name} ELSE {}]]
    /\ UNCHANGED <<world, requests, worker, known, dropped>>

\* invariantsForSecret: the DataSources of the Secret.
ListDataSources ==
    /\ handlers["Secret"].step = "sources"
    /\ handlers' = [handlers EXCEPT
          !["Secret"].step = "views",
          !["Secret"].sources = {d \in DataSources : secretOf[d] = handlers["Secret"].name}]
    /\ UNCHANGED <<world, events, requests, worker, known, dropped>>

\* The DerivedViews with such a sourceRef, or with the Secret itself; the second
\* version has forgotten the pipeline.
BadMatching(h, secret) ==
    {v \in DerivedViews : views[v].source \in h.sources \/ (secret /\ views[v].target = h.name)}
Matching(h, secret) ==
    {v \in DerivedViews : \/ views[v].source \in h.sources
                          \/ secret /\ h.name \in {views[v].target, views[v].pipeline}}

\* invariantsForDataSource and invariantsForSecret; without a match they return.
ListDerivedViews(kind) ==
    /\ handlers[kind].step = "views"
    /\ LET found == Matching(handlers[kind], kind = "Secret") IN
       handlers' = [handlers EXCEPT ![kind] =
                      IF found = {} THEN NoEvent
                      ELSE [@ EXCEPT !.step = "invariants", !.views = found]]
    /\ UNCHANGED <<world, events, requests, worker, known, dropped>>

\* invariantRequestsForDerivedViewNames.
ListInvariants(kind) ==
    /\ handlers[kind].step = "invariants"
    /\ requests' = requests \union {i \in Invariants : viewRef[i] \in handlers[kind].views}
    /\ handlers' = [handlers EXCEPT ![kind] = NoEvent]
    /\ UNCHANGED <<world, events, worker, known, dropped>>

\* An error of the API server is logged, and nothing is queued.
ListFails(kind) ==
    /\ handlers[kind].step # "idle"
    /\ handlers' = [handlers EXCEPT ![kind] = NoEvent]
    /\ dropped' = TRUE
    /\ UNCHANGED <<world, events, requests, worker, known>>

-----------------------------------------------------------------------------
\* The reconcile.  A request that arrives while its Invariant is being worked on
\* is kept.

ReadInvariant(i) ==
    /\ worker.step = "idle" /\ i \in requests
    /\ requests' = requests \ {i}
    /\ worker' = [NoWork EXCEPT !.step = "view", !.invariant = i, !.ref = viewRef[i]]
    /\ UNCHANGED <<world, events, handlers, known, dropped>>

ReadDerivedView ==
    /\ worker.step = "view"
    /\ worker' = [worker EXCEPT !.step = "source", !.view = views[worker.ref]]
    /\ UNCHANGED <<world, events, handlers, requests, known, dropped>>

ReadDataSource ==
    /\ worker.step = "source"
    /\ known' = [known EXCEPT ![worker.invariant] =
                   Environment(worker.view, SecretIn(worker.view.source))]
    /\ worker' = NoWork
    /\ UNCHANGED <<world, events, handlers, requests, dropped>>

RestartOperator ==
    /\ events' = {}
    /\ handlers' = [kind \in Kinds |-> NoEvent]
    /\ requests' = Invariants
    /\ worker' = NoWork
    /\ dropped' = FALSE
    /\ UNCHANGED <<world, known>>

FanoutNext ==
    \/ \E i \in Invariants : \/ \E v \in DerivedViews : EditInvariant(i, v)
                             \/ QueueInvariant(i)
                             \/ ReadInvariant(i)
    \/ \E v \in DerivedViews, spec \in Specs : EditDerivedView(v, spec)
    \/ \E d \in DataSources, secret \in Secrets \union {None} : EditDataSource(d, secret)
    \/ \E s \in Secrets : RotateSecret(s)
    \/ ListDataSources
    \/ \E kind \in Kinds : \/ TakeEvent(kind)
                           \/ ListDerivedViews(kind)
                           \/ ListInvariants(kind)
                           \/ ListFails(kind)
    \/ ReadDerivedView
    \/ ReadDataSource
    \/ RestartOperator

FanoutSpec == FanoutInit /\ [][FanoutNext]_fanoutVars

-----------------------------------------------------------------------------
AllQuiet == /\ events = {}
            /\ \A kind \in Kinds : handlers[kind].step = "idle"
            /\ worker.step = "idle"

\* No change of the topology goes unseen: when everything that users have changed
\* is mapped and worked off, the last reconcile of every Invariant has met what a
\* Job would be given now, the contents of its Secrets included, however the Lists
\* and Gets have interleaved with the edits and with a restart.  A List that fails
\* while an event is mapped loses the event; this is the exception.
\* (invariant_controller.go: invariantsForDataSource, invariantsForDerivedView,
\* invariantsForSecret; job_handoff.go: resolveCheckerEnv)
TopologyIsKnown ==
    AllQuiet /\ ~dropped
        => \A i \in Invariants \ requests : known[i] = EnvironmentOf(i)
=============================================================================
