---------------------- MODULE ServiceClientController ----------------------
(***************************************************************************)
(* The ServiceClient reconciler: one client, and the ServiceBindings it    *)
(* stamps out one after the other so that it always has valid credentials. *)
(* Time is discrete.  Reconciling takes none of it: time only passes when  *)
(* no request, cache update or due timer is left.  A binding takes up to   *)
(* BindTime to become Ready.                                               *)
(***************************************************************************)
EXTENDS Naturals

CONSTANTS
    Targets,       \* the refs and scopes a client may ask for
    Durations,     \* the values of .spec.duration
    RenewBefore,   \* .spec.renewBefore
    Grace,         \* how long a binding may outlive the client's duration
    BindTime,      \* time it takes a ServiceBinding to become Ready
    MaxBindings,   \* bound on the ServiceBindings created
    MaxTime,       \* bound on time
    MaxChanges,    \* bound on changes of the client's spec
    MaxCrashes,    \* bound on restarts of the process
    MaxFailures    \* bound on failed API calls

ASSUME TimeAssumption ==
    /\ Durations \subseteq Nat
    /\ {RenewBefore, Grace, BindTime, MaxTime} \subseteq Nat
ASSUME BoundAssumption == {MaxBindings, MaxChanges, MaxCrashes, MaxFailures} \subseteq Nat

VARIABLES
    now,
    client,        \* the ServiceClient in the API server
    cachedClient,  \* the informer's view of it
    bindings,      \* the client's ServiceBindings in the API server
    cachedBindings,
    worker,        \* the reconcile request in flight
    queued,        \* is the client in the work queue?
    timer,         \* when the earliest RequeueAfter puts it there
    changes, crashes, failures

bounds == <<changes, crashes, failures>>
vars == <<now, client, cachedClient, bindings, cachedBindings, worker, queued,
          timer, bounds>>

-----------------------------------------------------------------------------
(* Data *)

None == 0
Ids == 1..MaxBindings
Never == MaxTime + 1

\* binding: the one whose ids and image are in the status.
ClientObject == [target: Targets, duration: Durations, binding: Ids \union {None}]

\* state: not observed by its reconciler yet, observed, Ready
BindingObject == [phase: {"absent", "live", "deleting", "gone"}, target: Targets,
                  duration: Durations, created: 0..MaxTime,
                  state: {"new", "notReady", "ready"}, expired: BOOLEAN]

Idle == [pc |-> "idle"]
Request == [pc: {"status"}, read: ClientObject, want: ClientObject, requeueAt: Nat]

\* .metadata.creationTimestamp + .spec.duration
ExpiresAfter(b) == b.created + b.duration

\* Neither expired nor older than the client's duration allows.
Kept(c, known) ==
    {n \in Ids : /\ known[n].phase \in {"live", "deleting"}
                 /\ ~known[n].expired
                 /\ known[n].created + c.duration + Grace >= now}

\* Wrong: the order of creation is not looked at.
AnyOf(known, S) == S

\* Bindings created in the same instant are listed in any order.
Newest(known, S) == {n \in S : \A m \in S : known[m].created <= known[n].created}

\* Wrong: any binding not due for renewal will do.
InSyncAnySpec(c, b) == b.created + c.duration > now + RenewBefore

\* The binding is what the spec asks for, and not due for renewal.
InSync(c, b) ==
    /\ b.target = c.target
    /\ b.duration = c.duration
    /\ b.created + c.duration > now + RenewBefore

\* Wrong: the client is only queued again when its binding expires.
RenewalAtExpiry(c, b) == b.created + c.duration

Renewal(c, b) ==
    IF b.created + c.duration > RenewBefore THEN b.created + c.duration - RenewBefore ELSE 0

\* Wrong: a timer replaces the one before.
Latest(t, u) == u

Earliest(t, u) == IF t < u THEN t ELSE u

TypeOK ==
    /\ now \in 0..MaxTime
    /\ {client, cachedClient} \subseteq ClientObject
    /\ bindings \in [Ids -> BindingObject]
    /\ cachedBindings \in [Ids -> BindingObject]
    /\ worker \in {Idle} \union Request
    /\ queued \in BOOLEAN
    /\ timer \in 0..Never
    /\ changes \in 0..MaxChanges /\ crashes \in 0..MaxCrashes
    /\ failures \in 0..MaxFailures

Init ==
    /\ now = 0
    /\ \E t \in Targets, d \in Durations :
          /\ client = [target |-> t, duration |-> d, binding |-> None]
          /\ bindings = [n \in Ids |->
                [phase |-> "absent", target |-> t, duration |-> d, created |-> 0,
                 state |-> "new", expired |-> FALSE]]
    /\ cachedClient = client
    /\ cachedBindings = bindings
    /\ worker = Idle
    /\ queued = TRUE
    /\ timer = Never
    /\ changes = 0 /\ crashes = 0 /\ failures = 0

-----------------------------------------------------------------------------
(* The reconciler *)

\* The next binding to create: ids are handed out in order.
Fresh == {n \in Ids : bindings[n].phase = "absent" /\
                      \A m \in Ids : bindings[m].phase = "absent" => n <= m}

Create(c) ==
    [phase |-> "live", target |-> c.target, duration |-> c.duration,
     created |-> now, state |-> "new", expired |-> FALSE]

\* A finalizer keeps a binding there until it is unbound.
Deleted(b) == IF b.phase = "live" THEN [b EXCEPT !.phase = "deleting"] ELSE b

\* One request's writes: bindings in S are deleted, those in F created.
Stamp(S, F, c) ==
    bindings' = [n \in Ids |-> IF n \in F THEN Create(c)
                               ELSE IF n \in S THEN Deleted(bindings[n]) ELSE bindings[n]]

\* What is in the status of the binding goes into the client's only once it is
\* Ready; until then no renewal is scheduled either.
Reflect(c, n, b) ==
    IF b.state = "ready"
    THEN [pc |-> "status", read |-> c, want |-> [c EXCEPT !.binding = n],
          requeueAt |-> Renewal(c, b)]
    ELSE Idle

\* What is not kept is pruned.
Pruned(c, known) == {n \in Ids : known[n].phase \in {"live", "deleting"}} \ Kept(c, known)

\* The newest binding, when it is what the spec asks for.
Current(c, known) == {n \in Newest(known, Kept(c, known)) : InSync(c, known[n])}
Outdated(c, known) == Newest(known, Kept(c, known)) \ Current(c, known)

\* Prune, and create a binding unless the newest is in sync.  One created in
\* the same instant as others is the newest in some order only.
ReconcileClient ==
    /\ worker = Idle
    /\ queued
    /\ queued' = FALSE
    /\ LET c == cachedClient
           known == cachedBindings
       IN \/ /\ Stamp(Pruned(c, known), {}, c)
             /\ \E n \in Current(c, known) : worker' = Reflect(c, n, known[n])
          \/ /\ Kept(c, known) = {} \/ Outdated(c, known) # {}
             /\ \E f \in Fresh :
                   /\ Stamp(Pruned(c, known), {f}, c)
                   /\ \E n \in Newest(bindings', Kept(c, known) \union {f}) :
                         worker' = Reflect(c, n, IF n = f THEN bindings'[f] ELSE known[n])
    /\ UNCHANGED <<now, client, cachedClient, cachedBindings, timer, bounds>>

\* Some of the writes fail: the error is recorded, and the request ends
\* without being queued again.
StampFails ==
    /\ failures < MaxFailures
    /\ failures' = failures + 1
    /\ worker = Idle
    /\ queued
    /\ queued' = FALSE
    /\ Current(cachedClient, cachedBindings) = {} \/ Pruned(cachedClient, cachedBindings) # {}
    /\ \E S \in SUBSET Pruned(cachedClient, cachedBindings) : Stamp(S, {}, cachedClient)
    /\ UNCHANGED <<now, client, cachedClient, cachedBindings, worker, timer, changes, crashes>>

\* A conflict puts the client back in the queue; so does a renewal overdue.
UpdateClientStatus ==
    /\ worker.pc = "status"
    /\ worker' = Idle
    /\ \/ /\ client # worker.read
          /\ queued' = TRUE
          /\ UNCHANGED <<client, timer>>
       \/ /\ client = worker.read
          /\ client' = worker.want
          /\ \/ /\ worker.requeueAt > now
                /\ timer' = Earliest(timer, worker.requeueAt)
                /\ UNCHANGED queued
             \/ /\ worker.requeueAt <= now
                /\ queued' = TRUE
                /\ UNCHANGED timer
    /\ UNCHANGED <<now, cachedClient, bindings, cachedBindings, bounds>>

TimerFires ==
    /\ timer <= now
    /\ timer' = Never
    /\ queued' = TRUE
    /\ UNCHANGED <<now, client, cachedClient, bindings, cachedBindings, worker, bounds>>

ClientControllerNext == ReconcileClient \/ StampFails \/ UpdateClientStatus \/ TimerFires

-----------------------------------------------------------------------------
(* Users, ServiceBinding reconciler, informers, time *)

\* The webhook lets every part of a client's spec change.
ChangeSpec(t, d) ==
    /\ changes < MaxChanges
    /\ changes' = changes + 1
    /\ <<t, d>> # <<client.target, client.duration>>
    /\ client' = [client EXCEPT !.target = t, !.duration = d]
    /\ UNCHANGED <<now, cachedClient, bindings, cachedBindings, worker, queued, timer,
                   crashes, failures>>

BindingReconciled(n) ==
    /\ bindings[n].phase = "live"
    /\ bindings[n].state # "ready"
    /\ \E s \in {"notReady", "ready"} \ {bindings[n].state} :
          bindings' = [bindings EXCEPT ![n].state = s]
    /\ UNCHANGED <<now, client, cachedClient, cachedBindings, worker, queued, timer, bounds>>

BindingExpires(n) ==
    /\ bindings[n].phase = "live"
    /\ bindings[n].state # "new"
    /\ ~bindings[n].expired
    /\ ExpiresAfter(bindings[n]) < now
    /\ bindings' = [bindings EXCEPT ![n].expired = TRUE, ![n].state = "notReady"]
    /\ UNCHANGED <<now, client, cachedClient, cachedBindings, worker, queued, timer, bounds>>

BindingFinalized(n) ==
    /\ bindings[n].phase = "deleting"
    /\ bindings' = [bindings EXCEPT ![n].phase = "gone"]
    /\ UNCHANGED <<now, client, cachedClient, cachedBindings, worker, queued, timer, bounds>>

SyncClient ==
    /\ cachedClient # client
    /\ cachedClient' = client
    /\ queued' = TRUE
    /\ UNCHANGED <<now, client, bindings, cachedBindings, worker, timer, bounds>>

\* Each binding's pending changes are delivered by themselves, and each delivery
\* queues the client: what becomes of the older bindings may have it reconciled
\* before it sees the binding it made last.  Any order is more than the watch's.
SyncBinding(n) ==
    /\ cachedBindings[n] # bindings[n]
    /\ cachedBindings' = [cachedBindings EXCEPT ![n] = bindings[n]]
    /\ queued' = TRUE
    /\ UNCHANGED <<now, client, cachedClient, bindings, worker, timer, bounds>>

\* A new process lists every object and queues it; the timers are lost.
Crash ==
    /\ crashes < MaxCrashes
    /\ crashes' = crashes + 1
    /\ worker' = Idle
    /\ cachedClient' = client
    /\ cachedBindings' = bindings
    /\ queued' = TRUE
    /\ timer' = Never
    /\ UNCHANGED <<now, client, bindings, changes, failures>>

\* No work is left until something changes or time passes.
Quiet ==
    /\ worker = Idle
    /\ ~queued
    /\ timer > now
    /\ cachedClient = client
    /\ cachedBindings = bindings

\* Every object is queued again, at intervals much longer than a backlog.
Resync ==
    /\ Quiet
    /\ queued' = TRUE
    /\ UNCHANGED <<now, client, cachedClient, bindings, cachedBindings, worker, timer, bounds>>

\* Time passes once the controller is quiet, and no later than a binding is
\* due to be Ready.
Tick ==
    /\ now < MaxTime
    /\ Quiet
    /\ \A n \in Ids : bindings[n].phase = "live" /\ bindings[n].state # "ready" /\
                      ~bindings[n].expired => now < bindings[n].created + BindTime
    /\ now' = now + 1
    /\ UNCHANGED <<client, cachedClient, bindings, cachedBindings, worker, queued, timer, bounds>>

ClientEnvironmentNext ==
    \/ \E t \in Targets, d \in Durations : ChangeSpec(t, d)
    \/ \E n \in Ids : \/ BindingReconciled(n) \/ BindingExpires(n) \/ BindingFinalized(n)
                     \/ SyncBinding(n)
    \/ SyncClient
    \/ Resync
    \/ Crash
    \/ Tick

Next == ClientControllerNext \/ ClientEnvironmentNext

Spec == Init /\ [][Next]_vars
=============================================================================
