---------------------- MODULE ServiceLifecycleController --------------------
(***************************************************************************)
(* The controller of a (Cluster)ServiceLifecycle: CheckForInstances-        *)
(* BeforeFinalizing, the Composition and HttpTrigger children and the       *)
(* client component.  A request is one step: it writes its own status only  *)
(* if its object is still the one it read, and what can come between its    *)
(* other writes is a request that fails after some of them.                 *)
(***************************************************************************)
EXTENDS ServiceLifecycleStore

\* A stage halts the request with this status, and it is not repeated.
Halt(l) == lifecycle' = [l EXCEPT !.observed = TRUE]

\* ErrTransient: whether the status is written is up to SuppressTransientErrors.
HaltTransient(l) == lifecycle' \in {lifecycle, [l EXCEPT !.observed = TRUE]}

\* ErrGenerationMismatch: no status is written.
HaltUnwritten == UNCHANGED lifecycle

-----------------------------------------------------------------------------
(* The Composition, of the lifecycle component, the host and its helpers    *)

DesiredComposition ==
    IF cachedComposition.name = 0
    THEN [name |-> made + 1, version |-> lifecycle.version, state |-> "pending"]
    ELSE [cachedComposition EXCEPT
            !.version = lifecycle.version,
            !.state = IF cachedComposition.version = lifecycle.version THEN @ ELSE "pending"]

CompositionIsCurrent == DesiredComposition = cachedComposition

WriteComposition ==
    /\ composition' = DesiredComposition
    /\ made' = IF cachedComposition.name = 0 THEN made + 1 ELSE made

\* Made or changed, not to be changed as it is not what was read, not
\* reconciled yet, or not ready.
WaitForComposition(l) ==
    \/ /\ ~CompositionIsCurrent /\ composition = cachedComposition
       /\ WriteComposition
       /\ HaltUnwritten
    \/ /\ ~CompositionIsCurrent /\ composition # cachedComposition
       /\ HaltTransient([l EXCEPT !.composed = FALSE])
       /\ UNCHANGED <<composition, made>>
    \/ /\ CompositionIsCurrent /\ cachedComposition.state = "pending"
       /\ HaltUnwritten
       /\ UNCHANGED <<composition, made>>
    \/ /\ CompositionIsCurrent /\ cachedComposition.state = "notReady"
       /\ Halt([l EXCEPT !.composed = FALSE])
       /\ UNCHANGED <<composition, made>>

\* Wrong: a Composition that was not ready before is taken for ready.
CompositionExists == CompositionIsCurrent /\ cachedComposition.state # "pending"

CompositionReady == CompositionIsCurrent /\ cachedComposition.state = "ready"

-----------------------------------------------------------------------------
(* The HttpTrigger, which has a fixed name                                  *)

IsOurs(t) == t.owner = "own"

DesiredTrigger ==
    [owner |-> "own", composition |-> cachedComposition.name, version |-> lifecycle.version,
     state |-> IF /\ cachedHttpTrigger.composition = cachedComposition.name
                  /\ cachedHttpTrigger.version = lifecycle.version
               THEN cachedHttpTrigger.state ELSE "pending"]

TriggerIsCurrent == IsOurs(cachedHttpTrigger) /\ DesiredTrigger = cachedHttpTrigger

\* One that is ours is changed if it is what was read; another is made if the
\* name is free.
CanWriteTrigger ==
    IF IsOurs(cachedHttpTrigger)
    THEN httpTrigger = cachedHttpTrigger
    ELSE httpTrigger.owner = "none"

WriteTrigger == httpTrigger' = DesiredTrigger

\* The name may be taken: AlreadyExists.
WaitForTrigger(l) ==
    \/ /\ ~TriggerIsCurrent /\ CanWriteTrigger
       /\ WriteTrigger
       /\ HaltUnwritten
    \/ /\ ~TriggerIsCurrent /\ ~CanWriteTrigger
       /\ IF IsOurs(cachedHttpTrigger)
          THEN HaltTransient([l EXCEPT !.served = FALSE])
          ELSE Halt([l EXCEPT !.served = FALSE])
       /\ UNCHANGED httpTrigger
    \/ /\ TriggerIsCurrent /\ cachedHttpTrigger.state = "pending"
       /\ HaltUnwritten
       /\ UNCHANGED httpTrigger
    \/ /\ TriggerIsCurrent /\ cachedHttpTrigger.state = "notReady"
       /\ Halt([l EXCEPT !.served = FALSE])
       /\ UNCHANGED httpTrigger

TriggerIsReady == TriggerIsCurrent /\ cachedHttpTrigger.state = "ready"

-----------------------------------------------------------------------------
(* The client component                                                     *)

\* Wrong: a lifecycle that was answered once is left as it is.
ReflectClientOnce(l) ==
    IF client = "pending" \/ lifecycle.observed
    THEN HaltUnwritten
    ELSE Halt([l EXCEPT !.configured = client = "ready"])

ReflectClient(l) ==
    IF client = "pending"
    THEN HaltUnwritten
    ELSE Halt([l EXCEPT !.configured = client = "ready"])

-----------------------------------------------------------------------------
(* Requests *)

\* The runtime looks for a child in its cache: one that is not there yet must
\* not be made a second time.
ChildrenDelivered ==
    /\ composition.name # 0 => cachedComposition.name # 0
    /\ IsOurs(httpTrigger) => cachedHttpTrigger.owner = "own"

WithFinalizer == [lifecycle EXCEPT !.finalizer = TRUE]

\* The finalizer is there before anything else; the status is that of the
\* object with it.
ReconcileLive ==
    /\ lifecycle.phase = "live"
    /\ ChildrenDelivered
    /\ IF ~lifecycle.finalizer
       THEN /\ lifecycle' = WithFinalizer
            /\ UNCHANGED <<children, tracked, queued>>
       ELSE /\ queued' = FALSE
            /\ \/ /\ WaitForComposition(lifecycle)
                  /\ UNCHANGED <<httpTrigger, tracked>>
               \/ /\ CompositionReady
                  /\ WaitForTrigger([lifecycle EXCEPT !.composed = TRUE])
                  /\ UNCHANGED <<composition, made, tracked>>
               \/ /\ CompositionReady /\ TriggerIsReady
                  /\ ReflectClient([lifecycle EXCEPT !.composed = TRUE, !.served = TRUE])
                  /\ tracked' = tracked \union {"client"}
                  /\ UNCHANGED children

\* The cleared finalizer lets the object go.  The children go before it does;
\* one that is not in the cache yet goes with its owner.
DeleteChildren ==
    /\ composition' = NoComposition
    /\ httpTrigger' = IF IsOurs(httpTrigger) THEN NoTrigger ELSE httpTrigger
    /\ UNCHANGED made

\* Wrong: the children are deleted before the instances are looked for.
FinalizeChildrenFirst ==
    /\ lifecycle.phase = "deleting"
    /\ DeleteChildren
    /\ IF cachedInstances = {}
       THEN lifecycle' = Absent(lifecycle.version)
       ELSE Halt([lifecycle EXCEPT !.blocked = TRUE])
    /\ queued' = FALSE
    /\ tracked' = tracked \union cachedInstances

\* Wrong: the condition says so, and the finalizer is cleared nevertheless.
FinalizeAtOnce ==
    /\ lifecycle.phase = "deleting"
    /\ IF cachedInstances = {}
       THEN DeleteChildren
       ELSE UNCHANGED children
    /\ lifecycle' = Absent(lifecycle.version)
    /\ queued' = FALSE
    /\ UNCHANGED tracked

\* Wrong: the instance that is in the way is not tracked.
FinalizeUntracked ==
    /\ lifecycle.phase = "deleting"
    /\ IF cachedInstances = {}
       THEN /\ DeleteChildren
            /\ lifecycle' = Absent(lifecycle.version)
       ELSE /\ Halt([lifecycle EXCEPT !.blocked = TRUE])
            /\ UNCHANGED children
    /\ queued' = FALSE
    /\ UNCHANGED tracked

\* CheckForInstancesBeforeFinalizing: the first instance of the list that
\* refers to the lifecycle is tracked, and stops the request; the other stages
\* are skipped.
FinalizeLifecycle ==
    /\ lifecycle.phase = "deleting"
    /\ \/ \E i \in cachedInstances :
             /\ tracked' = tracked \union {i}
             /\ Halt([lifecycle EXCEPT !.blocked = TRUE])
             /\ UNCHANGED children
       \/ /\ cachedInstances = {}
          /\ DeleteChildren
          /\ lifecycle' = Absent(lifecycle.version)
          /\ UNCHANGED tracked
    /\ queued' = FALSE

ReconcileLifecycle ==
    /\ queued
    /\ ReconcileLive \/ FinalizeLifecycle
    /\ unannounced' = FALSE
    /\ UNCHANGED <<surroundings, caches, changes, faults>>

\* A child is written, or the children are deleted, and the request fails
\* before its own object is: it is repeated.
FailsHalfWay ==
    /\ \/ /\ lifecycle.phase = "live" /\ lifecycle.finalizer /\ ChildrenDelivered
          /\ \/ /\ ~CompositionIsCurrent /\ composition = cachedComposition
                /\ WriteComposition
                /\ UNCHANGED httpTrigger
             \/ /\ CompositionReady /\ ~TriggerIsCurrent /\ CanWriteTrigger
                /\ WriteTrigger
                /\ UNCHANGED <<composition, made>>
       \/ /\ lifecycle.phase = "deleting" /\ cachedInstances = {}
          /\ DeleteChildren
    /\ UNCHANGED <<lifecycle, requests>>

\* A child cannot be written: ErrTransient, the request is not repeated.
ChildFails ==
    /\ lifecycle.phase = "live" /\ lifecycle.finalizer /\ ChildrenDelivered
    /\ \/ /\ ~CompositionIsCurrent
          /\ HaltTransient([lifecycle EXCEPT !.composed = FALSE])
       \/ /\ CompositionReady /\ ~TriggerIsCurrent
          /\ HaltTransient([lifecycle EXCEPT !.composed = TRUE, !.served = FALSE])
    /\ queued' = FALSE
    /\ unannounced' = TRUE
    /\ UNCHANGED <<children, tracked>>

RequestFails ==
    /\ queued
    /\ faults < MaxFaults
    /\ faults' = faults + 1
    /\ FailsHalfWay \/ ChildFails
    /\ UNCHANGED <<surroundings, caches, changes>>

ControllerNext == ReconcileLifecycle \/ RequestFails
=============================================================================
