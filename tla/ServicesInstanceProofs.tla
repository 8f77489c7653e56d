----------------------- MODULE ServicesInstanceProofs -----------------------
(***************************************************************************)
(* Type correctness of the services integration, and the instances' part   *)
(* of History is inductive, for any number of instances, bindings and      *)
(* faults.                                                                 *)
(***************************************************************************)
EXTENDS ServicesInvariant, TLAPS

-----------------------------------------------------------------------------
(* Type correctness *)

LEMMA InitTypeOK == Init => TypeOK
  BY FaultAssumption DEF Init, StoreInit, TypeOK, LifecycleStates, InstanceObject,
     BindingObject, SecretObject, NoInstance, NoBinding, NoSecret, ClientStates, Phases

\* A request that goes on, or to its status write, stays a request.
LEMMA InstanceRequestType ==
  ASSUME NEW r \in InstanceRequest
  PROVE  /\ \A pc \in {"provision", "destroy", "status", "clear"} :
               InstanceGoto(r, pc) \in InstanceRequest
         /\ \A want \in InstanceObject :
               InstanceWrites(r, want) \in {Idle} \union InstanceRequest
         /\ InstanceBlocked(r) \in {Idle} \union InstanceRequest
  BY DEF InstanceGoto, InstanceWrites, InstanceBlocked, InstanceRequest, InstanceObject

\* An instance request stays one wherever its sub-reconcilers send it.
LEMMA ResolveServiceLifecycleType ==
  ASSUME TypeOK, NEW r \in InstanceRequest, Exists(r.read)
  PROVE  ResolveServiceLifecycle(r) \in {Idle} \union InstanceRequest
<1>1. /\ [r.read EXCEPT !.ready = TRUE, !.observed = TRUE] \in InstanceObject
      /\ [r.read EXCEPT !.ready = FALSE, !.observed = TRUE] \in InstanceObject
  BY DEF InstanceRequest, InstanceObject
<1>2. ManageServiceInstance(r) \in {Idle} \union InstanceRequest
  BY <1>1, InstanceRequestType DEF ManageServiceInstance
<1>3. FinalizeServiceInstance(r) \in {Idle} \union InstanceRequest
  <2>1. CASE ~r.read.id
    BY <2>1, InstanceRequestType DEF FinalizeServiceInstance
  <2>2. CASE r.read.id
    BY <2>2, InstanceRequestType DEF FinalizeServiceInstance
  <2> QED
    BY <2>1, <2>2
<1>4. InstanceWrites(r, [r.read EXCEPT !.ready = FALSE, !.observed = TRUE])
        \in {Idle} \union InstanceRequest
  BY <1>1, InstanceRequestType
<1> QED
  BY <1>2, <1>3, <1>4 DEF ResolveServiceLifecycle, TypeOK, LifecycleStates, Exists,
     Live, Deleting

\* The parts of the state the instance reconciler writes keep their types.
LEMMA InstanceTypeOK ==
  ASSUME TypeOK, InstanceNext
  PROVE  TypeOK'
<1> USE DEF instanceUnchanged, caches
<1>1. ASSUME NEW i \in ServiceInstances, ReconcileInstance(i)
      PROVE  TypeOK'
  <2> DEFINE read == IF Live(cachedInstance[i])
                     THEN [cachedInstance[i] EXCEPT !.finalizer = TRUE]
                     ELSE cachedInstance[i]
             request == [pc |-> "status", uid |-> i, read |-> read, want |-> read]
  <2>1. read \in InstanceObject /\ Exists(read)
    <3>1. cachedInstance[i] \in InstanceObject /\ Exists(cachedInstance[i])
      BY <1>1 DEF ReconcileInstance, TypeOK
    <3>2. [cachedInstance[i] EXCEPT !.finalizer = TRUE] \in InstanceObject
      BY <3>1 DEF InstanceObject
    <3>3. [cachedInstance[i] EXCEPT !.finalizer = TRUE].phase = cachedInstance[i].phase
      BY <3>1 DEF InstanceObject
    <3> QED
      BY <3>1, <3>2, <3>3 DEF Exists
  <2>2. request \in InstanceRequest
    BY <2>1 DEF InstanceRequest
  <2>3. instanceWorker' = ResolveServiceLifecycle(request)
    BY <1>1 DEF ReconcileInstance
  <2>4. instanceWorker' \in {Idle} \union InstanceRequest
    BY <2>1, <2>2, <2>3, ResolveServiceLifecycleType
  <2>5. instance' \in [ServiceInstances -> InstanceObject]
    BY <1>1, <2>1 DEF ReconcileInstance, TypeOK
  <2> QED
    BY <1>1, <2>4, <2>5 DEF ReconcileInstance, TypeOK
<1>2. CASE ProvisionAccepted
  <2>1. instanceWorker \in InstanceRequest
    BY <1>2 DEF ProvisionAccepted, TypeOK, Idle
  <2>2. [instanceWorker.read EXCEPT !.id = TRUE, !.ready = TRUE, !.observed = TRUE]
           \in InstanceObject
    BY <2>1 DEF InstanceRequest, InstanceObject
  <2>3. instanceWorker' \in {Idle} \union InstanceRequest
    BY <1>2, <2>1, <2>2, InstanceRequestType DEF ProvisionAccepted
  <2> QED
    BY <1>2, <2>1, <2>3 DEF ProvisionAccepted, TypeOK, InstanceRequest
<1>3. CASE ProvisionFailed
  BY <1>3 DEF ProvisionFailed, TypeOK, Idle, InstanceRequest
<1>4. CASE DestroyAccepted
  <2>1. instanceWorker \in InstanceRequest
    BY <1>4 DEF DestroyAccepted, TypeOK, Idle
  <2>2. instanceWorker' \in InstanceRequest
    BY <1>4, <2>1, InstanceRequestType DEF DestroyAccepted
  <2> QED
    BY <1>4, <2>1, <2>2 DEF DestroyAccepted, TypeOK, InstanceRequest
<1>5. CASE DestroyFailed
  <2>1. instanceWorker \in InstanceRequest
    BY <1>5 DEF DestroyFailed, TypeOK, Idle
  <2>2. instanceWorker' \in {Idle} \union InstanceRequest
    BY <1>5, <2>1, InstanceRequestType DEF DestroyFailed
  <2> QED
    BY <1>5, <2>1, <2>2 DEF DestroyFailed, TypeOK, InstanceRequest
<1>6. CASE UpdateInstanceStatus
  <2>1. instanceWorker \in InstanceRequest
    BY <1>6 DEF UpdateInstanceStatus, TypeOK, Idle
  <2> QED
    BY <1>6, <2>1 DEF UpdateInstanceStatus, TypeOK, InstanceRequest
<1>7. CASE ClearInstanceFinalizer
  <2>1. \A o \in InstanceObject : FinalizerCleared(o) \in InstanceObject
    BY DEF FinalizerCleared, InstanceObject, Phases
  <2> QED
    BY <1>7, <2>1 DEF ClearInstanceFinalizer, TypeOK
<1> QED
  BY <1>1, <1>2, <1>3, <1>4, <1>5, <1>6, <1>7 DEF InstanceNext

LEMMA BindingRequestType ==
  ASSUME NEW r \in BindingRequest
  PROVE  /\ \A pc \in {"bind", "expire", "unbind", "client", "status", "clear"} :
               BindingGoto(r, pc) \in BindingRequest
         /\ \A want \in BindingObject :
               BindingWrites(r, want) \in {Idle} \union BindingRequest
  BY DEF BindingGoto, BindingWrites, BindingRequest, BindingObject

\* A binding request stays one wherever its sub-reconcilers send it.
LEMMA ResolveServiceInstanceIdType ==
  ASSUME TypeOK, NEW r \in BindingRequest, Exists(r.read)
  PROVE  ResolveServiceInstanceId(r) \in {Idle} \union BindingRequest
<1>1. ManageServiceBinding(r) \in BindingRequest
  <2>1. \/ ~r.read.id
        \/ r.read.id /\ ~r.read.expired /\ elapsed[r.uid]
        \/ r.read.id /\ (r.read.expired \/ ~elapsed[r.uid])
    OBVIOUS
  <2> QED
    BY <2>1, BindingRequestType DEF ManageServiceBinding
<1>2. FinalizeServiceBinding(r) \in BindingRequest
  <2>1. [r EXCEPT !.pc = "unbind", !.to = r.uid] \in BindingRequest
    BY DEF BindingRequest
  <2> QED
    BY <2>1, BindingRequestType DEF FinalizeServiceBinding
<1>3. BindingWrites(r, [r.read EXCEPT !.ready = FALSE]) \in {Idle} \union BindingRequest
  <2>1. [r.read EXCEPT !.ready = FALSE] \in BindingObject
    BY DEF BindingRequest, BindingObject
  <2> QED
    BY <2>1, BindingRequestType
<1> QED
  BY <1>1, <1>2, <1>3 DEF ResolveServiceInstanceId, Exists, Live, Deleting

\* What the credential endpoints and a delete request do to a Secret.
LEMMA SecretType ==
  ASSUME TypeOK, NEW b \in ServiceBindings
  PROVE  /\ DeleteRequested(secret[b]) \in SecretObject
         /\ FinalizerCleared(secret[b]) \in SecretObject
         /\ publishCredentials(b) => secret' \in [ServiceBindings -> SecretObject]
         /\ destroyCredentials(b) => secret' \in [ServiceBindings -> SecretObject]
<1>1. secret[b] \in SecretObject
  BY DEF TypeOK
<1>2. DeleteRequested(secret[b]) \in SecretObject
  BY <1>1 DEF DeleteRequested, SecretObject, Phases
<1>3. FinalizerCleared(secret[b]) \in SecretObject
  BY <1>1 DEF FinalizerCleared, SecretObject, Phases
<1>4. publishCredentials(b) => secret' \in [ServiceBindings -> SecretObject]
  <2>1. [secret[b] EXCEPT !.data = TRUE] \in SecretObject
    BY <1>1 DEF SecretObject
  <2> QED
    BY <2>1 DEF publishCredentials, TypeOK
<1>5. destroyCredentials(b) => secret' \in [ServiceBindings -> SecretObject]
  BY <1>3 DEF destroyCredentials, TypeOK
<1> QED
  BY <1>2, <1>3, <1>4, <1>5

\* The parts of the state the binding reconciler writes keep their types.
LEMMA BindingTypeOK ==
  ASSUME TypeOK, BindingNext
  PROVE  TypeOK'
<1> USE DEF bindingUnchanged, caches
<1>0. bindingWorker # Idle => bindingWorker \in BindingRequest
  BY DEF TypeOK
<1>1. ASSUME NEW b \in ServiceBindings, ReconcileBinding(b)
      PROVE  TypeOK'
  <2> DEFINE read == IF Live(cachedBinding[b])
                     THEN [cachedBinding[b] EXCEPT !.finalizer = TRUE]
                     ELSE cachedBinding[b]
             request == [pc |-> "status", uid |-> b, read |-> read, want |-> read,
                         to |-> InstanceRef[b]]
  <2>1. read \in BindingObject /\ Exists(read)
    <3>1. cachedBinding[b] \in BindingObject /\ Exists(cachedBinding[b])
      BY <1>1 DEF ReconcileBinding, TypeOK
    <3>2. [cachedBinding[b] EXCEPT !.finalizer = TRUE] \in BindingObject
      BY <3>1 DEF BindingObject
    <3>3. [cachedBinding[b] EXCEPT !.finalizer = TRUE].phase = cachedBinding[b].phase
      BY <3>1 DEF BindingObject
    <3> QED
      BY <3>1, <3>2, <3>3 DEF Exists
  <2>2. request \in BindingRequest
    BY <2>1, RefAssumption DEF BindingRequest
  <2>3. bindingWorker' = ResolveServiceInstanceId(request)
    BY <1>1 DEF ReconcileBinding
  <2>4. bindingWorker' \in {Idle} \union BindingRequest
    BY <2>1, <2>2, <2>3, ResolveServiceInstanceIdType
  <2>5. binding' \in [ServiceBindings -> BindingObject]
    BY <1>1, <2>1 DEF ReconcileBinding, TypeOK
  <2>6. ServiceBindingSecret(request) \in SecretObject
    BY <2>1, SecretType DEF ServiceBindingSecret, TypeOK, SecretObject, Phases, Exists,
       Live, Deleting
  <2>7. secret' \in [ServiceBindings -> SecretObject]
    BY <1>1, <2>6 DEF ReconcileBinding, TypeOK
  <2> QED
    BY <1>1, <2>4, <2>5, <2>7 DEF ReconcileBinding, TypeOK
<1>2. CASE BindAccepted
  <2>1. bindingWorker \in BindingRequest
    BY <1>0, <1>2 DEF BindAccepted, Idle
  <2>2. [bindingWorker.read EXCEPT !.id = TRUE] \in BindingObject
    BY <2>1 DEF BindingRequest, BindingObject
  <2>3. bindingWorker' \in {Idle} \union BindingRequest
    BY <1>2, <2>1, <2>2, BindingRequestType DEF BindAccepted
  <2>4. secret' \in [ServiceBindings -> SecretObject]
    BY <1>2, <2>1, SecretType DEF BindAccepted, BindingRequest
  <2> QED
    BY <1>2, <2>1, <2>3, <2>4 DEF BindAccepted, ServiceBinds, TypeOK, BindingRequest
<1>3. CASE BindFailed
  <2>1. bindingWorker \in BindingRequest
    BY <1>0, <1>3 DEF BindFailed, Idle
  <2>2. secret' \in [ServiceBindings -> SecretObject]
    BY <1>3, <2>1, SecretType DEF BindFailed, BindingRequest, TypeOK
  <2> QED
    BY <1>3, <2>1, <2>2 DEF BindFailed, ServiceBinds, TypeOK, BindingRequest
<1>4. CASE UnbindAccepted
  <2>1. bindingWorker \in BindingRequest
    BY <1>0, <1>4 DEF UnbindAccepted, Idle
  <2>2. secret' \in [ServiceBindings -> SecretObject]
    BY <1>4, <2>1, SecretType DEF UnbindAccepted, BindingRequest
  <2>3. bindingWorker' \in BindingRequest
    <3>1. [bindingWorker.want EXCEPT !.expired = TRUE] \in BindingObject
      BY <2>1 DEF BindingRequest, BindingObject
    <3>2. [bindingWorker EXCEPT !.pc = "client", !.want.expired = TRUE] \in BindingRequest
      BY <2>1, <3>1 DEF BindingRequest
    <3> QED
      BY <1>4, <2>1, <3>2, BindingRequestType DEF UnbindAccepted
  <2> QED
    BY <1>4, <2>1, <2>2, <2>3 DEF UnbindAccepted, TypeOK, BindingRequest
<1>5. CASE UnbindFailed
  <2>1. bindingWorker \in BindingRequest
    BY <1>0, <1>5 DEF UnbindFailed, Idle
  <2>2. secret' \in [ServiceBindings -> SecretObject]
    BY <1>5, <2>1, SecretType DEF UnbindFailed, BindingRequest, TypeOK
  <2>3. [bindingWorker.read EXCEPT !.ready = TRUE] \in BindingObject
    BY <2>1 DEF BindingRequest, BindingObject
  <2>4. bindingWorker' \in {Idle} \union BindingRequest
    BY <1>5, <2>1, <2>3, BindingRequestType DEF UnbindFailed
  <2> QED
    BY <1>5, <2>1, <2>2, <2>4 DEF UnbindFailed, TypeOK, BindingRequest
<1>6. CASE ConfigureClientComponent
  <2>1. bindingWorker \in BindingRequest
    BY <1>0, <1>6 DEF ConfigureClientComponent, Idle
  <2>2. \A ready \in BOOLEAN :
           [bindingWorker.want EXCEPT !.ready = ready] \in BindingObject
    BY <2>1 DEF BindingRequest, BindingObject
  <2>3. bindingWorker.want.expired \in BOOLEAN
    BY <2>1 DEF BindingRequest, BindingObject
  <2>4. bindingWorker' \in {Idle} \union BindingRequest
    BY <1>6, <2>1, <2>2, <2>3, BindingRequestType DEF ConfigureClientComponent
  <2>5. client' \in [ServiceBindings -> ClientStates]
    BY <1>6, <2>1 DEF ConfigureClientComponent, TypeOK, ClientStates
  <2> QED
    BY <1>6, <2>4, <2>5 DEF ConfigureClientComponent, TypeOK
<1>7. CASE UpdateBindingStatus
  <2>1. bindingWorker \in BindingRequest
    BY <1>0, <1>7 DEF UpdateBindingStatus, Idle
  <2> QED
    BY <1>7, <2>1 DEF UpdateBindingStatus, TypeOK, BindingRequest
<1>8. CASE ClearBindingFinalizer
  <2>1. \A o \in BindingObject : FinalizerCleared(o) \in BindingObject
    BY DEF FinalizerCleared, BindingObject, Phases
  <2>2. client' \in [ServiceBindings -> ClientStates]
    BY <1>8 DEF ClearBindingFinalizer, TypeOK, ClientStates
  <2> QED
    BY <1>8, <2>1, <2>2 DEF ClearBindingFinalizer, TypeOK
<1> QED
  BY <1>1, <1>2, <1>3, <1>4, <1>5, <1>6, <1>7, <1>8 DEF BindingNext

\* Users, informers, time, faults and the other controllers.
LEMMA UserTypeOK ==
  ASSUME TypeOK, UserNext
  PROVE  TypeOK'
<1> USE DEF caches, remote, controllers
<1>1. ASSUME NEW i \in ServiceInstances, CreateInstance(i) \/ DeleteInstance(i)
      PROVE  TypeOK'
  <2>1. /\ [instance[i] EXCEPT !.phase = "live"] \in InstanceObject
        /\ DeleteRequested(instance[i]) \in InstanceObject
    BY DEF TypeOK, InstanceObject, Phases, DeleteRequested
  <2>2. [DeleteRequested(instance[i]) EXCEPT !.observed = FALSE] \in InstanceObject
    BY <2>1 DEF InstanceObject
  <2> QED
    BY <1>1, <2>1, <2>2 DEF CreateInstance, DeleteInstance, TypeOK
<1>2. ASSUME NEW b \in ServiceBindings, CreateBinding(b) \/ DeleteBinding(b)
      PROVE  TypeOK'
  <2>1. /\ [binding[b] EXCEPT !.phase = "live"] \in BindingObject
        /\ DeleteRequested(binding[b]) \in BindingObject
    BY DEF TypeOK, BindingObject, Phases, DeleteRequested
  <2> QED
    BY <1>2, <2>1 DEF CreateBinding, DeleteBinding, TypeOK
<1> QED
  BY <1>1, <1>2 DEF UserNext

LEMMA EnvironmentTypeOK ==
  ASSUME TypeOK, EnvironmentNext
  PROVE  TypeOK'
<1> USE DEF objects, caches, remote, controllers
<1>1. ASSUME NEW to \in LifecycleStates, LifecycleChanges(to)
      PROVE  TypeOK'
  BY <1>1 DEF LifecycleChanges, TypeOK
<1>2. ASSUME NEW b \in ServiceBindings, NEW to \in ClientStates, ClientReconciles(b, to)
      PROVE  TypeOK'
  BY <1>2 DEF ClientReconciles, TypeOK
<1>3. ASSUME NEW b \in ServiceBindings, DurationElapses(b)
      PROVE  TypeOK'
  BY <1>3 DEF DurationElapses, TypeOK
<1>4. ASSUME NEW b \in ServiceBindings, SyncBinding(b)
      PROVE  TypeOK'
  BY <1>4 DEF SyncBinding, TypeOK
<1>5. ASSUME NEW i \in ServiceInstances, SyncInstance(i)
      PROVE  TypeOK'
  BY <1>5 DEF SyncInstance, TypeOK
<1>6. CASE Crash
  BY <1>6, FaultAssumption DEF Crash, TypeOK
<1>7. CASE RequestFails
  <2>1. bindingWorker.pc = "client" =>
           BindingWrites(bindingWorker, [bindingWorker.want EXCEPT !.ready = FALSE])
              \in {Idle} \union BindingRequest
    <3>1. SUFFICES ASSUME bindingWorker.pc = "client"
                   PROVE  BindingWrites(bindingWorker, [bindingWorker.want EXCEPT !.ready = FALSE])
                             \in {Idle} \union BindingRequest
      OBVIOUS
    <3>2. bindingWorker \in BindingRequest
      BY <3>1 DEF TypeOK, Idle
    <3>3. [bindingWorker.want EXCEPT !.ready = FALSE] \in BindingObject
      BY <3>2 DEF BindingRequest, BindingObject
    <3> QED
      BY <3>2, <3>3, BindingRequestType
  <2> QED
    BY <1>7, <2>1, FaultAssumption DEF RequestFails, TypeOK
<1> QED
  BY <1>1, <1>2, <1>3, <1>4, <1>5, <1>6, <1>7 DEF EnvironmentNext

LEMMA NextTypeOK == TypeOK /\ [Next]_vars => TypeOK'
<1> SUFFICES ASSUME TypeOK, [Next]_vars
             PROVE  TypeOK'
  OBVIOUS
<1>1. CASE UNCHANGED vars
  BY <1>1 DEF vars, objects, caches, remote, TypeOK
<1> QED
  BY <1>1, InstanceTypeOK, BindingTypeOK, UserTypeOK, EnvironmentTypeOK DEF Next

\* Every object, cache, record of the service and request in flight is of its
\* kind, for any set of instances and bindings and any bound on faults.
THEOREM TypeCorrect == Spec => []TypeOK
  BY InitTypeOK, NextTypeOK, PTL DEF Spec

-----------------------------------------------------------------------------
(* Instances *)

LEMMA InitInstances == Init => InstanceHistory /\ InstanceWorkerSound
  BY DEF Init, StoreInit, InstanceHistory, InstanceWorkerSound, InstanceSound,
     InstanceSince, NoInstance, Exists, Age

\* Where a fresh request is when its first step is done.
LEMMA ReconciledInstance ==
  ASSUME TypeOK, NEW r \in InstanceRequest, Exists(r.read), r.want = r.read
  PROVE  LET w == ResolveServiceLifecycle(r)
         IN \/ w = Idle
            \/ /\ w \in InstanceRequest /\ w.uid = r.uid /\ w.read = r.read
               /\ \/ w.pc = "provision" /\ w.want = r.read /\ Live(r.read) /\ ~r.read.id
                  \/ w.pc = "destroy" /\ w.want = r.read /\ Deleting(r.read) /\ r.read.id
                  \/ w.pc = "clear" /\ w.want = r.read /\ Deleting(r.read) /\ ~r.read.id
                  \/ /\ w.pc = "status"
                     /\ w.want.phase = r.read.phase
                     /\ w.want.finalizer = r.read.finalizer
                     /\ w.want.id = r.read.id
                     /\ w.want.ready => r.read.id
<1> DEFINE w == ResolveServiceLifecycle(r)
<1>1. w \in {Idle} \union InstanceRequest
  BY ResolveServiceLifecycleType
<1>2. CASE lifecycle = "ready" /\ Live(r.read)
  <2>1. w = ManageServiceInstance(r)
    BY <1>2 DEF ResolveServiceLifecycle, Live, Deleting
  <2> QED
    BY <1>1, <1>2, <2>1 DEF ManageServiceInstance, InstanceGoto, InstanceWrites,
       InstanceRequest, InstanceObject
<1>3. CASE lifecycle = "ready" /\ Deleting(r.read)
  <2>1. w = FinalizeServiceInstance(r)
    BY <1>3 DEF ResolveServiceLifecycle, Live, Deleting
  <2>2. CASE ~r.read.id
    BY <1>1, <1>3, <2>1, <2>2 DEF FinalizeServiceInstance, InstanceGoto, InstanceRequest
  <2>3. CASE r.read.id /\ DependentBindings(r.uid) # {}
    <3>1. w = InstanceBlocked(r)
      BY <2>1, <2>3 DEF FinalizeServiceInstance
    <3> DEFINE want == [r.read EXCEPT !.blocked = TRUE, !.ready = TRUE, !.observed = TRUE]
    <3>2. /\ want \in InstanceObject
          /\ want.phase = r.read.phase /\ want.finalizer = r.read.finalizer
          /\ want.id = r.read.id
      BY DEF InstanceRequest, InstanceObject
    <3>3. w = IF want = r.read THEN Idle ELSE [r EXCEPT !.pc = "status", !.want = want]
      BY <3>1 DEF InstanceBlocked, InstanceWrites
    <3> HIDE DEF want
    <3> QED
      BY <1>1, <2>3, <3>2, <3>3 DEF InstanceRequest
  <2>4. CASE r.read.id /\ DependentBindings(r.uid) = {}
    <3>1. w = InstanceGoto(r, "destroy")
      BY <2>1, <2>4 DEF FinalizeServiceInstance
    <3> QED
      BY <1>1, <1>3, <2>4, <3>1 DEF InstanceGoto, InstanceRequest
  <2> QED
    BY <2>2, <2>3, <2>4
<1>4. CASE lifecycle = "reconciling"
  BY <1>4 DEF ResolveServiceLifecycle
<1>5. CASE lifecycle \in {"absent", "notReady"}
  <2>1. w = InstanceWrites(r, [r.read EXCEPT !.ready = FALSE, !.observed = TRUE])
    BY <1>5 DEF ResolveServiceLifecycle
  <2> QED
    BY <1>1, <2>1 DEF InstanceWrites, InstanceRequest, InstanceObject
<1> QED
  BY <1>2, <1>3, <1>4, <1>5 DEF TypeOK, LifecycleStates, Exists, Live, Deleting

\* How old an object is, and that being a later value is a preorder.
LEMMA AgeValue ==
  ASSUME NEW o
  PROVE  /\ o.phase = "absent" => Age(o) = 0
         /\ o.phase = "live" => Age(o) = 1
         /\ o.phase = "deleting" => Age(o) = 2
         /\ o.phase = "gone" => Age(o) = 3
         /\ o.phase \in Phases => Age(o) \in 0..3
  BY DEF Age, Phases

LEMMA SinceOrder ==
  /\ \A o \in InstanceObject : InstanceSince(o, o)
  /\ \A o, p, q \in InstanceObject :
        InstanceSince(o, p) /\ InstanceSince(p, q) => InstanceSince(o, q)
  /\ \A o \in BindingObject : BindingSince(o, o)
  /\ \A o, p, q \in BindingObject :
        BindingSince(o, p) /\ BindingSince(p, q) => BindingSince(o, q)
<1>1. \A o \in InstanceObject \union BindingObject : Age(o) \in 0..3
  BY AgeValue DEF InstanceObject, BindingObject
<1> QED
  BY <1>1 DEF InstanceSince, BindingSince

LEMMA ReconcileInstanceStep ==
  ASSUME TypeOK, TypeOK', InstanceHistory, InstanceWorkerSound,
         NEW i \in ServiceInstances, ReconcileInstance(i)
  PROVE  InstanceHistory' /\ InstanceWorkerSound'
<1> DEFINE cached == cachedInstance[i]
           read == IF Live(cached) THEN [cached EXCEPT !.finalizer = TRUE] ELSE cached
           request == [pc |-> "status", uid |-> i, read |-> read, want |-> read]
<1>1. /\ cached \in InstanceObject /\ read \in InstanceObject /\ Exists(read)
      /\ read.phase = cached.phase /\ read.id = cached.id /\ read.ready = cached.ready
      /\ Live(read) => read.finalizer
      /\ ~Live(read) => read = cached
  <2>1. cached \in InstanceObject /\ Exists(cached)
    BY DEF ReconcileInstance, TypeOK
  <2>2. CASE Live(cached)
    <3>1. read = [cached EXCEPT !.finalizer = TRUE]
      BY <2>2
    <3> HIDE DEF read
    <3> QED
      BY <2>1, <2>2, <3>1 DEF InstanceObject, Exists, Live
  <2>3. CASE ~Live(cached)
    BY <2>1, <2>3
  <2> QED
    BY <2>2, <2>3
<1>2. request \in InstanceRequest
  BY <1>1 DEF InstanceRequest
<1>3. instanceWorker' = ResolveServiceLifecycle(request)
  BY DEF ReconcileInstance
<1>4. /\ instance' = [instance EXCEPT ![i] = IF read = cached THEN @ ELSE read]
      /\ read = cached \/ instance[i] = cached
      /\ UNCHANGED <<cachedInstance, provisioned>>
  BY DEF ReconcileInstance, instanceUnchanged, caches
<1>5. /\ InstanceSound(cached) /\ InstanceSound(instance[i])
      /\ InstanceSince(cached, instance[i])
      /\ cached.id => provisioned[i] # "unknown"
      /\ provisioned[i] = "destroyed" => cached.id
  BY DEF InstanceHistory, InstanceSince
<1>6. InstanceSound(read) /\ InstanceSince(cached, read) /\ InstanceSince(read, cached)
  <2>1. Age(read) = Age(cached)
    BY <1>1 DEF Age
  <2> QED
    BY <1>1, <1>5, <2>1, SinceOrder DEF InstanceSound, InstanceSince, Exists, Live
<1>7. InstanceHistory'
  <2>1. CASE read = cached
    BY <1>4, <2>1 DEF InstanceHistory, TypeOK
  <2>2. CASE read # cached
    <3>1. Live(read)
      BY <1>1, <2>2
    <3>2. instance'[i] = read /\ \A j \in ServiceInstances \ {i} : instance'[j] = instance[j]
      BY <1>4, <2>2 DEF TypeOK
    <3> QED
      BY <1>1, <1>4, <1>5, <1>6, <3>1, <3>2 DEF InstanceHistory, Live
  <2> QED
    BY <2>1, <2>2
<1>8. InstanceWorkerSound'
  <2> DEFINE w == ResolveServiceLifecycle(request)
  <2>1. request.uid = i /\ request.read = read /\ request.want = read
    OBVIOUS
  <2> HIDE DEF w, request, read
  <2>2. SUFFICES ASSUME w # Idle
                 PROVE  /\ InstanceSound(w.read) /\ InstanceSound(w.want)
                        /\ Exists(w.read) /\ (Live(w.read) => w.read.finalizer)
                        /\ InstanceSince(w.read, cachedInstance[w.uid])
                        /\ w.want.phase = w.read.phase /\ w.want.finalizer = w.read.finalizer
                        /\ w.read.id => w.want.id
                        /\ w.want.id => provisioned[w.uid] # "unknown"
                        /\ w.pc = "provision" => Live(w.read) /\ provisioned[w.uid] # "destroyed"
                        /\ w.pc = "destroy" => Deleting(w.read) /\ w.read.id
                        /\ w.pc = "clear" =>
                              Deleting(w.read) /\ (w.read.id => provisioned[w.uid] = "destroyed")
    BY <1>3, <1>4 DEF InstanceWorkerSound, w
  <2>3. /\ w.uid = i /\ w.read = read
        /\ \/ w.pc = "provision" /\ w.want = read /\ Live(read) /\ ~read.id
           \/ w.pc = "destroy" /\ w.want = read /\ Deleting(read) /\ read.id
           \/ w.pc = "clear" /\ w.want = read /\ Deleting(read) /\ ~read.id
           \/ /\ w.pc = "status" /\ w.want.phase = read.phase
              /\ w.want.finalizer = read.finalizer /\ w.want.id = read.id
              /\ w.want.ready => read.id
    BY <1>1, <1>2, <2>1, <2>2, ReconciledInstance DEF w
  <2>4. InstanceSound(w.want)
    BY <1>6, <2>3 DEF InstanceSound, Exists
  <2> QED
    BY <1>1, <1>5, <1>6, <2>3, <2>4
<1> QED
  BY <1>7, <1>8

\* The answers of the lifecycle service.
LEMMA ProvisionStep ==
  ASSUME TypeOK, TypeOK', InstanceHistory, InstanceWorkerSound,
         ProvisionAccepted \/ ProvisionFailed
  PROVE  InstanceHistory' /\ InstanceWorkerSound'
<1> DEFINE w == instanceWorker
<1>1. /\ w \in InstanceRequest /\ w # Idle /\ w.pc = "provision"
      /\ UNCHANGED <<instance, cachedInstance>>
  BY DEF ProvisionAccepted, ProvisionFailed, TypeOK, Idle, instanceUnchanged, caches
<1>2. /\ InstanceSound(w.read) /\ Live(w.read) /\ w.read.finalizer
      /\ InstanceSince(w.read, cachedInstance[w.uid])
      /\ provisioned[w.uid] # "destroyed"
  BY <1>1 DEF InstanceWorkerSound
<1>3. /\ provisioned' = provisioned
         \/ provisioned' = [provisioned EXCEPT ![w.uid] = "provisioned"]
      /\ ProvisionAccepted => provisioned'[w.uid] = "provisioned"
  BY <1>1 DEF ProvisionAccepted, ProvisionFailed, TypeOK, InstanceRequest
<1>4. \A i \in ServiceInstances :
         \/ provisioned'[i] = provisioned[i]
         \/ i = w.uid /\ provisioned'[i] = "provisioned"
  BY <1>3 DEF TypeOK
<1>5. InstanceHistory'
  BY <1>1, <1>2, <1>4 DEF InstanceHistory
<1>6. InstanceWorkerSound'
  <2>1. CASE ProvisionFailed
    BY <2>1 DEF ProvisionFailed, InstanceWorkerSound
  <2>2. CASE ProvisionAccepted
    <3> DEFINE want == [w.read EXCEPT !.id = TRUE, !.ready = TRUE, !.observed = TRUE]
    <3>1. /\ want.id /\ want.phase = w.read.phase /\ want.finalizer = w.read.finalizer
      BY <1>1 DEF InstanceRequest, InstanceObject
    <3>2. w' = IF want = w.read THEN Idle ELSE [w EXCEPT !.pc = "status", !.want = want]
      BY <2>2 DEF ProvisionAccepted, InstanceWrites
    <3>3. InstanceSound(want)
      BY <1>2, <3>1 DEF InstanceSound, Live, Exists
    <3> HIDE DEF want
    <3>4. w' # Idle => /\ w'.pc = "status" /\ w'.uid = w.uid /\ w'.read = w.read
                       /\ w'.want = want
      BY <1>1, <3>2 DEF InstanceRequest
    <3>5. provisioned'[w.uid] = "provisioned"
      BY <1>3, <2>2
    <3> QED
      BY <1>1, <1>2, <3>1, <3>3, <3>4, <3>5 DEF InstanceWorkerSound, Live, Exists
  <2> QED
    BY <2>1, <2>2
<1> QED
  BY <1>5, <1>6

LEMMA DestroyStep ==
  ASSUME TypeOK, TypeOK', InstanceHistory, InstanceWorkerSound,
         DestroyAccepted \/ DestroyFailed
  PROVE  InstanceHistory' /\ InstanceWorkerSound'
<1> DEFINE w == instanceWorker
<1>1. /\ w \in InstanceRequest /\ w # Idle /\ w.pc = "destroy"
      /\ UNCHANGED <<instance, cachedInstance>>
  BY DEF DestroyAccepted, DestroyFailed, TypeOK, Idle, instanceUnchanged, caches
<1>2. /\ InstanceSound(w.read) /\ InstanceSound(w.want)
      /\ Exists(w.read) /\ Deleting(w.read) /\ w.read.id
      /\ InstanceSince(w.read, cachedInstance[w.uid])
      /\ w.want.phase = w.read.phase /\ w.want.finalizer = w.read.finalizer
      /\ w.want.id /\ provisioned[w.uid] # "unknown"
      /\ (Live(w.read) => w.read.finalizer)
  BY <1>1 DEF InstanceWorkerSound
<1>3. /\ provisioned' = provisioned
         \/ provisioned' = [provisioned EXCEPT ![w.uid] = "destroyed"]
      /\ DestroyAccepted => provisioned'[w.uid] = "destroyed"
  BY <1>1 DEF DestroyAccepted, DestroyFailed, TypeOK, InstanceRequest
<1>4. \A i \in ServiceInstances :
         \/ provisioned'[i] = provisioned[i]
         \/ i = w.uid /\ provisioned'[i] = "destroyed"
  BY <1>3 DEF TypeOK
<1>5. InstanceHistory'
  BY <1>1, <1>2, <1>4 DEF InstanceHistory, InstanceSince
<1>6. provisioned'[w.uid] # "unknown"
  BY <1>1, <1>2, <1>3 DEF TypeOK, InstanceRequest
<1>7. InstanceWorkerSound'
  <2>1. CASE DestroyFailed
    <3> DEFINE want == [w.read EXCEPT !.blocked = TRUE, !.ready = TRUE, !.observed = TRUE]
    <3>1. want.id /\ want.phase = w.read.phase /\ want.finalizer = w.read.finalizer
      BY <1>1, <1>2 DEF InstanceRequest, InstanceObject
    <3>2. w' = IF want = w.read THEN Idle ELSE [w EXCEPT !.pc = "status", !.want = want]
      BY <2>1 DEF DestroyFailed, InstanceBlocked, InstanceWrites
    <3>3. InstanceSound(want)
      BY <1>2, <3>1 DEF InstanceSound, Deleting, Exists
    <3> HIDE DEF want
    <3>4. w' # Idle => /\ w'.pc = "status" /\ w'.uid = w.uid /\ w'.read = w.read
                       /\ w'.want = want
      BY <1>1, <3>2 DEF InstanceRequest
    <3> QED
      BY <1>1, <1>2, <1>6, <3>1, <3>3, <3>4 DEF InstanceWorkerSound
  <2>2. CASE DestroyAccepted
    <3>1. w' = [w EXCEPT !.pc = "clear"]
      BY <2>2 DEF DestroyAccepted, InstanceGoto
    <3>2. w'.pc = "clear" /\ w'.uid = w.uid /\ w'.read = w.read /\ w'.want = w.want
      BY <1>1, <3>1 DEF InstanceRequest
    <3> QED
      BY <1>1, <1>2, <1>3, <2>2, <3>2 DEF InstanceWorkerSound
  <2> QED
    BY <2>1, <2>2
<1> QED
  BY <1>5, <1>7

\* A request's last write: nothing happened to the object since it was read,
\* or nothing is written.
LEMMA InstanceWriteStep ==
  ASSUME TypeOK, TypeOK', InstanceHistory, InstanceWorkerSound,
         UpdateInstanceStatus \/ ClearInstanceFinalizer
  PROVE  InstanceHistory' /\ InstanceWorkerSound'
<1> DEFINE w == instanceWorker
           u == w.uid
<1>1. /\ w \in InstanceRequest /\ w # Idle /\ w.pc \in {"status", "clear"}
      /\ instanceWorker' = Idle
      /\ UNCHANGED <<cachedInstance, provisioned>>
  BY DEF UpdateInstanceStatus, ClearInstanceFinalizer, TypeOK, Idle, instanceUnchanged, caches
<1>2. InstanceWorkerSound'
  BY <1>1 DEF InstanceWorkerSound
<1>3. /\ InstanceSound(w.read) /\ InstanceSound(w.want) /\ Exists(w.read)
      /\ w.want.phase = w.read.phase /\ (w.read.id => w.want.id)
      /\ w.want.id => provisioned[u] # "unknown"
      /\ w.pc = "clear" =>
            Deleting(w.read) /\ (w.read.id => provisioned[u] = "destroyed")
  BY <1>1 DEF InstanceWorkerSound
<1>4. CASE instance' = instance
  BY <1>1, <1>2, <1>4 DEF InstanceHistory
<1>5. CASE InstanceUnmodified /\ UpdateInstanceStatus
  <2>1. instance[u] = w.read /\ instance' = [instance EXCEPT ![u] = w.want]
    BY <1>5 DEF InstanceUnmodified, UpdateInstanceStatus
  <2>2. InstanceSince(cachedInstance[u], w.want)
    <3>1. u \in ServiceInstances /\ w.want.phase = instance[u].phase
      BY <1>1, <1>3, <2>1 DEF InstanceRequest
    <3>2. InstanceSince(cachedInstance[u], instance[u])
      BY <3>1 DEF InstanceHistory
    <3>3. Age(w.want) = Age(instance[u])
      BY <3>1 DEF Age
    <3> QED
      BY <1>3, <2>1, <3>2, <3>3 DEF InstanceSince
  <2>3. InstanceHistory'
    BY <1>1, <1>3, <2>1, <2>2 DEF InstanceHistory, TypeOK, InstanceRequest, Exists
  <2> QED
    BY <1>2, <2>3
<1>6. CASE InstanceUnmodified /\ ClearInstanceFinalizer
  <2> DEFINE o == FinalizerCleared(w.read)
  <2>1. w.pc = "clear" /\ instance[u] = w.read /\ instance' = [instance EXCEPT ![u] = o]
    BY <1>6 DEF InstanceUnmodified, ClearInstanceFinalizer
  <2>2. /\ o.phase = "gone" /\ o.id = w.read.id /\ o.ready = w.read.ready
    BY <1>1, <1>3, <2>1 DEF FinalizerCleared, InstanceRequest, InstanceObject
  <2> HIDE DEF o
  <2>3. InstanceSound(o)
    BY <1>3, <2>2 DEF InstanceSound, Exists
  <2>4. InstanceSince(cachedInstance[u], o)
    <3>1. cachedInstance[u] \in InstanceObject /\ u \in ServiceInstances
      BY <1>1 DEF TypeOK, InstanceRequest
    <3>2. Age(o) = 3 /\ Age(cachedInstance[u]) \in 0..3
      BY <2>2, <3>1, AgeValue DEF InstanceObject
    <3> QED
      BY <2>1, <2>2, <3>1, <3>2 DEF InstanceHistory, InstanceSince
  <2>5. InstanceHistory'
    BY <1>1, <1>3, <2>1, <2>2, <2>3, <2>4 DEF InstanceHistory, TypeOK, InstanceRequest
  <2> QED
    BY <1>2, <2>5
<1> QED
  BY <1>4, <1>5, <1>6 DEF UpdateInstanceStatus, ClearInstanceFinalizer

\* Users create and delete, informers catch up.
LEMMA InstanceUserStep ==
  ASSUME TypeOK, TypeOK', InstanceHistory, InstanceWorkerSound,
         NEW i \in ServiceInstances, CreateInstance(i) \/ DeleteInstance(i)
  PROVE  InstanceHistory' /\ InstanceWorkerSound'
<1>1. UNCHANGED <<instanceWorker, cachedInstance, provisioned>>
  BY DEF CreateInstance, DeleteInstance, caches, remote, controllers
<1>2. InstanceWorkerSound'
  BY <1>1 DEF InstanceWorkerSound
<1>3. PICK o \in InstanceObject :
         /\ instance' = [instance EXCEPT ![i] = o]
         /\ o.id = instance[i].id /\ o.ready = instance[i].ready
         /\ o.finalizer = instance[i].finalizer
         /\ \/ instance[i].phase = "absent" /\ o.phase = "live"
            \/ instance[i].phase = "live" /\ o.finalizer /\ o.phase = "deleting"
            \/ instance[i].phase = "live" /\ ~o.finalizer /\ o.phase = "gone"
  <2>1. CASE CreateInstance(i)
    <3>1. instance[i] \in InstanceObject
      BY DEF TypeOK
    <3>2. [instance[i] EXCEPT !.phase = "live"] \in InstanceObject
      BY <3>1 DEF InstanceObject, Phases
    <3> QED
      BY <2>1, <3>1, <3>2 DEF CreateInstance, InstanceObject
  <2>2. CASE DeleteInstance(i)
    <3> DEFINE o == [DeleteRequested(instance[i]) EXCEPT !.observed = FALSE]
    <3>1. instance[i] \in InstanceObject /\ instance[i].phase = "live"
      BY <2>2 DEF TypeOK, DeleteInstance, Live
    <3>2. /\ o \in InstanceObject
          /\ o.id = instance[i].id /\ o.ready = instance[i].ready
          /\ o.finalizer = instance[i].finalizer
          /\ \/ o.finalizer /\ o.phase = "deleting"
             \/ ~o.finalizer /\ o.phase = "gone"
      BY <3>1 DEF DeleteRequested, Live, InstanceObject, Phases
    <3>3. instance' = [instance EXCEPT ![i] = o]
      BY <2>2 DEF DeleteInstance
    <3> QED
      BY <3>1, <3>2, <3>3
  <2> QED
    BY <2>1, <2>2
<1>4. /\ InstanceSound(instance[i]) /\ InstanceSince(cachedInstance[i], instance[i])
      /\ instance[i] \in InstanceObject /\ cachedInstance[i] \in InstanceObject
  BY DEF InstanceHistory, TypeOK
<1>5. InstanceSound(o)
  BY <1>3, <1>4 DEF InstanceSound, Exists
<1>6. InstanceSince(cachedInstance[i], o)
  <2>1. Age(cachedInstance[i]) \in 0..3 /\ Age(instance[i]) <= Age(o)
    BY <1>3, <1>4, AgeValue DEF InstanceObject
  <2>2. Age(instance[i]) \in 0..3 /\ Age(o) \in 0..3
    BY <1>3, <1>4, AgeValue DEF InstanceObject
  <2> QED
    BY <1>3, <1>4, <2>1, <2>2 DEF InstanceSince
<1>7. o.phase = "gone" => ~o.id
  BY <1>3, <1>4 DEF InstanceSound, Exists
<1>8. InstanceHistory'
  BY <1>1, <1>3, <1>5, <1>6, <1>7 DEF InstanceHistory, TypeOK
<1> QED
  BY <1>2, <1>8

LEMMA InstanceSyncStep ==
  ASSUME TypeOK, TypeOK', InstanceHistory, InstanceWorkerSound,
         NEW i \in ServiceInstances, SyncInstance(i)
  PROVE  InstanceHistory' /\ InstanceWorkerSound'
<1>1. /\ cachedInstance' = [cachedInstance EXCEPT ![i] = instance[i]]
      /\ UNCHANGED <<instance, instanceWorker, provisioned>>
  BY DEF SyncInstance, objects, remote, controllers
<1>2. InstanceSince(instance[i], instance[i])
  BY SinceOrder DEF TypeOK
<1>3. InstanceHistory'
  BY <1>1, <1>2 DEF InstanceHistory, InstanceSince, TypeOK
<1>4. InstanceWorkerSound'
  <2> SUFFICES ASSUME instanceWorker # Idle, instanceWorker.uid = i
               PROVE  InstanceSince(instanceWorker.read, instance[i])
    BY <1>1 DEF InstanceWorkerSound, TypeOK
  <2>1. /\ InstanceSince(instanceWorker.read, cachedInstance[i])
        /\ InstanceSince(cachedInstance[i], instance[i])
    BY DEF InstanceWorkerSound, InstanceHistory
  <2>2. instanceWorker.read \in InstanceObject
    BY DEF TypeOK, InstanceRequest
  <2> QED
    BY <2>1, <2>2, SinceOrder DEF TypeOK
<1> QED
  BY <1>3, <1>4

LEMMA InstanceCrashStep ==
  ASSUME TypeOK, TypeOK', InstanceHistory, InstanceWorkerSound, Crash \/ RequestFails
  PROVE  InstanceHistory' /\ InstanceWorkerSound'
<1>1. CASE Crash
  <2>1. \A i \in ServiceInstances : InstanceSince(instance[i], instance[i])
    BY SinceOrder DEF TypeOK
  <2>2. /\ cachedInstance' = instance /\ instanceWorker' = Idle
        /\ UNCHANGED <<instance, provisioned>>
    BY <1>1 DEF Crash, objects, remote
  <2> QED
    BY <2>1, <2>2 DEF InstanceHistory, InstanceSince, InstanceWorkerSound
<1>2. CASE RequestFails
  <2>1. /\ instanceWorker' \in {Idle, instanceWorker}
        /\ UNCHANGED <<instance, cachedInstance, provisioned>>
    BY <1>2 DEF RequestFails, objects, caches, remote
  <2> QED
    BY <2>1 DEF InstanceHistory, InstanceWorkerSound
<1> QED
  BY <1>1, <1>2

\* Everything else leaves the instances alone.
LEMMA InstanceUnchangedStep ==
  ASSUME InstanceHistory, InstanceWorkerSound,
         UNCHANGED <<instance, cachedInstance, provisioned, instanceWorker>>
  PROVE  InstanceHistory' /\ InstanceWorkerSound'
  BY DEF InstanceHistory, InstanceWorkerSound

LEMMA NextInstances ==
  ASSUME TypeOK, TypeOK', InstanceHistory, InstanceWorkerSound, [Next]_vars
  PROVE  InstanceHistory' /\ InstanceWorkerSound'
<1>1. CASE InstanceNext
  BY <1>1, ReconcileInstanceStep, ProvisionStep, DestroyStep, InstanceWriteStep
  DEF InstanceNext
<1>2. CASE BindingNext
  <2>1. UNCHANGED <<instance, cachedInstance, provisioned, instanceWorker>>
    BY <1>2 DEF BindingNext, ReconcileBinding, BindAccepted, BindFailed, UnbindAccepted,
       UnbindFailed, ConfigureClientComponent, UpdateBindingStatus,
       ClearBindingFinalizer, bindingUnchanged, caches
  <2> QED
    BY <2>1, InstanceUnchangedStep
<1>3. CASE UserNext
  <2>1. ASSUME NEW b \in ServiceBindings, CreateBinding(b) \/ DeleteBinding(b)
        PROVE  UNCHANGED <<instance, cachedInstance, provisioned, instanceWorker>>
    BY <2>1 DEF CreateBinding, DeleteBinding, caches, remote, controllers
  <2> QED
    BY <1>3, <2>1, InstanceUserStep, InstanceUnchangedStep DEF UserNext
<1>4. CASE EnvironmentNext
  <2>1. ASSUME \/ \E to \in LifecycleStates : LifecycleChanges(to)
               \/ \E b \in ServiceBindings, to \in ClientStates : ClientReconciles(b, to)
               \/ \E b \in ServiceBindings :
                     DurationElapses(b) \/ SyncBinding(b)
        PROVE  UNCHANGED <<instance, cachedInstance, provisioned, instanceWorker>>
    BY <2>1 DEF LifecycleChanges, ClientReconciles, DurationElapses, SyncBinding,
       objects, caches, remote, controllers
  <2> QED
    BY <1>4, <2>1, InstanceSyncStep, InstanceCrashStep, InstanceUnchangedStep
    DEF EnvironmentNext
<1>5. CASE UNCHANGED vars
  BY <1>5, InstanceUnchangedStep DEF vars, objects, caches, remote
<1> QED
  BY <1>1, <1>2, <1>3, <1>4, <1>5 DEF Next
=============================================================================
