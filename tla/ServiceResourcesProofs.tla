----------------------- MODULE ServiceResourcesProofs -----------------------
(***************************************************************************)
(* The manager of a definition runs only while something will stop it, and *)
(* what a definition and its resources report is true at rest: whatever    *)
(* lags behind, fails or restarts, and however often.                      *)
(***************************************************************************)
EXTENDS ServiceResourcesProperties, TLAPS

Typed == definition \in DefinitionObject /\ cachedDefinition \in DefinitionObject

\* The cache is behind, and never turns back: a deletion it knows of has been
\* made, and the finalizer it knows of is there, as only the controller clears
\* it, and that knows of the deletion.
CacheIsBehind ==
    /\ cachedDefinition.phase = "deleting" => definition.phase \in {"deleting", "gone"}
    /\ cachedDefinition.phase = "live" /\ cachedDefinition.finalizer =>
          definition.phase # "gone" /\ definition.finalizer

IInv == Typed /\ CacheIsBehind /\ ManagerIsHeld

\* What is cached of a ServiceInstance was true of it once: its spec does not
\* change, it is made again under the next number, and is Ready until it goes.
InstancePast(a, b) ==
    /\ a.made <= b.made
    /\ a.made = b.made =>
          /\ a.version = b.version /\ a.lifecycle = b.lifecycle
          /\ b.exists => a.exists
          /\ a.ready /\ b.exists => b.ready

\* A Ready resource reports what was made for its spec.
ReportsItsOwn ==
    /\ resource.observed <= resource.version
    /\ resource.ready /\ resource.observed = resource.version /\ resource.id = instance.made
          => instance.version = resource.version

InstanceInv == TypeOK /\ InstancePast(cachedInstance, instance) /\ ReportsItsOwn

\* What is cached of a ServiceClient was true of it once, too: nothing in it
\* ever goes back.
ClientPast(a, b) ==
    /\ a.exists => b.exists
    /\ a.ready => b.ready
    /\ a.instance <= b.instance /\ a.version <= b.version
    /\ a.binding.instance <= b.binding.instance /\ a.binding.version <= b.binding.version

\* It asks for nothing that was not there, and its binding is of what it asked for.
AsksForWhatIsKnown ==
    /\ client.instance <= cachedInstance.made /\ client.version <= clientResource.version
    /\ client.binding.instance <= client.instance /\ client.binding.version <= client.version

\* A client resource that no event will queue has made the ServiceClient it
\* asks for, and reports what that says.
ReportsItsClient ==
    /\ "client" \notin queue /\ running /\ clientResource.exists
    /\ cachedInstance = instance /\ instance.exists /\ cachedClient = client
    => /\ client.exists
       /\ client.instance = instance.made /\ client.version = clientResource.version
       /\ clientResource.ready = client.ready
       /\ client.ready => clientResource.binding = client.binding

ClientInv == ClientPast(cachedClient, client) /\ AsksForWhatIsKnown /\ ReportsItsClient

\* What the status write makes of a definition.
LEMMA DefinitionWritten ==
    ASSUME NEW d \in DefinitionObject, NEW c \in SUBSET Conditions
    PROVE  /\ [d EXCEPT !.finalizer = TRUE, !.conditions = c] \in DefinitionObject
           /\ [d EXCEPT !.finalizer = TRUE, !.conditions = c].phase = d.phase
           /\ [d EXCEPT !.finalizer = TRUE, !.conditions = c].finalizer = TRUE
BY DEF DefinitionObject

\* What a deletion and the controller make of its phase.
LEMMA DefinitionEnds ==
    ASSUME NEW d \in DefinitionObject, NEW p \in {"live", "deleting", "gone"}
    PROVE  /\ [d EXCEPT !.phase = p] \in DefinitionObject
           /\ [d EXCEPT !.phase = p].phase = p
           /\ [d EXCEPT !.phase = p].finalizer = d.finalizer
           /\ [d EXCEPT !.phase = "gone", !.finalizer = FALSE] \in DefinitionObject
           /\ [d EXCEPT !.phase = "gone", !.finalizer = FALSE].phase = "gone"
BY DEF DefinitionObject

\* The conditions that are reflected are some of those there are.
LEMMA ReflectedTyped ==
    ASSUME Typed, NEW done \in SUBSET Kinds, NEW failed
    PROVE  Reflected(done, failed) \in SUBSET Conditions
           /\ Reflected(done, failed) \union {"running"} \in SUBSET Conditions
BY DEF Typed, DefinitionObject, Reflected, Conditions

\* A request that manages the children holds the manager it starts: by the
\* finalizer it has just added, or by one that is there still.
LEMMA ManageKeeps ==
    ASSUME IInv, NEW done \in SUBSET Kinds, NEW failed, ManageDefinition(done, failed)
    PROVE  IInv'
<1>1. definition \in DefinitionObject /\ cachedDefinition \in DefinitionObject
  BY DEF IInv, Typed
<1>2. cachedDefinition' = cachedDefinition /\ cachedDefinition.phase = "live"
  BY DEF ManageDefinition
<1>3. PICK c \in SUBSET Conditions : WriteStatus(c, failed)
  BY ReflectedTyped DEF IInv, ManageDefinition
<1>4. CASE definition = cachedDefinition
  <2>1. definition' = [definition EXCEPT !.finalizer = TRUE, !.conditions = c]
    BY <1>3, <1>4 DEF WriteStatus
  <2>2. /\ definition' \in DefinitionObject
        /\ definition'.phase = "live" /\ definition'.finalizer = TRUE
    BY <1>1, <1>2, <1>4, <2>1, DefinitionWritten
  <2> QED
    BY <1>1, <1>2, <2>2 DEF IInv, Typed, CacheIsBehind, ManagerIsHeld
<1>5. CASE definition # cachedDefinition
  <2>1. definition' = definition
    BY <1>3, <1>5 DEF WriteStatus
  <2>2. definition.phase # "gone" /\ definition.finalizer
    BY <1>2, <1>5 DEF IInv, CacheIsBehind, ManageDefinition, HasFinalizer
  <2> QED
    BY <1>2, <2>1, <2>2 DEF IInv, Typed, CacheIsBehind, ManagerIsHeld
<1> QED
  BY <1>4, <1>5

\* When the finalizer is cleared the manager was stopped.
LEMMA FinalizeKeeps ==
    ASSUME IInv, FinalizeDefinition
    PROVE  IInv'
<1>1. /\ cachedDefinition' = cachedDefinition /\ cachedDefinition.phase = "deleting"
      /\ running' = FALSE
  BY DEF FinalizeDefinition
<1>2. definition' \in DefinitionObject /\ definition'.phase \in {"deleting", "gone"}
  BY <1>1, DefinitionEnds DEF IInv, Typed, CacheIsBehind, FinalizeDefinition
<1> QED
  BY <1>1, <1>2 DEF IInv, Typed, CacheIsBehind, ManagerIsHeld

\* A deletion leaves the definition there if it has the finalizer.
LEMMA DeleteKeeps ==
    ASSUME IInv, DeleteDefinition
    PROVE  IInv'
<1>1. /\ cachedDefinition' = cachedDefinition /\ running' = running
      /\ definition.phase = "live"
  BY DEF DeleteDefinition
<1>2. definition \in DefinitionObject
  BY DEF IInv, Typed
<1>3. CASE definition.finalizer
  <2>1. definition' = [definition EXCEPT !.phase = "deleting"]
    BY <1>3 DEF DeleteDefinition
  <2>2. /\ definition' \in DefinitionObject /\ definition'.phase = "deleting"
        /\ definition'.finalizer
    <3>1. "deleting" \in {"live", "deleting", "gone"}
      OBVIOUS
    <3>2. /\ definition' \in DefinitionObject /\ definition'.phase = "deleting"
          /\ definition'.finalizer = definition.finalizer
      BY <1>2, <2>1, <3>1, DefinitionEnds
    <3> QED
      BY <1>3, <3>2
  <2>3. Typed'
    BY <1>1, <2>2 DEF IInv, Typed
  <2>4. CacheIsBehind'
    BY <1>1, <2>2 DEF IInv, CacheIsBehind
  <2> QED
    BY <2>2, <2>3, <2>4 DEF IInv, ManagerIsHeld
<1>4. CASE ~definition.finalizer
  <2>1. definition' = [definition EXCEPT !.phase = "gone"]
    BY <1>4 DEF DeleteDefinition
  <2>2. /\ definition' \in DefinitionObject /\ definition'.phase = "gone"
    BY <1>2, <2>1, DefinitionEnds
  <2> QED
    BY <1>1, <1>4, <2>2 DEF IInv, Typed, CacheIsBehind, ManagerIsHeld
<1> QED
  BY <1>3, <1>4

\* A cache that catches up, or a new process, sees the definition as it is.
LEMMA CaughtUp ==
    ASSUME IInv, definition' = definition, cachedDefinition' = definition,
           running' = FALSE \/ running' = running
    PROVE  IInv'
<1>1. definition \in DefinitionObject
  BY DEF IInv, Typed
<1>2. definition.phase = "live" => definition.phase # "gone"
  OBVIOUS
<1> QED
  BY <1>1, <1>2 DEF IInv, Typed, CacheIsBehind, ManagerIsHeld

\* A step that touches neither the definition nor the manager.
LEMMA Untouched ==
    ASSUME IInv, definition' = definition, cachedDefinition' = cachedDefinition,
           running' = running
    PROVE  IInv'
BY DEF IInv, Typed, CacheIsBehind, ManagerIsHeld

\* The controllers of resources, users and the others leave them alone.
LEMMA OthersKeep ==
    ASSUME IInv, ResourcesNext \/ EnvironmentNext
    PROVE  IInv'
<1> USE DEF definitions
<1>1. CASE ResourcesNext
  BY <1>1, Untouched DEF ResourcesNext, MakeInstance, KeepInstance, InstanceRejected,
     MakeInstanceFails, ManageClient, ManageClientFails, ResourceRequest, ClientRequest
<1>2. CASE DeleteDefinition
  BY <1>2, DeleteKeeps
<1>3. CASE SyncDefinition
  BY <1>3, CaughtUp DEF SyncDefinition
<1>4. CASE Restart
  BY <1>4, CaughtUp DEF Restart
<1>5. CASE CreateResource \/ CreateClient \/ EditResource \/ EditClient \/ DeleteInstance
  BY <1>5, Untouched DEF CreateResource, CreateClient, EditResource, EditClient, DeleteInstance
<1>6. CASE \E k \in Kinds : DeleteChild(k) \/ FreeName(k) \/ ChildReports(k) \/ SyncChild(k)
  BY <1>6, Untouched DEF DeleteChild, FreeName, ChildReports, SyncChild
<1>7. CASE InstanceProvisioned \/ ClientBound \/ SyncInstance \/ SyncClient \/ Resync
  BY <1>7, Untouched DEF InstanceProvisioned, ClientBound, SyncInstance, SyncClient, Resync
<1> QED
  BY <1>1, <1>2, <1>3, <1>4, <1>5, <1>6, <1>7 DEF EnvironmentNext

\* So do all steps.
LEMMA StepKeeps == IInv /\ [Next]_vars => IInv'
<1> SUFFICES ASSUME IInv, [Next]_vars PROVE IInv'
  OBVIOUS
<1>1. CASE ReconcileDefinition
  BY <1>1, ManageKeeps, FinalizeKeeps DEF ReconcileDefinition
<1>2. CASE DefinitionGone
  BY <1>2, Untouched DEF DefinitionGone, definitions
<1>3. ASSUME NEW k \in Kinds, DefinitionFails(k)
      PROVE  IInv'
  <2>1. UpTo(k) \in SUBSET Kinds
    BY DEF UpTo
  <2> QED
    BY <1>3, <2>1, ManageKeeps DEF DefinitionFails
<1>4. CASE ResourcesNext \/ EnvironmentNext
  BY <1>4, OthersKeep
<1>5. CASE UNCHANGED vars
  BY <1>5, Untouched DEF vars, definitions
<1> QED
  BY <1>1, <1>2, <1>3, <1>4, <1>5 DEF Next, DefinitionNext

\* At first there is no manager, and no finalizer.
LEMMA InitKeeps == Init => IInv
BY DEF Init, IInv, Typed, DefinitionObject, CacheIsBehind, ManagerIsHeld, Conditions

\* No manager is left running without a definition to stop it, and none is
\* started before its finalizer is there: for any number of changes, failed
\* calls and restarts.
THEOREM ManagersAreHeld == Spec => []ManagerIsHeld
<1>1. IInv => ManagerIsHeld
  BY DEF IInv
<1> QED
  BY InitKeeps, StepKeeps, <1>1, PTL DEF Spec

-----------------------------------------------------------------------------
(* Types *)

\* The invariant of the manager holds of every behaviour.
LEMMA HeldThroughout == Spec => []IInv
BY InitKeeps, StepKeeps, PTL DEF Spec

\* What the writes make of a child, a resource and what is made for them.
LEMMA ChildWritten ==
    ASSUME NEW c \in ChildObject, NEW k \in Kinds
    PROVE  /\ MadeChild(k, c) \in ChildObject /\ MadeChild(k, c).state = "new"
           /\ \A s \in {"absent", "new", "ready"} :
                 [c EXCEPT !.state = s] \in ChildObject /\ [c EXCEPT !.state = s].state = s
BY DEF ChildObject, MadeChild

ResourceObject == [exists : BOOLEAN, version : Nat, observed : Nat, ready : BOOLEAN, id : Nat]
ClientResourceObject ==
    [exists : BOOLEAN, version : Nat, observed : Nat, ready : BOOLEAN, binding : Bindings]

\* The types, with an id of any number, and without the definitions.
RestTyped ==
    /\ child \in [Kinds -> ChildObject] /\ cachedChild \in [Kinds -> ChildObject]
    /\ taken \subseteq TakenNames
    /\ running \in BOOLEAN /\ unannounced \in BOOLEAN
    /\ resource \in ResourceObject
    /\ instance \in InstanceObject /\ cachedInstance \in InstanceObject
    /\ clientResource \in ClientResourceObject
    /\ client \in ClientObject /\ cachedClient \in ClientObject
    /\ queue \subseteq {"definition", "resource", "client"}
    /\ changes \in 0..MaxChanges /\ faults \in 0..MaxFaults

\* A resource that reports of an instance, and one that is edited.
LEMMA ResourceWritten ==
    ASSUME NEW r \in ResourceObject, NEW i \in InstanceObject
    PROVE  /\ [r EXCEPT !.observed = r.version, !.ready = i.ready,
                        !.id = IF i.ready THEN i.made ELSE @] \in ResourceObject
           /\ [r EXCEPT !.ready = FALSE] \in ResourceObject
           /\ [r EXCEPT !.exists = TRUE] \in ResourceObject
           /\ [r EXCEPT !.version = @ + 1] \in ResourceObject
<1>1. i.made \in Nat /\ i.ready \in BOOLEAN
  BY DEF InstanceObject
<1>2. [r EXCEPT !.observed = r.version, !.ready = i.ready,
                !.id = IF i.ready THEN i.made ELSE @] \in ResourceObject
  <2>1. CASE i.ready
    BY <1>1, <2>1 DEF ResourceObject
  <2>2. CASE ~i.ready
    BY <1>1, <2>2 DEF ResourceObject
  <2> QED
    BY <2>1, <2>2
<1>4. /\ [r EXCEPT !.ready = FALSE] \in ResourceObject
      /\ [r EXCEPT !.exists = TRUE] \in ResourceObject
  BY DEF ResourceObject
<1>5. [r EXCEPT !.version = @ + 1] \in ResourceObject
  BY DEF ResourceObject
<1> QED
  BY <1>2, <1>4, <1>5

\* So it is with a client resource.
LEMMA ClientResourceWritten ==
    ASSUME NEW r \in ClientResourceObject, NEW c \in ClientObject
    PROVE  /\ [r EXCEPT !.observed = r.version, !.ready = c.ready,
                        !.binding = IF c.ready THEN c.binding ELSE @] \in ClientResourceObject
           /\ [r EXCEPT !.ready = FALSE] \in ClientResourceObject
           /\ [r EXCEPT !.exists = TRUE] \in ClientResourceObject
           /\ [r EXCEPT !.version = @ + 1] \in ClientResourceObject
<1>1. r.binding \in Bindings /\ c.binding \in Bindings /\ c.ready \in BOOLEAN
  BY DEF ClientResourceObject, ClientObject
<1>2. \A b \in Bindings : [r EXCEPT !.observed = r.version, !.ready = c.ready, !.binding = b]
                             \in ClientResourceObject
  BY <1>1 DEF ClientResourceObject
<1>3. [r EXCEPT !.observed = r.version, !.ready = c.ready,
                !.binding = IF c.ready THEN c.binding ELSE @] \in ClientResourceObject
  <2>1. CASE c.ready
    BY <1>1, <1>2, <2>1
  <2>2. CASE ~c.ready
    BY <1>1, <2>2 DEF ClientResourceObject
  <2> QED
    BY <2>1, <2>2
<1>4. /\ [r EXCEPT !.ready = FALSE] \in ClientResourceObject
      /\ [r EXCEPT !.exists = TRUE] \in ClientResourceObject
  BY DEF ClientResourceObject
<1>5. [r EXCEPT !.version = @ + 1] \in ClientResourceObject
  BY DEF ClientResourceObject
<1> QED
  BY <1>3, <1>4, <1>5

\* A ServiceInstance is provisioned, or goes.
LEMMA InstanceWritten ==
    ASSUME NEW i \in InstanceObject
    PROVE  /\ [i EXCEPT !.ready = TRUE] \in InstanceObject
           /\ [i EXCEPT !.exists = FALSE, !.ready = FALSE] \in InstanceObject
BY DEF InstanceObject

\* A ServiceClient is asked for something, or bound.
LEMMA ClientWritten ==
    ASSUME NEW c \in ClientObject, cachedInstance \in InstanceObject,
           clientResource \in ClientResourceObject
    PROVE  /\ DesiredClient(c) \in ClientObject
           /\ [c EXCEPT !.ready = TRUE, !.binding = [instance |-> c.instance, version |-> c.version]]
                 \in ClientObject
<1>1. cachedInstance.made \in Nat /\ clientResource.version \in Nat
  BY DEF InstanceObject, ClientResourceObject
<1>2. [instance |-> c.instance, version |-> c.version] \in Bindings
  BY DEF ClientObject, Bindings
<1> QED
  BY <1>1, <1>2 DEF ClientObject, DesiredClient

\* What is queued has a queue.
LEMMA QueueTyped ==
    ASSUME RestTyped
    PROVE  /\ \A S : queue \union (S \intersect (IF running THEN Items ELSE {"definition"}))
                       \subseteq {"definition", "resource", "client"}
           /\ Listed \subseteq {"definition", "resource", "client"}
BY DEF RestTyped, Items, Listed

\* At first all is of its type.
LEMMA InitRestTyped == Init => RestTyped
<1> SUFFICES ASSUME Init PROVE RestTyped
  OBVIOUS
<1>1. Absent \in ChildObject /\ NoInstance \in InstanceObject /\ NoClient \in ClientObject
  BY DEF Absent, ChildObject, NoInstance, InstanceObject, NoClient, ClientObject, NoBinding, Bindings
<1>2. resource \in ResourceObject /\ clientResource \in ClientResourceObject
  BY DEF Init, ResourceObject, ClientResourceObject, NoBinding, Bindings
<1>3. 0 \in 0..MaxChanges /\ 0 \in 0..MaxFaults
  BY ResourceBounds
<1> QED
  BY <1>1, <1>2, <1>3 DEF Init, RestTyped

\* The children that are left when some are deleted.
LEMMA DeletedTyped ==
    ASSUME RestTyped, NEW K, Deleted(K)
    PROVE  child' \in [Kinds -> ChildObject]
<1>1. \A k \in Kinds : child[k] \in ChildObject
                        /\ [child[k] EXCEPT !.state = "absent"] \in ChildObject
  BY ChildWritten DEF RestTyped
<1> QED
  BY <1>1 DEF Deleted

\* The children, and what is queued, after a request of the definition.
LEMMA ManageTyped ==
    ASSUME RestTyped, NEW done, NEW failed, ManageDefinition(done, failed)
    PROVE  /\ child' \in [Kinds -> ChildObject] /\ running' \in BOOLEAN
           /\ queue' \subseteq {"definition", "resource", "client"}
           /\ UNCHANGED <<cachedChild, taken, resources>>
<1>1. child' \in [Kinds -> ChildObject]
  <2>1. \A k \in Kinds : child[k] \in ChildObject
    BY DEF RestTyped
  <2>2. \A k \in Kinds : MadeChild(k, child[k]) \in ChildObject
    BY <2>1, ChildWritten
  <2> QED
    BY <2>1, <2>2 DEF ManageDefinition
<1>2. running' \in BOOLEAN
  BY DEF ManageDefinition, RestTyped
<1>3. queue' \subseteq {"definition", "resource", "client"}
  <2>1. queue' \subseteq queue \union Listed
    BY DEF ManageDefinition, WriteStatus
  <2> QED
    BY <2>1, QueueTyped DEF RestTyped
<1> QED
  BY <1>1, <1>2, <1>3 DEF ManageDefinition

\* Requests of the resources' controllers.
LEMMA ResourcesTyped ==
    ASSUME RestTyped, ResourcesNext
    PROVE  RestTyped'
<1>0. /\ resource \in ResourceObject /\ clientResource \in ClientResourceObject
      /\ instance \in InstanceObject /\ cachedInstance \in InstanceObject
      /\ client \in ClientObject /\ cachedClient \in ClientObject
      /\ queue \subseteq {"definition", "resource", "client"}
  BY DEF RestTyped
<1>1. faults' \in 0..MaxFaults /\ changes' = changes
  BY ResourceBounds DEF ResourcesNext, RestTyped, MakeInstance, KeepInstance, InstanceRejected,
     MakeInstanceFails, ManageClient, ManageClientFails, bounds
<1>2. CASE MakeInstance
  <2>1. Lifecycle.made \in Nat
    BY KindsAssumption DEF Lifecycle, RestTyped, ChildObject
  <2>2. instance' \in InstanceObject
    <3>1. instance.made + 1 \in Nat /\ resource.version \in Nat
      BY <1>0 DEF InstanceObject, ResourceObject
    <3> QED
      BY <1>2, <2>1, <3>1 DEF MakeInstance, InstanceObject
  <2>3. resource' \in ResourceObject
    BY <1>0, <1>2, <2>2, ResourceWritten DEF MakeInstance, ReflectInstance
  <2> QED
    BY <1>0, <1>1, <1>2, <2>2, <2>3 DEF MakeInstance, ResourceRequest, RestTyped, definitions
<1>3. CASE KeepInstance
  <2>1. resource' \in ResourceObject
    BY <1>0, <1>3, ResourceWritten DEF KeepInstance, ReflectInstance
  <2> QED
    BY <1>0, <1>1, <1>3, <2>1 DEF KeepInstance, ResourceRequest, RestTyped, definitions
<1>4. CASE InstanceRejected \/ MakeInstanceFails
  <2>1. resource' \in ResourceObject
    BY <1>0, <1>4, ResourceWritten DEF InstanceRejected, MakeInstanceFails, RejectionReflected
  <2> QED
    BY <1>0, <1>1, <1>4, <2>1 DEF InstanceRejected, MakeInstanceFails, RejectionReflected,
       ResourceRequest, RestTyped, definitions
<1>5. CASE ManageClient
  <2>1. DesiredClient(client) \in ClientObject
    BY <1>0, ClientWritten
  <2>2. client' \in ClientObject
    BY <1>0, <1>5, <2>1 DEF ManageClient
  <2>3. clientResource' \in ClientResourceObject
    BY <1>0, <1>5, <2>1, ClientResourceWritten DEF ManageClient, ReflectClient
  <2> QED
    BY <1>0, <1>1, <1>5, <2>2, <2>3 DEF ManageClient, ClientRequest, RestTyped, definitions
<1>6. CASE ManageClientFails
  <2>1. clientResource' \in ClientResourceObject
    BY <1>0, <1>6, ClientResourceWritten DEF ManageClientFails
  <2> QED
    BY <1>0, <1>1, <1>6, <2>1 DEF ManageClientFails, ClientRequest, RestTyped, definitions
<1> QED
  BY <1>2, <1>3, <1>4, <1>5, <1>6 DEF ResourcesNext

\* What users do, and the others.
LEMMA EnvironmentTyped ==
    ASSUME RestTyped, EnvironmentNext
    PROVE  RestTyped'
<1>0. /\ resource \in ResourceObject /\ clientResource \in ClientResourceObject
      /\ instance \in InstanceObject /\ cachedInstance \in InstanceObject
      /\ client \in ClientObject /\ cachedClient \in ClientObject
      /\ queue \subseteq {"definition", "resource", "client"}
      /\ child \in [Kinds -> ChildObject] /\ cachedChild \in [Kinds -> ChildObject]
      /\ \A k \in Kinds : child[k] \in ChildObject /\ cachedChild[k] \in ChildObject
  BY DEF RestTyped
<1>1. Changes => changes' \in 0..MaxChanges /\ faults' = faults
  BY ResourceBounds DEF Changes, RestTyped
<1>2. CASE CreateResource \/ CreateClient \/ EditResource \/ EditClient
  <2>1. resource' \in ResourceObject /\ clientResource' \in ClientResourceObject
    BY <1>0, <1>2, ResourceWritten, ClientResourceWritten
       DEF CreateResource, CreateClient, EditResource, EditClient
  <2>2. queue' \subseteq {"definition", "resource", "client"}
    BY <1>0, <1>2, QueueTyped DEF CreateResource, CreateClient, EditResource, EditClient, Wake
  <2> QED
    BY <1>0, <1>1, <1>2, <2>1, <2>2 DEF CreateResource, CreateClient, EditResource, EditClient,
       RestTyped, definitions, bounds
<1>3. CASE DeleteDefinition \/ DeleteInstance
  BY <1>0, <1>1, <1>3, InstanceWritten DEF DeleteDefinition, DeleteInstance, RestTyped,
     definitions, resources
<1>4. ASSUME NEW k \in Kinds, DeleteChild(k) \/ ChildReports(k)
      PROVE  RestTyped'
  <2>2. child' \in [Kinds -> ChildObject]
    <3>1. CASE ChildReports(k)
      <4>1. PICK s \in {"absent", "new", "ready"} : child' = [child EXCEPT ![k].state = s]
        BY <3>1 DEF ChildReports
      <4> QED
        BY <1>0, <4>1, ChildWritten
    <3> QED
      BY <1>4, <3>1, DeletedTyped DEF DeleteChild
  <2> QED
    BY <1>0, <1>1, <1>4, <2>2 DEF DeleteChild, ChildReports, RestTyped, resources, bounds
<1>5. ASSUME NEW k \in Kinds, FreeName(k)
      PROVE  RestTyped'
  BY <1>0, <1>1, <1>5 DEF FreeName, RestTyped, resources
<1>6. ASSUME NEW k \in Kinds, SyncChild(k)
      PROVE  RestTyped'
  <2>1. cachedChild' \in [Kinds -> ChildObject]
    BY <1>0, <1>6 DEF SyncChild
  <2>2. queue' \subseteq {"definition", "resource", "client"}
    BY <1>6, QueueTyped DEF SyncChild, Wake
  <2> QED
    BY <1>6, <2>1, <2>2 DEF SyncChild, RestTyped, resources, bounds
<1>7. CASE InstanceProvisioned \/ ClientBound
  <2>1. instance' \in InstanceObject
    BY <1>0, <1>7, InstanceWritten DEF InstanceProvisioned, ClientBound
  <2>2. client' \in ClientObject
    BY <1>0, <1>7, ClientWritten DEF InstanceProvisioned, ClientBound
  <2> QED
    BY <1>7, <2>1, <2>2 DEF InstanceProvisioned, ClientBound, RestTyped, definitions, bounds
<1>8. CASE SyncDefinition \/ SyncInstance \/ SyncClient \/ Resync
  <2>1. queue' \subseteq {"definition", "resource", "client"}
    BY <1>8, QueueTyped DEF SyncDefinition, SyncInstance, SyncClient, Resync, Wake
  <2> QED
    BY <1>0, <1>8, <2>1 DEF SyncDefinition, SyncInstance, SyncClient, Resync, RestTyped,
       definitions, resources, bounds
<1>9. CASE Restart
  <2>1. faults' \in 0..MaxFaults
    BY <1>9, ResourceBounds DEF Restart, RestTyped
  <2> QED
    BY <1>0, <1>9, <2>1 DEF Restart, RestTyped
<1> QED
  BY <1>2, <1>3, <1>4, <1>5, <1>6, <1>7, <1>8, <1>9 DEF EnvironmentNext

LEMMA NextRestTyped ==
    ASSUME RestTyped, [Next]_vars
    PROVE  RestTyped'
<1>1. CASE ReconcileDefinition
  <2>1. CASE ManageDefinition(Kinds, {})
    BY <1>1, <2>1, ManageTyped DEF ReconcileDefinition, RestTyped, resources, bounds
  <2>2. CASE FinalizeDefinition
    <3>1. queue' \subseteq queue
      BY <2>2 DEF FinalizeDefinition
    <3>2. child' \in [Kinds -> ChildObject]
      BY <2>2, DeletedTyped DEF FinalizeDefinition
    <3> QED
      BY <1>1, <2>2, <3>1, <3>2 DEF ReconcileDefinition, FinalizeDefinition, RestTyped, resources, bounds
  <2> QED
    BY <1>1, <2>1, <2>2 DEF ReconcileDefinition
<1>2. CASE DefinitionGone
  BY <1>2 DEF DefinitionGone, RestTyped, definitions, resources, bounds
<1>3. ASSUME NEW k \in Kinds, DefinitionFails(k)
      PROVE  RestTyped'
  <2>1. faults' \in 0..MaxFaults
    BY <1>3, ResourceBounds DEF DefinitionFails, RestTyped
  <2> QED
    BY <1>3, <2>1, ManageTyped DEF DefinitionFails, RestTyped, resources
<1>4. CASE UNCHANGED vars
  BY <1>4 DEF RestTyped, vars, definitions, resources, bounds
<1> QED
  BY <1>1, <1>2, <1>3, <1>4, ResourcesTyped, EnvironmentTyped DEF Next, DefinitionNext

-----------------------------------------------------------------------------
(* A Ready resource is served *)

\* What a step does to the ServiceInstance, and to the cache of it.
InstanceStepped ==
    \/ UNCHANGED <<instance, cachedInstance>>
    \/ cachedInstance' = instance /\ instance' = instance
    \/ /\ MakeInstance /\ cachedInstance' = cachedInstance
       /\ instance'.exists /\ ~instance'.ready
       /\ instance'.made = instance.made + 1
    \/ /\ instance.exists /\ ~instance.ready /\ cachedInstance' = cachedInstance
       /\ instance' = [instance EXCEPT !.ready = TRUE]
    \/ /\ instance.exists /\ cachedInstance = instance /\ cachedInstance' = cachedInstance
       /\ instance' = [instance EXCEPT !.exists = FALSE, !.ready = FALSE]

LEMMA InstanceStep ==
    ASSUME [Next]_vars
    PROVE  InstanceStepped
<1>1. CASE ReconcileDefinition \/ DefinitionGone \/ \E k \in Kinds : DefinitionFails(k)
  BY <1>1 DEF ReconcileDefinition, ManageDefinition, FinalizeDefinition, DefinitionGone,
     DefinitionFails, resources, InstanceStepped
<1>2. CASE ResourcesNext
  BY <1>2 DEF ResourcesNext, MakeInstance, KeepInstance, InstanceRejected, MakeInstanceFails,
     ManageClient, ManageClientFails, ResourceRequest, ClientRequest, InstanceStepped
<1>3. CASE SyncInstance \/ Restart \/ InstanceProvisioned \/ DeleteInstance
  BY <1>3 DEF SyncInstance, Restart, InstanceProvisioned, DeleteInstance, InstanceStepped
<1>4. CASE \/ CreateResource \/ CreateClient \/ EditResource \/ EditClient
           \/ DeleteDefinition
           \/ \E k \in Kinds : DeleteChild(k) \/ FreeName(k) \/ ChildReports(k) \/ SyncChild(k)
           \/ ClientBound \/ SyncDefinition \/ SyncClient \/ Resync
  BY <1>4 DEF CreateResource, CreateClient, EditResource, EditClient, DeleteDefinition,
     DeleteChild, FreeName, ChildReports, SyncChild, ClientBound, SyncDefinition, SyncClient,
     Resync, resources, InstanceStepped
<1>5. CASE UNCHANGED vars
  BY <1>5 DEF vars, resources, InstanceStepped
<1> QED
  BY <1>1, <1>2, <1>3, <1>4, <1>5 DEF Next, DefinitionNext, EnvironmentNext

\* Everything that happens to a ServiceInstance leaves its past behind.
LEMMA InstanceMovesOn ==
    ASSUME RestTyped, InstancePast(cachedInstance, instance), [Next]_vars
    PROVE  /\ InstancePast(cachedInstance', instance')
           /\ instance.made <= instance'.made
           /\ instance'.made = instance.made => instance'.version = instance.version
           /\ cachedInstance.made <= cachedInstance'.made
           /\ cachedInstance' = instance' => instance' = instance
<1>0. instance \in InstanceObject /\ cachedInstance \in InstanceObject
  BY DEF RestTyped
<1>1. /\ instance.made \in Nat /\ cachedInstance.made \in Nat
      /\ cachedInstance.made <= instance.made
  BY <1>0 DEF InstanceObject, InstancePast
<1>2. InstanceStepped
  BY InstanceStep
<1>3. CASE UNCHANGED <<instance, cachedInstance>>
  BY <1>1, <1>3 DEF InstancePast
<1>4. CASE cachedInstance' = instance /\ instance' = instance
  BY <1>1, <1>4 DEF InstancePast
<1>5. CASE /\ cachedInstance' = cachedInstance /\ instance'.made = instance.made + 1
  BY <1>1, <1>5 DEF InstancePast
<1>6. CASE /\ instance.exists /\ ~instance.ready /\ cachedInstance' = cachedInstance
           /\ instance' = [instance EXCEPT !.ready = TRUE]
  <2>1. /\ instance'.made = instance.made /\ instance'.version = instance.version
        /\ instance'.lifecycle = instance.lifecycle
        /\ instance'.exists /\ instance'.ready
    BY <1>0, <1>6 DEF InstanceObject
  <2>2. cachedInstance.made = instance.made =>
           /\ cachedInstance.version = instance.version /\ cachedInstance.exists
           /\ cachedInstance.lifecycle = instance.lifecycle /\ ~cachedInstance.ready
    BY <1>6 DEF InstancePast
  <2>3. InstancePast(cachedInstance, instance')
    BY <1>1, <2>1, <2>2 DEF InstancePast
  <2>4. cachedInstance # instance'
    BY <2>1, <2>2
  <2> QED
    BY <1>1, <1>6, <2>1, <2>3, <2>4
<1>7. CASE /\ instance.exists /\ cachedInstance = instance /\ cachedInstance' = cachedInstance
           /\ instance' = [instance EXCEPT !.exists = FALSE, !.ready = FALSE]
  <2>1. /\ instance'.made = instance.made /\ instance'.version = instance.version
        /\ instance'.lifecycle = instance.lifecycle
        /\ ~instance'.exists
    BY <1>0, <1>7 DEF InstanceObject
  <2> QED
    BY <1>1, <1>7, <2>1 DEF InstancePast
<1> QED
  BY <1>2, <1>3, <1>4, <1>5, <1>6, <1>7 DEF InstanceStepped

\* What a step does to the resource.
ResourceStepped ==
    \/ UNCHANGED resource
    \/ resource' = [resource EXCEPT !.ready = FALSE]
    \/ resource' = [resource EXCEPT !.exists = TRUE]
    \/ resource' = [resource EXCEPT !.version = @ + 1]
    \/ MakeInstance /\ ReflectInstance(instance')
    \/ KeepInstance

LEMMA ResourceStep ==
    ASSUME [Next]_vars
    PROVE  ResourceStepped
<1>1. CASE ReconcileDefinition \/ DefinitionGone \/ \E k \in Kinds : DefinitionFails(k)
  BY <1>1 DEF ReconcileDefinition, ManageDefinition, FinalizeDefinition, DefinitionGone,
     DefinitionFails, resources, ResourceStepped
<1>2. CASE ResourcesNext
  BY <1>2 DEF ResourcesNext, MakeInstance, KeepInstance, InstanceRejected, MakeInstanceFails,
     ManageClient, ManageClientFails, ResourceRequest, ClientRequest, RejectionReflected,
     ResourceStepped
<1>3. CASE CreateResource \/ EditResource
  BY <1>3 DEF CreateResource, EditResource, ResourceStepped
<1>4. CASE \/ CreateClient \/ EditClient \/ DeleteDefinition \/ DeleteInstance
           \/ \E k \in Kinds : DeleteChild(k) \/ FreeName(k) \/ ChildReports(k) \/ SyncChild(k)
           \/ InstanceProvisioned \/ ClientBound
           \/ SyncDefinition \/ SyncInstance \/ SyncClient \/ Resync \/ Restart
  BY <1>4 DEF CreateClient, EditClient, DeleteDefinition, DeleteInstance, DeleteChild, FreeName,
     ChildReports, SyncChild, InstanceProvisioned, ClientBound, SyncDefinition, SyncInstance,
     SyncClient, Resync, Restart, resources, ResourceStepped
<1>5. CASE UNCHANGED vars
  BY <1>5 DEF vars, resources, ResourceStepped
<1> QED
  BY <1>1, <1>2, <1>3, <1>4, <1>5 DEF Next, DefinitionNext, EnvironmentNext

\* A resource's id is that of a ServiceInstance that was made, and a resource
\* that is Ready has what it asked for.
LEMMA NextReportsItsOwn ==
    ASSUME RestTyped, InstancePast(cachedInstance, instance), resource.id <= instance.made,
           ReportsItsOwn, [Next]_vars
    PROVE  resource'.id <= instance'.made /\ ReportsItsOwn'
<1>0. /\ resource \in ResourceObject /\ instance \in InstanceObject
      /\ cachedInstance \in InstanceObject
  BY DEF RestTyped
<1>1. /\ resource.version \in Nat /\ resource.observed \in Nat /\ resource.id \in Nat
      /\ instance.made \in Nat /\ cachedInstance.made \in Nat /\ instance'.made \in Nat
      /\ cachedInstance.made <= instance.made /\ resource.observed <= resource.version
  <2>1. instance'.made \in Nat
    BY NextRestTyped DEF RestTyped, InstanceObject
  <2> QED
    BY <1>0, <2>1 DEF ResourceObject, InstanceObject, InstancePast, ReportsItsOwn
<1>2. /\ instance.made <= instance'.made
      /\ instance'.made = instance.made => instance'.version = instance.version
  BY InstanceMovesOn
<1>3. CASE UNCHANGED resource
  BY <1>1, <1>2, <1>3 DEF ReportsItsOwn
<1>4. CASE resource' = [resource EXCEPT !.ready = FALSE]
  <2>1. /\ ~resource'.ready /\ resource'.id = resource.id /\ resource'.version = resource.version
        /\ resource'.observed = resource.observed
    BY <1>0, <1>4 DEF ResourceObject
  <2> QED
    BY <1>1, <1>2, <2>1 DEF ReportsItsOwn
<1>5. CASE resource' = [resource EXCEPT !.exists = TRUE]
  <2>1. /\ (resource'.ready <=> resource.ready) /\ resource'.id = resource.id
        /\ resource'.version = resource.version /\ resource'.observed = resource.observed
    BY <1>0, <1>5 DEF ResourceObject
  <2> QED
    BY <1>1, <1>2, <2>1 DEF ReportsItsOwn
<1>6. CASE resource' = [resource EXCEPT !.version = @ + 1]
  <2>1. /\ resource'.id = resource.id
        /\ resource'.version = resource.version + 1 /\ resource'.observed = resource.observed
    BY <1>0, <1>6 DEF ResourceObject
  <2> QED
    BY <1>1, <1>2, <2>1 DEF ReportsItsOwn
<1>7. CASE MakeInstance /\ ReflectInstance(instance')
  <2>1. ~instance'.ready
    BY <1>7 DEF MakeInstance
  <2>2. /\ ~resource'.ready /\ resource'.id = resource.id
        /\ resource'.version = resource.version /\ resource'.observed = resource.version
    BY <1>0, <1>7, <2>1 DEF ReflectInstance, ResourceObject
  <2> QED
    BY <1>1, <1>2, <2>2 DEF ReportsItsOwn
<1>8. CASE KeepInstance
  <2>1. /\ ReflectInstance(cachedInstance) /\ instance' = instance
        /\ cachedInstance.version = resource.version
    BY <1>8 DEF KeepInstance, InstanceIsDesired
  <2>2. /\ (resource'.ready <=> cachedInstance.ready)
        /\ resource'.id = (IF cachedInstance.ready THEN cachedInstance.made ELSE resource.id)
        /\ resource'.version = resource.version /\ resource'.observed = resource.version
    BY <1>0, <2>1 DEF ReflectInstance, ResourceObject
  <2>3. resource'.id <= instance.made
    BY <1>1, <2>2
  <2>4. resource'.ready /\ resource'.id = instance.made => instance.version = resource.version
    BY <2>1, <2>2 DEF InstancePast
  <2> QED
    BY <1>1, <2>1, <2>2, <2>3, <2>4 DEF ReportsItsOwn
<1> QED
  BY <1>3, <1>4, <1>5, <1>6, <1>7, <1>8, ResourceStep DEF ResourceStepped

\* The types, with what they rest on.
LEMMA TypesSplit == TypeOK <=> Typed /\ RestTyped /\ resource.id <= instance.made
<1>1. ASSUME instance \in InstanceObject
      PROVE  resource \in [exists : BOOLEAN, version : Nat, observed : Nat, ready : BOOLEAN,
                           id : 0..instance.made]
             <=> resource \in ResourceObject /\ resource.id <= instance.made
  <2>1. instance.made \in Nat
    BY <1>1 DEF InstanceObject
  <2> QED
    BY <2>1 DEF ResourceObject
<1> QED
  BY <1>1 DEF TypeOK, Typed, RestTyped, ClientResourceObject

LEMMA InitInstance == Init => InstanceInv
<1> SUFFICES ASSUME Init PROVE InstanceInv
  OBVIOUS
<1>1. resource.id = 0 /\ resource.observed = 0 /\ resource.version = 1 /\ ~resource.ready
      /\ instance = NoInstance /\ cachedInstance = NoInstance
  BY DEF Init
<1>2. instance.made = 0
  BY <1>1 DEF NoInstance
<1>3. Typed /\ RestTyped /\ resource.id <= instance.made
  BY <1>1, <1>2, InitKeeps, InitRestTyped DEF IInv
<1>4. InstancePast(cachedInstance, instance)
  BY <1>1, <1>2 DEF InstancePast
<1>5. ReportsItsOwn
  BY <1>1 DEF ReportsItsOwn
<1> QED
  BY <1>3, <1>4, <1>5, TypesSplit DEF InstanceInv

LEMMA NextInstance == IInv /\ IInv' /\ InstanceInv /\ [Next]_vars => InstanceInv'
<1> SUFFICES ASSUME IInv, IInv', InstanceInv, [Next]_vars PROVE InstanceInv'
  OBVIOUS
<1>1. RestTyped /\ resource.id <= instance.made
  BY TypesSplit DEF InstanceInv
<1>2. RestTyped' /\ (resource'.id <= instance'.made) /\ ReportsItsOwn'
  BY <1>1, NextRestTyped, NextReportsItsOwn DEF InstanceInv
<1>3. Typed'
  BY DEF IInv
<1>4. instance' \in InstanceObject
  BY <1>2 DEF RestTyped
<1>5. resource' \in [exists : BOOLEAN, version : Nat, observed : Nat, ready : BOOLEAN,
                     id : 0..instance'.made]
  <2>1. instance'.made \in Nat /\ resource' \in ResourceObject
    BY <1>2 DEF RestTyped, InstanceObject
  <2> QED
    BY <1>2, <2>1 DEF ResourceObject
<1>6. TypeOK'
  BY <1>2, <1>3, <1>5 DEF TypeOK, Typed, RestTyped, ClientResourceObject
<1> QED
  BY <1>1, <1>2, <1>6, InstanceMovesOn DEF InstanceInv

\* What is made, reported and published has the shape the code gives it, and the
\* id a resource reports is that of a ServiceInstance that was made for it.
THEOREM ResourceTypes == Spec => []TypeOK
<1>1. InstanceInv => TypeOK
  BY DEF InstanceInv
<1> QED
  BY <1>1, InitInstance, NextInstance, HeldThroughout, PTL DEF Spec

\* An edit of a resource the webhook turned down is never reported as done, for
\* any number of edits, of instances that go and are made again, and of
\* requests on old copies.
THEOREM ResourceIsServed == Spec => []ReadyResourceIsServed
<1>1. InstanceInv => ReadyResourceIsServed
  BY DEF InstanceInv, ReportsItsOwn, ReadyResourceIsServed
<1> QED
  BY <1>1, InitInstance, NextInstance, HeldThroughout, PTL DEF Spec

-----------------------------------------------------------------------------
(* A definition at rest is honest *)


\* Everything is there whose name is free, and the definition is Ready exactly
\* when all of that is and its manager runs.
Honest ==
    /\ \A k \in Kinds : child[k].state = "absent" => k \in taken
    /\ Ready(definition) <=> (\A k \in Kinds : child[k].state = "ready") /\ running

\* A request that leaves the definition and its children as they were has
\* reported what it found.
LEMMA ManageReports ==
    ASSUME Typed, RestTyped, "definition" \in queue, ManageDefinition(Kinds, {}),
           "definition" \notin queue', cachedDefinition' = definition', cachedChild' = child'
    PROVE  Honest'
<1> DEFINE R == Reflected(Kinds, {})
           C == IF running' /\ Starts(R) THEN R \union {"running"} ELSE R
<1>1. /\ cachedDefinition' = cachedDefinition /\ cachedChild' = cachedChild /\ taken' = taken
      /\ running' = (running \/ Starts(R))
      /\ child' = [k \in Kinds |-> IF Makes(k) THEN MadeChild(k, child[k]) ELSE child[k]]
  BY DEF ManageDefinition
<1>2. WriteStatus(C, {})
  BY DEF ManageDefinition
<1>3. definition = cachedDefinition /\ definition' = [definition EXCEPT !.finalizer = TRUE,
                                                                     !.conditions = C]
  BY <1>2 DEF WriteStatus
<1>4. definition'.conditions = C /\ definition'.conditions = cachedDefinition.conditions
  BY <1>1, <1>3 DEF Typed, DefinitionObject
<1>5. ASSUME NEW k \in Kinds
      PROVE  /\ ~Makes(k) /\ child'[k] = child[k] /\ cachedChild[k] = child[k]
             /\ child[k].state \in {"absent", "new", "ready"}
  <2>1. child[k] \in ChildObject
    BY DEF RestTyped
  <2>2. ~Makes(k)
    <3>1. SUFFICES ASSUME Makes(k) PROVE FALSE
      OBVIOUS
    <3>2. child'[k].state = "new" /\ cachedChild[k].state = "absent"
      BY <1>1, <2>1, <3>1, ChildWritten DEF Makes
    <3> QED
      BY <1>1, <3>2
  <2> QED
    BY <1>1, <2>1, <2>2 DEF ChildObject
<1>6. ASSUME NEW k \in Kinds, child'[k].state = "absent"
      PROVE  k \in taken'
  BY <1>1, <1>5, <1>6 DEF Makes, NameIsTaken
<1>7. \A k \in Kinds : k \in R <=> child'[k].state = "ready"
  BY <1>5 DEF Reflected, ChildReady
<1>8. "running" \notin Kinds /\ {"instances", "clients"} \subseteq Kinds
  BY KindsAssumption
<1>9. C \subseteq Conditions
  BY ReflectedTyped
<1>10. CASE \A k \in Kinds : child'[k].state = "ready"
  <2>1. Kinds \subseteq R
    BY <1>7, <1>10
  <2>2. Starts(R)
    BY <1>8, <2>1 DEF Starts
  <2>3. running' /\ C = Conditions
    BY <1>1, <1>9, <2>1, <2>2 DEF Conditions
  <2>4. Ready(definition)'
    BY <1>4, <2>3 DEF Ready, Conditions
  <2> QED
    BY <1>6, <1>10, <2>3, <2>4 DEF Honest
<1>11. ASSUME NEW k \in Kinds, child'[k].state # "ready"
       PROVE  Honest'
  <2>1. k \notin C
    BY <1>7, <1>8, <1>11
  <2>2. ~Ready(definition)'
    BY <1>4, <2>1 DEF Ready, Conditions
  <2> QED
    BY <1>6, <1>11, <2>2 DEF Honest
<1> QED
  BY <1>10, <1>11

\* A change of a child differs from what the cache shows.
ChildChanged == \E k \in Kinds : child'[k] # cachedChild'[k]

LEMMA ChildrenDiffer ==
    ASSUME RestTyped, NEW k \in Kinds, DeleteChild(k) \/ ChildReports(k)
    PROVE  ChildChanged
<1>1. child[k] \in ChildObject /\ child \in [Kinds -> ChildObject]
  BY DEF RestTyped
<1>2. cachedChild' = cachedChild
  BY DEF DeleteChild, ChildReports
<1>3. CASE DeleteChild(k)
  <2>1. child'[k].state = "absent"
    BY <1>1, <1>3, ChildWritten DEF DeleteChild, Deleted
  <2> QED
    BY <1>2, <1>3, <2>1 DEF DeleteChild, Deletable, ChildChanged
<1>4. CASE ChildReports(k)
  <2>1. child'[k].state # child[k].state
    BY <1>1, <1>4 DEF ChildReports, ChildObject
  <2> QED
    BY <1>2, <1>4, <2>1 DEF ChildReports, ChildChanged
<1> QED
  BY <1>3, <1>4

\* Every other step of the definition queues it, or leaves it alone.
LEMMA NextHonest ==
    ASSUME Typed, RestTyped, QuietDefinitionIsHonest, [Next]_vars
    PROVE  QuietDefinitionIsHonest'
<1> SUFFICES ASSUME "definition" \notin queue', ~unannounced', cachedDefinition' = definition',
                    cachedChild' = child', definition'.phase = "live"
             PROVE  Honest'
  BY DEF QuietDefinitionIsHonest, QuietDefinition, Honest, Ready, Conditions
<1>0. \A S : "definition" \in S => ~Wake(S)
  BY DEF Wake, Items
<1>1. ASSUME UNCHANGED <<definition, cachedDefinition, child, cachedChild, taken, running,
                         unannounced>>,
             "definition" \in queue' <=> "definition" \in queue
      PROVE  Honest'
  BY <1>1 DEF QuietDefinitionIsHonest, QuietDefinition, Honest, Ready
<1>2. CASE ReconcileDefinition
  <2>1. "definition" \in queue
    BY <1>2 DEF ReconcileDefinition
  <2>2. CASE FinalizeDefinition
    <3>1. definition \in DefinitionObject /\ cachedDefinition.phase = "deleting"
          /\ cachedDefinition' = cachedDefinition
      BY <2>2 DEF Typed, FinalizeDefinition
    <3> QED
      BY <3>1
  <2> QED
    BY <1>2, <2>1, <2>2, ManageReports DEF ReconcileDefinition
<1>3. CASE DefinitionGone
  BY <1>3 DEF DefinitionGone, definitions
<1>4. ASSUME NEW k \in Kinds, DefinitionFails(k)
      PROVE  FALSE
  BY <1>4 DEF DefinitionFails, ManageDefinition, WriteStatus
<1>5. CASE ResourcesNext
  <2>1. UNCHANGED <<definitions, running, unannounced>>
    BY <1>5 DEF ResourcesNext, MakeInstance, KeepInstance, InstanceRejected, MakeInstanceFails,
       ManageClient, ManageClientFails, ResourceRequest, ClientRequest
  <2>2. "definition" \in queue' <=> "definition" \in queue
    BY <1>5 DEF ResourcesNext, MakeInstance, KeepInstance, InstanceRejected, MakeInstanceFails,
       ManageClient, ManageClientFails, RejectionReflected
  <2> QED
    BY <1>1, <2>1, <2>2 DEF definitions
<1>6. CASE CreateResource \/ CreateClient \/ EditResource \/ EditClient \/ DeleteInstance
  <2>1. UNCHANGED <<definitions, running, unannounced>>
    BY <1>6 DEF CreateResource, CreateClient, EditResource, EditClient, DeleteInstance
  <2>2. "definition" \in queue' <=> "definition" \in queue
    BY <1>6 DEF CreateResource, CreateClient, EditResource, EditClient, DeleteInstance, Wake
  <2> QED
    BY <1>1, <2>1, <2>2 DEF definitions
<1>7. CASE InstanceProvisioned \/ ClientBound \/ SyncInstance \/ SyncClient
  <2>1. UNCHANGED <<definitions, running, unannounced>>
    BY <1>7 DEF InstanceProvisioned, ClientBound, SyncInstance, SyncClient
  <2>2. "definition" \in queue' <=> "definition" \in queue
    BY <1>7 DEF InstanceProvisioned, ClientBound, SyncInstance, SyncClient, Wake
  <2> QED
    BY <1>1, <2>1, <2>2 DEF definitions
<1>8. CASE SyncDefinition \/ Resync \/ Restart
  BY <1>0, <1>8 DEF SyncDefinition, Resync, Restart
<1>9. ASSUME NEW k \in Kinds, SyncChild(k) \/ FreeName(k) \/ DeleteChild(k) \/ ChildReports(k)
      PROVE  FALSE
  BY <1>0, <1>9, ChildrenDiffer DEF SyncChild, FreeName, ChildChanged
<1>10. CASE DeleteDefinition
  BY <1>10, DefinitionEnds DEF DeleteDefinition, Typed
<1>11. CASE UNCHANGED vars
  BY <1>1, <1>11 DEF vars, definitions
<1> QED
  BY <1>2, <1>3, <1>4, <1>5, <1>6, <1>7, <1>8, <1>9, <1>10, <1>11
     DEF Next, DefinitionNext, EnvironmentNext

\* No event, restart, freed name or lost child leaves a definition at rest with
\* something missing, or Ready when it is not, for any number of them.
THEOREM DefinitionIsHonest == Spec => []QuietDefinitionIsHonest
<1>1. Init => QuietDefinitionIsHonest
  BY DEF Init, QuietDefinitionIsHonest, QuietDefinition
<1>2. IInv /\ InstanceInv /\ QuietDefinitionIsHonest /\ [Next]_vars => QuietDefinitionIsHonest'
  BY NextHonest, TypesSplit DEF InstanceInv
<1>3. Spec => []InstanceInv
  BY InitInstance, NextInstance, HeldThroughout, PTL DEF Spec
<1> QED
  BY <1>1, <1>2, <1>3, HeldThroughout, PTL DEF Spec

-----------------------------------------------------------------------------
(* A client resource at rest reports the binding there is *)

\* What a step does to the ServiceClient, and to the cache of it.
ClientStepped ==
    \/ UNCHANGED <<client, cachedClient>>
    \/ cachedClient' = client /\ client' = client
    \/ /\ ManageClient /\ client = cachedClient /\ cachedClient' = cachedClient
       /\ client' = DesiredClient(client)
    \/ ClientBound

LEMMA ClientStep ==
    ASSUME [Next]_vars
    PROVE  ClientStepped
<1>1. CASE ReconcileDefinition \/ DefinitionGone \/ \E k \in Kinds : DefinitionFails(k)
  BY <1>1 DEF ReconcileDefinition, ManageDefinition, FinalizeDefinition, DefinitionGone,
     DefinitionFails, resources, ClientStepped
<1>2. CASE MakeInstance \/ KeepInstance \/ InstanceRejected \/ MakeInstanceFails \/ ManageClientFails
  BY <1>2 DEF MakeInstance, KeepInstance, InstanceRejected, MakeInstanceFails, ManageClientFails,
     ResourceRequest, ClientRequest, ClientStepped
<1>3. CASE ManageClient
  BY <1>3 DEF ManageClient, ClientRequest, ClientStepped
<1>4. CASE SyncClient \/ Restart
  BY <1>4 DEF SyncClient, Restart, ClientStepped
<1>5. CASE \/ CreateResource \/ CreateClient \/ EditResource \/ EditClient
           \/ DeleteDefinition \/ DeleteInstance
           \/ \E k \in Kinds : DeleteChild(k) \/ FreeName(k) \/ ChildReports(k) \/ SyncChild(k)
           \/ InstanceProvisioned \/ SyncDefinition \/ SyncInstance \/ Resync
  BY <1>5 DEF CreateResource, CreateClient, EditResource, EditClient, DeleteDefinition,
     DeleteInstance, DeleteChild, FreeName, ChildReports, SyncChild, InstanceProvisioned,
     SyncDefinition, SyncInstance, Resync, resources, ClientStepped
<1>6. CASE UNCHANGED vars
  BY <1>6 DEF vars, resources, ClientStepped
<1> QED
  BY <1>1, <1>2, <1>3, <1>4, <1>5, <1>6 DEF Next, DefinitionNext, ResourcesNext, EnvironmentNext,
     ClientStepped

\* The versions of what clients ask for only grow.
LEMMA ClientVersionsGrow ==
    ASSUME RestTyped, [Next]_vars
    PROVE  clientResource.version <= clientResource'.version
<1>0. clientResource \in ClientResourceObject /\ clientResource.version \in Nat
  BY DEF RestTyped, ClientResourceObject
<1>1. CASE clientResource' = clientResource
  BY <1>0, <1>1
<1>2. CASE clientResource' = [clientResource EXCEPT !.exists = TRUE]
  BY <1>0, <1>2 DEF ClientResourceObject
<1>3. CASE clientResource' = [clientResource EXCEPT !.version = @ + 1]
  BY <1>0, <1>3 DEF ClientResourceObject
<1>4. CASE clientResource' = [clientResource EXCEPT !.ready = FALSE]
  BY <1>0, <1>4 DEF ClientResourceObject
<1>5. ASSUME NEW c, ReflectClient(c)
      PROVE  clientResource.version <= clientResource'.version
  BY <1>0, <1>5 DEF ReflectClient, ClientResourceObject
<1>6. CASE ReconcileDefinition \/ DefinitionGone \/ \E k \in Kinds : DefinitionFails(k)
  BY <1>1, <1>6 DEF ReconcileDefinition, ManageDefinition, FinalizeDefinition, DefinitionGone,
     DefinitionFails, resources
<1>7. CASE ResourcesNext
  BY <1>1, <1>4, <1>5, <1>7 DEF ResourcesNext, MakeInstance, KeepInstance, InstanceRejected,
     MakeInstanceFails, ManageClient, ManageClientFails, ResourceRequest
<1>8. CASE CreateClient \/ EditClient
  BY <1>2, <1>3, <1>8 DEF CreateClient, EditClient
<1>9. CASE \/ CreateResource \/ EditResource \/ DeleteDefinition \/ DeleteInstance
           \/ \E k \in Kinds : DeleteChild(k) \/ FreeName(k) \/ ChildReports(k) \/ SyncChild(k)
           \/ InstanceProvisioned \/ ClientBound
           \/ SyncDefinition \/ SyncInstance \/ SyncClient \/ Resync \/ Restart
  BY <1>1, <1>9 DEF CreateResource, EditResource, DeleteDefinition, DeleteInstance, DeleteChild,
     FreeName, ChildReports, SyncChild, InstanceProvisioned, ClientBound, SyncDefinition,
     SyncInstance, SyncClient, Resync, Restart, resources
<1>10. CASE UNCHANGED vars
  BY <1>1, <1>10 DEF vars, resources
<1> QED
  BY <1>6, <1>7, <1>8, <1>9, <1>10 DEF Next, DefinitionNext, EnvironmentNext

\* A ServiceClient is what its fields are.
LEMMA ClientParts ==
    ASSUME NEW a \in ClientObject, NEW b \in ClientObject, a.exists <=> b.exists,
           a.ready <=> b.ready, a.instance = b.instance, a.version = b.version,
           a.binding.instance = b.binding.instance, a.binding.version = b.binding.version
    PROVE  a = b
<1>1. a.binding = b.binding
  BY DEF ClientObject, Bindings
<1>2. a.exists = b.exists /\ a.ready = b.ready
  BY DEF ClientObject
<1> QED
  BY <1>1, <1>2 DEF ClientObject

\* Nothing in a ServiceClient goes back, so that whatever is done to it leaves
\* the cache behind.
LEMMA ClientMovesOn ==
    ASSUME RestTyped, RestTyped', InstancePast(cachedInstance, instance),
           ClientPast(cachedClient, client), AsksForWhatIsKnown, [Next]_vars
    PROVE  /\ ClientPast(cachedClient', client') /\ AsksForWhatIsKnown'
           /\ cachedClient' = client' => client' = client
<1> DEFINE Numbers(c) == /\ c.instance \in Nat /\ c.version \in Nat
                         /\ c.binding.instance \in Nat /\ c.binding.version \in Nat
<1>0. client \in ClientObject /\ cachedClient \in ClientObject /\ client' \in ClientObject
  BY DEF RestTyped
<1>1. Numbers(client) /\ Numbers(cachedClient)
  BY <1>0 DEF ClientObject, Bindings
<1>2. /\ cachedInstance.made \in Nat /\ cachedInstance'.made \in Nat
      /\ clientResource.version \in Nat /\ clientResource'.version \in Nat
  BY DEF RestTyped, InstanceObject, ClientResourceObject
<1>3. cachedInstance.made <= cachedInstance'.made /\ clientResource.version <= clientResource'.version
  BY InstanceMovesOn, ClientVersionsGrow
<1>4. /\ client.instance <= cachedInstance'.made /\ client.version <= clientResource'.version
      /\ client.binding.instance <= client.instance /\ client.binding.version <= client.version
  BY <1>1, <1>2, <1>3 DEF AsksForWhatIsKnown
<1>5. CASE UNCHANGED <<client, cachedClient>>
  BY <1>4, <1>5 DEF AsksForWhatIsKnown
<1>6. CASE cachedClient' = client /\ client' = client
  <2>1. ClientPast(client, client)
    BY <1>1 DEF ClientPast
  <2> QED
    BY <1>4, <1>6, <2>1 DEF AsksForWhatIsKnown
<1>7. CASE /\ ManageClient /\ client = cachedClient /\ cachedClient' = cachedClient
           /\ client' = DesiredClient(client)
  <2>1. /\ client'.exists /\ client'.ready = client.ready /\ client'.binding = client.binding
        /\ client'.instance = cachedInstance.made /\ client'.version = clientResource.version
    BY <1>0, <1>7 DEF DesiredClient, ClientObject
  <2>2. /\ client.instance <= cachedInstance.made /\ client.version <= clientResource.version
    BY DEF AsksForWhatIsKnown
  <2>3. ClientPast(client, client')
    BY <1>1, <2>1, <2>2 DEF ClientPast
  <2>4. AsksForWhatIsKnown'
    <3>1. /\ client.binding.instance <= cachedInstance.made
          /\ client.binding.version <= clientResource.version
      BY <1>1, <1>2, <1>4, <2>2
    <3> QED
      BY <1>3, <2>1, <3>1 DEF AsksForWhatIsKnown
  <2> QED
    BY <1>7, <2>3, <2>4
<1>8. CASE ClientBound
  <2>1. /\ client.exists /\ client' # client /\ cachedClient' = cachedClient
        /\ client' = [client EXCEPT !.ready = TRUE,
                          !.binding = [instance |-> client.instance, version |-> client.version]]
    BY <1>8 DEF ClientBound
  <2>2. /\ client'.exists /\ client'.ready
        /\ client'.instance = client.instance /\ client'.version = client.version
        /\ client'.binding.instance = client.instance /\ client'.binding.version = client.version
    BY <1>0, <2>1 DEF ClientObject
  <2>3. ClientPast(cachedClient, client')
    <3>1. /\ cachedClient.instance <= client.instance /\ cachedClient.version <= client.version
          /\ cachedClient.binding.instance <= client.binding.instance
          /\ cachedClient.binding.version <= client.binding.version
      BY DEF ClientPast
    <3>2. /\ cachedClient.binding.instance <= client.instance
          /\ cachedClient.binding.version <= client.version
      BY <1>1, <1>4, <3>1
    <3> QED
      BY <2>2, <3>1, <3>2 DEF ClientPast
  <2>4. AsksForWhatIsKnown'
    BY <1>1, <1>4, <2>2 DEF AsksForWhatIsKnown
  <2>5. ASSUME cachedClient = client'
        PROVE  FALSE
    <3>1. client.ready /\ client.exists
      BY <2>1, <2>2, <2>5 DEF ClientPast
    <3>2. /\ client'.binding.instance <= client.binding.instance
          /\ client'.binding.version <= client.binding.version
      BY <2>5 DEF ClientPast
    <3>3. /\ client'.binding.instance = client.binding.instance
          /\ client'.binding.version = client.binding.version
      BY <1>1, <1>4, <2>2, <3>2
    <3> QED
      BY <1>0, <2>1, <2>2, <3>1, <3>3, ClientParts
  <2> QED
    BY <2>1, <2>3, <2>4, <2>5
<1> QED
  BY <1>5, <1>6, <1>7, <1>8, ClientStep DEF ClientStepped

\* A manager that starts queues every resource.
LEMMA StartListsClients ==
    ASSUME NEW done, NEW failed, ManageDefinition(done, failed), clientResource.exists,
           "client" \notin queue', running'
    PROVE  running /\ "client" \notin queue
<1>1. Listed \subseteq queue'
  BY DEF ManageDefinition, WriteStatus
<1>2. running
  BY <1>1 DEF Listed, Items
<1> QED
  BY <1>2 DEF ManageDefinition, WriteStatus

\* A client resource that nothing will queue is told of every change.
LEMMA NextReportsItsClient ==
    ASSUME RestTyped, RestTyped', InstancePast(cachedInstance, instance), ClientInv, [Next]_vars
    PROVE  ReportsItsClient'
<1> SUFFICES ASSUME "client" \notin queue', running', clientResource'.exists,
                    cachedInstance' = instance', instance'.exists, cachedClient' = client'
             PROVE  /\ client'.exists
                    /\ client'.instance = instance'.made /\ client'.version = clientResource'.version
                    /\ clientResource'.ready = client'.ready
                    /\ client'.ready => clientResource'.binding = client'.binding
  BY DEF ReportsItsClient
<1>0. client' = client /\ instance' = instance
  BY InstanceMovesOn, ClientMovesOn DEF ClientInv
<1>1. ASSUME UNCHANGED <<clientResource, cachedClient, cachedInstance>>, running,
             "client" \notin queue
      PROVE  /\ client'.exists
             /\ client'.instance = instance'.made /\ client'.version = clientResource'.version
             /\ clientResource'.ready = client'.ready
             /\ client'.ready => clientResource'.binding = client'.binding
  BY <1>0, <1>1 DEF ClientInv, ReportsItsClient
<1>2. ASSUME NEW S, Wake(S), clientResource.exists, running' = running
      PROVE  "client" \notin S /\ "client" \notin queue
  BY <1>2 DEF Wake, Items
<1>3. CASE ReconcileDefinition \/ \E k \in Kinds : DefinitionFails(k)
  <2>1. CASE FinalizeDefinition
    BY <2>1 DEF FinalizeDefinition
  <2>2. ASSUME NEW done, NEW failed, ManageDefinition(done, failed)
        PROVE  UNCHANGED resources /\ running /\ "client" \notin queue
    <3>1. UNCHANGED resources
      BY <2>2 DEF ManageDefinition
    <3> QED
      BY <2>2, <3>1, StartListsClients DEF resources
  <2> QED
    BY <1>1, <1>3, <2>1, <2>2 DEF ReconcileDefinition, DefinitionFails, resources
<1>4. CASE DefinitionGone \/ Resync
  BY <1>1, <1>2, <1>4 DEF DefinitionGone, Resync, resources
<1>5. CASE MakeInstance \/ KeepInstance \/ InstanceRejected \/ MakeInstanceFails
  <2>1. UNCHANGED <<clientResource, cachedClient, cachedInstance, running>>
    BY <1>5 DEF MakeInstance, KeepInstance, InstanceRejected, MakeInstanceFails, ResourceRequest
  <2>2. "client" \notin queue
    BY <1>5 DEF MakeInstance, KeepInstance, InstanceRejected, MakeInstanceFails, RejectionReflected
  <2> QED
    BY <1>1, <2>1, <2>2
<1>6. CASE ManageClient
  <2>1. /\ cachedInstance' = cachedInstance /\ cachedInstance = instance
        /\ cachedClient' = cachedClient /\ cachedClient = client
    BY <1>0, <1>6 DEF ManageClient, ClientRequest
  <2>2. client' = DesiredClient(client) /\ ReflectClient(client')
    BY <1>6, <2>1 DEF ManageClient
  <2>3. client \in ClientObject /\ client' \in ClientObject /\ clientResource \in ClientResourceObject
    BY DEF RestTyped
  <2>4. /\ client'.exists
        /\ client'.instance = cachedInstance.made /\ client'.version = clientResource.version
    BY <2>2, <2>3 DEF DesiredClient, ClientObject
  <2>5. /\ clientResource'.version = clientResource.version
        /\ clientResource'.ready = client'.ready
        /\ client'.ready => clientResource'.binding = client'.binding
    BY <2>2, <2>3 DEF ReflectClient, ClientResourceObject
  <2> QED
    BY <1>0, <2>1, <2>4, <2>5
<1>7. CASE ManageClientFails
  BY <1>7 DEF ManageClientFails, ClientRequest
<1>8. CASE CreateClient
  BY <1>8 DEF CreateClient
<1>9. CASE EditClient
  <2>1. clientResource.exists
    BY <1>9 DEF EditClient
  <2> QED
    BY <1>2, <1>9, <2>1 DEF EditClient
<1>10. CASE SyncInstance \/ SyncClient
  <2>1. clientResource.exists /\ running' = running
    BY <1>10 DEF SyncInstance, SyncClient
  <2>2. PICK S \in {{"resource", "client"}, {"client"}} : Wake(S)
    BY <1>10 DEF SyncInstance, SyncClient
  <2>3. "client" \in S
    OBVIOUS
  <2> QED
    BY <1>2, <2>1, <2>2, <2>3
<1>11. CASE Restart
  BY <1>11 DEF Restart
<1>12. CASE CreateResource
  BY <1>1, <1>12 DEF CreateResource
<1>13. CASE EditResource \/ SyncDefinition
  BY <1>1, <1>2, <1>13 DEF EditResource, SyncDefinition, resources
<1>14. ASSUME NEW k \in Kinds, SyncChild(k)
       PROVE  UNCHANGED resources /\ running /\ "client" \notin queue
  BY <1>2, <1>14 DEF SyncChild, resources
<1>15. CASE \/ DeleteDefinition \/ DeleteInstance \/ InstanceProvisioned \/ ClientBound
            \/ \E k \in Kinds : DeleteChild(k) \/ FreeName(k) \/ ChildReports(k)
            \/ UNCHANGED vars
  BY <1>1, <1>15 DEF DeleteDefinition, DeleteInstance, InstanceProvisioned, ClientBound,
     DeleteChild, FreeName, ChildReports, vars, resources
<1> QED
  BY <1>1, <1>3, <1>4, <1>5, <1>6, <1>7, <1>8, <1>9, <1>10, <1>11, <1>12, <1>13, <1>14, <1>15
     DEF Next, DefinitionNext, ResourcesNext, EnvironmentNext, resources

\* A client resource publishes the binding its ServiceClient has, once all is
\* told and done, whatever it published before.
THEOREM ClientResourceIsCurrent == Spec => []QuietClientIsCurrent
<1>1. Init => ClientInv
  <2> SUFFICES ASSUME Init PROVE ClientInv
    OBVIOUS
  <2>1. client = NoClient /\ cachedClient = NoClient /\ cachedInstance = NoInstance
        /\ clientResource.version = 1 /\ ~running
    BY DEF Init
  <2>2. ClientPast(cachedClient, client)
    BY <2>1 DEF ClientPast, NoClient, NoBinding
  <2>3. AsksForWhatIsKnown
    BY <2>1 DEF AsksForWhatIsKnown, NoClient, NoBinding, NoInstance
  <2> QED
    BY <2>1, <2>2, <2>3 DEF ClientInv, ReportsItsClient
<1>2. InstanceInv /\ InstanceInv' /\ ClientInv /\ [Next]_vars => ClientInv'
  <2> SUFFICES ASSUME InstanceInv, InstanceInv', ClientInv, [Next]_vars PROVE ClientInv'
    OBVIOUS
  <2>1. RestTyped /\ InstancePast(cachedInstance, instance)
    BY TypesSplit DEF InstanceInv
  <2>2. RestTyped'
    BY <2>1, NextRestTyped
  <2> QED
    BY <2>1, <2>2, ClientMovesOn, NextReportsItsClient DEF ClientInv
<1>3. ClientInv => QuietClientIsCurrent
  <2> SUFFICES ASSUME ClientInv, QuietResources, running, clientResource.exists, ClientSettled,
                      instance.exists
               PROVE  /\ clientResource.ready
                      /\ clientResource.binding = [instance |-> instance.made,
                                                    version |-> clientResource.version]
    BY DEF QuietClientIsCurrent
  <2>1. /\ client.exists
        /\ client.instance = instance.made /\ client.version = clientResource.version
        /\ clientResource.ready = client.ready
        /\ client.ready => clientResource.binding = client.binding
    BY DEF ClientInv, ReportsItsClient, QuietResources
  <2>2. client.ready /\ client.binding = [instance |-> client.instance, version |-> client.version]
    BY <2>1 DEF ClientSettled
  <2> QED
    BY <2>1, <2>2
<1>4. Spec => []InstanceInv
  BY InitInstance, NextInstance, HeldThroughout, PTL DEF Spec
<1>5. Spec => []ClientInv
  BY <1>1, <1>2, <1>4, PTL DEF Spec
<1> QED
  BY <1>3, <1>5, PTL
=============================================================================
