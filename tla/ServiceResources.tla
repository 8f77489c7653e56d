-------------------------- MODULE ServiceResources --------------------------
(***************************************************************************)
(* A ServiceResourceDefinition gives a service kinds of its own: it keeps  *)
(* a lifecycle, two CustomResourceDefinitions and a ComponentDuck, and,    *)
(* once the former are established, runs a manager whose controllers keep  *)
(* a ServiceInstance for every instance resource and a ServiceClient for   *)
(* every client resource.                                                  *)
(*                                                                         *)
(* One definition, an instance resource and a client resource for it.  A   *)
(* request is one step; it reads the resources as they are, since their    *)
(* status write would fail otherwise, and the rest from the cache.         *)
(***************************************************************************)
EXTENDS Naturals

CONSTANTS
    Kinds,       \* what the definition keeps, to look at
    TakenNames,  \* what somebody else may have a name of
    MaxChanges,  \* bound on what users and the world outside do
    MaxFaults    \* bound on failed API calls and restarts

ASSUME KindsAssumption ==
    /\ Kinds \subseteq {"lifecycle", "instances", "clients", "duck"}
    /\ {"lifecycle", "instances", "clients"} \subseteq Kinds
ASSUME NamesAssumption == TakenNames \subseteq Kinds \ {"lifecycle"}
ASSUME ResourceBounds == {MaxChanges, MaxFaults} \subseteq Nat

VARIABLES
    definition,        \* in the API server
    cachedDefinition,  \* the informers' view
    child, cachedChild,
    taken,             \* the names that somebody else has
    running,           \* does the manager of the definition run?
    resource,          \* the instance resource
    instance, cachedInstance,  \* its ServiceInstance
    clientResource,
    client, cachedClient,      \* its ServiceClient
    queue,             \* what the work queues hold
    unannounced,       \* the definition's answer is outdated, and nobody queues it
    changes, faults

definitions == <<definition, cachedDefinition, child, cachedChild, taken>>
resources == <<resource, instance, cachedInstance, clientResource, client, cachedClient>>
bounds == <<changes, faults>>
vars == <<definitions, running, resources, queue, unannounced, bounds>>

\* The order in which the kinds are seen to.
Position == [lifecycle |-> 1, instances |-> 2, clients |-> 3, duck |-> 4]
UpTo(k) == {l \in Kinds : Position[l] <= Position[k]}

\* conditions: those that are True; "running" is ReconcilerRunning.
Conditions == Kinds \union {"running"}
Ready(d) == d.conditions = Conditions

\* made: the lifecycle's name is generated, so that each is another one.
Absent == [state |-> "absent", made |-> 0]
MadeChild(k, c) == [state |-> "new", made |-> IF k = "lifecycle" THEN c.made + 1 ELSE 0]

NoInstance == [exists |-> FALSE, made |-> 0, version |-> 0, lifecycle |-> 0, ready |-> FALSE]
NoBinding == [instance |-> 0, version |-> 0]
NoClient == [exists |-> FALSE, instance |-> 0, version |-> 0, ready |-> FALSE,
             binding |-> NoBinding]

Init ==
    /\ definition = [phase |-> "live", finalizer |-> FALSE, conditions |-> {}]
    /\ cachedDefinition = definition
    /\ child = [k \in Kinds |-> Absent]
    /\ cachedChild = child
    /\ taken \in SUBSET TakenNames
    /\ running = FALSE
    /\ resource = [exists |-> FALSE, version |-> 1, observed |-> 0, ready |-> FALSE, id |-> 0]
    /\ instance = NoInstance /\ cachedInstance = NoInstance
    /\ clientResource = [exists |-> FALSE, version |-> 1, observed |-> 0, ready |-> FALSE,
                         binding |-> NoBinding]
    /\ client = NoClient /\ cachedClient = NoClient
    /\ queue = {"definition"}
    /\ unannounced = FALSE
    /\ changes = 0 /\ faults = 0

Items == {"definition"} \union (IF resource.exists THEN {"resource"} ELSE {})
                          \union (IF clientResource.exists THEN {"client"} ELSE {})

\* The controllers of the resources have a queue only while their manager runs.
Wake(S) == queue' = queue \union (S \intersect (IF running THEN Items ELSE {"definition"}))

-----------------------------------------------------------------------------
(* The controller of the definition *)

\* One whose name is not generated is not made beside another of its name,
\* be it the definition's own that the cache does not have yet.
NameIsTaken(k) == k # "lifecycle" /\ (k \in taken \/ child[k].state # "absent")

Makes(k) == cachedChild[k].state = "absent" /\ ~NameIsTaken(k)

\* A lifecycle that is not in the cache yet must not be made a second time.
LifecycleDelivered == child["lifecycle"].state # "absent" => cachedChild["lifecycle"].state # "absent"

\* Wrong: what is there is taken to be ready.
ChildExists(k) == cachedChild[k].state # "absent"

ChildReady(k) == cachedChild[k].state = "ready"

\* The conditions after the children in done were seen to, of which the one in
\* failed could not be made.
Reflected(done, failed) ==
    (cachedDefinition.conditions \ done) \union {k \in done \ failed : ChildReady(k)}

\* Wrong: the manager is set up when the definition does not say it runs.
StartOnce(conditions) ==
    {"instances", "clients"} \subseteq conditions /\ "running" \notin conditions

\* The CRDs must be established first.
Starts(conditions) == {"instances", "clients"} \subseteq conditions

\* A manager that starts lists the resources.
Listed == IF running' /\ ~running THEN Items \ {"definition"} ELSE {}

\* The status is lost to a conflict if the definition was changed meanwhile.
WriteStatus(conditions, failed) ==
    IF definition = cachedDefinition
    THEN /\ definition' = [definition EXCEPT !.finalizer = TRUE, !.conditions = conditions]
         /\ queue' = (IF failed = {} THEN queue \ {"definition"} ELSE queue) \union Listed
    ELSE /\ UNCHANGED definition
         /\ queue' = queue \union Listed

\* Wrong: the finalizer is added when there is time for it.
AnyCopy == TRUE

\* The finalizer comes first: a patch of a copy that is behind is refused.
HasFinalizer == cachedDefinition.finalizer \/ definition = cachedDefinition

\* A write that fails ends the request, which is repeated.
ManageDefinition(done, failed) ==
    LET conditions == Reflected(done, failed)
    IN /\ cachedDefinition.phase = "live"
       /\ HasFinalizer
       /\ LifecycleDelivered
       /\ child' = [k \in Kinds |-> IF k \in done \ failed /\ Makes(k)
                                    THEN MadeChild(k, child[k]) ELSE child[k]]
       /\ running' = (running \/ (failed = {} /\ Starts(conditions)))
       /\ WriteStatus(IF running' /\ failed = {} /\ Starts(conditions)
                      THEN conditions \union {"running"} ELSE conditions, failed)
       /\ UNCHANGED <<cachedDefinition, cachedChild, taken, resources>>

\* A deletion takes what the cache knows of.  One stays while it is used: a
\* lifecycle's finalizer looks for its ServiceInstances in the cache, and that a
\* CRD takes its resources along is left out.
Deletable(k) ==
    /\ child[k].state # "absent" /\ cachedChild[k].state # "absent"
    /\ k = "lifecycle" => ~cachedInstance.exists
    /\ k = "instances" => ~resource.exists
    /\ k = "clients" => ~clientResource.exists

Deleted(K) == child' = [k \in Kinds |-> IF k \in K THEN [child[k] EXCEPT !.state = "absent"]
                                       ELSE child[k]]

\* What is kept is deleted, then the manager is stopped, and only then the
\* finalizer is cleared.
FinalizeDefinition ==
    /\ cachedDefinition.phase = "deleting"
    /\ Deleted({k \in Kinds : Deletable(k)})
    /\ running' = FALSE
    /\ queue' = IF definition = cachedDefinition THEN {} ELSE queue \intersect {"definition"}
    /\ definition' = IF definition = cachedDefinition
                     THEN [definition EXCEPT !.phase = "gone", !.finalizer = FALSE]
                     ELSE definition
    /\ UNCHANGED <<cachedDefinition, cachedChild, taken, resources>>

ReconcileDefinition ==
    /\ "definition" \in queue
    /\ ManageDefinition(Kinds, {}) \/ FinalizeDefinition
    /\ unannounced' = FALSE
    /\ UNCHANGED bounds

DefinitionGone ==
    /\ "definition" \in queue
    /\ cachedDefinition.phase = "gone"
    /\ queue' = queue \ {"definition"}
    /\ UNCHANGED <<definitions, running, resources, unannounced, bounds>>

DefinitionFails(k) ==
    /\ faults < MaxFaults
    /\ faults' = faults + 1
    /\ "definition" \in queue
    /\ Makes(k)
    /\ ManageDefinition(UpTo(k), {k})
    /\ UNCHANGED <<unannounced, changes>>

-----------------------------------------------------------------------------
(* The controller of instance resources *)

Lifecycle == cachedChild["lifecycle"]

ResourceRequest ==
    /\ running
    /\ "resource" \in queue
    /\ resource.exists
    /\ UNCHANGED <<definitions, running, cachedInstance, clientResource, client, cachedClient,
                   unannounced>>

InstanceIsDesired == cachedInstance.version = resource.version
                     /\ cachedInstance.lifecycle = Lifecycle.made

\* Wrong: the id is read from the spec.
ReflectSpec(i) ==
    resource' = [resource EXCEPT !.observed = resource.version, !.ready = i.ready,
                                 !.id = IF i.ready THEN i.version ELSE @]

\* What the resource reports of a ServiceInstance.
ReflectInstance(i) ==
    resource' = [resource EXCEPT !.observed = resource.version, !.ready = i.ready,
                                 !.id = IF i.ready THEN i.made ELSE @]

\* A lifecycle is needed, or the request is repeated as it is.  A ServiceInstance
\* that has just been made must be in the cache, or a second one were made.
MakeInstance ==
    /\ ResourceRequest
    /\ Lifecycle.state # "absent" /\ ~cachedInstance.exists /\ ~instance.exists
    /\ instance' = [exists |-> TRUE, made |-> instance.made + 1, version |-> resource.version,
                    lifecycle |-> Lifecycle.made, ready |-> FALSE]
    /\ ReflectInstance(instance')
    /\ queue' = queue \ {"resource"}
    /\ UNCHANGED bounds

KeepInstance ==
    /\ ResourceRequest
    /\ Lifecycle.state # "absent" /\ cachedInstance.exists
    /\ InstanceIsDesired
    /\ ReflectInstance(cachedInstance)
    /\ queue' = queue \ {"resource"}
    /\ UNCHANGED <<instance, bounds>>

\* Wrong: the webhook's answer is not looked at.
RejectionIgnored ==
    /\ ReflectInstance(cachedInstance)
    /\ queue' = queue \ {"resource"}

\* The request is repeated.
RejectionReflected ==
    /\ resource' = [resource EXCEPT !.ready = FALSE]
    /\ UNCHANGED queue

\* The webhook allows no change of a ServiceInstance's spec.
InstanceRejected ==
    /\ ResourceRequest
    /\ Lifecycle.state # "absent" /\ cachedInstance.exists
    /\ ~InstanceIsDesired
    /\ RejectionReflected
    /\ UNCHANGED <<instance, bounds>>

MakeInstanceFails ==
    /\ faults < MaxFaults
    /\ faults' = faults + 1
    /\ ResourceRequest
    /\ Lifecycle.state # "absent" /\ ~cachedInstance.exists /\ ~instance.exists
    /\ resource' = [resource EXCEPT !.ready = FALSE]
    /\ UNCHANGED <<instance, queue, changes>>

-----------------------------------------------------------------------------
(* The controller of client resources *)

ClientRequest ==
    /\ running
    /\ "client" \in queue
    /\ clientResource.exists
    /\ cachedInstance.exists
    /\ UNCHANGED <<definitions, running, resource, instance, cachedInstance, cachedClient,
                   unannounced>>

\* Wrong: a ServiceClient that is there is left as it is.
ClientOnce(c) ==
    IF c.exists THEN c
    ELSE [c EXCEPT !.exists = TRUE, !.instance = cachedInstance.made,
                   !.version = clientResource.version]

\* The reference to a resource becomes one to its ServiceInstance.
DesiredClient(c) ==
    [c EXCEPT !.exists = TRUE, !.instance = cachedInstance.made,
              !.version = clientResource.version]

\* The ServiceClient's status is that of its earlier spec until its own
\* controller is done; its generation is not looked at.
ReflectClient(c) ==
    clientResource' = [clientResource EXCEPT !.observed = clientResource.version,
        !.ready = c.ready, !.binding = IF c.ready THEN c.binding ELSE @]

\* Create, update or keep; a copy that is behind cannot be written.
ManageClient ==
    /\ ClientRequest
    /\ client = cachedClient \/ (cachedClient.exists /\ DesiredClient(cachedClient) = cachedClient)
    /\ LET c == IF client = cachedClient THEN DesiredClient(client) ELSE cachedClient
       IN /\ client' = IF client = cachedClient THEN c ELSE client
          /\ ReflectClient(c)
    /\ queue' = queue \ {"client"}
    /\ UNCHANGED bounds

ManageClientFails ==
    /\ ClientRequest
    /\ ~cachedClient.exists \/ DesiredClient(cachedClient) # cachedClient
    /\ \/ client # cachedClient /\ cachedClient.exists /\ UNCHANGED bounds
       \/ client = cachedClient /\ faults < MaxFaults /\ faults' = faults + 1 /\ UNCHANGED changes
    /\ clientResource' = [clientResource EXCEPT !.ready = FALSE]
    /\ UNCHANGED <<client, queue>>

-----------------------------------------------------------------------------
(* Users *)

Changes ==
    /\ changes < MaxChanges
    /\ changes' = changes + 1
    /\ UNCHANGED faults

\* Resources need the CRD of their kind; the client may be there first.
CreateResource ==
    /\ ~resource.exists /\ child["instances"].state = "ready"
    /\ resource' = [resource EXCEPT !.exists = TRUE]
    /\ queue' = queue \union {x \in {"resource"} : running}
    /\ UNCHANGED <<definitions, running, instance, cachedInstance, clientResource, client,
                   cachedClient, unannounced, bounds>>

CreateClient ==
    /\ ~clientResource.exists /\ child["clients"].state = "ready"
    /\ clientResource' = [clientResource EXCEPT !.exists = TRUE]
    /\ queue' = queue \union {x \in {"client"} : running}
    /\ UNCHANGED <<definitions, running, resource, instance, cachedInstance, client,
                   cachedClient, unannounced, bounds>>

EditResource ==
    /\ Changes
    /\ resource.exists
    /\ resource' = [resource EXCEPT !.version = @ + 1]
    /\ Wake({"resource"})
    /\ UNCHANGED <<definitions, running, instance, cachedInstance, clientResource, client,
                   cachedClient, unannounced>>

EditClient ==
    /\ Changes
    /\ clientResource.exists
    /\ clientResource' = [clientResource EXCEPT !.version = @ + 1]
    /\ Wake({"client"})
    /\ UNCHANGED <<definitions, running, resource, instance, cachedInstance, client,
                   cachedClient, unannounced>>

DeleteDefinition ==
    /\ Changes
    /\ definition.phase = "live"
    /\ definition' = [definition EXCEPT !.phase = IF definition.finalizer THEN "deleting" ELSE "gone"]
    /\ UNCHANGED <<cachedDefinition, child, cachedChild, taken, running, resources, queue,
                   unannounced>>

DeleteChild(k) ==
    /\ Changes
    /\ Deletable(k)
    /\ Deleted({k})
    /\ UNCHANGED <<definition, cachedDefinition, cachedChild, taken, running, resources, queue,
                   unannounced>>

\* Nobody tells the definition that a name is free.
FreeName(k) ==
    /\ Changes
    /\ k \in taken
    /\ taken' = taken \ {k}
    /\ unannounced' = TRUE
    /\ UNCHANGED <<definition, cachedDefinition, child, cachedChild, running, resources, queue>>

\* A ServiceInstance stays while it is bound; when it goes it goes at once.
DeleteInstance ==
    /\ Changes
    /\ instance.exists /\ cachedInstance = instance
    /\ client.binding.instance # instance.made
    /\ child["lifecycle"] = [state |-> "ready", made |-> instance.lifecycle]
    /\ instance' = [instance EXCEPT !.exists = FALSE, !.ready = FALSE]
    /\ UNCHANGED <<definitions, running, resource, cachedInstance, clientResource, client,
                   cachedClient, queue, unannounced>>

-----------------------------------------------------------------------------
(* The controllers of what is kept *)

\* The cache holds copies, not events: changes that undo each other are told
\* apart by having the first arrive before the second is made.
ChildReports(k) ==
    /\ child[k].state # "absent"
    /\ \/ child[k].state = "new" /\ UNCHANGED bounds
       \/ child[k].state = "ready" /\ Changes
    /\ cachedChild[k] = child[k]
    /\ child' = [child EXCEPT ![k].state = IF @ = "new" THEN "ready" ELSE "new"]
    /\ UNCHANGED <<definition, cachedDefinition, cachedChild, taken, running, resources, queue,
                   unannounced>>

\* It is provisioned by its own lifecycle.
InstanceProvisioned ==
    /\ instance.exists /\ ~instance.ready
    /\ child["lifecycle"] = [state |-> "ready", made |-> instance.lifecycle]
    /\ instance' = [instance EXCEPT !.ready = TRUE]
    /\ UNCHANGED <<definitions, running, resource, cachedInstance, clientResource, client,
                   cachedClient, queue, unannounced, bounds>>

\* The binding of the newest spec is published once it is bound.
ClientBound ==
    /\ client.exists
    /\ instance.exists /\ instance.ready /\ client.instance = instance.made
    /\ client' = [client EXCEPT !.ready = TRUE,
                     !.binding = [instance |-> client.instance, version |-> client.version]]
    /\ client' # client
    /\ UNCHANGED <<definitions, running, resource, instance, cachedInstance, clientResource,
                   cachedClient, queue, unannounced, bounds>>

-----------------------------------------------------------------------------
(* Informers, the resync, restarts *)

SyncDefinition ==
    /\ cachedDefinition # definition
    /\ cachedDefinition' = definition
    /\ Wake({"definition"})
    /\ UNCHANGED <<definition, child, cachedChild, taken, running, resources, unannounced, bounds>>

SyncChild(k) ==
    /\ cachedChild[k] # child[k]
    /\ cachedChild' = [cachedChild EXCEPT ![k] = child[k]]
    /\ Wake({"definition"} \union (IF k = "lifecycle" THEN {"resource"} ELSE {}))
    /\ UNCHANGED <<definition, cachedDefinition, child, taken, running, resources, unannounced,
                   bounds>>

SyncInstance ==
    /\ cachedInstance # instance
    /\ cachedInstance' = instance
    /\ Wake({"resource", "client"})
    /\ UNCHANGED <<definitions, running, resource, instance, clientResource, client,
                   cachedClient, unannounced, bounds>>

SyncClient ==
    /\ cachedClient # client
    /\ cachedClient' = client
    /\ Wake({"client"})
    /\ UNCHANGED <<definitions, running, resource, instance, cachedInstance, clientResource,
                   client, unannounced, bounds>>

Resync ==
    /\ unannounced
    /\ unannounced' = FALSE
    /\ Wake({"definition"})
    /\ UNCHANGED <<definitions, running, resources, bounds>>

\* A new process starts no manager until it has seen the definition.
Restart ==
    /\ faults < MaxFaults
    /\ faults' = faults + 1
    /\ running' = FALSE
    /\ cachedDefinition' = definition /\ cachedChild' = child
    /\ cachedInstance' = instance /\ cachedClient' = client
    /\ queue' = {"definition"}
    /\ unannounced' = FALSE
    /\ UNCHANGED <<definition, child, taken, resource, instance, clientResource, client, changes>>

DefinitionNext ==
    \/ ReconcileDefinition \/ DefinitionGone
    \/ \E k \in Kinds : DefinitionFails(k)

ResourcesNext ==
    \/ MakeInstance \/ KeepInstance \/ InstanceRejected \/ MakeInstanceFails
    \/ ManageClient \/ ManageClientFails

EnvironmentNext ==
    \/ CreateResource \/ CreateClient \/ EditResource \/ EditClient
    \/ DeleteDefinition \/ DeleteInstance
    \/ \E k \in Kinds : DeleteChild(k) \/ FreeName(k) \/ ChildReports(k) \/ SyncChild(k)
    \/ InstanceProvisioned \/ ClientBound
    \/ SyncDefinition \/ SyncInstance \/ SyncClient \/ Resync \/ Restart

Next == DefinitionNext \/ ResourcesNext \/ EnvironmentNext

Spec == Init /\ [][Next]_vars
=============================================================================
