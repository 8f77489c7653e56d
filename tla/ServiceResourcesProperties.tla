--------------------- MODULE ServiceResourcesProperties ---------------------
(***************************************************************************)
(* What a ServiceResourceDefinition and the resources of its kinds promise. *)
(***************************************************************************)
EXTENDS ServiceResources

DefinitionObject ==
    [phase : {"live", "deleting", "gone"}, finalizer : BOOLEAN, conditions : SUBSET Conditions]
ChildObject == [state : {"absent", "new", "ready"}, made : Nat]
InstanceObject == [exists : BOOLEAN, made : Nat, version : Nat, lifecycle : Nat, ready : BOOLEAN]
Bindings == [instance : Nat, version : Nat]
ClientObject == [exists : BOOLEAN, instance : Nat, version : Nat, ready : BOOLEAN,
                 binding : Bindings]

\* What is stored has the shape the controllers and users write; an id in a
\* status is that of a ServiceInstance.
TypeOK ==
    /\ {definition, cachedDefinition} \subseteq DefinitionObject
    /\ child \in [Kinds -> ChildObject] /\ cachedChild \in [Kinds -> ChildObject]
    /\ taken \subseteq TakenNames
    /\ {running, unannounced} \subseteq BOOLEAN
    /\ resource \in [exists : BOOLEAN, version : Nat, observed : Nat, ready : BOOLEAN,
                     id : 0..instance.made]
    /\ {instance, cachedInstance} \subseteq InstanceObject
    /\ clientResource \in [exists : BOOLEAN, version : Nat, observed : Nat, ready : BOOLEAN,
                           binding : Bindings]
    /\ {client, cachedClient} \subseteq ClientObject
    /\ queue \subseteq {"definition", "resource", "client"}
    /\ changes \in 0..MaxChanges /\ faults \in 0..MaxFaults

QuietDefinition ==
    /\ "definition" \notin queue /\ ~unannounced
    /\ cachedDefinition = definition /\ cachedChild = child

QuietResources ==
    /\ QuietDefinition /\ queue = {}
    /\ cachedInstance = instance /\ cachedClient = client

\* A manager runs only for a definition whose finalizer will have it stopped,
\* although requests work on copies that are behind.
ManagerIsHeld ==
    running => definition.phase # "gone" /\ definition.finalizer

\* When all is quiet a definition has all it keeps, unless somebody else has
\* the name, and is Ready exactly when all of that is and its manager runs:
\* what its status said before a restart, or before a CRD was lost, does not
\* keep it Ready.
QuietDefinitionIsHonest ==
    QuietDefinition /\ definition.phase = "live" =>
        /\ \A k \in Kinds : child[k].state = "absent" => k \in taken
        /\ Ready(definition) <=> (\A k \in Kinds : child[k].state = "ready") /\ running

\* A resource that is Ready, and is not behind its spec, has a ServiceInstance
\* made for just that spec: an edit the webhook turned down is never reported
\* as done.
ReadyResourceIsServed ==
    resource.ready /\ resource.observed = resource.version
    /\ instance.exists /\ instance.made = resource.id =>
        instance.version = resource.version

ClientSettled ==
    client.exists => client.ready /\ client.binding = [instance |-> client.instance,
                                                       version |-> client.version]

\* When all is quiet and the ServiceClient has the binding it asks for, the
\* client resource publishes that one, of the ServiceInstance the resource it
\* names has now, although it may have published another one as Ready before.
QuietClientIsCurrent ==
    QuietResources /\ running /\ clientResource.exists /\ ClientSettled
    /\ instance.exists /\ instance.ready =>
        /\ clientResource.ready
        /\ clientResource.binding = [instance |-> instance.made, version |-> clientResource.version]

-----------------------------------------------------------------------------
(* Liveness: queues, informers, the resync and the other controllers work *)

ResourcesFairness ==
    /\ WF_vars(ReconcileDefinition)
    /\ WF_vars(MakeInstance) /\ WF_vars(KeepInstance) /\ WF_vars(InstanceRejected)
    /\ WF_vars(ManageClient)
    /\ \A k \in Kinds : WF_vars(SyncChild(k)) /\ WF_vars(ChildReports(k) /\ child'[k].state = "ready")
    /\ WF_vars(InstanceProvisioned) /\ WF_vars(ClientBound)
    /\ WF_vars(SyncDefinition) /\ WF_vars(SyncInstance) /\ WF_vars(SyncClient) /\ WF_vars(Resync)

FairSpec == Spec /\ ResourcesFairness

\* Nothing is asked of the ServiceInstance that its webhook would turn down.
Acceptable ==
    instance.exists => instance.version = resource.version
                       /\ instance.lifecycle = child["lifecycle"].made

\* A definition that stays, and whose names are free, gets its manager running
\* again after every restart; and the resources are served, in whatever order
\* they and what they need came to be there.
ResourcesAreServed ==
    <>[](definition.phase = "live" /\ taken = {} /\ Acceptable) =>
        <>[](/\ Ready(definition) /\ running
             /\ resource.exists => resource.ready
             /\ resource.exists /\ clientResource.exists =>
                   clientResource.binding = [instance |-> instance.made,
                                             version |-> clientResource.version])
=============================================================================
