---------------------------- MODULE TriggerStore ----------------------------
(***************************************************************************)
(* What lies between a Repository and a running pod: a Repository, the     *)
(* ClusterImage of the runtime, a trigger, its ComponentContainerImage,    *)
(* its workload (a Deployment, CronJob or Knative Service) and its Service, *)
(* with the work queues of the four controllers that keep them in step.    *)
(*                                                                         *)
(* What a controller writes besides its own status, the children of the    *)
(* trigger, is read from caches; what it only reads is read as it is, and  *)
(* what changes there queues it.                                           *)
(***************************************************************************)
EXTENDS Naturals

CONSTANTS
    Components,  \* what a trigger may refer to
    Kinds,       \* the kinds of triggers to look at
    Broken,      \* versions of components whose pods never become ready
    MaxChanges,  \* bound on what users and the world outside do
    MaxFaults    \* bound on failed API calls and restarts

TriggerKinds == {"http", "wrpc", "cron", "knative"}

ASSUME KindsAssumption == Kinds \subseteq TriggerKinds
ASSUME ComponentsAssumption == "none" \notin Components
ASSUME ChainBounds == {MaxChanges, MaxFaults} \subseteq Nat

VARIABLES
    access,       \* to the remote registry
    tag,          \* version of the runtime that its tag points to
    component,    \* the components, as triggers see them
    repository,   \* the Repository everything is published to
    image,        \* the ClusterImage of the runtime
    container,    \* the ComponentContainerImage of the trigger
    workload,     \* its Deployment, CronJob or Knative Service
    service,      \* who has the Service of the trigger's name
    trigger,
    cachedContainer, cachedWorkload,  \* the informers' view
    queued,       \* the work queues
    unannounced,  \* controllers whose last answer is outdated and that nobody queues
    changes, faults

sources == <<access, tag, component>>
registries == <<repository, image>>
children == <<container, workload, service>>
caches == <<cachedContainer, cachedWorkload>>
vars == <<sources, registries, children, trigger, caches, queued, unannounced,
          changes, faults>>

Controllers == {"repository", "image", "container", "trigger"}

\* granted, or why not: the registry refuses, or the Secret is missing
Accesses == {"granted", "denied", "noCredentials"}

\* pending: its generation is not observed yet
Conditions == {"pending", "notReady", "ready"}

\* An image of a component and the runtime it is appended to.
Built(c, version, runtime) == [component |-> c, version |-> version, runtime |-> runtime]
NoImage == [component |-> "none", version |-> 0, runtime |-> 0]

\* observed: .status.observedGeneration = .metadata.generation
NoContainer == [exists |-> FALSE, ref |-> "none", observed |-> FALSE, ready |-> FALSE,
                image |-> NoImage]

\* updated: .status.updatedReplicas > 0; serving: the image of its ready pods
NoWorkload == [exists |-> FALSE, image |-> NoImage, observed |-> FALSE, updated |-> FALSE,
               serving |-> NoImage]

HasService(t) == t.kind \in {"http", "wrpc"}

\* The living condition sets: Ready is the conjunction of the others.
TriggerReady(t) == t.imageReady /\ t.workloadReady /\ (HasService(t) => t.serviceReady)

Images == [component: Components \union {"none"}, version: Nat, runtime: Nat]
ContainerObject == [exists: BOOLEAN, ref: Components \union {"none"}, observed: BOOLEAN,
                    ready: BOOLEAN, image: Images]
WorkloadObject == [exists: BOOLEAN, image: Images, observed: BOOLEAN, updated: BOOLEAN,
                   serving: Images]
TriggerObject == [kind: Kinds, ref: Components, observed: BOOLEAN, image: Images,
                  imageReady: BOOLEAN, workloadReady: BOOLEAN, serviceReady: BOOLEAN]

TypeOK ==
    /\ access \in Accesses
    /\ tag \in Nat
    /\ component \in [Components -> [state: Conditions \union {"missing"}, version: Nat]]
    /\ repository \in Conditions
    /\ image \in [state: Conditions, runtime: Nat]
    /\ container \in ContainerObject /\ cachedContainer \in ContainerObject
    /\ workload \in WorkloadObject /\ cachedWorkload \in WorkloadObject
    /\ service \in {"free", "own", "other"}
    /\ trigger \in TriggerObject
    /\ queued \subseteq Controllers
    /\ unannounced \subseteq Controllers
    /\ changes \in 0..MaxChanges
    /\ faults \in 0..MaxFaults

\* The trigger, the image and the repository have just been created.
ChainInit ==
    /\ access = "granted"
    /\ tag = 1
    /\ component = [c \in Components |-> [state |-> "ready", version |-> 1]]
    /\ repository = "pending"
    /\ image = [state |-> "pending", runtime |-> 0]
    /\ container = NoContainer
    /\ workload = NoWorkload
    /\ service = "free"
    /\ trigger \in [kind: Kinds, ref: Components, observed: {FALSE}, image: {NoImage},
                    imageReady: {FALSE}, workloadReady: {FALSE}, serviceReady: {FALSE}]
    /\ cachedContainer = container
    /\ cachedWorkload = workload
    /\ queued = Controllers \ {"container"}
    /\ unannounced = {}
    /\ changes = 0
    /\ faults = 0

\* A request of x ends: its answer is up to date, and whoever reads what it
\* wrote is queued.
Done(x, readers) ==
    /\ queued' = (queued \ {x}) \union readers
    /\ unannounced' = unannounced \ {x}
=============================================================================
