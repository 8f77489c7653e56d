# A TLA+ model of wa8s

`wa8s` is a set of Kubernetes controllers for WebAssembly components. This directory
models the controllers, one part of the system after the other:

* the *services integration* (`src/integrations/services`): controllers that keep objects in
  the API server, credentials in Secrets and records in a remote *lifecycle service* in
  step, rotate a client's credentials before they expire, keep a lifecycle service
  running for as long as it is needed, and give services kinds of their own;
* *component references* (`src/internal/controllers`, `src/controllers`): Components and
  Compositions that are made from each other's images, in a graph users edit at will;
* *inline dependencies*: what a Composition makes of the dependencies in its own spec;
* the *trigger chain*: from a Repository and the image of a runtime to pods that serve.

## 1. Inventory

### Parts of the system

| Part | Code | State it keeps | Operations | Model |
|---|---|---|---|---|
| ServiceInstance controller | `serviceinstance_controller.go` | finalizer, `status.serviceInstanceId`, conditions | resolve lifecycle, `Provision`, deletion check, `Destroy` | `ServiceInstanceController` |
| ServiceBinding controller | `servicebinding_controller.go` | finalizer, `status.serviceBindingId`, `expired`, the Secret, the client Composition | resolve instance, create Secret, `Bind`, expire, `Unbind`, compose the client | `ServiceBindingController` |
| Credential admin webhook | `services_webhook.go` | data and finalizer of the Secret | publish, update, destroy, fetch | `CredentialWebhook` |
| Lifecycle client | `lifecycle/lifecycle.go` | none | four HTTP calls | calls in the two controllers |
| ServiceClient controller | `serviceclient_controller.go` | its set of ServiceBindings, `status` of the newest Ready one, a requeue timer | stamp, prune, renew, reflect | `ServiceClientController` |
| ServiceLifecycle controllers | `servicelifecycle_controller.go` | finalizer, conditions, a Composition and an HttpTrigger | compose, expose, check before deletion | `ServiceLifecycleController` |
| ServiceResourceDefinition controller | `serviceresourcedefinition_controller.go` | a lifecycle, two CRDs, a duck, a manager of its own; the ServiceInstances and ServiceClients behind resources | define a service kind, start and stop the manager, keep what is behind each resource | `ServiceResources` |
| Component and Composition controllers, duck | `component_controller.go`, `composition_controller.go`, `controllers/duck_controller.go` | image, trace, conditions | resolve, compose, detect cycles, publish | `ComponentReferences` |
| Inline dependencies | `composition_controller.go`, `controllers/duck_controller.go` | ConfigStores, Components and Compositions, and a copy of the Composition's own name | make, change, delete, resolve, compose | `CompositionDependencies` |
| Registries | `repository_controller.go`, `image_controller.go`, `registry/` | may be pushed to, digest of a copied image | check, resolve, copy | `Registries` |
| Containers and triggers | `componentcontainerimage_controller.go`, `*trigger_controller.go` | a chain of children | image, workload, Service | `Containers`, `TriggerChain` |
| Knative integration | `integrations/knative` | a Knative Service in place of Deployment and Service | the same chain | `Containers`, kind `knative` |
| Managers | `internal/cmd` | work queues, caches | one worker per kind | `Crash`, `Restart`, `Resync` everywhere |
| ConfigStore | `configstore_controller.go` | none of its own | static component from ConfigMaps and Secrets | only as a child that reports |
| WebAssembly tooling | `components/`, `wit/` | none | bytes to bytes | not modelled |
| API types, dies, deep copies | `zz_generated.*` | none | generated setters and copies | not modelled |

### How they interact

Controllers never call each other. Each reads a cache that an informer fills from
the API server's watch, and writes to the API server, which refuses a write whose
resourceVersion is old. controller-runtime runs one request at a time per kind, queues
an object on every event, retries errors, and resyncs every 10 hours
(`internal/cmd/main.go:60`). A parent owns children and is queued when one changes; what it
only refers to it *tracks*, and is queued for that. A ServiceClient owns ServiceBindings, a
ServiceBinding owns a Secret and a Composition and refers to a ServiceInstance,
which refers to a lifecycle, which owns a Composition and an HttpTrigger. The lifecycle
service is called over HTTP; while it
binds and unbinds it calls back the credential admin webhook, which reads and writes the
same Secret the binding controller creates and deletes. Components and Compositions
refer to any object that looks like a component (the *duck*). A trigger owns a
ComponentContainerImage, which refers to a component, an image and a repository, and a workload
that Kubernetes rolls out. A ServiceResourceDefinition runs a *manager* of its own, whose
controllers make ServiceInstances and ServiceClients of the resources of its kinds.

### What is hard

* **Lost answers and repeats.** `Provision` and `Bind` are repeated until the status
  records their id; an error says nothing about whether the service acted.
* **Stale reads.** A request starts from a cached copy. What keeps it from binding an
  expired binding again, or from taking the status of a child's earlier spec for an answer,
  is spread over the finalizer patch, the status conflict, generations and the order of writes.
* **Check then act.** The deletion checks of an instance and of a lifecycle list cached
  objects and act on the list later.
* **Finalizers on several sides.** A lifecycle waits for its instances, an instance for its
  bindings, and each needs what waits for it to be Ready; the Secret has a finalizer of its own
  that a third party clears.
* **Errors that halt without failing.** `ErrTransient`, `ErrDurable` and
  `ErrGenerationMismatch` (`controllers/utils.go:40-49`) stop the sequence of
  sub-reconcilers, and the request ends as if there was no error: no retry, and with the
  last of them no status update. Whoever is needed to wake the object up must do so.
* **Cycles seen through old copies.** A cycle of references is found by an object that
  meets its own UID in the trace of what it refers to. That trace is as old as the
  status it was read from, and was made of older ones.
* **Children of a fixed name** may belong to somebody else, and nobody tells when they go.
* **What dies with the process**: trackers, timers and the managers of definitions, although a
  status says that they are there.
* **Time.** A renewal must be early enough for its successor to become Ready; timers
  are lost at a restart and only set when the newest binding is Ready.

The hazards, each at its line, with the properties that cover it, are the
`hazards` of `PROJECT.json`.

## 2. Modules

```
ServicesStore                    objects, caches, remote records, requests in flight
 ├─ ServiceInstanceController    one action per remote call or write
 └─ CredentialWebhook            the callbacks
     └─ ServiceBindingController
Services        = both controllers + users, informers, time, crashes   (Spec)
ServicesContract                 what the lifecycle service may rely on
ServicesProperties               properties, fairness; Contract == INSTANCE ServicesContract
ServicesInvariant                History, the inductive invariant
ServicesInstanceProofs, ServicesProofs;  MCServices

ServiceClientController          rotation of a client's bindings, in discrete time
ServiceClientProperties, ServiceClientProofs;  MCServiceClient

ServiceLifecycleStore            a lifecycle, its children, its instances
 └─ ServiceLifecycleController
     └─ ServiceLifecycle         users, the children's controllers, informers, restarts
LifecycleContract                what instances may rely on
ServiceLifecycleProperties       Contract == INSTANCE LifecycleContract
ServiceLifecycleProofs;  MCServiceLifecycle

ServiceResources                 a definition, its manager, an instance and a client resource
ServiceResourcesProperties, ServiceResourcesProofs

ComponentReferences              Components, Compositions, images and traces
ComponentReferencesProperties, ComponentReferencesProofs;  MCComponentReferences

CompositionDependencies          dependencies spelled out in place, and the copy
CompositionDependenciesProperties, CompositionDependenciesProofs

TriggerStore                     the objects from a Repository to the pods
 ├─ Registries                   Repository and Image controllers
 └─ Containers                   ComponentContainerImage and trigger controllers
     └─ TriggerChain             (both) users, registries, Kubernetes, informers, restarts
TriggerChainProperties, TriggerChainProofs;  MCTriggerChain
```

The MC modules give model values; the two specifications without one are checked as they are.
Definitions introduced by "Wrong:" are plausible mistakes that the listed
properties rule out; nothing else uses them.

### Services: state and steps

An object is a record with `phase` (absent, live, deleting, gone), `finalizer` and
what its readers distinguish of its status. `id` is a Boolean because the code
always uses the object's UID as the id. `observed` stands for
`generation = observedGeneration`. `lifecycle` is the (Cluster)ServiceLifecycle as its
readers see it; it may disappear only while no cached instance exists, which is
what its own finalizer checks (`servicelifecycle_controller.go:105-148`, and
`ServiceLifecycle` below). `client[b]` is the Composition of a binding. `provisioned` and
`bound` are the lifecycle service's records.

A reconcile request is cut where something else can happen in between:

1. `ReconcileInstance`, `ReconcileBinding`: read the cached object, patch the finalizer
   if it is missing (refused if the copy is old), run the sub-reconcilers, create or
   delete the Secret, up to a remote call or the next write. The decisions of the
   sub-reconcilers are operators of the same name (`ResolveServiceInstanceId`,
   `ManageServiceBinding`, ...) that return the request at its next step.
2. `…Accepted`, `…Failed`: the remote call's answer. A failure may come with or without the
   effect on the service and on the Secret.
3. `ConfigureClientComponent`: create the Composition, and end without a status
   update while it is pending (`ErrGenerationMismatch`).
4. `Update…Status`, `Clear…Finalizer`: refused on conflict, which is modelled by
   comparing the object with the copy the request read. An object that changed back to
   an equal value would not be told apart, which makes no difference to what is written.

A worker that was refused goes back to idle; that the object is queued again is
fairness. `Crash` loses both requests and starts with fresh caches; `RequestFails` ends one
request by a failed API call or a panic. Both are limited by `MaxFaults`; failures of
the lifecycle service are not limited. The caches jump to the current object at
`Sync…`, at any time, per object: this includes every lag an informer may have. The
lifecycle, the Composition and the Secret are read fresh.

### ServiceClientController

One client, whose bindings are numbered in the order of creation, in discrete
time. A request has no duration: time passes (`Tick`) only when nothing is queued, no
timer is due, the caches are current, and no binding that should be Ready
by now is not. `BindTime` is the environment's promise; the ServiceBinding controller is
seen only through it (`BindingReconciled`, `BindingExpires`, `BindingFinalized`).
`timer` is the earliest pending `RequeueAfter`. Known children come from
`cachedBindings`, to which the watch delivers the changes of each binding by themselves (`SyncBinding`),
each a reason to queue the client: it may be reconciled for news of an older binding before it sees the one it made last, and
stamp another. That any binding may come first is more than the order of one watch.
`StampFails` is a failed create or delete: `ErrTransient` halts the request, nothing is
queued. `status.renewsAfter` and conditions are left out.

### Requests of one step

In the other models a request is one step. That is no loss: its status write is refused when its
own object has changed meanwhile, what it reads of others comes from a cache that may be
arbitrarily old (or is read as it is where only a reader is concerned), and what can come between
its other writes is a request that fails after some of them (`FailsHalfWay`,
`TriggerRequestFails`, `RequestFails`, `UploadFails`). A request that would start from
an old copy of its own object, where this model has no such copy, ends in a conflict and is
repeated; so it starts from the current one. Three variables stand for who is woken by what:

* `queued`: the work queues. An event, a tracked object or a child that changed queues; an
  error repeats; `ErrTransient`, `ErrDurable` and `ErrGenerationMismatch` do not.
* `unannounced`: somebody's last answer is outdated and nothing will queue it but the
  resync (`Resync`), or an event by chance. A tag that moves, a name that is free again,
  credentials a controller does not watch, a halted request whose child could not be written.
* `tracked` (lifecycle): what the tracker holds; a restart empties it and queues everything.

A cache holds a copy and no events, so that two changes that undo each other before the copy is
delivered would not be told to anybody; in reality the watch has both events. These pairs
are told apart by having the first delivered before the second is made
(`PodsAreKnown`, `ChildReports`, `ChildDeleted`). A child that was made must be in the cache
before its parent's next request (`Delivered`): a `GenerateName` child would be made twice
by a request with an older list, which is not modelled.

### ServiceLifecycle

Both kinds of lifecycles. `ReconcileLive` is finalizer, Composition, HttpTrigger, client
component, in this order; each stage waits, halts or goes on
(`WaitForComposition`, `WaitForTrigger`, `ReflectClient`). `FinalizeLifecycle` tracks the first
instance found and halts, or deletes the children and clears the finalizer. The HttpTrigger has
the lifecycle's name, which may be taken. Deleting an object is a generation of its own, so that
its status is behind until the finalizing request has written it. An instance is
summarised: it goes when it is deleted, its lifecycle is Ready and serves (`InstanceFinalized`;
the protocol of its finalization is `Services`). `LifecycleContract` is what `Services` assumes of
its variable `lifecycle`, and is shown to be implemented with `Availability` for the state
readers see, the finalizer for the promise and the cached instances for those it depends on.

### ServiceResources

One definition, one instance resource and one client resource. `ManageDefinition` keeps the
lifecycle (a generated name: `made` counts them), two CRDs and the duck in their order, and starts
the manager once both CRDs are established; `FinalizeDefinition` deletes the children it knows of, stops the manager and
clears the finalizer. A lifecycle or CRD that is still used stays, as the resources a CRD takes along are left out. The definition is read from
a copy, as starting the manager is an effect no conflict can undo. The resources' controllers run
only while the manager does; a manager that starts lists what there is (`Listed`). A ServiceInstance
whose spec would change is rejected by its webhook, `InstanceRejected`, and the request is repeated
as long as the resource is not edited back. A client resource names an instance resource, the ServiceClient
made for it names the ServiceInstance. ServiceInstance and ServiceClient are seen only through
`InstanceProvisioned` and `ClientBound`.

### ComponentReferences

The nodes are Components and Compositions. An object keeps its `uid` (a name and how
often it was created), `generation`, what it refers to, `observed`, `ready`, whether the
condition that holds it back has the reason
CycleDetected (`cycle`), its `image` and its `trace`. A trace is a forest of spans in the
code; here it is the set of the paths from its roots, so that `SynthesizeSpan` puts one
span before every path, `DetectTraceCycle` looks for a UID on any of them and the sanitized
trace cuts them there. Siblings that are equal are one. A ClusterComponent is a Component,
and so is an `oci` reference an image.

`ReconcileComponent` is the sequence repository, copy, reflect; `ReconcileComposition`
resolves the dependencies in order, the first that halts decides the status
(`Halting`), and goes on even without a repository, unless that is reconciling: then
`ErrGenerationMismatch` keeps the status from being written. `UploadFails` is a push or a copy
that fails, before or after a condition was set. `SyncCache` delivers one object and queues
who tracks it. `RepositoryChanges`, `ChangeSpec`, `Delete`, `Create` and `Restart` may happen
at any time, up to their bounds. There is one repository, which is read fresh.

### CompositionDependencies

A Composition with a dependency per slot, each a reference or spelled out as a ConfigStore, an
image or a Composition, for which a child is kept; and its copy, a Component of its own name,
kept if the annotation asks for one and the name is free. `Managed` is what the reconcilers of
the three kinds of children do before anything is resolved, `Resolution` what a
dependency then is: ready, missing, pending, not ready, or a nil reference on which the
request panics, because its child could not be written. A child that has just been
changed is still what the cache says, ready with its earlier image. What the copy has to say of itself is
not reflected on the Composition, so all that is kept of it is that it does, which wakes the Composition up.

The errors of `Always` are joined, so what becomes of a failed request depends on what else is in it. A child that
was not written has it repeated (`Repeats`), and so has a panic. But with a dependency that halts
(`HaltedByDependency`), or with a copy that could not be written or whose name is taken (`HaltedByCopy`), the
request ends as if it had succeeded (`Ends`): nothing queues it but an event or the resync (`unannounced`). Of the children of one kind
the first that fails may keep the later ones from being written (`Unwritten`). Names of dependencies are the slots, and so are unique, which the code does not ask for.

### The trigger chain

One Repository, one ClusterImage (the runtime), one trigger of a kind `http`, `wrpc`, `cron` or
`knative` with its ComponentContainerImage, workload and Service. `Components` are what the trigger may
refer to: their versions and states change at will. A version in `Broken` never gets ready pods. A built image is named by
what it is built of (`Built`). `ReconcileRepository`, `ReconcileImage`, `ReconcileContainerImage` and
`ReconcileTrigger` are the four controllers; the trigger waits for its image
(`WaitForContainer`), then keeps the workload (`ManageWorkload`), which for all but a CronJob must be
observed before its readiness counts, then the Service (`ManageService`), of a fixed name. Kubernetes
observes a workload, starts pods and has them ready (`WorkloadObserved`, `PodsStarted`, `PodsReady`).
A WrpcTrigger goes the way of an HttpTrigger.

## 3. Runs

| Run | What is asked | States |
|---|---|---|
| `services_safety` | one instance, one binding, every lifecycle outage, one crash or failed write: ids, finalizers, credentials, expiry, the deletion check, the contract | 951,858 |
| `services_liveness` | recorded, expired, finalized, destroyed in the end | 55,051 |
| `client_safety` | two renewals of a client, one change of its duration, one restart: served, current, renewed in time | 632,051 |
| `client_liveness` | a change of scopes takes effect over a failed API call | 104,312 |
| `lifecycle` | a lifecycle and an instance, two changes, a fault: truthful at rest, the contract, serves while needed, gets ready, goes | 655,830 |
| `lifecycle_deadlock` | a violation, below | 18,789 |
| `resources` | a definition and both kinds of resources, a change, a fault: managers are held, truthful at rest, resources are served | 198,740 |
| `references_safety` | a Component and two Compositions of any of the three, two edits, an outage: finite and truthful traces, and what is Ready at rest | 1,153,537 |
| `references_rest` | two Components and two images, two edits, a fault, an outage: the controllers come to rest | 674,596 |
| `dependencies` | a Composition of two dependencies of three kinds and a copy, a change, a fault: exactly its children, composed of its own, comes to rest | 290,594 |
| `triggers_safety` | a trigger of three kinds, two components, two changes, a fault: latest and truthful at rest, never rolled back | 2,498,115 |
| `triggers_liveness` | an HttpTrigger, two changes, a fault: the latest build is served in the end | 621,044 |

Properties of the form "when all is quiet ..." (`Quiet…`) say what holds whenever no event, request
or undelivered change is left: that nothing is missed, whatever the order of events was. They find what a test
of one order does not: each of their mutants is a lost wake-up, or an answer taken for the wrong spec.
Most type invariants and the inductive `History` are proved (below) and not checked again by a
run; those of `ServiceClientController` and `ServiceResources` are also checked, as they say more than types: the former that
the earliest pending timer is kept when another is set, the latter that an id in a status is that of a ServiceInstance that
was made.

### Bounds

One instance and one binding suffice for every step of the services protocol: the
controllers only relate a binding to its own instance. The deletion check is the one place
where several bindings matter; that it spares each of them is proved for any set of
bindings (`DestroySpares`). One fault is enough to lose
each request at each of its steps; a second only repeats it. In the client runs a
duration of 4 with `RenewBefore` 2 and `BindTime` 1 keeps the order of the real
values (minimum 5 minutes of renewal, 1 hour of duration), `MaxTime` 6 covers two
renewals, and four bindings cover these plus one for the change of the duration or for
a duplicate stamped on old news (five were checked once, 6,381,475 states); the duration 8 next to 4 is the one that makes pruning
by age happen. `CHECK_DEADLOCK FALSE`: objects that are all gone, or a client
that has used up its bindings at the bound, are the end of a behaviour.

In the run `references_safety` a Component and two Compositions allow cycles of one, two and three, a
diamond (the Composition of a Component and of another that refers to the first), a Composition whose image nests
another's, and a stale copy of each; initially any of them may be missing and refer to anything. Two edits close a cycle and
open it again, or move a reference while its old target is still in a trace. With two Compositions the
wait for a generation that is never observed occurs (below); it cannot with one. The two
Compositions are symmetric, as is the set of dependencies. There is no fault in this run: failed
uploads and restarts, of which one can hit any request, are in `references_rest`, which has two Components and two
images and is about rest.

`MaxChanges` bounds what users and the world outside do: edits, deletions, names that are taken,
components that are published or lost, pods that fail. Two changes let the second
happen at every step of the reaction to the first, which is where an old answer can be taken for
a new one; where a change has many forms (`dependencies`, `resources`) the run takes one, on top of
the creation of everything, which overlaps with it in the same way. These two were also checked once with larger
bounds and without liveness: with two changes and a fault (4,434,778 and 2,407,657 states), and `resources` with the duck
as fourth kind (1,590,934); there was no error. `MaxFaults` 1 is a restart, or a failed call,
at every step. One instance of a lifecycle is enough to block it; that several are each found and
tracked in turn, and that the lifecycle waits for all of them, is the theorem
`LifecycleKeepsItsContract`. `triggers_safety` leaves `http` to the liveness run and to `wrpc`, which is the same to it. All these models may come to
rest: `CHECK_DEADLOCK FALSE`.

Two preconditions of `ClientBindingServes` are properties of the constants (`RenewedInTime` has the second one), and TLC finds
it violated without either: `RenewBefore >= (MaxChanges + 1) * BindTime`, because every
change of the spec starts over and the client publishes only the *newest* binding; and
every duration is longer than `RenewBefore + BindTime`, because otherwise a binding is
already due for renewal when it becomes Ready and is never published.

### Fairness

`Fairness`, `ClientFairness`: reconciling is strongly fair, as the work
queue retries and the resync queues every object although a request may end early again
and again; informers, status writes and time are weakly fair. The lifecycle service
answers (`WF(BindAccepted \/ BindFailed)`) and a call repeated for ever is finally accepted
(`SF`). `ReferencesFairness` is weak: a queued
object is reconciled and an event is delivered, as work queues and informers do. No resync is
needed there: events alone bring the controllers to rest.

`ChainFairness`, `LifecycleFairness`, `DependenciesFairness` and `ResourcesFairness` are weak too: a queued
request runs, an event arrives, and the resync comes in the end. The
controllers of children and Kubernetes finally report ready on what is not changed under them; in
the lifecycle run a deleted instance is finalized when it can be. Nothing is assumed of users, of
registries or of faults: the liveness properties say "once the sources stay ready" (`<>[]`) where these matter.

### A disagreement with the code's own words

`lifecycle_deadlock`: "deletion blocked by ServiceInstance %s"
(`servicelifecycle_controller.go:136`) says that the deletion of a lifecycle goes on when its
instances are gone. While it is blocked the stages that keep its conditions are skipped (70-79), so
one that was not Ready when it was deleted is never Ready again although its children are; and
a deleted instance is finalized only with a Ready lifecycle
(`serviceinstance_controller.go:105-118`). They wait for each other for ever. A lifecycle that was Ready
when it was deleted goes: `ReadyLifecycleGoes`.

### Seen while modelling, without a run of its own

Services: finalizing a binding sends its own id as the instance id
(`servicebinding_controller.go:283`). A binding deleted between `Bind` and the status write, of
which 276-277 say there is nothing to unbind, stays bound in the service; the same steps leak an
instance (`serviceinstance_controller.go:179`). A binding bound after the deletion check is left on a
destroyed instance (187). The Secret of a binding that was never recorded keeps its finalizer for
ever (183), and such a binding is stuck while its instance cannot be resolved. Expiry has the credentials of a live Secret
destroyed, "already marked for deletion" according to `services_webhook.go:216`.

Clients: nothing expects a binding that was just created (`serviceclient_controller.go:67`), so a client that is queued
before the watch tells of it, by its timer or by news of older bindings, has another one made at the same time, and that may happen again:
the newest wins, the others stay until they are too old. With `renewBefore` as long as the duration, which validation accepts
(`serviceclient_webhook.go:129`), no binding is ever in sync and a client stamps one at every request
(`serviceclient_controller.go:90`). That is outside the hypotheses of what is claimed of clients.

Lifecycles and definitions: any edit of an instance resource, and a lifecycle that is made again under another
generated name, lead to an update the ServiceInstance's webhook always rejects, which is repeated for
ever. ReconcilerRunning stays True after a restart while the CRDs are not established. The
controller of client resources does not compare the generation of the ServiceClient, so that for a
while it reports the binding of an earlier spec. A lifecycle whose client's image is missing marks
ComponentReady instead of ClientReady (`servicelifecycle_controller.go:399`).

References and dependencies: a blocked Component keeps the trace of an earlier reference
(`component_controller.go:128-141`), so one that refers to it may find itself there and say for
ever that it refers to itself, although there is no cycle; objects created in a cycle are blocked but never
reported as a cycle, because none of them gets a trace before it has been resolved once. Two Compositions that are
edited into a cycle at once each find the other's generation not observed and skip their status write
(`composition_controller.go:339-342`), for ever, although `controllers/utils.go:45` treats this "as a transient
error as this state is expected": one that was Ready stays Ready with its old image, and so does what refers to it. A child that
could not be written leaves a nil reference, on which the request panics (`composition_controller.go:313`).
A Composition whose copy's name is taken is not composed any more, but ChildComponent is not part of
its Ready: it can be Ready with the image of an earlier spec (`duck_controller.go:401-403`).

Triggers: a rollout that is stuck on a broken image counts as ready, because pods of the earlier one are
(`httptrigger_controller.go:173`). `wrpctrigger_controller.go:233` marks the condition of the HttpTrigger.
A Service whose name was taken is asked for again only at the resync. The ComponentContainerImage controller
does not watch the Secrets of its repository. While a trigger waits for an image that is not to be had and its
component is being reconciled, it neither makes a deleted Service again nor takes back that it is Ready.

## 4. Proofs

Each proof holds for every value of the constants: any sets of instances, bindings, components or
dependencies, any number of changes and faults. The assumptions are those the modules name
(`ServicesStore`, `ComponentReferences`, `KindsAssumption`, `LifecycleBounds`, ...): the bounds are
numbers, names are distinct.

*Services.* `TypeCorrect`, `HistoryInvariant`: `Spec => []TypeOK`, `Spec => []History`.
From it `RecordedIds`, `Finalizers`, `Expiry`, `Credentials`, `ReadyInstances`, the
action property `DestroySpares`, and the refinement `ContractImplemented`:
`Spec => Contract!ContractSpec`. None of these properties is inductive: they speak of the API server, and a request acts on
what a cache showed some time ago. `History` says what connects them. A copy, cached or held by
a request, is a *past* of its object (`InstanceSince`, `BindingSince`: the phase only
moves on, an id or `expired` once written stays). What the service did is visible in every past that
matters: it only releases a binding, or destroys an instance, whose id the cache
already shows, so no request that starts later can take the id up again. And the
Secret's state follows from the binding's phase and duration. The steps on instances are in `ServicesInstanceProofs`, those on bindings and Secrets,
and the theorems, in `ServicesProofs`: one lemma per action.

*Clients* (`ServiceClientProofs`). `ClientTypes`, and four properties that build on each other.
`ClientMovesOn`: `Spec => NeverMovesBack`, from `MovesInv`: the cached copy of a binding is a past of
it, and the status a request will write names one made no earlier than the binding its client had.
`ClientIsCurrent`: `QuietClientIsCurrent`, from `CurrentInv`: a binding is given up only for one
made later, so the last one lives; and a client that no event will queue has it, with a timer no
later than its renewal, or waits for it to become Ready. The step that needs care is a request
on an old cache: either it writes something, and the cache is behind (`CacheLeftBehind`, as bindings
never return to an earlier state), or it has found the last binding (`ReconcileServes`).
`ClientRenewsInTime`: `RenewedInTime`, from `CurrentInv` too: the last binding is either not Ready, and then it is
younger than `BindTime`, or the timer of its renewal is set, and is not due while the controller is at rest.
`ClientIsServed`: `ClientBindingServes`, from `InTimeInv`: with *E* the time the published binding expires plus a
`BindTime` for each change of the spec so far, what was made last was made by *E* - `RenewBefore`, a `BindTime`
earlier if the spec has changed since; or it is not made yet and there is as much time left. Until the first change there is
one spec everywhere (`SpecInv`). The
latter three hold while `failures = 0`: a failed creation is not retried before the next event or resync, which
may be too late, as the code has it. They have hypotheses on the constants: `ReadyInDuration` (`BindTime` is no more than any
duration), `RenewalAfterReady` (every duration is longer than `RenewBefore + BindTime`) and `RenewalLeavesTime`
(both preconditions under *Bounds*).

**At rest.** The `Quiet…` properties of the other models are proved along one argument, which the clients' proofs
also follow. They speak of states in which nothing is under way; the invariant says what is true before that: *a
controller that no event will queue has answered*. Each step keeps it in one of three ways. A request that changes nothing leaves the answer to
what the caches show; a request or a user that changes something either queues its reader or
leaves it differing from the copy in the reader's cache, so that its event is still to come; and an event queues who
reads it. The second way is the one that can fail: a change could make an object equal to an old copy of it, and
its event would go unnoticed. That copies are never ahead of their objects, so that a change cannot do this, are the
`…Past` parts of the invariants.

*Lifecycle.* `LifecycleTypes`; `LifecycleKeepsItsContract`: `Spec => ImplementsContract`, the
refinement of `LifecycleContract`; `LifecycleKeepsServing`: `Spec => KeepsServing`. The
invariant behind the contract ties the status to the finalizer: what readers take for a report
(`observed`) was written by a request that had the finalizer first, and only a request that saw no
instance clears it. Every step then is one of the contract or leaves what it speaks of alone.
`LifecycleIsHonest`: `Spec => []QuietLifecycleIsHonest`, from `AnsweredInv`. The stages of the request follow each other, so
the answer does too: of the Composition, or if that is ready of the HttpTrigger, or if that is ready of the client.

*Trigger chain.* `ChainTypes`; `NoRollback`: `Spec => NeverRollsBack`. Its invariant
`Ordered` compares the images along the chain: of one component, what the workload has is not newer than what the
ComponentContainerImage has, in the cache and in the API server, the cached one is not newer than the
current one, and none is newer than its component and the copied runtime are. Images of different components
are not comparable, so each pair is compared by itself.
`ChainIsLatest`, `ChainIsHonest`: `Spec => []QuietChainIsLatest`, `Spec => []QuietChainIsHonest`, from `ChainAnswered`, which has one answer for each
of the four controllers, in the terms of what it reads; chained together they lead from the tag and the component to the workload.

*Component references.* `ReferencesTyped`, `ReferencesReadyProvenance`,
`ReferencesTracesAreFinite`, from `ReferencesInvariantHolds`.
What is published is made of what caches show, so `ReferencesInvariant` says of every copy
what the properties say of the objects. The argument is about one step: a path of a
good trace, with the span of its owner in front of it, is still simple, because a trace never meets
its own owner but in a last span that is marked; it is published either when
the new owner is on no path, or cut where it is. As traces nest to any
depth there is no set they all belong to; the invariant says of each path that it is a
sequence of records (`IsPath`), and lemmas carry that through each way of writing a status.

`ReferencesAreResolved`: `Spec => []QuietIsResolved`, for any graph, from `RestInvariantHolds`. That everybody has answered is not enough
here: around a cycle answers support each other. Objects that are Ready without an end to the chain of their references
would have, at rest, traces of ever longer paths, each a span longer than one of the next; but all paths have a
common bound (`TracesBounded`, `ReadyIsFounded`). Conversely, one that can be resolved
is not held for a cycle: if it were on a path of what it refers to, what that refers to would have it on a path too, one place further to
the front, and so on without end (`NoCycleFound`). Both descents are by `LeastNumber`: each set of numbers
has a least one. Therefore all that can be resolved is Ready: the objects that are form a closed set
(`ResolvableIsReady`). The hypothesis `NoImageIsNone` says that `NoImage` is no sequence, as composed images are.

*Inline dependencies.* `DependencyTypes`; `ComposedOfItsOwn`: `Spec => ComposesItsOwn`. No
copy of a child, in the API server or in the cache, has a version its dependency has not had.
`DependenciesAreKept`, `DependenciesAreComposed`: the two `Quiet…` properties, which are inductive together with `ChildPast` and with `CopyHasItsName`:
the copy is not there while another has its name. A request that halted and left something unwritten answers nothing; it
leaves `unannounced`, which the properties have the resync see to. One whose copy failed has `copied` false, which rest
does not allow where the copy has somewhere to go.

*Definitions.* `ManagersAreHeld`: `Spec => []ManagerIsHeld`. A cached definition with a
finalizer tells that the current one has it, or is gone and its manager is stopped; without
one a request starts nothing unless the copy is the current object, to which it then adds the finalizer.
`ResourceTypes`; `ResourceIsServed`: `Spec => []ReadyResourceIsServed`, as the cached ServiceInstance is a past of the current one, and
nothing in it changes but that it gets Ready (`InstancePast`, `ReportsItsOwn`).
`DefinitionIsHonest`, `ClientResourceIsCurrent`: `QuietDefinitionIsHonest` is inductive by
itself; for `QuietClientIsCurrent` the ServiceClient and its binding never ask for what was not there (`AsksForWhatIsKnown`), so that what its cache
shows has been reported (`ReportsItsClient`). The step that needs care is a start of the manager: whatever happened while it
was down, it lists all there is.

Three proofs failed for a good reason, and the properties say what is true since: `QuietClientIsCurrent` of a client and
`ClientBindingServes` hold while no call failed (so does `RenewedInTime`); the trigger's and the Compositions' exceptions are in the list above.

**Only model-checked** is what needs fairness: `BindingsAreRecorded`, `ElapsedBindingsExpire`, `RecordedBindingsGo`,
`InstancesGo`, `SpecTakesEffect`, `LifecycleGetsReady`, `ReadyLifecycleGoes` (and `DeletedLifecycleGoes`, which is violated),
`ResourcesAreServed`, `ComesToRest`, `DependenciesSettle` and `EventuallyServes`. The prover has no rule for fairness with
`ENABLED`. So the theorems say that rest is a good state, and the runs, on their small instances, that it is reached. Every invariant and every action
property of the runs is proved.

## 5. Not modelled

*Services.* Users deleting Secrets; the garbage collection of Secrets (the controller has requested
their deletion before their owner can go); updating credentials of a bound binding; the ComponentChild
that each reconciler ends with; requeue timers of the binding controller (the
resync covers them); an address the lifecycle has not got yet. HTTP calls have no timeout
in the code: a call that hangs stops its controller, which the model's fairness excludes.
The service is lenient: it does not check the instance id passed to `Unbind`. The
defaulting arithmetic of the client (`serviceclient_webhook.go:68`).

*Lifecycles and definitions.* Defaults, the reported URL (which is never cleared) and image; edits
of a definition's names or lifecycle spec; a CRD that takes its resources along; garbage collection after a
deletion, except for the children of a lifecycle; the trace of a client resource. A manager is started
and stopped as `SubManager` of reconciler-runtime does it, which is not part of this repository.

*References and dependencies.* Keychains, tags, WIT and `status.dependencies`; references to kinds that
are not components and images that do not parse; a repository per object.

*Trigger chain.* Traces and cycles of containers (they refer to components, nothing refers to them);
templates and the merging of keychains; the fields of pods, revisions and traffic; the address;
deletion of a trigger, which is left to the garbage collector; a Knative Service of a name that is taken.

*Not at all.* ConfigStore is a pure function of ConfigMaps and Secrets. The WebAssembly tooling maps bytes to
bytes. Two thirds of the repository's lines are generated setters and deep copies
(`zz_generated.die.go`, `zz_generated.deepcopy.go`), which decide nothing; a definition for them would
restate a type. Of the lines written by hand the models stand for those that decide what is read,
written, waited for and retried; the rest is API types, defaults, command lines and printing.

## 6. Plan

Done: the services protocol with its contract and proofs; client rotation; component references; inline
dependencies; lifecycles and their contract; definitions and their resources; the trigger chain. Worth adding:

1. The defaulting of a client's `renewBefore`, with the width of `time.Duration`.
2. A life of one ServiceBinding as an abstract specification, implemented by `Services`
   and used as the environment of `ServiceClientController`.
3. `ServiceLifecycle` and `Services` composed, in place of the two contracts between them.
4. Children of a generated name that are made twice, by a request with an old list.
