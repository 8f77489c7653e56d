------------------------- MODULE TriggerChainProofs -------------------------
(***************************************************************************)
(* Proofs about the trigger chain, for all components, kinds of triggers   *)
(* and bounds.                                                             *)
(***************************************************************************)
EXTENDS TriggerChainProperties, TLAPS

USE DEF Controllers

\* There are none, or they were built of a component's versions so far.
Published(i) ==
    \/ i = NoImage
    \/ /\ i.component \in Components
       /\ i.version <= component[i.component].version
       /\ i.runtime <= image.runtime

NotOlder(old, new) ==
    old.component = new.component => old.version <= new.version /\ old.runtime <= new.runtime

\* Images move on from the ComponentContainerImage to the informer's copy of it
\* to the workload.  They are only comparable while the component stays the
\* same, so each pair is compared.
Ordered ==
    /\ image.runtime <= tag
    /\ Published(container.image) /\ Published(cachedContainer.image) /\ Published(workload.image)
    /\ NotOlder(workload.image, cachedContainer.image)
    /\ NotOlder(workload.image, container.image)
    /\ NotOlder(cachedContainer.image, container.image)
    /\ container.exists => container.ref \in Components
    /\ cachedContainer.exists => cachedContainer.ref \in Components
    /\ container.ready => container.image # NoImage
    /\ cachedContainer.ready => cachedContainer.image # NoImage
-----------------------------------------------------------------------------
(* The parts of a step keep their types                                    *)

\* An image of a component in one of its versions is an image.
LEMMA BuiltType ==
    ASSUME NEW c \in Components, NEW v \in Nat, NEW r \in Nat
    PROVE  Built(c, v, r) \in Images /\ Built(c, v, r) # NoImage
BY ComponentsAssumption DEF Built, Images, NoImage

\* What stands for a missing object is an object, too.
LEMMA NoneType == NoImage \in Images /\ NoContainer \in ContainerObject /\ NoWorkload \in WorkloadObject
BY DEF NoImage, NoContainer, NoWorkload, Images, ContainerObject, WorkloadObject

\* What a trigger wants its ComponentContainerImage to be is one: it keeps the
\* image and the readiness of the one it read, and is about the trigger's ref.
LEMMA DesiredContainerType ==
    ASSUME TypeOK
    PROVE  /\ DesiredContainer \in ContainerObject
           /\ DesiredContainer.exists /\ DesiredContainer.ref \in Components
           /\ DesiredContainer.ready => cachedContainer.ready
           /\ \/ DesiredContainer.image = cachedContainer.image
              \/ DesiredContainer.image = NoImage /\ ~DesiredContainer.ready
<1>1. CASE cachedContainer.exists
  BY <1>1 DEF TypeOK, DesiredContainer, ContainerObject, TriggerObject
<1>2. CASE ~cachedContainer.exists
  BY <1>2, NoneType DEF TypeOK, DesiredContainer, ContainerObject, TriggerObject, NoContainer
<1> QED BY <1>1, <1>2

\* What it wants its workload to be is one, of the image it was given.
LEMMA DesiredWorkloadType ==
    ASSUME TypeOK, NEW img \in Images
    PROVE  DesiredWorkload(img) \in WorkloadObject /\ DesiredWorkload(img).image = img
<1>1. CASE cachedWorkload.exists
  BY <1>1 DEF TypeOK, DesiredWorkload, WorkloadObject
<1>2. CASE ~cachedWorkload.exists
  BY <1>2, NoneType DEF DesiredWorkload, WorkloadObject, NoWorkload
<1> QED BY <1>1, <1>2

\* Every kind of trigger has an answer to whether its workload is ready.
LEMMA WorkloadReadyType ==
    ASSUME TypeOK
    PROVE  WorkloadReady(cachedWorkload) \in BOOLEAN
BY KindsAssumption
DEF TypeOK, WorkloadReady, DeploymentReady, KnativeServiceReady, TriggerObject, TriggerKinds, WorkloadObject

\* The statuses that a request may write are statuses of the same trigger.
LEMMA StatusTypes ==
    ASSUME TypeOK
    PROVE  /\ NoContainerReady(trigger) \in TriggerObject
           /\ ReflectImage \in TriggerObject
           /\ ReflectImage.image = cachedContainer.image
BY DEF TypeOK, NoContainerReady, ReflectImage, TriggerObject, ContainerObject

-----------------------------------------------------------------------------
(* Types                                                                    *)

\* The chain starts with objects of its types.
LEMMA TypeInit == Init => TypeOK
<1> SUFFICES ASSUME ChainInit PROVE TypeOK
  BY DEF Init
<1>1. trigger \in TriggerObject
  BY NoneType DEF ChainInit, TriggerObject
<1>2. changes \in 0..MaxChanges /\ faults \in 0..MaxFaults
  BY ChainBounds DEF ChainInit
<1>3. component \in [Components -> [state: Conditions \union {"missing"}, version: Nat]]
  BY DEF ChainInit, Conditions
<1>4. image \in [state: Conditions, runtime: Nat]
  BY DEF ChainInit, Conditions
<1> QED
  BY <1>1, <1>2, <1>3, <1>4, NoneType DEF ChainInit, TypeOK, Accesses, Conditions

\* The Repository and Image controllers keep the types.
LEMMA RegistriesType == TypeOK /\ RegistriesNext => TypeOK'
<1> SUFFICES ASSUME TypeOK, RegistriesNext PROVE TypeOK'
  OBVIOUS
<1>1. CASE ReconcileRepository
  BY <1>1 DEF ReconcileRepository, CheckRepository, Done, RepositoryReaders, TypeOK, Conditions,
              sources, children, caches
<1>2. CASE ReconcileImage \/ CopyFails
  <2>1. image' \in [state: Conditions, runtime: Nat]
    BY <1>2 DEF ReconcileImage, CopyFails, CopyImage, TypeOK, Conditions
  <2>2. queued' \subseteq Controllers /\ unannounced' \subseteq Controllers
    BY <1>2 DEF ReconcileImage, CopyFails, Done, ImageReaders, TypeOK
  <2> QED BY <1>2, <2>1, <2>2 DEF ReconcileImage, CopyFails, TypeOK, sources, children, caches
<1> QED BY <1>1, <1>2 DEF RegistriesNext

\* A status of a ComponentContainerImage that says it waits, or has been observed.
LEMMA ContainerWritten ==
    ASSUME NEW c \in ContainerObject
    PROVE  /\ [c EXCEPT !.observed = TRUE] \in ContainerObject
           /\ [c EXCEPT !.observed = TRUE].image = c.image
           /\ [c EXCEPT !.observed = TRUE].ready = c.ready
           /\ [c EXCEPT !.observed = TRUE].exists = c.exists
           /\ [c EXCEPT !.observed = TRUE].ref = c.ref
           /\ [c EXCEPT !.observed = TRUE, !.ready = FALSE] \in ContainerObject
           /\ [c EXCEPT !.observed = TRUE, !.ready = FALSE].image = c.image
           /\ ~[c EXCEPT !.observed = TRUE, !.ready = FALSE].ready
           /\ [c EXCEPT !.observed = TRUE, !.ready = FALSE].exists = c.exists
           /\ [c EXCEPT !.observed = TRUE, !.ready = FALSE].ref = c.ref
BY DEF ContainerObject

\* Kubernetes observes a workload and runs its pods, and leaves its image alone.
LEMMA PodsMove ==
    ASSUME workload \in WorkloadObject, WorkloadObserved \/ PodsStarted \/ PodsReady \/ PodsFail
    PROVE  workload' \in WorkloadObject /\ workload'.image = workload.image
<1>1. \A b \in BOOLEAN :
         /\ [workload EXCEPT !.observed = TRUE, !.updated = b] \in WorkloadObject
         /\ [workload EXCEPT !.observed = TRUE, !.updated = b].image = workload.image
  BY DEF WorkloadObject
<1>2. /\ [workload EXCEPT !.updated = TRUE] \in WorkloadObject
      /\ [workload EXCEPT !.updated = TRUE].image = workload.image
  BY DEF WorkloadObject
<1>3. /\ [workload EXCEPT !.serving = workload.image] \in WorkloadObject
      /\ [workload EXCEPT !.serving = workload.image].image = workload.image
  BY DEF WorkloadObject
<1>4. /\ [workload EXCEPT !.serving = NoImage] \in WorkloadObject
      /\ [workload EXCEPT !.serving = NoImage].image = workload.image
  BY NoneType DEF WorkloadObject
<1>5. CASE WorkloadObserved
  <2>1. (workload.serving = workload.image) \in BOOLEAN OBVIOUS
  <2> QED BY <1>1, <1>5, <2>1 DEF WorkloadObserved, Rollout
<1>6. CASE PodsStarted BY <1>2, <1>6 DEF PodsStarted, Rollout
<1>7. CASE PodsReady BY <1>3, <1>7 DEF PodsReady, Rollout
<1>8. CASE PodsFail BY <1>4, <1>8 DEF PodsFail
<1> QED BY <1>5, <1>6, <1>7, <1>8

\* So does the controller of the ComponentContainerImage.
LEMMA ContainerType ==
    TypeOK /\ Ordered /\ ReconcileContainerImage => TypeOK'
<1> SUFFICES ASSUME TypeOK, Ordered, ReconcileContainerImage PROVE TypeOK'
  OBVIOUS
<1>1. container' \in ContainerObject
  <2>1. CASE container' = AppendComponent(container) /\ container.exists
    <3>1. container.ref \in Components
      BY <2>1 DEF Ordered
    <3>2. Built(container.ref, component[container.ref].version, image.runtime) \in Images
      BY <3>1, BuiltType DEF TypeOK
    <3> QED BY <2>1, <3>2 DEF AppendComponent, TypeOK, ContainerObject
  <2>2. /\ [container EXCEPT !.observed = TRUE] \in ContainerObject
        /\ [container EXCEPT !.observed = TRUE, !.ready = FALSE] \in ContainerObject
    BY ContainerWritten DEF TypeOK
  <2>3. CASE UNCHANGED container
    BY <2>3 DEF TypeOK
  <2> QED BY <2>1, <2>2, <2>3 DEF ReconcileContainerImage
<1>2. queued' \subseteq Controllers /\ unannounced' \subseteq Controllers
  BY DEF ReconcileContainerImage, Done, TypeOK
<1> QED BY <1>1, <1>2 DEF ReconcileContainerImage, TypeOK, sources, registries, caches

\* So does a Service of the trigger being managed.
LEMMA ServiceType ==
    ASSUME TypeOK, NEW t \in TriggerObject, ManageService(t)
    PROVE  trigger' \in TriggerObject /\ service' \in {"free", "own", "other"}
<1>1. \A s \in BOOLEAN : [t EXCEPT !.serviceReady = s] \in TriggerObject
  BY DEF TriggerObject
<1>2. service \in {"free", "own", "other"} /\ (service # "other") \in BOOLEAN
  BY DEF TypeOK
<1> QED
  BY <1>1, <1>2 DEF ManageService

\* So do the controllers of the triggers.
LEMMA TriggerType == TypeOK /\ ReconcileTrigger => TypeOK'
<1> SUFFICES ASSUME TypeOK, ReconcileTrigger PROVE TypeOK'
  OBVIOUS
<1> DEFINE Kept == /\ container' \in ContainerObject /\ workload' \in WorkloadObject
                   /\ trigger' \in TriggerObject /\ service' \in {"free", "own", "other"}
<1>1. ASSUME WaitForContainer, UNCHANGED <<workload, service>> PROVE Kept
  <2>1. container' \in ContainerObject
    BY <1>1, DesiredContainerType DEF WaitForContainer, TypeOK
  <2>2. trigger' \in TriggerObject
    BY <1>1, StatusTypes DEF WaitForContainer, Transient, TypeOK
  <2> QED BY <1>1, <2>1, <2>2 DEF TypeOK
<1>2. ASSUME ManageWorkload(ReflectImage), UNCHANGED container PROVE Kept
  <2> DEFINE t == ReflectImage
             made == [t EXCEPT !.workloadReady = TRUE]
             failed == [t EXCEPT !.workloadReady = FALSE]
             managed == [t EXCEPT !.workloadReady = WorkloadReady(cachedWorkload)]
  <2>1. t \in TriggerObject /\ t.image \in Images
    BY StatusTypes DEF TypeOK, ContainerObject
  <2>2. made \in TriggerObject /\ failed \in TriggerObject
    BY <2>1 DEF TriggerObject
  <2>3. managed \in TriggerObject
    BY <2>1, WorkloadReadyType DEF TriggerObject
  <2>4. workload' \in WorkloadObject
    BY <1>2, <2>1, DesiredWorkloadType DEF ManageWorkload, TypeOK
  <2>5. trigger' \in TriggerObject /\ service' \in {"free", "own", "other"}
    <3> HIDE DEF made, failed, managed
    <3>1. CASE ManageService(made) \/ ManageService(managed)
      BY <3>1, <2>2, <2>3, ServiceType
    <3>2. CASE trigger' \in {trigger, failed} /\ service' = service
      BY <3>2, <2>2 DEF TypeOK
    <3> QED BY <1>2, <3>1, <3>2 DEF ManageWorkload, Transient, made, failed, managed
  <2> QED BY <1>2, <2>4, <2>5 DEF TypeOK
<1>3. Kept
  BY <1>1, <1>2 DEF ReconcileTrigger
<1>4. queued' \subseteq Controllers /\ unannounced' \subseteq Controllers
  BY DEF ReconcileTrigger, Done, TriggerReaders, TypeOK
<1> QED BY <1>3, <1>4 DEF ReconcileTrigger, TypeOK, sources, registries, caches

\* So does a failing request of theirs.
LEMMA TriggerFailsType == TypeOK /\ TriggerRequestFails => TypeOK'
<1> SUFFICES ASSUME TypeOK, TriggerRequestFails PROVE TypeOK'
  OBVIOUS
<1> DEFINE failed == [ReflectImage EXCEPT !.workloadReady = FALSE, !.serviceReady = FALSE]
<1>1. failed \in TriggerObject
  BY StatusTypes DEF TriggerObject
<1>2. container' \in ContainerObject
  BY DesiredContainerType DEF TriggerRequestFails, TypeOK, children
<1>3. workload' \in WorkloadObject
  <2>1. cachedContainer.image \in Images
    BY DEF TypeOK, ContainerObject
  <2> QED BY <2>1, DesiredWorkloadType DEF TriggerRequestFails, TypeOK, children
<1>4. trigger' \in TriggerObject
  <2> HIDE DEF failed
  <2>1. trigger' \in {trigger, NoContainerReady(trigger), failed}
    BY DEF TriggerRequestFails, Transient, failed
  <2> QED BY <2>1, <1>1, StatusTypes DEF TypeOK
<1>5. service' \in {"free", "own", "other"}
  BY DEF TriggerRequestFails, TypeOK, children
<1>6. /\ queued' \subseteq Controllers /\ unannounced' \subseteq Controllers
      /\ faults' \in 0..MaxFaults
  BY ChainBounds DEF TriggerRequestFails, TypeOK
<1> QED
  BY <1>2, <1>3, <1>4, <1>5, <1>6 DEF TriggerRequestFails, TypeOK, sources, registries, caches

\* So does everything around the controllers.
LEMMA EnvironmentType == TypeOK /\ EnvironmentNext => TypeOK'
<1> SUFFICES ASSUME TypeOK, EnvironmentNext PROVE TypeOK'
  OBVIOUS
<1> USE DEF sources, registries, children, caches
<1>1. Changes => changes' \in 0..MaxChanges
  BY ChainBounds DEF Changes, TypeOK
<1>2. CASE AccessChanges
  <2>1. queued' \subseteq Controllers /\ unannounced' \subseteq Controllers
    BY <1>2 DEF AccessChanges, TypeOK
  <2>2. access' \in Accesses
    BY <1>2 DEF AccessChanges
  <2> QED BY <1>1, <1>2, <2>1, <2>2 DEF AccessChanges, TypeOK
<1>11. CASE TagMoves
  BY <1>1, <1>11 DEF TagMoves, TypeOK
<1>8. CASE RepositoryEdited \/ NameIsTaken \/ NameIsFreed
  BY <1>1, <1>8 DEF RepositoryEdited, NameIsTaken, NameIsFreed, TypeOK, Conditions
<1>3. CASE ChildDeleted
  BY <1>1, <1>3, NoneType DEF ChildDeleted, TypeOK
<1>4. ASSUME NEW c \in Components, ComponentChanges(c) PROVE TypeOK'
  <2>1. PICK state \in Conditions \union {"missing"} :
          component' = [component EXCEPT
            ![c] = [state |-> state,
                    version |-> IF state = "ready" THEN @.version + 1 ELSE @.version]]
    BY <1>4 DEF ComponentChanges
  <2>2. component' \in [Components -> [state: Conditions \union {"missing"}, version: Nat]]
    BY <2>1 DEF TypeOK
  <2> QED BY <1>1, <1>4, <2>2 DEF ComponentChanges, TypeOK
<1>5. ASSUME NEW c \in Components, TriggerEdited(c) PROVE TypeOK'
  <2>1. trigger' \in TriggerObject
    BY <1>5 DEF TriggerEdited, TypeOK, TriggerObject
  <2> QED BY <1>1, <1>5, <2>1 DEF TriggerEdited, TypeOK
<1>6. CASE WorkloadObserved \/ PodsStarted \/ PodsReady \/ PodsFail
  <2>1. workload' \in WorkloadObject
    BY <1>6, PodsMove DEF TypeOK
  <2>2. changes' \in 0..MaxChanges
    BY <1>1, <1>6 DEF WorkloadObserved, PodsStarted, PodsReady, PodsFail, Rollout, TypeOK
  <2> QED
    BY <1>6, <2>1, <2>2 DEF WorkloadObserved, PodsStarted, PodsReady, PodsFail, Rollout, TypeOK
<1>7. CASE SyncContainer \/ SyncWorkload
  BY <1>7 DEF SyncContainer, SyncWorkload, TypeOK
<1>9. CASE Restart
  BY <1>9, ChainBounds DEF Restart, TypeOK
<1>10. ASSUME NEW x \in Controllers, Resync(x) PROVE TypeOK'
  BY <1>10 DEF Resync, Done, TypeOK
<1> QED
  BY <1>2, <1>3, <1>4, <1>5, <1>6, <1>7, <1>8, <1>9, <1>10, <1>11 DEF EnvironmentNext

-----------------------------------------------------------------------------
(* Images only move on                                                     *)

\* What Ordered is about.
ordered == <<tag, component, image, container, cachedContainer, workload.image>>

\* Once published is published, as long as versions only grow.
LEMMA PublishedStays ==
    ASSUME TypeOK, TypeOK', NEW i \in Images, Published(i),
           \A c \in Components : component[c].version <= component'[c].version,
           image.runtime <= image'.runtime
    PROVE  Published(i)'
<1>1. CASE i = NoImage
  BY <1>1 DEF Published, NoImage
<1>2. CASE i.component \in Components
  <2> DEFINE old == component[i.component].version
             new == component'[i.component].version
  <2>1. old \in Nat /\ new \in Nat /\ old <= new /\ i.version \in Nat /\ i.version <= old
    BY <1>2, ComponentsAssumption DEF TypeOK, Images, Published, NoImage
  <2>2. image.runtime \in Nat /\ image'.runtime \in Nat /\ i.runtime \in Nat
        /\ i.runtime <= image.runtime
    BY <1>2, ComponentsAssumption DEF TypeOK, Images, Published, NoImage
  <2>3. i.version <= new
    BY <2>1
  <2>4. i.runtime <= image'.runtime
    BY <2>2
  <2> QED BY <1>2, <2>3, <2>4 DEF Published
<1> QED BY <1>1, <1>2 DEF Published

\* Nothing was published that is newer than a build of what there is now.
LEMMA BuildIsNewest ==
    ASSUME TypeOK, NEW i \in Images, Published(i), NEW c \in Components
    PROVE  /\ NotOlder(i, Built(c, component[c].version, image.runtime))
           /\ Published(Built(c, component[c].version, image.runtime))
<1>1. component[c].version \in Nat /\ image.runtime \in Nat
  BY DEF TypeOK
<1> QED BY <1>1, ComponentsAssumption DEF NotOlder, Published, Built, NoImage

\* Nor is anything older than an image that is not there.
LEMMA NothingIsOlder ==
    ASSUME NEW i \in Images, Published(i)
    PROVE  NotOlder(i, NoImage) /\ NotOlder(NoImage, i) /\ Published(NoImage) /\ NotOlder(i, i)
BY ComponentsAssumption DEF NotOlder, Published, NoImage, Images

\* The images that Ordered compares are images.
LEMMA OrderedImages ==
    ASSUME TypeOK
    PROVE  container.image \in Images /\ cachedContainer.image \in Images
           /\ workload.image \in Images
BY DEF TypeOK, ContainerObject, WorkloadObject

\* A step that changes nothing Ordered is about keeps it.
LEMMA OrderedStutters == Ordered /\ UNCHANGED ordered => Ordered'
BY DEF Ordered, ordered, Published, NotOlder

\* Images move on in order when the ComponentContainerImage is built anew of
\* what there is now, or is just another one that has not been built.
LEMMA OrderedContainer ==
    ASSUME TypeOK, Ordered, TypeOK',
           UNCHANGED <<tag, component, image, cachedContainer>>,
           workload'.image = workload.image,
           container'.exists => container'.ref \in Components,
           \/ container'.image = NoImage /\ ~container'.ready
           \/ container'.image = container.image /\ (container'.ready => container.ready)
           \/ container'.image = cachedContainer.image
              /\ (container'.ready => cachedContainer.ready)
           \/ \E c \in Components :
                 container'.image = Built(c, component[c].version, image.runtime)
    PROVE  Ordered'
<1>1. /\ Published(container'.image)
      /\ NotOlder(workload.image, container'.image)
      /\ NotOlder(cachedContainer.image, container'.image)
      /\ container'.ready => container'.image # NoImage
  <2>1. CASE container'.image = NoImage /\ ~container'.ready
    BY <2>1, OrderedImages, NothingIsOlder DEF Ordered
  <2>2. CASE container'.image = container.image /\ (container'.ready => container.ready)
    BY <2>2 DEF Ordered
  <2>3. CASE container'.image = cachedContainer.image
             /\ (container'.ready => cachedContainer.ready)
    BY <2>3, OrderedImages, NothingIsOlder DEF Ordered
  <2>4. ASSUME NEW c \in Components,
               container'.image = Built(c, component[c].version, image.runtime)
        PROVE  /\ Published(container'.image)
               /\ NotOlder(workload.image, container'.image)
               /\ NotOlder(cachedContainer.image, container'.image)
               /\ container'.ready => container'.image # NoImage
    <3>1. container'.image # NoImage
      BY <2>4, BuiltType DEF TypeOK
    <3> QED BY <2>4, <3>1, OrderedImages, BuildIsNewest DEF Ordered
  <2> QED BY <2>1, <2>2, <2>3, <2>4
<1> QED BY <1>1 DEF Ordered, Published, NotOlder

\* They do when the workload is given what the informers know, or goes.
LEMMA OrderedWorkload ==
    ASSUME TypeOK, Ordered,
           UNCHANGED <<tag, component, image, container, cachedContainer>>,
           workload'.image \in {workload.image, cachedContainer.image, NoImage}
    PROVE  Ordered'
<1>1. /\ Published(workload'.image)
      /\ NotOlder(workload'.image, container.image)
      /\ NotOlder(workload'.image, cachedContainer.image)
  <2>1. CASE workload'.image = workload.image
    BY <2>1 DEF Ordered
  <2>2. CASE workload'.image = cachedContainer.image
    BY <2>2, OrderedImages, NothingIsOlder DEF Ordered
  <2>3. CASE workload'.image = NoImage
    BY <2>3, OrderedImages, NothingIsOlder DEF Ordered
  <2> QED BY <2>1, <2>2, <2>3
<1> QED BY <1>1 DEF Ordered, Published, NotOlder

\* They do when the informers catch up.
LEMMA OrderedSync ==
    ASSUME TypeOK, Ordered,
           UNCHANGED <<tag, component, image, container, workload>>,
           cachedContainer' = container
    PROVE  Ordered'
<1>1. NotOlder(container.image, container.image)
  BY OrderedImages, NothingIsOlder DEF Ordered
<1> QED BY <1>1 DEF Ordered, Published, NotOlder

\* They do when a newer version of a component or of the runtime is there.
LEMMA OrderedSources ==
    ASSUME TypeOK, Ordered, TypeOK',
           UNCHANGED <<container, cachedContainer, workload>>,
           \A c \in Components : component[c].version <= component'[c].version,
           image.runtime <= image'.runtime, image'.runtime <= tag'
    PROVE  Ordered'
<1>1. /\ Published(container.image)' /\ Published(cachedContainer.image)'
      /\ Published(workload.image)'
  <2>1. ASSUME NEW i \in Images, Published(i)
        PROVE  Published(i)'
    BY <2>1, PublishedStays
  <2>2. /\ container'.image = container.image /\ cachedContainer'.image = cachedContainer.image
        /\ workload'.image = workload.image
    OBVIOUS
  <2> QED BY <2>1, <2>2, OrderedImages DEF Ordered, Published
<1> QED BY <1>1 DEF Ordered, NotOlder

\* The Repository and Image controllers keep the order: the tag is never behind.
LEMMA RegistriesOrdered == TypeOK /\ TypeOK' /\ Ordered /\ RegistriesNext => Ordered'
<1> SUFFICES ASSUME TypeOK, TypeOK', Ordered, RegistriesNext PROVE Ordered'
  OBVIOUS
<1>1. CASE ReconcileRepository
  BY <1>1, OrderedStutters DEF ReconcileRepository, ordered, sources, children, caches
<1>2. CASE ReconcileImage \/ CopyFails
  <2>1. /\ image.runtime <= image'.runtime /\ image'.runtime <= tag'
        /\ UNCHANGED component /\ UNCHANGED <<container, cachedContainer, workload>>
    BY <1>2 DEF ReconcileImage, CopyFails, CopyImage, TypeOK, Ordered, sources, children, caches
  <2>2. \A c \in Components : component[c].version <= component'[c].version
    BY <2>1 DEF TypeOK
  <2> QED BY <2>1, <2>2, OrderedSources
<1> QED BY <1>1, <1>2 DEF RegistriesNext

\* So does the controller of the ComponentContainerImage: what it builds is of
\* the sources as they are.
LEMMA ContainerOrdered == TypeOK /\ TypeOK' /\ Ordered /\ ReconcileContainerImage => Ordered'
<1> SUFFICES ASSUME TypeOK, TypeOK', Ordered, ReconcileContainerImage PROVE Ordered'
  OBVIOUS
<1>1. UNCHANGED <<tag, component, image, cachedContainer>> /\ workload'.image = workload.image
  BY DEF ReconcileContainerImage, sources, registries, caches
<1>2. CASE container.exists /\ container' = AppendComponent(container)
  <2>1. container.ref \in Components
    BY <1>2 DEF Ordered
  <2>2. /\ container'.image = Built(container.ref, component[container.ref].version,
                                   image.runtime)
        /\ container'.exists => container'.ref \in Components
    BY <1>2, <2>1 DEF AppendComponent, TypeOK, ContainerObject
  <2> QED BY <1>1, <2>1, <2>2, OrderedContainer
<1>3. CASE container' \in {container, [container EXCEPT !.observed = TRUE],
                          [container EXCEPT !.observed = TRUE, !.ready = FALSE]}
  <2>1. /\ container'.image = container.image
        /\ container'.ready => container.ready
        /\ container'.exists => container'.ref \in Components
    <3>1. container \in ContainerObject /\ (container.exists => container.ref \in Components)
      BY DEF TypeOK, Ordered
    <3>2. CASE container' = container
      BY <3>1, <3>2
    <3>3. CASE container' = [container EXCEPT !.observed = TRUE]
      BY <3>1, <3>3, ContainerWritten
    <3>4. CASE container' = [container EXCEPT !.observed = TRUE, !.ready = FALSE]
      BY <3>1, <3>4, ContainerWritten
    <3> QED BY <1>3, <3>2, <3>3, <3>4
  <2> QED BY <1>1, <2>1, OrderedContainer
<1> QED BY <1>2, <1>3 DEF ReconcileContainerImage

\* So do the controllers of triggers, whether or not a call of theirs fails:
\* the workload is given what the informers know.
LEMMA TriggerOrdered ==
    TypeOK /\ TypeOK' /\ Ordered /\ (ReconcileTrigger \/ TriggerRequestFails) => Ordered'
<1> SUFFICES ASSUME TypeOK, TypeOK', Ordered, ReconcileTrigger \/ TriggerRequestFails
             PROVE  Ordered'
  OBVIOUS
<1>1. UNCHANGED <<tag, component, image, cachedContainer>>
  BY DEF ReconcileTrigger, TriggerRequestFails, sources, registries, caches
<1>2. CASE UNCHANGED workload /\ container' \in {container, DesiredContainer}
  <2>1. CASE container' = container
    BY <1>1, <1>2, <2>1, OrderedStutters DEF ordered
  <2>2. CASE container' = DesiredContainer
    BY <1>1, <1>2, <2>2, DesiredContainerType, OrderedContainer
  <2> QED BY <1>2, <2>1, <2>2
<1>3. CASE UNCHANGED container /\ workload' = DesiredWorkload(cachedContainer.image)
  <2>1. workload'.image = cachedContainer.image
    BY <1>3, OrderedImages, DesiredWorkloadType
  <2> QED BY <1>1, <1>3, <2>1, OrderedWorkload
<1> QED
  BY <1>2, <1>3, StatusTypes
  DEF ReconcileTrigger, TriggerRequestFails, WaitForContainer, ManageWorkload, children

\* So does everything around the controllers.
LEMMA EnvironmentOrdered == TypeOK /\ TypeOK' /\ Ordered /\ EnvironmentNext => Ordered'
<1> SUFFICES ASSUME TypeOK, TypeOK', Ordered, EnvironmentNext PROVE Ordered'
  OBVIOUS
<1> USE DEF sources, registries, children, caches
<1>1. CASE AccessChanges \/ RepositoryEdited \/ NameIsTaken \/ NameIsFreed \/ SyncWorkload
  BY <1>1, OrderedStutters
  DEF AccessChanges, RepositoryEdited, NameIsTaken, NameIsFreed, SyncWorkload, ordered
<1>7. ASSUME NEW c \in Components, TriggerEdited(c) PROVE Ordered'
  BY <1>7, OrderedStutters DEF TriggerEdited, ordered
<1>8. ASSUME NEW x \in Controllers, Resync(x) PROVE Ordered'
  BY <1>8, OrderedStutters DEF Resync, ordered
<1>2. CASE TagMoves
  <2>1. \A c \in Components : component[c].version <= component'[c].version
    BY <1>2 DEF TagMoves, TypeOK
  <2>2. image.runtime <= image'.runtime /\ image'.runtime <= tag'
    BY <1>2 DEF TagMoves, TypeOK, Ordered
  <2> QED BY <1>2, <2>1, <2>2, OrderedSources DEF TagMoves
<1>3. ASSUME NEW c \in Components, ComponentChanges(c) PROVE Ordered'
  <2>1. \A d \in Components : component[d].version <= component'[d].version
    BY <1>3 DEF ComponentChanges, TypeOK
  <2>2. image.runtime <= image'.runtime /\ image'.runtime <= tag'
    BY <1>3 DEF ComponentChanges, TypeOK, Ordered
  <2> QED BY <1>3, <2>1, <2>2, OrderedSources DEF ComponentChanges
<1>4. CASE ChildDeleted
  <2>1. UNCHANGED <<tag, component, image, cachedContainer>>
    BY <1>4 DEF ChildDeleted
  <2>2. CASE container' = NoContainer /\ UNCHANGED workload
    BY <2>1, <2>2, OrderedContainer DEF NoContainer
  <2>3. CASE workload' = NoWorkload /\ UNCHANGED container
    BY <2>1, <2>3, OrderedWorkload DEF NoWorkload
  <2>4. CASE UNCHANGED <<container, workload>>
    BY <2>1, <2>4, OrderedStutters DEF ordered
  <2> QED BY <1>4, <2>2, <2>3, <2>4 DEF ChildDeleted
<1>5. CASE WorkloadObserved \/ PodsStarted \/ PodsReady \/ PodsFail
  <2>1. workload'.image = workload.image
    BY <1>5, PodsMove DEF TypeOK
  <2>2. UNCHANGED <<tag, component, image, container, cachedContainer>>
    BY <1>5 DEF WorkloadObserved, PodsStarted, PodsReady, PodsFail, Rollout
  <2> QED BY <2>1, <2>2, OrderedWorkload
<1>6. CASE SyncContainer \/ Restart
  BY <1>6, OrderedSync DEF SyncContainer, Restart
<1> QED BY <1>1, <1>2, <1>3, <1>4, <1>5, <1>6, <1>7, <1>8 DEF EnvironmentNext

-----------------------------------------------------------------------------
(* The theorems                                                            *)

\* The inductive invariant.
IInv == TypeOK /\ Ordered

\* It holds in the beginning: nothing was built.
LEMMA OrderedInit == Init => IInv
<1> SUFFICES ASSUME Init PROVE Ordered
  BY TypeInit DEF IInv
<1> QED
  BY DEF Init, ChainInit, Ordered, Published, NotOlder, NoContainer, NoWorkload, NoImage

\* Every step keeps it.
LEMMA OrderedNext == IInv /\ [Next]_vars => IInv'
<1> SUFFICES ASSUME TypeOK, Ordered, [Next]_vars PROVE TypeOK' /\ Ordered'
  BY DEF IInv
<1>1. CASE Next
  <2>1. TypeOK'
    BY <1>1, RegistriesType, ContainerType, TriggerType, TriggerFailsType, EnvironmentType
    DEF Next, ContainersNext
  <2>2. Ordered'
    BY <1>1, <2>1, RegistriesOrdered, ContainerOrdered, TriggerOrdered, EnvironmentOrdered
    DEF Next, ContainersNext
  <2> QED BY <2>1, <2>2
<1>2. CASE UNCHANGED vars
  <2>1. TypeOK'
    BY <1>2 DEF vars, TypeOK, sources, registries, children, caches
  <2>2. Ordered'
    BY <1>2, OrderedStutters DEF vars, ordered, sources, registries, children, caches
  <2> QED BY <2>1, <2>2
<1> QED BY <1>1, <1>2

\* Type correctness of the whole chain.
THEOREM ChainTypes == Spec => []TypeOK
<1>1. IInv => TypeOK
  BY DEF IInv
<1> QED BY <1>1, OrderedInit, OrderedNext, PTL DEF Spec

\* A step that gives a workload another image gives it what the informers know:
\* of the same component never something older, and something that was built.
LEMMA StepMovesOn ==
    IInv /\ Next /\ workload.image # workload'.image /\ workload'.exists =>
        workload'.image # NoImage /\ NotOlder(workload.image, workload'.image)
<1> SUFFICES ASSUME TypeOK, Ordered, Next, workload.image # workload'.image, workload'.exists
             PROVE  workload'.image # NoImage /\ NotOlder(workload.image, workload'.image)
  BY DEF IInv
<1> USE DEF sources, registries, children, caches
<1>1. CASE ReconcileTrigger \/ TriggerRequestFails
  <2>1. workload' = DesiredWorkload(cachedContainer.image) /\ ContainerReady
    BY <1>1, StatusTypes
    DEF ReconcileTrigger, TriggerRequestFails, ManageWorkload
  <2>2. workload'.image = cachedContainer.image
    BY <2>1, OrderedImages, DesiredWorkloadType
  <2>3. cachedContainer.image # NoImage
    BY <2>1 DEF ContainerReady, Ordered
  <2> QED BY <2>2, <2>3 DEF Ordered
<1>2. CASE RegistriesNext \/ ReconcileContainerImage
  BY <1>2 DEF RegistriesNext, ReconcileRepository, ReconcileImage, CopyFails,
              ReconcileContainerImage
<1>3. CASE EnvironmentNext
  <2>1. ~ChildDeleted
    BY DEF ChildDeleted, NoWorkload
  <2>2. ~(WorkloadObserved \/ PodsStarted \/ PodsReady \/ PodsFail)
    BY DEF WorkloadObserved, PodsStarted, PodsReady, PodsFail, Rollout, TypeOK, WorkloadObject
  <2> QED
    BY <1>3, <2>1, <2>2
    DEF EnvironmentNext, AccessChanges, TagMoves, RepositoryEdited, NameIsTaken, NameIsFreed,
        ComponentChanges, TriggerEdited, SyncContainer, SyncWorkload, Resync, Restart
<1> QED BY <1>1, <1>2, <1>3 DEF Next, ContainersNext

\* No workload is rolled back, whatever fails or restarts and however far the
\* informers are behind.
THEOREM NoRollback == Spec => NeverRollsBack
<1>1. IInv /\ [Next]_vars =>
        [workload.image # workload'.image /\ workload'.exists =>
          LET old == workload.image
              new == workload'.image
          IN /\ new # NoImage
             /\ old.component = new.component =>
                   old.version <= new.version /\ old.runtime <= new.runtime]_vars
  BY StepMovesOn DEF NotOlder
<1> QED BY <1>1, OrderedInit, OrderedNext, PTL DEF Spec, NeverRollsBack


-----------------------------------------------------------------------------
(* No change is missed                                                     *)

\* Nobody queues the controller, and its last answer is not outdated.
Rests(x) == x \notin queued /\ x \notin unannounced

\* What the controllers at rest have answered.  A registry that denies what it
\* granted before is noticed by the Repository alone.
RepositoryAnswered ==
    Rests("repository") => repository = IF access = "granted" THEN "ready" ELSE "notReady"

ImageAnswered ==
    Rests("image") =>
        /\ repository = "notReady" => image.state = "notReady"
        /\ repository = "ready" /\ access # "noCredentials" =>
              image.state = "ready" /\ image.runtime = tag

Answers(c) ==
    \/ Blocked(c)
    \/ ~Blocked(c) /\ ~Resolved(c) /\ c.observed /\ ~c.ready
    \/ /\ Resolved(c) /\ c.observed /\ c.ready
       /\ c.image = Built(c.ref, component[c.ref].version, image.runtime)

\* An image that is not in the cache as it is will be told of.
ContainerAnswered ==
    Rests("container") /\ container.exists =>
        cachedContainer # container \/ Answers(container)

\* A copy of a workload in the cache is not ahead of the workload: what was
\* made or changed since has another image.
WorkloadPast ==
    /\ cachedWorkload.exists /\ workload.exists
    /\ cachedWorkload.image = workload.image
    => /\ cachedWorkload.observed => workload.observed
       /\ cachedWorkload.observed /\ cachedWorkload.updated => workload.updated

\* What the trigger says of the Service, which it did not leave to others.
ServiceAnswered ==
    HasService(trigger) =>
        /\ service # "free"
        /\ trigger.serviceReady <=> service = "own"

WorkloadAnswered ==
    /\ workload.exists /\ workload.image = container.image
    /\ \/ trigger.kind # "cron" /\ ~workload.observed
       \/ /\ trigger.observed /\ trigger.imageReady /\ trigger.image = container.image
          /\ trigger.workloadReady <=> WorkloadReady(workload)
          /\ ServiceAnswered

ImageReflected ==
    /\ container.exists /\ container.ref = trigger.ref
    /\ \/ ~container.observed
       \/ container.observed /\ ~container.ready /\ ~trigger.imageReady
       \/ container.observed /\ container.ready /\ WorkloadAnswered

TriggerAnswered ==
    Rests("trigger") =>
        cachedContainer # container \/ cachedWorkload # workload \/ ImageReflected

ChainAnswered ==
    /\ RepositoryAnswered /\ ImageAnswered /\ ContainerAnswered
    /\ WorkloadPast /\ TriggerAnswered


-----------------------------------------------------------------------------
\* A controller comes to rest only by a request of its own, and what it has
\* answered to is left alone while it rests, except for what is seen later.
LEMMA RepositoryRests ==
    ASSUME TypeOK, Next, ~ReconcileRepository, Rests("repository")'
    PROVE  Rests("repository") /\ UNCHANGED <<repository, access>>
<1> USE DEF sources, registries, children, caches
<1>1. CASE ReconcileImage \/ CopyFails
  BY <1>1 DEF ReconcileImage, CopyFails, Done, Rests
<1>2. CASE ContainersNext
  BY <1>2 DEF ContainersNext, ReconcileContainerImage, ReconcileTrigger, TriggerRequestFails,
              Done, Rests
<1>3. CASE EnvironmentNext
  <2>1. ~AccessChanges /\ ~RepositoryEdited /\ ~Restart /\ ~Resync("repository")
    BY DEF AccessChanges, RepositoryEdited, Restart, Resync, Done, Rests
  <2>2. ASSUME NEW x \in Controllers, Resync(x)
        PROVE  Rests("repository") /\ UNCHANGED <<repository, access>>
    BY <2>1, <2>2 DEF Resync, Done, Rests
  <2> QED
    BY <1>3, <2>1, <2>2
    DEF EnvironmentNext, TagMoves, ChildDeleted, NameIsTaken, NameIsFreed, ComponentChanges,
        TriggerEdited, WorkloadObserved, PodsStarted, PodsReady, PodsFail, Rollout,
        SyncContainer, SyncWorkload, Rests
<1> QED BY <1>1, <1>2, <1>3 DEF Next, RegistriesNext

\* The same of the image: it is not told of what a registry grants or denies.
LEMMA ImageRests ==
    ASSUME TypeOK, Next, ~ReconcileImage, Rests("image")'
    PROVE  /\ Rests("image")
           /\ UNCHANGED <<repository, image, tag>>
           /\ access' = access \/ "noCredentials" \notin {access, access'}
<1> USE DEF sources, registries, children, caches
<1>1. CASE ReconcileRepository
  BY <1>1 DEF ReconcileRepository, RepositoryReaders, Done, Rests
<1>2. ~CopyFails
  BY DEF CopyFails, Rests
<1>3. CASE ContainersNext
  BY <1>3 DEF ContainersNext, ReconcileContainerImage, ReconcileTrigger, TriggerRequestFails,
              Done, Rests
<1>4. CASE EnvironmentNext
  <2>1. ~RepositoryEdited /\ ~TagMoves /\ ~Restart /\ ~Resync("image")
    BY DEF RepositoryEdited, TagMoves, Restart, Resync, Done, Rests
  <2>2. ASSUME NEW x \in Controllers, Resync(x)
        PROVE  /\ Rests("image")
               /\ UNCHANGED <<repository, image, tag>>
               /\ access' = access \/ "noCredentials" \notin {access, access'}
    BY <2>1, <2>2 DEF Resync, Done, Rests
  <2>3. CASE AccessChanges
    BY <2>3 DEF AccessChanges, Rests
  <2> QED
    BY <1>4, <2>1, <2>2, <2>3
    DEF EnvironmentNext, ChildDeleted, NameIsTaken, NameIsFreed, ComponentChanges,
        TriggerEdited, WorkloadObserved, PodsStarted, PodsReady, PodsFail, Rollout,
        SyncContainer, SyncWorkload, Rests
<1> QED BY <1>1, <1>2, <1>3, <1>4 DEF Next, RegistriesNext

\* The same of the ComponentContainerImage.
LEMMA ContainerRests ==
    ASSUME TypeOK, Next, ~ReconcileContainerImage, Rests("container")'
    PROVE  Rests("container") /\ UNCHANGED <<component, image, repository, cachedContainer>>
<1> USE DEF sources, registries, children, caches
<1>1. CASE RegistriesNext
  BY <1>1 DEF RegistriesNext, ReconcileRepository, RepositoryReaders, ReconcileImage, CopyFails,
              ImageReaders, Done, Rests
<1>2. CASE ReconcileTrigger \/ TriggerRequestFails
  BY <1>2 DEF ReconcileTrigger, TriggerRequestFails, TriggerReaders, Done, Rests
<1>3. CASE EnvironmentNext
  <2>1. /\ ~RepositoryEdited /\ ~Restart /\ ~Resync("container") /\ ~SyncContainer
        /\ \A c \in Components : ~ComponentChanges(c)
    BY DEF RepositoryEdited, ComponentChanges, SyncContainer, Restart, Resync, Done, Rests
  <2>2. ASSUME NEW x \in Controllers, Resync(x)
        PROVE  Rests("container") /\ UNCHANGED <<component, image, repository, cachedContainer>>
    BY <2>1, <2>2 DEF Resync, Done, Rests
  <2> QED
    BY <1>3, <2>1, <2>2
    DEF EnvironmentNext, AccessChanges, TagMoves, ChildDeleted, NameIsTaken, NameIsFreed,
        TriggerEdited, WorkloadObserved, PodsStarted, PodsReady, PodsFail, Rollout,
        SyncWorkload, Rests
<1> QED BY <1>1, <1>2, <1>3 DEF Next, ContainersNext

\* The same of the trigger: only a name it does not need is taken unnoticed.
LEMMA TriggerRests ==
    ASSUME TypeOK, Next, ~ReconcileTrigger, Rests("trigger")'
    PROVE  /\ Rests("trigger")
           /\ UNCHANGED <<trigger, cachedContainer, cachedWorkload>>
           /\ service' = service \/ service = "free" \/ ~HasService(trigger)
<1> USE DEF sources, registries, children, caches
<1>1. CASE RegistriesNext
  BY <1>1 DEF RegistriesNext, ReconcileRepository, RepositoryReaders, ReconcileImage, CopyFails,
              ImageReaders, Done, Rests
<1>2. CASE ReconcileContainerImage
  BY <1>2 DEF ReconcileContainerImage, Done, Rests
<1>3. ~TriggerRequestFails
  BY DEF TriggerRequestFails, TriggerRequest, Rests
<1>4. CASE EnvironmentNext
  <2>1. /\ ~Restart /\ ~Resync("trigger") /\ ~SyncContainer /\ ~SyncWorkload
        /\ \A c \in Components : ~TriggerEdited(c)
    BY DEF TriggerEdited, SyncContainer, SyncWorkload, Restart, Resync, Done, Rests
  <2>2. ASSUME NEW x \in Controllers, Resync(x)
        PROVE  /\ Rests("trigger")
               /\ UNCHANGED <<trigger, cachedContainer, cachedWorkload>>
               /\ service' = service \/ service = "free" \/ ~HasService(trigger)
    BY <2>1, <2>2 DEF Resync, Done, Rests
  <2>3. CASE ChildDeleted \/ NameIsTaken \/ NameIsFreed
    BY <2>3 DEF ChildDeleted, NameIsTaken, NameIsFreed, Rests
  <2> QED
    BY <1>4, <2>1, <2>2, <2>3
    DEF EnvironmentNext, AccessChanges, TagMoves, RepositoryEdited, ComponentChanges,
        WorkloadObserved, PodsStarted, PodsReady, PodsFail, Rollout, Rests
<1> QED BY <1>1, <1>2, <1>3, <1>4 DEF Next, ContainersNext

\* A child that a step changes differs from its copy in the cache.
LEMMA ChangedChildDiffers ==
    ASSUME TypeOK, WorkloadPast, Next
    PROVE  /\ container' = container \/ cachedContainer' # container'
           /\ workload' = workload \/ cachedWorkload' # workload'
<1> USE DEF sources, registries, children, caches
<1>1. CASE RegistriesNext
  BY <1>1 DEF RegistriesNext, ReconcileRepository, ReconcileImage, CopyFails
<1>2. CASE ReconcileContainerImage
  BY <1>2 DEF ReconcileContainerImage
<1>3. CASE ReconcileTrigger
  <2>1. UNCHANGED caches
    BY <1>3 DEF ReconcileTrigger
  <2>2. ASSUME WaitForContainer, UNCHANGED workload
        PROVE  /\ container' = container \/ cachedContainer' # container'
               /\ workload' = workload
    BY <2>1, <2>2 DEF WaitForContainer, ContainerIsCurrent
  <2>3. ASSUME NEW t, ManageWorkload(t), UNCHANGED container
        PROVE  /\ container' = container
               /\ workload' = workload \/ cachedWorkload' # workload'
    BY <2>1, <2>3 DEF ManageWorkload, WorkloadIsCurrent
  <2> QED BY <1>3, <2>2, <2>3 DEF ReconcileTrigger
<1>4. CASE TriggerRequestFails
  BY <1>4 DEF TriggerRequestFails, ContainerIsCurrent, WorkloadIsCurrent
<1>5. CASE ChildDeleted
  BY <1>5 DEF ChildDeleted, NoContainer, NoWorkload
<1>6. CASE WorkloadObserved
  <2>1. /\ workload'.exists /\ workload'.observed /\ workload'.image = workload.image
        /\ workload.exists /\ ~workload.observed
    BY <1>6 DEF WorkloadObserved, Rollout, TypeOK, WorkloadObject
  <2> QED BY <1>6, <2>1 DEF WorkloadObserved, Rollout, WorkloadPast
<1>7. CASE PodsStarted
  <2>1. /\ workload'.exists /\ workload'.observed /\ workload'.updated
        /\ workload'.image = workload.image /\ workload.exists /\ ~workload.updated
    BY <1>7 DEF PodsStarted, Rollout, TypeOK, WorkloadObject
  <2> QED BY <1>7, <2>1 DEF PodsStarted, Rollout, WorkloadPast
<1>8. CASE PodsReady \/ PodsFail
  BY <1>8 DEF PodsReady, PodsFail, PodsAreKnown, Rollout, TypeOK, WorkloadObject
<1>9. ASSUME NEW x \in Controllers, Resync(x)
      PROVE  container' = container /\ workload' = workload
  BY <1>9 DEF Resync
<1> QED
  BY <1>1, <1>2, <1>3, <1>4, <1>5, <1>6, <1>7, <1>8, <1>9
  DEF Next, ContainersNext, EnvironmentNext, AccessChanges, TagMoves, RepositoryEdited,
      NameIsTaken, NameIsFreed, ComponentChanges, TriggerEdited, SyncContainer, SyncWorkload,
      Restart


\* A cache stays behind the workload.
LEMMA WorkloadPastStep ==
    ASSUME TypeOK, WorkloadPast, Next
    PROVE  WorkloadPast'
<1> USE DEF sources, registries, children, caches
<1>1. CASE UNCHANGED <<workload, cachedWorkload>>
  BY <1>1 DEF WorkloadPast
<1>2. ASSUME NEW img \in Images, workload = cachedWorkload, workload' = DesiredWorkload(img),
             cachedWorkload' = cachedWorkload
      PROVE  WorkloadPast'
  <2>1. CASE ~cachedWorkload.exists
    BY <1>2, <2>1 DEF WorkloadPast
  <2>2. CASE cachedWorkload.exists /\ img = cachedWorkload.image
    <3>1. /\ workload'.observed <=> cachedWorkload.observed
          /\ workload'.updated <=> cachedWorkload.updated
      BY <1>2, <2>2 DEF DesiredWorkload, TypeOK, WorkloadObject
    <3> QED BY <1>2, <3>1 DEF WorkloadPast
  <2>3. CASE img # cachedWorkload.image
    <3>1. workload'.image = img
      BY <1>2, DesiredWorkloadType
    <3> QED BY <1>2, <2>3, <3>1 DEF WorkloadPast
  <2> QED BY <2>1, <2>2, <2>3
<1>3. CASE ReconcileTrigger \/ TriggerRequestFails
  <2>1. cachedContainer.image \in Images
    BY OrderedImages
  <2>2. cachedWorkload' = cachedWorkload
    BY <1>3 DEF ReconcileTrigger, TriggerRequestFails
  <2>3. \/ workload' = workload
        \/ workload = cachedWorkload /\ workload' = DesiredWorkload(cachedContainer.image)
    BY <1>3, StatusTypes DEF ReconcileTrigger, TriggerRequestFails, WaitForContainer, ManageWorkload
  <2> QED BY <1>1, <1>2, <2>1, <2>2, <2>3
<1>4. CASE ChildDeleted
  BY <1>4 DEF ChildDeleted, NoWorkload, WorkloadPast
<1>5. CASE WorkloadObserved \/ PodsStarted \/ PodsReady \/ PodsFail
  <2>1. /\ cachedWorkload' = cachedWorkload
        /\ workload'.exists <=> workload.exists
        /\ workload'.image = workload.image
    BY <1>5, NoneType
    DEF WorkloadObserved, PodsStarted, PodsReady, PodsFail, Rollout, TypeOK, WorkloadObject
  <2>2. CASE WorkloadObserved
    <3>1. ~workload.observed /\ workload'.observed
      BY <2>2 DEF WorkloadObserved, Rollout, TypeOK, WorkloadObject
    <3> QED BY <2>1, <3>1 DEF WorkloadPast
  <2>3. CASE PodsStarted \/ PodsReady \/ PodsFail
    <3>1. /\ workload'.observed <=> workload.observed
          /\ workload.updated => workload'.updated
      BY <2>3, NoneType
      DEF PodsStarted, PodsReady, PodsFail, Rollout, TypeOK, WorkloadObject
    <3> QED BY <2>1, <3>1 DEF WorkloadPast
  <2> QED BY <1>5, <2>2, <2>3
<1>6. CASE SyncWorkload \/ Restart
  BY <1>6 DEF SyncWorkload, Restart, WorkloadPast
<1>7. CASE RegistriesNext \/ ReconcileContainerImage
  BY <1>1, <1>7 DEF RegistriesNext, ReconcileRepository, ReconcileImage, CopyFails,
                    ReconcileContainerImage
<1>8. ASSUME NEW x \in Controllers, Resync(x)
      PROVE  WorkloadPast'
  BY <1>1, <1>8 DEF Resync
<1> QED
  BY <1>1, <1>3, <1>4, <1>5, <1>6, <1>7, <1>8
  DEF Next, ContainersNext, EnvironmentNext, AccessChanges, TagMoves, RepositoryEdited,
      NameIsTaken, NameIsFreed, ComponentChanges, TriggerEdited, SyncContainer

\* What the Repository answers is what the registry allows.
LEMMA RepositoryAnsweredStep ==
    ASSUME TypeOK, RepositoryAnswered, Next
    PROVE  RepositoryAnswered'
<1>1. CASE ReconcileRepository
  BY <1>1 DEF ReconcileRepository, CheckRepository, RepositoryAnswered, sources
<1>2. CASE ~ReconcileRepository
  BY <1>2, RepositoryRests DEF RepositoryAnswered
<1> QED BY <1>1, <1>2

\* What the image answers is what its tag points to.
LEMMA ImageAnsweredStep ==
    ASSUME TypeOK, ImageAnswered, Next
    PROVE  ImageAnswered'
<1>1. CASE ReconcileImage
  <2>1. UNCHANGED <<repository, access, tag>>
    BY <1>1 DEF ReconcileImage, sources
  <2>2. CASE repository = "ready" /\ access = "granted" /\ CopyImage
    BY <2>1, <2>2 DEF CopyImage, ImageAnswered
  <2>3. CASE repository = "notReady" /\ image' = [image EXCEPT !.state = "notReady"]
    BY <2>1, <2>3 DEF ImageAnswered, TypeOK
  <2>4. CASE repository = "pending" \/ (repository = "ready" /\ access = "noCredentials")
    BY <2>1, <2>4 DEF ImageAnswered
  <2> QED BY <1>1, <2>2, <2>3, <2>4 DEF ReconcileImage
<1>2. CASE ~ReconcileImage
  BY <1>2, ImageRests DEF ImageAnswered
<1> QED BY <1>1, <1>2

\* What the ComponentContainerImage answers is what it is built of.
LEMMA ContainerAnsweredStep ==
    ASSUME TypeOK, WorkloadPast, ContainerAnswered, Next
    PROVE  ContainerAnswered'
<1>1. CASE ReconcileContainerImage
  <2> SUFFICES ASSUME Rests("container")', container'.exists
               PROVE  Answers(container)'
    BY DEF ContainerAnswered
  <2>0. UNCHANGED <<component, image, repository>>
    BY <1>1 DEF ReconcileContainerImage, sources, registries
  <2>1. container.exists
    BY <1>1 DEF ReconcileContainerImage, AppendComponent
  <2>2. CASE Blocked(container) /\ UNCHANGED container
    BY <2>0, <2>2 DEF Answers, Blocked
  <2>3. CASE ~Blocked(container) /\ ~Resolved(container)
             /\ container' = [container EXCEPT !.observed = TRUE, !.ready = FALSE]
    <3>1. container'.ref = container.ref /\ container'.observed /\ ~container'.ready
      BY <2>3 DEF TypeOK, ContainerObject
    <3> QED BY <2>0, <2>3, <3>1 DEF Answers, Blocked, Resolved
  <2>4. CASE Resolved(container) /\ container' = AppendComponent(container)
    <3>1. /\ container'.ref = container.ref /\ container'.observed /\ container'.ready
          /\ container'.image = Built(container.ref, component[container.ref].version, image.runtime)
      BY <2>4 DEF AppendComponent, TypeOK, ContainerObject
    <3> QED BY <2>0, <2>4, <3>1 DEF Answers, Resolved
  <2>5. ~(unannounced' = unannounced \union {"container"})
    BY DEF Rests
  <2> QED BY <1>1, <2>1, <2>2, <2>3, <2>4, <2>5 DEF ReconcileContainerImage
<1>2. CASE ~ReconcileContainerImage
  <2> SUFFICES ASSUME Rests("container")', container'.exists, cachedContainer' = container'
               PROVE  Answers(container)'
    BY DEF ContainerAnswered
  <2>1. Rests("container") /\ UNCHANGED <<component, image, repository, cachedContainer>>
    BY <1>2, ContainerRests
  <2>2. container' = container
    BY ChangedChildDiffers
  <2>3. Answers(container)
    BY <2>1, <2>2 DEF ContainerAnswered
  <2> QED BY <2>1, <2>2, <2>3 DEF Answers, Blocked, Resolved
<1> QED BY <1>1, <1>2


\* A request of a trigger that says nothing new leaves it answered, or a child
\* to be told of.
LEMMA RequestAnswers ==
    ASSUME TypeOK, ReconcileTrigger, UNCHANGED trigger
    PROVE  cachedContainer' # container' \/ cachedWorkload' # workload' \/ ImageReflected'
<1>0. /\ UNCHANGED <<cachedContainer, cachedWorkload>>
      /\ trigger \in TriggerObject /\ cachedContainer \in ContainerObject
      /\ cachedWorkload \in WorkloadObject
  BY DEF ReconcileTrigger, caches, TypeOK
<1>c. ContainerIsCurrent => cachedContainer.exists /\ cachedContainer.ref = trigger.ref
  <2>1. DesiredContainer.exists /\ DesiredContainer.ref = trigger.ref
    <3>1. CASE cachedContainer.exists
      BY <1>0, <3>1 DEF DesiredContainer, ContainerObject
    <3>2. CASE ~cachedContainer.exists
      BY <3>2 DEF DesiredContainer, NoContainer
    <3> QED BY <3>1, <3>2
  <2> QED BY <2>1 DEF ContainerIsCurrent
<1>1. CASE WaitForContainer /\ UNCHANGED workload
  <2>1. CASE ~ContainerIsCurrent /\ container = cachedContainer /\ container' = DesiredContainer
    BY <1>0, <2>1 DEF ContainerIsCurrent
  <2>2. CASE container # cachedContainer /\ UNCHANGED container
    BY <1>0, <2>2
  <2>3. CASE ContainerIsCurrent /\ ~cachedContainer.observed /\ UNCHANGED container
    BY <1>0, <1>c, <2>3 DEF ImageReflected
  <2>4. CASE ContainerIsCurrent /\ cachedContainer.observed /\ ~cachedContainer.ready
             /\ UNCHANGED container /\ trigger' = NoContainerReady(trigger)
    <3>1. ~trigger'.imageReady
      BY <1>0, <2>4 DEF NoContainerReady, TriggerObject
    <3> QED BY <1>0, <1>c, <2>4, <3>1 DEF ImageReflected
  <2> QED BY <1>1, <2>1, <2>2, <2>3, <2>4 DEF WaitForContainer
<1>2. CASE ContainerReady /\ ManageWorkload(ReflectImage) /\ UNCHANGED container
  <2> DEFINE img == cachedContainer.image
             t == [ReflectImage EXCEPT !.workloadReady = WorkloadReady(cachedWorkload)]
  <2>0. /\ ReflectImage \in TriggerObject /\ ReflectImage.image = img /\ img \in Images
        /\ WorkloadReady(cachedWorkload) \in BOOLEAN
    BY StatusTypes, WorkloadReadyType, OrderedImages
  <2>w. WorkloadIsCurrent(img) => cachedWorkload.exists /\ cachedWorkload.image = img
    <3>1. DesiredWorkload(img).exists
      <4>1. CASE cachedWorkload.exists
        BY <1>0, <4>1 DEF DesiredWorkload, WorkloadObject
      <4>2. CASE ~cachedWorkload.exists
        BY <4>2 DEF DesiredWorkload, NoWorkload
      <4> QED BY <4>1, <4>2
    <3>2. DesiredWorkload(img).image = img
      BY <2>0, DesiredWorkloadType
    <3> QED BY <3>1, <3>2 DEF WorkloadIsCurrent
  <2>r. ASSUME cachedContainer' = container', cachedWorkload' = workload', WorkloadAnswered'
        PROVE  ImageReflected'
    BY <1>0, <1>2, <1>c, <2>r DEF ContainerReady, ImageReflected
  <2>1. CASE ~WorkloadIsCurrent(img) /\ workload' = DesiredWorkload(img)
    BY <1>0, <2>1 DEF WorkloadIsCurrent
  <2>2. CASE workload # cachedWorkload /\ UNCHANGED workload
    BY <1>0, <2>2
  <2>3. CASE WorkloadIsCurrent(img) /\ trigger.kind # "cron" /\ ~cachedWorkload.observed
             /\ UNCHANGED workload
    BY <1>0, <1>2, <2>3, <2>w, <2>r DEF WorkloadAnswered
  <2>4. CASE WorkloadIsCurrent(img) /\ ManageService(t) /\ UNCHANGED workload
    <3>1. /\ t \in TriggerObject /\ t.observed /\ t.imageReady /\ t.image = img
          /\ t.kind = trigger.kind
      BY <2>0 DEF ReflectImage, TriggerObject, TypeOK
    <3>2. t.workloadReady <=> WorkloadReady(cachedWorkload)
      BY <2>0 DEF TriggerObject
    <3> HIDE DEF t
    <3>3. /\ trigger'.observed /\ trigger'.imageReady /\ trigger'.image = img
          /\ trigger'.kind = trigger.kind
      BY <2>4, <3>1 DEF ManageService, TriggerObject
    <3>4. trigger'.workloadReady <=> WorkloadReady(cachedWorkload)
      BY <2>4, <3>1, <3>2 DEF ManageService, TriggerObject
    <3>5. ServiceAnswered'
      BY <1>0, <2>4, <3>1, <3>3 DEF ManageService, TriggerObject, ServiceAnswered, HasService, TypeOK
    <3>6. WorkloadReady(cachedWorkload)' = WorkloadReady(cachedWorkload)
      BY <1>0 DEF WorkloadReady, DeploymentReady, KnativeServiceReady
    <3>7. cachedContainer' = container' /\ cachedWorkload' = workload' => WorkloadAnswered'
      BY <1>0, <2>4, <2>w, <3>3, <3>4, <3>5, <3>6 DEF WorkloadAnswered
    <3> QED BY <2>r, <3>7
  <2> HIDE DEF img, t
  <2> QED BY <1>2, <2>0, <2>1, <2>2, <2>3, <2>4 DEF ManageWorkload, img, t
<1> QED BY <1>1, <1>2 DEF ReconcileTrigger


\* A trigger at rest is told of what its answer depends on.
LEMMA TriggerAnsweredStep ==
    ASSUME TypeOK, WorkloadPast, TriggerAnswered, Next
    PROVE  TriggerAnswered'
<1> SUFFICES ASSUME Rests("trigger")'
             PROVE  cachedContainer' # container' \/ cachedWorkload' # workload' \/ ImageReflected'
  BY DEF TriggerAnswered
<1>1. CASE ReconcileTrigger
  <2>1. trigger' = trigger
    BY <1>1 DEF ReconcileTrigger, TriggerReaders, Done, Rests
  <2> QED BY <1>1, <2>1, RequestAnswers
<1>2. CASE ~ReconcileTrigger
  <2>1. /\ Rests("trigger")
        /\ UNCHANGED <<trigger, cachedContainer, cachedWorkload>>
        /\ service' = service \/ service = "free" \/ ~HasService(trigger)
    BY <1>2, TriggerRests
  <2>2. CASE container' # container \/ workload' # workload
    BY <2>2, ChangedChildDiffers
  <2>3. CASE UNCHANGED <<container, workload>>
    <3>1. cachedContainer # container \/ cachedWorkload # workload \/ ImageReflected
      BY <2>1 DEF TriggerAnswered
    <3>2. ServiceAnswered => ServiceAnswered'
      BY <2>1 DEF ServiceAnswered, HasService
    <3>3. WorkloadReady(workload)' = WorkloadReady(workload)
      BY <2>1, <2>3 DEF WorkloadReady, DeploymentReady, KnativeServiceReady
    <3>4. WorkloadAnswered => WorkloadAnswered'
      BY <2>1, <2>3, <3>2, <3>3 DEF WorkloadAnswered
    <3>5. ImageReflected => ImageReflected'
      BY <2>1, <2>3, <3>4 DEF ImageReflected
    <3> QED BY <2>1, <2>3, <3>1, <3>5
  <2> QED BY <2>2, <2>3
<1> QED BY <1>1, <1>2

\* At first everyone is queued, and there is no image to see to.
LEMMA InitAnswered == Init => ChainAnswered
BY DEF Init, ChainInit, ChainAnswered, RepositoryAnswered, ImageAnswered, ContainerAnswered,
       WorkloadPast, TriggerAnswered, Rests, NoContainer, NoWorkload

\* The answers stay true.
LEMMA AnsweredNext == IInv /\ ChainAnswered /\ [Next]_vars => ChainAnswered'
<1> SUFFICES ASSUME TypeOK, ChainAnswered, [Next]_vars PROVE ChainAnswered'
  BY DEF IInv
<1>1. CASE Next
  BY <1>1, RepositoryAnsweredStep, ImageAnsweredStep, ContainerAnsweredStep, WorkloadPastStep,
     TriggerAnsweredStep
  DEF ChainAnswered
<1>2. CASE UNCHANGED vars
  <2>1. UNCHANGED <<access, tag, component, repository, image, container, workload, service,
                    trigger, cachedContainer, cachedWorkload, queued, unannounced>>
    BY <1>2 DEF vars, sources, registries, children, caches
  <2>2. RepositoryAnswered' /\ ImageAnswered'
    BY <2>1 DEF ChainAnswered, RepositoryAnswered, ImageAnswered, Rests
  <2>3. ContainerAnswered'
    BY <2>1 DEF ChainAnswered, ContainerAnswered, Answers, Blocked, Resolved, Rests
  <2>4. WorkloadPast'
    BY <2>1 DEF ChainAnswered, WorkloadPast
  <2>5. TriggerAnswered'
    <3>1. WorkloadReady(workload)' = WorkloadReady(workload)
      BY <2>1 DEF WorkloadReady, DeploymentReady, KnativeServiceReady
    <3>2. WorkloadAnswered => WorkloadAnswered'
      BY <2>1, <3>1 DEF WorkloadAnswered, ServiceAnswered, HasService
    <3>3. ImageReflected => ImageReflected'
      BY <2>1, <3>2 DEF ImageReflected
    <3> QED BY <2>1, <3>3 DEF ChainAnswered, TriggerAnswered, Rests
  <2> QED BY <2>2, <2>3, <2>4, <2>5 DEF ChainAnswered
<1> QED BY <1>1, <1>2

\* The chain's inductive invariant.
LEMMA ChainInvariant == Spec => [](IInv /\ ChainAnswered)
<1>1. Init => IInv /\ ChainAnswered
  BY OrderedInit, InitAnswered
<1>2. (IInv /\ ChainAnswered) /\ [Next]_vars => (IInv /\ ChainAnswered)'
  BY OrderedNext, AnsweredNext
<1> QED BY <1>1, <1>2, PTL DEF Spec

\* What the chain at rest knows of its sources, its image and its workload.
LEMMA QuietAnswers ==
    ASSUME TypeOK, ChainAnswered, QuietChain
    PROVE  /\ repository = IF access = "granted" THEN "ready" ELSE "notReady"
           /\ access # "granted" => image.state = "notReady"
           /\ access = "granted" => image.state = "ready" /\ image.runtime = tag
           /\ container.exists /\ container.ref = trigger.ref /\ Answers(container)
           /\ ImageReflected
<1>1. \A x \in Controllers : Rests(x)
  BY DEF QuietChain, Rests
<1>2. repository = IF access = "granted" THEN "ready" ELSE "notReady"
  BY <1>1 DEF ChainAnswered, RepositoryAnswered
<1>3. /\ access # "granted" => image.state = "notReady"
      /\ access = "granted" => image.state = "ready" /\ image.runtime = tag
  BY <1>1, <1>2 DEF ChainAnswered, ImageAnswered
<1>4. ImageReflected
  BY <1>1 DEF ChainAnswered, TriggerAnswered, QuietChain
<1>5. Answers(container)
  BY <1>1, <1>4 DEF ChainAnswered, ContainerAnswered, QuietChain, ImageReflected
<1> QED BY <1>2, <1>3, <1>4, <1>5 DEF ImageReflected

\* A change is made known to everyone whose answer depends on it, whichever
\* controller hears of it first: for any number of components and changes, a
\* chain at rest with its sources to be had runs the latest build of them.
THEOREM ChainIsLatest == Spec => []QuietChainIsLatest
<1>1. IInv /\ ChainAnswered => QuietChainIsLatest
  <2> SUFFICES ASSUME TypeOK, ChainAnswered, QuietChain, SourcesReady
               PROVE  /\ trigger.observed /\ trigger.imageReady
                      /\ \A img \in {trigger.image, container.image, workload.image} :
                            img = LatestBuild
    BY DEF IInv, QuietChainIsLatest
  <2>1. /\ repository = "ready" /\ image.state = "ready" /\ image.runtime = tag
        /\ container.ref = trigger.ref /\ Answers(container) /\ ImageReflected
    BY QuietAnswers DEF SourcesReady
  <2>2. Resolved(container) /\ ~Blocked(container)
    BY <2>1 DEF SourcesReady, Resolved, Blocked
  <2>3. container.observed /\ container.ready /\ container.image = LatestBuild
    BY <2>1, <2>2 DEF Answers, LatestBuild
  <2>4. WorkloadAnswered /\ workload.observed
    BY <2>1, <2>3 DEF ImageReflected, WorkloadAnswered, QuietChain
  <2> QED BY <2>3, <2>4 DEF WorkloadAnswered
<1> QED BY <1>1, ChainInvariant, PTL

\* Nor does it say it is Ready without its component, the repository or its
\* Service, or not Ready with all it needs.
THEOREM ChainIsHonest == Spec => []QuietChainIsHonest
<1>1. IInv /\ ChainAnswered => QuietChainIsHonest
  <2> SUFFICES ASSUME TypeOK, Ordered, ChainAnswered, QuietChain
               PROVE  /\ TriggerReady(trigger) =>
                            /\ component[trigger.ref].state = "pending" \/ SourcesReady
                            /\ container.observed /\ HasService(trigger) => service = "own"
                      /\ SourcesReady /\ Served /\ (HasService(trigger) => service = "own")
                            => TriggerReady(trigger)
    BY DEF IInv, QuietChainIsHonest
  <2>0. /\ repository = IF access = "granted" THEN "ready" ELSE "notReady"
        /\ access # "granted" => image.state = "notReady"
        /\ access = "granted" => image.state = "ready" /\ image.runtime = tag
        /\ container.exists /\ container.ref = trigger.ref /\ Answers(container)
        /\ ImageReflected
    BY QuietAnswers
  <2>1. WorkloadAnswered => /\ trigger.observed /\ trigger.imageReady
                            /\ trigger.workloadReady <=> WorkloadReady(workload)
                            /\ ServiceAnswered
    BY DEF WorkloadAnswered, QuietChain
  <2>2. ASSUME TriggerReady(trigger)
        PROVE  component[trigger.ref].state = "pending" \/ SourcesReady
    <3>1. container.observed => container.ready
      BY <2>0, <2>2 DEF ImageReflected, TriggerReady
    <3>2. Blocked(container) \/ Resolved(container)
      BY <2>0, <3>1 DEF Answers
    <3>3. CASE Resolved(container)
      BY <2>0, <3>3 DEF Resolved, SourcesReady
    <3>4. CASE Blocked(container)
      BY <2>0, <3>4 DEF Blocked
    <3> QED BY <3>2, <3>3, <3>4
  <2>3. ASSUME TriggerReady(trigger), container.observed, HasService(trigger)
        PROVE  service = "own"
    <3>1. WorkloadAnswered
      BY <2>0, <2>3 DEF ImageReflected, TriggerReady
    <3> QED BY <2>1, <2>3, <3>1 DEF ServiceAnswered, TriggerReady
  <2>4. ASSUME SourcesReady, Served, HasService(trigger) => service = "own"
        PROVE  TriggerReady(trigger)
    <3>1. Resolved(container) /\ ~Blocked(container)
      BY <2>0, <2>4 DEF SourcesReady, Resolved, Blocked
    <3>2. container.ready /\ WorkloadAnswered
      BY <2>0, <3>1 DEF Answers, ImageReflected
    <3>3. workload.serving # NoImage /\ workload.serving = workload.image /\ workload.updated
      BY <2>4, <3>2 DEF Served, Ordered, WorkloadAnswered
    <3>4. WorkloadReady(workload)
      BY <3>3, KindsAssumption
      DEF WorkloadReady, DeploymentReady, KnativeServiceReady, TypeOK, TriggerObject, TriggerKinds
    <3> QED BY <2>1, <2>4, <3>2, <3>4 DEF ServiceAnswered, TriggerReady
  <2> QED BY <2>2, <2>3, <2>4
<1> QED BY <1>1, ChainInvariant, PTL
=============================================================================
