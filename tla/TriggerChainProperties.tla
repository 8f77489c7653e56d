----------------------- MODULE TriggerChainProperties -----------------------
(***************************************************************************)
(* What a trigger promises: it runs what was last published, when it says  *)
(* it does, and nothing older.                                             *)
(***************************************************************************)
EXTENDS TriggerChain

\* Nothing is left to do, nobody has missed a change, and Kubernetes has seen
\* the workload.
QuietChain ==
    /\ queued = {} /\ unannounced = {}
    /\ cachedContainer = container /\ cachedWorkload = workload
    /\ workload.exists => workload.observed

SourcesReady ==
    /\ access = "granted"
    /\ component[trigger.ref].state = "ready"

LatestBuild == Built(trigger.ref, component[trigger.ref].version, tag)

Served == workload.serving = workload.image /\ workload.updated

\* When all is quiet and the sources are to be had, the trigger's status, its
\* image and its workload are built of the component it refers to now, in its
\* current version, and of the runtime its tag points to now: no change is lost
\* between the five objects, whichever controller heard of it first.
QuietChainIsLatest ==
    QuietChain /\ SourcesReady =>
        /\ trigger.observed /\ trigger.imageReady
        /\ \A img \in {trigger.image, container.image, workload.image} : img = LatestBuild

\* When all is quiet a trigger is not Ready without its component and the
\* repository, nor without its Service; it is Ready once its pods and Service
\* are there.  A component that is being reconciled is waited for, and nothing
\* is said meanwhile of a Service that goes while there is no image yet.
QuietChainIsHonest ==
    QuietChain =>
        /\ TriggerReady(trigger) =>
              /\ component[trigger.ref].state = "pending" \/ SourcesReady
              /\ container.observed /\ HasService(trigger) => service = "own"
        /\ SourcesReady /\ Served /\ (HasService(trigger) => service = "own")
              => TriggerReady(trigger)

\* A workload is given only images that were built, and of one component never
\* an older version or runtime than it had: not from a status that is behind
\* the spec, nor after a conflict, a failed call or a restart.
NeverRollsBack ==
    [][workload.image # workload'.image /\ workload'.exists =>
          LET old == workload.image
              new == workload'.image
          IN /\ new # NoImage
             /\ old.component = new.component =>
                   old.version <= new.version /\ old.runtime <= new.runtime]_vars

-----------------------------------------------------------------------------
(* Liveness: requests, events, the resync and Kubernetes make progress *)

ChainFairness ==
    /\ WF_vars(ReconcileRepository) /\ WF_vars(ReconcileImage)
    /\ WF_vars(ReconcileContainerImage) /\ WF_vars(ReconcileTrigger)
    /\ WF_vars(SyncContainer) /\ WF_vars(SyncWorkload)
    /\ WF_vars(WorkloadObserved) /\ WF_vars(PodsStarted) /\ WF_vars(PodsReady)
    /\ \A x \in Controllers : WF_vars(Resync(x))

FairSpec == Spec /\ ChainFairness

\* Once the sources stay ready, and the name of the Service is not taken, the
\* latest build is served and the trigger says so: the waits of the controllers
\* for each other end, although none of them repeats a request that found
\* something missing.
EventuallyServes ==
    <>[](SourcesReady /\ service # "other" /\ LatestBuild.version \notin Broken) =>
        <>[](TriggerReady(trigger) /\ workload.serving = LatestBuild)
=============================================================================
