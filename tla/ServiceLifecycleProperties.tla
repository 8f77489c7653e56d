--------------------- MODULE ServiceLifecycleProperties ---------------------
(***************************************************************************)
(* What a lifecycle promises: it is Ready when it can be used, it stays    *)
(* while instances need it, and it goes when they have gone.               *)
(***************************************************************************)
EXTENDS ServiceLifecycle

Contract == INSTANCE LifecycleContract
               WITH availability <- Availability,
                    promised <- lifecycle.finalizer,
                    dependents <- cachedInstances

\* "check for ServiceInstances dependent on this (Cluster)ServiceLifecycle":
\* from the first report on it a lifecycle stays while instances are listed,
\* over restarts, failed requests and requests made before it was deleted.
ImplementsContract == Contract!ContractSpec

\* Nothing is left to do, and no change was missed.
QuietLifecycle ==
    /\ ~queued /\ ~unannounced
    /\ cachedComposition = composition /\ cachedHttpTrigger = httpTrigger
    /\ cachedInstances = {i \in ServiceInstances : InstanceExists(i)}

CompositionServes == composition.version = lifecycle.version /\ composition.state = "ready"

TriggerServes ==
    /\ Serving
    /\ httpTrigger.composition = composition.name
    /\ httpTrigger.version = lifecycle.version

\* When all is quiet a live lifecycle is Ready only with its URL, served from
\* its own Composition and HttpTrigger, both of the spec there is now, and with
\* a client (what is being reconciled is waited for); with all of these it is.
QuietLifecycleIsHonest ==
    QuietLifecycle /\ lifecycle.phase = "live" =>
        /\ Availability = "ready" =>
              /\ composition.version = lifecycle.version
              /\ composition.state # "pending" =>
                    /\ CompositionServes
                    /\ IsOurs(httpTrigger)
                    /\ httpTrigger.state # "pending" => TriggerServes /\ client \in {"ready", "pending"}
        /\ CompositionServes /\ TriggerServes /\ client = "ready" => Availability = "ready"

\* The controller itself never takes the children of a lifecycle away while it
\* knows of an instance: they are asked to destroy it.
KeepsServing ==
    [][changes' = changes /\ cachedInstances # {} =>
          /\ composition.name # 0 => composition'.name = composition.name
          /\ IsOurs(httpTrigger) => IsOurs(httpTrigger')]_vars

-----------------------------------------------------------------------------
(* Liveness *)

\* Requests, events, the resync and the controllers of the children make
\* progress, and these in the end succeed; a deleted instance is finalized.
LifecycleFairness ==
    /\ WF_vars(ReconcileLifecycle)
    /\ WF_vars(SyncComposition) /\ WF_vars(SyncTrigger) /\ WF_vars(Resync)
    /\ WF_vars(CompositionReports("ready")) /\ WF_vars(TriggerReports("ready"))
    /\ WF_vars(ClientReports("ready"))
    /\ \A i \in ServiceInstances : WF_vars(SyncInstance(i)) /\ WF_vars(InstanceFinalized(i))

FairSpec == Spec /\ LifecycleFairness

\* A lifecycle that stays gets Ready once nobody else has its trigger's name
\* and the client is to be had: no wait for a child is for ever.
LifecycleGetsReady ==
    <>[](lifecycle.phase = "live" /\ httpTrigger.owner # "other" /\ client = "ready") =>
        <>[](Availability = "ready")

\* A lifecycle that was Ready when it was deleted goes, once its instances are
\* deleted, if it is served until then.
ReadyLifecycleGoes ==
    lifecycle.phase = "deleting" /\ Ready(lifecycle) ~>
        \/ lifecycle.phase # "deleting"
        \/ ~Serving
        \/ \E i \in ServiceInstances : instance[i] = "live"

-----------------------------------------------------------------------------
(* A claim the code does not live up to *)

\* "deletion blocked by ServiceInstance": once its instances are deleted, a
\* deleted lifecycle goes.
DeletedLifecycleGoes ==
    lifecycle.phase = "deleting" ~>
        \/ lifecycle.phase # "deleting"
        \/ \E i \in ServiceInstances : instance[i] = "live"
=============================================================================
