---------------------- MODULE ServiceBindingController ----------------------
(***************************************************************************)
(* The ServiceBinding reconciler: WithFinalizer around the sequence        *)
(* ResolveServiceInstanceId, ServiceBindingSecret, ManageServiceBinding,   *)
(* ConfigureClientComponent.  One action per step that reads a cache,      *)
(* calls the lifecycle service or writes to the API server.                *)
(***************************************************************************)
EXTENDS CredentialWebhook

bindingUnchanged == <<lifecycle, instance, elapsed, caches, provisioned,
                      instanceWorker, faults>>

\* Where a request goes: on to step pc, to its status write, or to its end.
\* The status is not written while the object is finalized.
BindingGoto(r, pc) == [r EXCEPT !.pc = pc]
BindingWrites(r, want) ==
    IF want = r.read \/ Deleting(r.read)
    THEN Idle
    ELSE [r EXCEPT !.pc = "status", !.want = want]

\* A status write, or the removal of the finalizer, fails on a conflict.
BindingUnmodified == binding[bindingWorker.uid] = bindingWorker.read

-----------------------------------------------------------------------------
(* The sub-reconcilers, as the step a request r reaches through them       *)

\* Finalizing unbinds with status.serviceBindingId as the instance id.
FinalizeServiceBinding(r) ==
    IF ~r.read.id \/ r.read.expired
    THEN BindingGoto(r, "clear")
    ELSE [r EXCEPT !.pc = "unbind", !.to = r.uid]

\* Wrong: the status says expired before the service is asked to unbind.
ExpireWithoutUnbind(r) ==
    CASE ~r.read.id                                     -> BindingGoto(r, "bind")
      [] r.read.id /\ ~r.read.expired /\ elapsed[r.uid] ->
            [r EXCEPT !.pc = "client", !.want.expired = TRUE]
      [] r.read.id /\ (r.read.expired \/ ~elapsed[r.uid]) -> BindingGoto(r, "client")

\* Wrong: a bound binding is expired whatever its age.
ExpireAtOnce(r) ==
    CASE ~r.read.id                     -> BindingGoto(r, "bind")
      [] r.read.id /\ ~r.read.expired   -> BindingGoto(r, "expire")
      [] r.read.id /\ r.read.expired    -> BindingGoto(r, "client")

\* Wrong: a bound binding never expires.
NeverExpire(r) == BindingGoto(r, IF r.read.id THEN "client" ELSE "bind")

\* Bind once, unbind when the duration has elapsed, then see to the client.
ManageServiceBinding(r) ==
    CASE ~r.read.id                                         -> BindingGoto(r, "bind")
      [] r.read.id /\ ~r.read.expired /\ elapsed[r.uid]     -> BindingGoto(r, "expire")
      [] r.read.id /\ (r.read.expired \/ ~elapsed[r.uid])   -> BindingGoto(r, "client")

\* The Secret is created with the finalizer the credential admin clears, and
\* its deletion is requested once the binding is finalized.
ServiceBindingSecret(r) ==
    CASE Deleting(r.read)                              -> DeleteRequested(secret[r.uid])
      [] Live(r.read) /\ Exists(secret[r.uid])         -> secret[r.uid]
      [] Live(r.read) /\ ~Exists(secret[r.uid])        ->
            [phase |-> "live", finalizer |-> TRUE, data |-> FALSE]

\* Wrong: an instance that is being deleted is no longer good for its bindings.
InstanceReadyAndLive(i) ==
    Live(cachedInstance[i]) /\ cachedInstance[i].observed /\ cachedInstance[i].ready

\* The instance, from the cache, must exist, be reconciled and be Ready; its
\* lifecycle must exist and be reconciled, but need not be Ready.
InstanceStale(i) == Exists(cachedInstance[i]) /\ ~cachedInstance[i].observed
InstanceReady(i) ==
    Exists(cachedInstance[i]) /\ cachedInstance[i].observed /\ cachedInstance[i].ready
InstanceResolved(i) == InstanceReady(i) /\ lifecycle \in {"notReady", "ready"}

\* Also during finalization.  Waiting for another reconciler leaves the status
\* alone; what is missing or not Ready is recorded in it.
ResolveServiceInstanceId(r) ==
    LET i == InstanceRef[r.uid]
    IN CASE InstanceResolved(i) /\ Live(r.read)     -> ManageServiceBinding(r)
         [] InstanceResolved(i) /\ Deleting(r.read) -> FinalizeServiceBinding(r)
         [] InstanceStale(i)                        -> Idle
         [] InstanceReady(i) /\ lifecycle = "reconciling" -> Idle
         [] OTHER -> BindingWrites(r, [r.read EXCEPT !.ready = FALSE])

-----------------------------------------------------------------------------
(* Actions *)

\* A request starts: read the object from the cache, add the finalizer if it
\* is missing, resolve the instance, see to the Secret, and run up to a
\* remote call or the next write.
ReconcileBinding(b) ==
    LET cached == cachedBinding[b]
        read == IF Live(cached) THEN [cached EXCEPT !.finalizer = TRUE] ELSE cached
        request == [pc |-> "status", uid |-> b, read |-> read, want |-> read,
                    to |-> InstanceRef[b]]
    IN /\ bindingWorker = Idle
       /\ Exists(cached)
       /\ read = cached \/ binding[b] = cached
       /\ binding' = [binding EXCEPT ![b] = IF read = cached THEN @ ELSE read]
       /\ secret' = [secret EXCEPT ![b] = IF InstanceResolved(InstanceRef[b])
                                          THEN ServiceBindingSecret(request)
                                          ELSE @]
       /\ bindingWorker' = ResolveServiceInstanceId(request)
       /\ UNCHANGED <<client, bound, bindingUnchanged>>

\* The service binds to an instance it has provisioned.
ServiceBinds(b, i) ==
    /\ provisioned[i] = "provisioned"
    /\ bound' = [bound EXCEPT ![b] = "bound"]

\* Wrong: the request ends with the binding, its status is not updated.
BindWithoutStatus ==
    /\ bindingWorker.pc = "bind"
    /\ ServiceBinds(bindingWorker.uid, bindingWorker.to)
    /\ publishCredentials(bindingWorker.uid)
    /\ bindingWorker' = Idle
    /\ UNCHANGED <<binding, client, bindingUnchanged>>

\* The service publishes the credentials, then answers.
BindAccepted ==
    /\ bindingWorker.pc = "bind"
    /\ ServiceBinds(bindingWorker.uid, bindingWorker.to)
    /\ publishCredentials(bindingWorker.uid)
    /\ bindingWorker' = BindingWrites(bindingWorker, [bindingWorker.read EXCEPT !.id = TRUE])
    /\ UNCHANGED <<binding, client, bindingUnchanged>>

\* Wrong: the error is logged, and the status updated as after a success.
BindErrorIgnored ==
    /\ bindingWorker.pc = "bind"
    /\ bindingWorker' = BindingWrites(bindingWorker, [bindingWorker.read EXCEPT !.id = TRUE])
    /\ UNCHANGED <<binding, secret, client, bound, bindingUnchanged>>

\* An error before, between or after the binding and the publication.
BindFailed ==
    /\ bindingWorker.pc = "bind"
    /\ LET b == bindingWorker.uid
       IN /\ UNCHANGED bound \/ ServiceBinds(b, bindingWorker.to)
          /\ UNCHANGED secret \/ publishCredentials(b)
    /\ bindingWorker' = Idle
    /\ UNCHANGED <<binding, client, bindingUnchanged>>

\* Wrong: an expired binding loses its id instead of being marked.
UnbindForgetsId ==
    /\ bindingWorker.pc \in {"expire", "unbind"}
    /\ destroyCredentials(bindingWorker.uid)
    /\ bound' = [bound EXCEPT ![bindingWorker.uid] = "released"]
    /\ bindingWorker' = IF bindingWorker.pc = "expire"
                        THEN BindingWrites(bindingWorker, [bindingWorker.read EXCEPT !.id = FALSE])
                        ELSE BindingGoto(bindingWorker, "clear")
    /\ UNCHANGED <<binding, client, bindingUnchanged>>

\* The service destroys the credentials, then answers.
UnbindAccepted ==
    /\ bindingWorker.pc \in {"expire", "unbind"}
    /\ destroyCredentials(bindingWorker.uid)
    /\ bound' = [bound EXCEPT ![bindingWorker.uid] = "released"]
    /\ \/ /\ bindingWorker.pc = "expire"
          /\ bindingWorker' = [bindingWorker EXCEPT !.pc = "client",
                                                    !.want.expired = TRUE]
       \/ /\ bindingWorker.pc = "unbind"
          /\ bindingWorker' = BindingGoto(bindingWorker, "clear")
    /\ UNCHANGED <<binding, client, bindingUnchanged>>

\* Wrong: the error is logged and finalizing goes on.
UnbindErrorIgnored ==
    /\ bindingWorker.pc \in {"expire", "unbind"}
    /\ bindingWorker' = BindingGoto(bindingWorker, "clear")
    /\ UNCHANGED <<binding, secret, client, bound, bindingUnchanged>>

\* A failed expiry may find a binding Ready again, by its earlier conditions.
UnbindFailed ==
    /\ bindingWorker.pc \in {"expire", "unbind"}
    /\ LET b == bindingWorker.uid
       IN /\ bound' \in {bound, [bound EXCEPT ![b] = "released"]}
          /\ UNCHANGED secret \/ destroyCredentials(b)
    /\ \/ bindingWorker' = Idle
       \/ bindingWorker' = BindingWrites(bindingWorker, [bindingWorker.read EXCEPT !.ready = TRUE])
    /\ UNCHANGED <<binding, client, bindingUnchanged>>

\* Create the client Composition; the request ends with no status update
\* while it is pending, otherwise its readiness decides the binding's.
ConfigureClientComponent ==
    /\ bindingWorker.pc = "client"
    /\ LET b == bindingWorker.uid
           want == bindingWorker.want
           child == IF client[b] = "absent" THEN "pending" ELSE client[b]
       IN /\ client' = [client EXCEPT ![b] = child]
          /\ \/ /\ child = "pending"
                /\ bindingWorker' = Idle
             \/ /\ child = "notReady"
                /\ bindingWorker' = BindingWrites(bindingWorker, [want EXCEPT !.ready = FALSE])
             \/ /\ child = "ready"
                /\ bindingWorker' = BindingWrites(bindingWorker, [want EXCEPT !.ready = ~want.expired])
    /\ UNCHANGED <<binding, secret, bound, bindingUnchanged>>

UpdateBindingStatus ==
    /\ bindingWorker.pc = "status"
    /\ binding' = IF BindingUnmodified
                  THEN [binding EXCEPT ![bindingWorker.uid] = bindingWorker.want]
                  ELSE binding
    /\ bindingWorker' = Idle
    /\ UNCHANGED <<secret, client, bound, bindingUnchanged>>

\* The rest of the sequence deletes the client, then the finalizer goes.
ClearBindingFinalizer ==
    /\ bindingWorker.pc = "clear"
    /\ client' = [client EXCEPT ![bindingWorker.uid] = "absent"]
    /\ binding' = IF BindingUnmodified
                  THEN [binding EXCEPT ![bindingWorker.uid] = FinalizerCleared(@)]
                  ELSE binding
    /\ bindingWorker' = Idle
    /\ UNCHANGED <<secret, bound, bindingUnchanged>>

BindingNext ==
    \/ \E b \in ServiceBindings : ReconcileBinding(b)
    \/ BindAccepted
    \/ BindFailed
    \/ UnbindAccepted
    \/ UnbindFailed
    \/ ConfigureClientComponent
    \/ UpdateBindingStatus
    \/ ClearBindingFinalizer
=============================================================================
