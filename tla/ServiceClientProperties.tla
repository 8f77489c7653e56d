---------------------- MODULE ServiceClientProperties ----------------------
(***************************************************************************)
(* What the rotation of a client's ServiceBindings guarantees.             *)
(***************************************************************************)
EXTENDS ServiceClientController

\* A binding that is not pruned for its age: no duration the spec may take is
\* shorter than its own by more than Grace.
OrdinaryDuration(b) == \A d \in Durations : b.duration <= d + Grace

\* The ids and image a client publishes are those of a live binding that has
\* not expired: its successor is Ready in time, over restarts, stale caches
\* and changes of the spec, as long as RenewBefore leaves BindTime for the
\* renewal and for every change of the spec, and every duration leaves more
\* than BindTime before the next renewal.
ClientBindingServes ==
    client.binding # None =>
        LET b == bindings[client.binding]
        IN OrdinaryDuration(b) =>
              b.phase = "live" /\ ~b.expired /\ now <= ExpiresAfter(b)

\* A client moves to a binding made later, never back to an earlier one while
\* its own is still good, whatever order its caches catch up in.
NeverMovesBack ==
    [][client'.binding # client.binding /\ client.binding # None =>
          LET old == bindings[client.binding]
              new == bindings[client'.binding]
          IN old.phase = "live" /\ ~old.expired => old.created <= new.created]_vars

\* Once the controller is quiet, the newest live binding is what the spec asks
\* for, the client publishes it if it is Ready, and no expired binding is left
\* undeleted: no change of the spec, readiness or expiry is missed by the
\* events and timers that queue the client.
QuietClientIsCurrent ==
    Quiet =>
        /\ \E n \in Ids :
              /\ bindings[n].phase = "live" /\ ~bindings[n].expired
              /\ bindings[n].target = client.target
              /\ bindings[n].duration = client.duration
              /\ bindings[n].state = "ready" =>
                    client.binding # None /\ bindings[client.binding].created = bindings[n].created
        /\ \A n \in Ids : bindings[n].phase = "live" => ~bindings[n].expired

\* A renewal is never late: once the controller is quiet, the newest of the
\* bindings the client keeps is what the spec asks for and not due for renewal,
\* Ready or not.  The timer of a renewal is only set when the binding is seen to
\* be Ready, is lost at a restart and is one for all: none is missed, as long as
\* every duration leaves more than BindTime before the renewal.
RenewedInTime == Quiet => Current(client, bindings) # {}

-----------------------------------------------------------------------------
(* Liveness, also over failed API calls *)

ClientFairness ==
    /\ WF_vars(ReconcileClient) /\ WF_vars(UpdateClientStatus) /\ WF_vars(TimerFires)
    /\ WF_vars(SyncClient) /\ WF_vars(Resync)
    /\ \A n \in Ids :
          /\ WF_vars(BindingReconciled(n) /\ bindings'[n].state = "ready")
          /\ WF_vars(BindingFinalized(n))
          /\ WF_vars(SyncBinding(n))

FairSpec == Spec /\ ClientFairness

\* A change of the ref or scopes takes effect: in the end the client publishes
\* a binding made for it, although a failed creation is not retried before
\* the next event or resync.
SpecTakesEffect ==
    \A t \in Targets :
        client.target = t ~>
            \/ client.target # t
            \/ client.binding # None /\ bindings[client.binding].target = t

=============================================================================
