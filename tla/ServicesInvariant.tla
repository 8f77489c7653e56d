-------------------------- MODULE ServicesInvariant --------------------------
(***************************************************************************)
(* Why the safety properties hold: an inductive invariant of Services.     *)
(* Informers lag but never go back, so whatever a request read is a past   *)
(* of the object, and what the lifecycle service and the credential admin  *)
(* did for an id can be told from it.                                      *)
(***************************************************************************)
EXTENDS ServicesProperties

\* The later an object is in its life, the higher.
Age(o) == CASE o.phase = "absent"   -> 0
            [] o.phase = "live"     -> 1
            [] o.phase = "deleting" -> 2
            [] o.phase = "gone"     -> 3

\* now is old or a later value of the same object.
InstanceSince(old, now) ==
    /\ Age(old) <= Age(now)
    /\ old.id => now.id

BindingSince(old, now) ==
    /\ Age(old) <= Age(now)
    /\ old.id => now.id
    /\ old.expired => now.expired

\* An instance the API server or a cache may hold.
InstanceSound(o) ==
    /\ o.id => o.phase # "absent"
    /\ o.id /\ Exists(o) => o.finalizer
    /\ o.ready => o.id

BindingSound(o) ==
    /\ o.id => o.phase # "absent"
    /\ o.id /\ Exists(o) => o.finalizer
    /\ o.expired => o.id

\* The service provisions what the status says, and destroys only what every
\* cache already showed as provisioned.
InstanceHistory ==
    \A i \in ServiceInstances :
        /\ InstanceSound(instance[i]) /\ InstanceSound(cachedInstance[i])
        /\ InstanceSince(cachedInstance[i], instance[i])
        /\ instance[i].id => provisioned[i] # "unknown"
        /\ provisioned[i] = "destroyed" => cachedInstance[i].id
        /\ instance[i].phase = "gone" /\ instance[i].id => provisioned[i] = "destroyed"

BindingHistory ==
    \A b \in ServiceBindings :
        /\ BindingSound(binding[b]) /\ BindingSound(cachedBinding[b])
        /\ BindingSince(cachedBinding[b], binding[b])
        /\ binding[b].id => bound[b] # "unknown" /\ cachedBinding[b].phase # "absent"
        /\ bound[b] = "released" => cachedBinding[b].id
        /\ binding[b].expired => bound[b] = "released"
        /\ binding[b].phase = "gone" /\ binding[b].id =>
              bound[b] = "released" /\ Age(cachedBinding[b]) >= 2

\* The Secret of a recorded binding is published, and stays until its
\* duration elapsed or its deletion was seen.
SecretHistory ==
    \A b \in ServiceBindings :
        /\ binding[b].phase = "absent" => secret[b].phase = "absent"
        /\ secret[b].phase = "absent" => ~secret[b].data
        /\ Deleting(secret[b]) => secret[b].finalizer
        /\ secret[b].phase = "gone" => ~secret[b].finalizer
        /\ binding[b].id => secret[b].phase # "absent" /\ secret[b].data
        /\ Live(cachedBinding[b]) /\ binding[b].phase # "gone" =>
              secret[b].phase \in {"absent", "live"}
        /\ Live(binding[b]) => secret[b].phase \in {"absent", "live"}
        /\ Live(binding[b]) /\ ~elapsed[b] =>
              secret[b].phase = "absent" \/ (Live(secret[b]) /\ secret[b].finalizer)
        /\ binding[b].expired => ~secret[b].finalizer
        /\ binding[b].phase = "gone" /\ binding[b].id => ~Exists(secret[b])

\* A request in flight works on a past of its object and on nothing the
\* service is through with.
InstanceWorkerSound ==
    instanceWorker # Idle =>
        LET w == instanceWorker
        IN /\ InstanceSound(w.read) /\ InstanceSound(w.want)
           /\ Exists(w.read) /\ (Live(w.read) => w.read.finalizer)
           /\ InstanceSince(w.read, cachedInstance[w.uid])
           /\ w.want.phase = w.read.phase /\ w.want.finalizer = w.read.finalizer
           /\ w.read.id => w.want.id
           /\ w.want.id => provisioned[w.uid] # "unknown"
           /\ w.pc = "provision" => Live(w.read) /\ provisioned[w.uid] # "destroyed"
           /\ w.pc = "destroy" => Deleting(w.read) /\ w.read.id
           /\ w.pc = "clear" =>
                 Deleting(w.read) /\ (w.read.id => provisioned[w.uid] = "destroyed")

BindingWorkerSound ==
    bindingWorker # Idle =>
        LET w == bindingWorker
        IN /\ BindingSound(w.read) /\ BindingSound(w.want)
           /\ Exists(w.read) /\ (Live(w.read) => w.read.finalizer)
           /\ BindingSince(w.read, cachedBinding[w.uid])
           /\ w.want.phase = w.read.phase /\ w.want.finalizer = w.read.finalizer
           /\ w.read.id => w.want.id
           /\ w.read.expired => w.want.expired
           /\ w.want.id => bound[w.uid] # "unknown"
           /\ w.want.expired => bound[w.uid] = "released"
           /\ w.pc = "bind" => Live(w.read) /\ bound[w.uid] # "released"
           /\ w.pc \in {"expire", "unbind"} => w.read.id
           /\ w.pc = "clear" => (w.read.id => bound[w.uid] = "released")

SecretWorkerSound ==
    bindingWorker # Idle =>
        LET w == bindingWorker
        IN /\ w.pc = "bind" => secret[w.uid].phase # "absent"
           /\ w.pc = "expire" => elapsed[w.uid]
           /\ w.pc = "unbind" => Deleting(w.read) /\ ~Live(secret[w.uid])
           /\ w.pc = "clear" => Deleting(w.read) /\ (w.read.id => ~Exists(secret[w.uid]))
           /\ w.want.id => secret[w.uid].phase # "absent" /\ secret[w.uid].data
           /\ w.want.expired => ~secret[w.uid].finalizer

\* Type correctness is what makes the rest inductive; it is checked apart.
History ==
    /\ InstanceHistory /\ InstanceWorkerSound
    /\ BindingHistory /\ BindingWorkerSound
    /\ SecretHistory /\ SecretWorkerSound
=============================================================================
