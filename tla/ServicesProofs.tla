--------------------------- MODULE ServicesProofs ---------------------------
(***************************************************************************)
(* The safety properties and the contract with the lifecycle service, for  *)
(* any number of instances, bindings and faults: they follow from History, *)
(* which is inductive.  The bindings' part of it comes first.              *)
(***************************************************************************)
EXTENDS ServicesInstanceProofs

-----------------------------------------------------------------------------
(* Bindings *)

LEMMA InitBindings ==
  Init => BindingHistory /\ BindingWorkerSound /\ SecretHistory /\ SecretWorkerSound
  BY DEF Init, StoreInit, BindingHistory, BindingWorkerSound, BindingSound,
     BindingSince, SecretHistory, SecretWorkerSound, NoBinding, NoSecret, Exists, Live,
     Deleting, Age

\* Where a fresh request is when its first step is done.
LEMMA ReconciledBinding ==
  ASSUME TypeOK, NEW r \in BindingRequest, Exists(r.read), r.want = r.read
  PROVE  LET w == ResolveServiceInstanceId(r)
         IN \/ w = Idle
            \/ /\ w \in BindingRequest /\ w.uid = r.uid /\ w.read = r.read
               /\ w.pc = "status" \/ InstanceResolved(InstanceRef[r.uid])
               /\ \/ w.pc = "bind" /\ w.want = r.read /\ Live(r.read) /\ ~r.read.id
                  \/ /\ w.pc = "expire" /\ w.want = r.read /\ Live(r.read) /\ r.read.id
                     /\ elapsed[r.uid]
                  \/ w.pc = "client" /\ w.want = r.read /\ Live(r.read) /\ r.read.id
                  \/ w.pc = "unbind" /\ w.want = r.read /\ Deleting(r.read) /\ r.read.id
                  \/ /\ w.pc = "clear" /\ w.want = r.read /\ Deleting(r.read)
                     /\ ~r.read.id \/ r.read.expired
                  \/ /\ w.pc = "status"
                     /\ w.want.phase = r.read.phase
                     /\ w.want.finalizer = r.read.finalizer
                     /\ w.want.id = r.read.id /\ w.want.expired = r.read.expired
<1> DEFINE w == ResolveServiceInstanceId(r)
           resolved == InstanceResolved(InstanceRef[r.uid])
<1>1. w \in {Idle} \union BindingRequest
  BY ResolveServiceInstanceIdType
<1>2. \A pc \in {"bind", "expire", "client", "clear"} :
         LET v == BindingGoto(r, pc)
         IN v.pc = pc /\ v.uid = r.uid /\ v.read = r.read /\ v.want = r.read
  BY DEF BindingGoto, BindingRequest
<1>3. CASE resolved /\ Live(r.read)
  <2>1. w = ManageServiceBinding(r)
    BY <1>3 DEF ResolveServiceInstanceId, Live, Deleting, InstanceResolved, InstanceReady,
       InstanceStale
  <2>2. \/ ~r.read.id /\ w = BindingGoto(r, "bind")
        \/ r.read.id /\ elapsed[r.uid] /\ w = BindingGoto(r, "expire")
        \/ r.read.id /\ w = BindingGoto(r, "client")
    <3>1. \/ ~r.read.id
          \/ r.read.id /\ ~r.read.expired /\ elapsed[r.uid]
          \/ r.read.id /\ (r.read.expired \/ ~elapsed[r.uid])
      OBVIOUS
    <3> QED
      BY <2>1, <3>1 DEF ManageServiceBinding
  <2> HIDE DEF w
  <2> QED
    BY <1>1, <1>2, <1>3, <2>2, BindingRequestType DEF w
<1>4. CASE resolved /\ Deleting(r.read)
  <2>1. w = FinalizeServiceBinding(r)
    BY <1>4 DEF ResolveServiceInstanceId, Live, Deleting, InstanceResolved, InstanceReady,
       InstanceStale
  <2>2. CASE ~r.read.id \/ r.read.expired
    <3>1. w = BindingGoto(r, "clear")
      BY <2>1, <2>2 DEF FinalizeServiceBinding
    <3> HIDE DEF w
    <3> QED
      BY <1>1, <1>2, <1>4, <2>2, <3>1, BindingRequestType DEF w
  <2>3. CASE ~(~r.read.id \/ r.read.expired)
    <3>1. w = [r EXCEPT !.pc = "unbind", !.to = r.uid]
      BY <2>1, <2>3 DEF FinalizeServiceBinding
    <3>2. w \in BindingRequest /\ w.pc = "unbind" /\ w.uid = r.uid
          /\ w.read = r.read /\ w.want = r.read
      BY <3>1 DEF BindingRequest
    <3> HIDE DEF w
    <3> QED
      BY <1>4, <2>3, <3>2 DEF w
  <2> QED
    BY <2>2, <2>3
<1>5. CASE ~resolved
  <2> DEFINE want == [r.read EXCEPT !.ready = FALSE]
  <2>1. w = Idle \/ w = BindingWrites(r, want)
    BY <1>5, Zenon DEF ResolveServiceInstanceId
  <2>2. /\ want.phase = r.read.phase /\ want.finalizer = r.read.finalizer
        /\ want.id = r.read.id /\ want.expired = r.read.expired
    BY DEF BindingRequest, BindingObject
  <2>3. w = Idle \/ w = [r EXCEPT !.pc = "status", !.want = want]
    BY <2>1 DEF BindingWrites
  <2> HIDE DEF w, want
  <2>4. w = Idle \/ (/\ w.pc = "status" /\ w.uid = r.uid /\ w.read = r.read
                     /\ w.want = want)
    BY <2>3 DEF BindingRequest
  <2> QED
    BY <1>1, <2>2, <2>4 DEF w
<1> QED
  BY <1>3, <1>4, <1>5 DEF Exists, Live, Deleting

BindingPart ==
    /\ BindingHistory /\ BindingWorkerSound
    /\ SecretHistory /\ SecretWorkerSound

\* What a fresh request does to the Secret of its binding.
LEMMA EnsuredSecret ==
  ASSUME TypeOK, NEW r \in BindingRequest, Exists(r.read)
  PROVE  LET s == secret[r.uid]
             t == ServiceBindingSecret(r)
         IN \/ Live(r.read) /\ Exists(s) /\ t = s
            \/ /\ Live(r.read) /\ ~Exists(s)
               /\ t.phase = "live" /\ t.finalizer /\ ~t.data
            \/ /\ Deleting(r.read) /\ t.finalizer = s.finalizer /\ t.data = s.data
               /\ \/ t.phase = s.phase /\ ~Live(s)
                  \/ t.phase = "deleting" /\ Live(s) /\ s.finalizer
                  \/ t.phase = "gone" /\ Live(s) /\ ~s.finalizer
<1>1. secret[r.uid] \in SecretObject
  BY DEF TypeOK, BindingRequest
<1>2. CASE Live(r.read)
  BY <1>2 DEF ServiceBindingSecret, Live, Deleting
<1>3. CASE Deleting(r.read)
  <2>1. ServiceBindingSecret(r) = DeleteRequested(secret[r.uid])
    BY <1>3 DEF ServiceBindingSecret, Live, Deleting
  <2> QED
    BY <1>1, <1>3, <2>1 DEF DeleteRequested, Live, SecretObject
<1> QED
  BY <1>2, <1>3 DEF Exists, Live, Deleting

LEMMA ReconcileBindingStep ==
  ASSUME TypeOK, TypeOK', BindingPart, NEW b \in ServiceBindings, ReconcileBinding(b)
  PROVE  BindingPart'
<1> USE DEF BindingPart
<1> DEFINE cached == cachedBinding[b]
           read == IF Live(cached) THEN [cached EXCEPT !.finalizer = TRUE] ELSE cached
           request == [pc |-> "status", uid |-> b, read |-> read, want |-> read,
                       to |-> InstanceRef[b]]
           s == secret[b]
           t == secret'[b]
           w == ResolveServiceInstanceId(request)
           resolved == InstanceResolved(InstanceRef[b])
<1>1. /\ cached \in BindingObject /\ read \in BindingObject /\ Exists(read)
      /\ read.phase = cached.phase /\ read.id = cached.id /\ read.expired = cached.expired
      /\ Live(read) => read.finalizer
      /\ ~Live(read) => read = cached
  <2>1. cached \in BindingObject /\ Exists(cached)
    BY DEF ReconcileBinding, TypeOK
  <2>2. CASE Live(cached)
    <3>1. read = [cached EXCEPT !.finalizer = TRUE]
      BY <2>2
    <3> HIDE DEF read
    <3> QED
      BY <2>1, <2>2, <3>1 DEF BindingObject, Exists, Live
  <2>3. CASE ~Live(cached)
    BY <2>1, <2>3
  <2> QED
    BY <2>2, <2>3
<1>2. /\ request \in BindingRequest
      /\ request.uid = b /\ request.read = read /\ request.want = read
  BY <1>1, RefAssumption DEF BindingRequest
<1>3. bindingWorker' = w
  BY DEF ReconcileBinding
<1>4. /\ binding' = [binding EXCEPT ![b] = IF read = cached THEN @ ELSE read]
      /\ read = cached \/ binding[b] = cached
      /\ secret' = [secret EXCEPT ![b] = IF resolved THEN ServiceBindingSecret(request) ELSE @]
      /\ UNCHANGED <<cachedBinding, bound, elapsed>>
  BY DEF ReconcileBinding, bindingUnchanged, caches
<1>5. \A c \in ServiceBindings \ {b} :
         binding'[c] = binding[c] /\ secret'[c] = secret[c]
  BY <1>4 DEF TypeOK
<1>6. /\ binding'[b].phase = binding[b].phase /\ binding'[b].id = binding[b].id
      /\ binding'[b].expired = binding[b].expired
      /\ binding'[b].finalizer = binding[b].finalizer \/ binding'[b].finalizer
  BY <1>1, <1>4 DEF TypeOK
<1>7. \/ ~resolved /\ t = s
      \/ Live(read) /\ Exists(s) /\ t = s
      \/ Live(read) /\ ~Exists(s) /\ t.phase = "live" /\ t.finalizer /\ ~t.data
      \/ /\ Deleting(read) /\ t.finalizer = s.finalizer /\ t.data = s.data
         /\ \/ t.phase = s.phase /\ ~Live(s)
            \/ t.phase = "deleting" /\ Live(s) /\ s.finalizer
            \/ t.phase = "gone" /\ Live(s) /\ ~s.finalizer
  <2>1. t = IF resolved THEN ServiceBindingSecret(request) ELSE s
    BY <1>4 DEF TypeOK
  <2> HIDE DEF t, s, request, read, resolved
  <2> QED
    BY <1>1, <1>2, <2>1, EnsuredSecret DEF s
<1>8. /\ BindingSound(cached) /\ BindingSound(binding[b])
      /\ BindingSince(cached, binding[b])
      /\ binding[b].id => bound[b] # "unknown"
      /\ bound[b] = "released" => cached.id
      /\ binding[b].expired => bound[b] = "released"
      /\ binding[b].phase = "gone" /\ binding[b].id => Age(cached) >= 2
  BY DEF BindingHistory
<1>9. /\ BindingSound(read) /\ BindingSince(cached, read) /\ BindingSince(read, cached)
      /\ Age(read) = Age(cached)
  <2>1. Age(read) = Age(cached)
    BY <1>1 DEF Age
  <2> QED
    BY <1>1, <1>8, <2>1, SinceOrder DEF BindingSound, BindingSince, Exists, Live
<1>10. w # Idle =>
         /\ w.uid = b /\ w.read = read
         /\ w.pc = "status" \/ resolved
         /\ \/ w.pc = "bind" /\ w.want = read /\ Live(read) /\ ~read.id
            \/ w.pc = "expire" /\ w.want = read /\ Live(read) /\ read.id /\ elapsed[b]
            \/ w.pc = "client" /\ w.want = read /\ Live(read) /\ read.id
            \/ w.pc = "unbind" /\ w.want = read /\ Deleting(read) /\ read.id
            \/ /\ w.pc = "clear" /\ w.want = read /\ Deleting(read)
               /\ ~read.id \/ read.expired
            \/ /\ w.pc = "status"
               /\ w.want.phase = read.phase /\ w.want.finalizer = read.finalizer
               /\ w.want.id = read.id /\ w.want.expired = read.expired
  <2> HIDE DEF read, request
  <2> QED
    BY <1>1, <1>2, ReconciledBinding
<1> HIDE DEF cached, read, request, t, w, resolved
<1>11. /\ binding[b].expired => binding[b].id
       /\ binding[b].id => s.phase # "absent" /\ s.data
       /\ read.id => binding[b].id
       /\ read.expired => binding[b].expired
       /\ binding[b].id /\ ~Exists(s) => ~Live(read)
       /\ Deleting(read) => ~Live(binding[b])
       /\ binding[b].phase # "absent"
  <2>1. read.phase = cached.phase /\ cached = cachedBinding[b]
    BY <1>1 DEF cached
  <2>2. binding[b] \in BindingObject /\ s \in SecretObject
    BY DEF TypeOK
  <2>3. Deleting(read) => ~Live(binding[b])
    <3>1. /\ Deleting(read) => Age(cached) = 2
          /\ Live(binding[b]) => Age(binding[b]) = 1
      BY <2>1, AgeValue DEF Deleting, Live
    <3> QED
      BY <1>8, <3>1 DEF BindingSince
  <2>4. binding[b].id => s.phase # "absent" /\ s.data
    BY DEF SecretHistory
  <2>6. binding[b].phase # "absent"
    <3>1. /\ Age(cached) \in 1..2
          /\ binding[b].phase = "absent" => Age(binding[b]) = 0
      BY <1>1, <2>1, AgeValue DEF Exists
    <3> QED
      BY <1>8, <3>1 DEF BindingSince
  <2>5. binding[b].id /\ ~Exists(s) => ~Live(read)
    <3> SUFFICES ASSUME binding[b].id, ~Exists(s), Live(read)
                 PROVE  FALSE
      OBVIOUS
    <3>1. s.phase = "gone"
      BY <2>2, <2>4 DEF Exists, SecretObject, Phases
    <3>2. binding[b].phase = "gone"
      BY <2>1, <3>1 DEF SecretHistory, Live
    <3>3. Age(cached) = 1
      BY <2>1, AgeValue DEF Live
    <3> QED
      BY <1>8, <3>2, <3>3
  <2> QED
    BY <1>8, <1>9, <2>3, <2>4, <2>5, <2>6 DEF BindingSound, BindingSince
<1>12. BindingHistory'
  <2>1. BindingSound(binding'[b]) /\ BindingSince(cached, binding'[b])
    <3>1. binding'[b] = binding[b] \/ binding'[b] = read
      BY <1>4 DEF TypeOK
    <3> QED
      BY <1>8, <1>9, <3>1
  <2> QED
    BY <1>4, <1>5, <1>6, <2>1 DEF BindingHistory, cached
<1>13. BindingWorkerSound'
  <2> SUFFICES ASSUME w # Idle
               PROVE  BindingWorkerSound'
    BY <1>3 DEF BindingWorkerSound
  <2>1. BindingSound(w.want)
    BY <1>9, <1>10 DEF BindingSound, Exists
  <2>2. bound[b] = "released" => read.id
    BY <1>8, <1>9 DEF BindingSince
  <2> QED
    BY <1>1, <1>3, <1>4, <1>8, <1>9, <1>10, <1>11, <2>1, <2>2
    DEF BindingWorkerSound, cached, Live, Deleting
<1>14. SecretHistory'
  <2>1. /\ t.phase = "absent" => ~t.data
        /\ Deleting(t) => t.finalizer
        /\ t.phase = "gone" => ~t.finalizer
        /\ binding[b].id => t.phase # "absent" /\ t.data
        /\ binding[b].expired => ~t.finalizer
        /\ binding[b].phase = "gone" /\ binding[b].id => ~Exists(t)
    BY <1>7, <1>11 DEF SecretHistory, Live, Deleting, Exists
  <2>2. Live(cached) /\ binding[b].phase # "gone" => t.phase \in {"absent", "live"}
    BY <1>1, <1>7 DEF SecretHistory, Live, Deleting, cached
  <2>3. /\ Live(binding[b]) => t.phase \in {"absent", "live"}
        /\ Live(binding[b]) /\ ~elapsed[b] =>
              t.phase = "absent" \/ (Live(t) /\ t.finalizer)
    BY <1>7, <1>11 DEF SecretHistory, Live, Deleting
  <2> QED
    BY <1>4, <1>5, <1>6, <1>11, <2>1, <2>2, <2>3 DEF SecretHistory, cached, Live, t
<1>15. SecretWorkerSound'
  <2> SUFFICES ASSUME w # Idle
               PROVE  SecretWorkerSound'
    BY <1>3 DEF SecretWorkerSound
  <2>1. w.pc = "bind" => t.phase # "absent"
    BY <1>7, <1>10 DEF Exists, Live, Deleting
  <2>2. w.pc = "unbind" => ~Live(t)
    BY <1>7, <1>10 DEF Live, Deleting
  <2>3. w.pc = "clear" /\ read.id => ~Exists(t)
    BY <1>7, <1>10, <1>11 DEF Live, Deleting, Exists, SecretHistory
  <2>4. /\ binding'[b].id => t.phase # "absent" /\ t.data
        /\ binding'[b].expired => ~t.finalizer
    BY <1>14 DEF SecretHistory, t
  <2> QED
    BY <1>3, <1>4, <1>6, <1>10, <1>11, <2>1, <2>2, <2>3, <2>4 DEF SecretWorkerSound, t
<1> QED
  BY <1>12, <1>13, <1>14, <1>15

\* Bind and the publication of the credentials, whatever the answer.
LEMMA BindStep ==
  ASSUME TypeOK, TypeOK', BindingPart, BindAccepted \/ BindFailed
  PROVE  BindingPart'
<1> USE DEF BindingPart
<1> DEFINE w == bindingWorker
           b == w.uid
           s == secret[b]
<1>1. /\ w \in BindingRequest /\ w # Idle /\ w.pc = "bind"
      /\ UNCHANGED <<binding, cachedBinding, elapsed>>
  BY DEF BindAccepted, BindFailed, TypeOK, Idle, bindingUnchanged, caches
<1>2. /\ BindingSound(w.read) /\ BindingSound(w.want)
      /\ Live(w.read) /\ w.read.finalizer
      /\ BindingSince(w.read, cachedBinding[b])
      /\ bound[b] # "released"
      /\ w.read.expired => bound[b] = "released"
      /\ s.phase # "absent"
  BY <1>1 DEF BindingWorkerSound, SecretWorkerSound
<1>3. /\ bound' = bound \/ bound' = [bound EXCEPT ![b] = "bound"]
      /\ BindAccepted => bound'[b] = "bound"
      /\ secret' = secret \/ publishCredentials(b)
      /\ BindAccepted => publishCredentials(b)
  BY <1>1 DEF BindAccepted, BindFailed, ServiceBinds, TypeOK, BindingRequest
<1>4. \A c \in ServiceBindings :
         \/ bound'[c] = bound[c]
         \/ c = b /\ bound'[c] = "bound"
  BY <1>3 DEF TypeOK
<1>5. \A c \in ServiceBindings :
         \/ secret'[c] = secret[c]
         \/ /\ c = b /\ Exists(s) /\ secret'[c].data
            /\ secret'[c].phase = s.phase /\ secret'[c].finalizer = s.finalizer
  BY <1>1, <1>3 DEF publishCredentials, loadSecret, TypeOK, SecretObject, BindingRequest
<1>6. BindAccepted => secret'[b].data
  BY <1>1, <1>3 DEF publishCredentials, TypeOK, SecretObject, BindingRequest
<1>7. BindingHistory'
  BY <1>1, <1>2, <1>4 DEF BindingHistory
<1>8. SecretHistory'
  BY <1>1, <1>2, <1>5 DEF SecretHistory, Live, Deleting, Exists
<1>9. BindingWorkerSound' /\ SecretWorkerSound'
  <2>1. CASE BindFailed
    <3>1. bindingWorker' = Idle
      BY <2>1 DEF BindFailed
    <3> QED
      BY <3>1 DEF BindingWorkerSound, SecretWorkerSound
  <2>2. CASE BindAccepted
    <3> DEFINE want == [w.read EXCEPT !.id = TRUE]
    <3>1. /\ want.id /\ want.phase = w.read.phase /\ want.finalizer = w.read.finalizer
          /\ want.expired = w.read.expired
      BY <1>1 DEF BindingRequest, BindingObject
    <3>2. w' = Idle \/ w' = [w EXCEPT !.pc = "status", !.want = want]
      BY <2>2 DEF BindAccepted, BindingWrites
    <3>3. BindingSound(want)
      BY <1>2, <3>1 DEF BindingSound, Live
    <3> HIDE DEF want
    <3>4. w' # Idle => /\ w'.pc = "status" /\ w'.uid = b /\ w'.read = w.read
                       /\ w'.want = want
      BY <1>1, <3>2 DEF BindingRequest
    <3>5. bound'[b] = "bound" /\ secret'[b].phase # "absent" /\ secret'[b].data
      BY <1>1, <1>2, <1>3, <1>5, <1>6, <2>2 DEF BindingRequest
    <3>6. BindingWorkerSound'
      BY <1>1, <1>2, <3>1, <3>3, <3>4, <3>5 DEF BindingWorkerSound, Live, Exists
    <3>7. SecretWorkerSound'
      BY <1>1, <1>2, <3>1, <3>4, <3>5 DEF SecretWorkerSound
    <3> QED
      BY <3>6, <3>7
  <2> QED
    BY <2>1, <2>2
<1> QED
  BY <1>7, <1>8, <1>9

\* A request that ends by recording what it knows of the object.
LEMMA RecordedRequest ==
  ASSUME TypeOK, bindingWorker # Idle, BindingWorkerSound, SecretWorkerSound,
         NEW o \in BindingObject, BindingSound(o),
         bindingWorker' = BindingWrites(bindingWorker, o),
         o.phase = bindingWorker.read.phase, o.finalizer = bindingWorker.read.finalizer,
         bindingWorker.read.id => o.id, bindingWorker.read.expired => o.expired,
         o.id => bindingWorker.want.id, o.expired => bindingWorker.want.expired,
         UNCHANGED <<cachedBinding, elapsed>>,
         NEW b \in ServiceBindings, b = bindingWorker.uid,
         bound[b] # "unknown" => bound'[b] # "unknown",
         bound[b] = "released" => bound'[b] = "released",
         secret[b].phase # "absent" => secret'[b].phase # "absent",
         secret[b].data => secret'[b].data,
         ~secret[b].finalizer => ~secret'[b].finalizer
  PROVE  BindingWorkerSound' /\ SecretWorkerSound'
<1> DEFINE w == bindingWorker
<1>1. w \in BindingRequest
  BY DEF TypeOK
<1>2. w' = Idle \/ w' = [w EXCEPT !.pc = "status", !.want = o]
  BY DEF BindingWrites
<1>3. w' # Idle => w'.pc = "status" /\ w'.uid = b /\ w'.read = w.read /\ w'.want = o
  BY <1>1, <1>2 DEF BindingRequest
<1> QED
  BY <1>3 DEF BindingWorkerSound, SecretWorkerSound

LEMMA RecordedWant ==
  ASSUME TypeOK, bindingWorker # Idle, BindingWorkerSound, SecretWorkerSound,
         NEW ready \in BOOLEAN,
         bindingWorker' = BindingWrites(bindingWorker,
                                        [bindingWorker.want EXCEPT !.ready = ready]),
         UNCHANGED <<cachedBinding, elapsed, bound, secret>>
  PROVE  BindingWorkerSound' /\ SecretWorkerSound'
<1> DEFINE w == bindingWorker
           o == [w.want EXCEPT !.ready = ready]
<1>1. w \in BindingRequest /\ w.want \in BindingObject /\ w.uid \in ServiceBindings
  BY DEF TypeOK, BindingRequest
<1>2. /\ o \in BindingObject
      /\ o.phase = w.want.phase /\ o.finalizer = w.want.finalizer
      /\ o.id = w.want.id /\ o.expired = w.want.expired
  BY <1>1 DEF BindingObject
<1> HIDE DEF o
<1>3. /\ BindingSound(o)
      /\ w.want.phase = w.read.phase /\ w.want.finalizer = w.read.finalizer
      /\ w.read.id => w.want.id
      /\ w.read.expired => w.want.expired
  BY <1>2 DEF BindingWorkerSound, BindingSound, Exists
<1> QED
  BY <1>1, <1>2, <1>3, RecordedRequest DEF o

\* Unbind and the destruction of the credentials, whatever the answer.
LEMMA UnbindStep ==
  ASSUME TypeOK, TypeOK', BindingPart, UnbindAccepted \/ UnbindFailed
  PROVE  BindingPart'
<1> USE DEF BindingPart
<1> DEFINE w == bindingWorker
           b == w.uid
           s == secret[b]
           t == secret'[b]
<1>1. /\ w \in BindingRequest /\ w # Idle /\ w.pc \in {"expire", "unbind"}
      /\ b \in ServiceBindings /\ s \in SecretObject
      /\ UNCHANGED <<binding, cachedBinding, elapsed>>
  BY DEF UnbindAccepted, UnbindFailed, TypeOK, Idle, bindingUnchanged, caches, BindingRequest
<1>2. /\ BindingSound(w.read) /\ BindingSound(w.want) /\ w.read.id /\ w.want.id
      /\ Exists(w.read) /\ (Live(w.read) => w.read.finalizer)
      /\ BindingSince(w.read, cachedBinding[b])
      /\ BindingSince(cachedBinding[b], binding[b])
      /\ w.want.phase = w.read.phase /\ w.want.finalizer = w.read.finalizer
      /\ w.read.expired => w.want.expired
      /\ bound[b] # "unknown"
      /\ w.pc = "expire" => elapsed[b]
      /\ w.pc = "unbind" => Deleting(w.read) /\ ~Live(s)
      /\ s.phase # "absent" /\ s.data
  BY <1>1 DEF BindingWorkerSound, SecretWorkerSound, BindingHistory
<1>3. /\ bound' = bound \/ bound' = [bound EXCEPT ![b] = "released"]
      /\ UnbindAccepted => bound' = [bound EXCEPT ![b] = "released"]
      /\ secret' = secret \/ destroyCredentials(b)
      /\ UnbindAccepted => destroyCredentials(b)
  BY DEF UnbindAccepted, UnbindFailed
<1>4. \A c \in ServiceBindings :
         \/ bound'[c] = bound[c]
         \/ c = b /\ bound'[c] = "released"
  BY <1>3 DEF TypeOK
<1>5. /\ \A c \in ServiceBindings \ {b} : secret'[c] = secret[c]
      /\ t = s \/ t = FinalizerCleared(s)
      /\ UnbindAccepted /\ Exists(s) => t = FinalizerCleared(s)
      /\ UnbindAccepted /\ ~Exists(s) => t = s
  BY <1>1, <1>3 DEF destroyCredentials, loadSecret, TypeOK
<1>6. /\ t.data = s.data
      /\ \/ t.phase = s.phase /\ t.finalizer = s.finalizer
         \/ ~Deleting(s) /\ t.phase = s.phase /\ ~t.finalizer
         \/ Deleting(s) /\ t.phase = "gone" /\ ~t.finalizer
      /\ UnbindAccepted => ~Deleting(t)
      /\ UnbindAccepted /\ Exists(s) => ~t.finalizer
  BY <1>1, <1>5 DEF FinalizerCleared, SecretObject, Deleting, Exists
<1>7. binding[b].id /\ cachedBinding[b].id
  BY <1>2 DEF BindingSince
<1>8. BindingHistory'
  BY <1>1, <1>4, <1>7 DEF BindingHistory
<1>9. Live(binding[b]) => elapsed[b]
  <2>1. /\ w.read \in BindingObject /\ cachedBinding[b] \in BindingObject
        /\ binding[b] \in BindingObject
    BY <1>1 DEF TypeOK, BindingRequest
  <2>2. BindingSince(w.read, binding[b])
    BY <1>2, <2>1, SinceOrder
  <2>3. /\ Deleting(w.read) => Age(w.read) = 2
        /\ Live(binding[b]) => Age(binding[b]) = 1
    BY AgeValue DEF Deleting, Live
  <2> QED
    BY <1>1, <1>2, <2>2, <2>3 DEF BindingSince
<1>10. Deleting(s) => ~(Live(cachedBinding[b]) /\ binding[b].phase # "gone")
  BY <1>1 DEF SecretHistory, Deleting
<1>11. SecretHistory'
  BY <1>1, <1>5, <1>6, <1>9, <1>10 DEF SecretHistory, Live, Deleting, Exists
<1>12. UnbindAccepted => ~t.finalizer
  <2>1. ~Exists(s) => s.phase = "gone"
    BY <1>1, <1>2 DEF SecretObject, Exists, Phases
  <2> QED
    BY <1>1, <1>5, <1>6, <2>1 DEF SecretHistory
<1>13. BindingWorkerSound' /\ SecretWorkerSound'
  <2>1. CASE UnbindFailed
    <3> DEFINE o == [w.read EXCEPT !.ready = TRUE]
    <3>1. /\ o \in BindingObject
          /\ o.phase = w.read.phase /\ o.finalizer = w.read.finalizer
          /\ o.id = w.read.id /\ o.expired = w.read.expired
      BY <1>1 DEF BindingRequest, BindingObject
    <3>2. w' = Idle \/ w' = BindingWrites(w, o)
      BY <2>1 DEF UnbindFailed
    <3> HIDE DEF o
    <3>3. BindingSound(o)
      BY <1>2, <3>1 DEF BindingSound, Exists
    <3>4. /\ bound'[b] # "unknown" /\ (bound[b] = "released" => bound'[b] = "released")
          /\ t.phase # "absent" /\ (~s.finalizer => ~t.finalizer)
      BY <1>1, <1>2, <1>4, <1>6
    <3>5. CASE w' = BindingWrites(w, o)
      BY <1>1, <1>2, <1>6, <3>1, <3>3, <3>4, <3>5, RecordedRequest
    <3> QED
      BY <3>2, <3>5 DEF BindingWorkerSound, SecretWorkerSound
  <2>2. CASE UnbindAccepted /\ w.pc = "expire"
    <3> DEFINE want == [w.want EXCEPT !.expired = TRUE]
    <3>1. /\ want.phase = w.read.phase /\ want.finalizer = w.read.finalizer
          /\ want.id /\ want.expired
      BY <1>1, <1>2 DEF BindingRequest, BindingObject
    <3>2. w' = [w EXCEPT !.pc = "client", !.want = want]
      BY <1>1, <2>2 DEF UnbindAccepted, BindingRequest
    <3> HIDE DEF want
    <3>3. w'.pc = "client" /\ w'.uid = b /\ w'.read = w.read /\ w'.want = want
      BY <1>1, <3>2 DEF BindingRequest
    <3>4. BindingSound(want)
      BY <1>2, <3>1 DEF BindingSound, Exists
    <3>5. bound'[b] = "released"
      BY <1>1, <1>3, <2>2 DEF TypeOK
    <3>6. BindingWorkerSound'
      BY <1>1, <1>2, <3>1, <3>3, <3>4, <3>5 DEF BindingWorkerSound
    <3>7. SecretWorkerSound'
      BY <1>1, <1>2, <1>6, <1>12, <2>2, <3>1, <3>3 DEF SecretWorkerSound
    <3> QED
      BY <3>6, <3>7
  <2>3. CASE UnbindAccepted /\ w.pc = "unbind"
    <3>1. w' = [w EXCEPT !.pc = "clear"]
      BY <2>3 DEF UnbindAccepted, BindingGoto
    <3>2. w'.pc = "clear" /\ w'.uid = b /\ w'.read = w.read /\ w'.want = w.want
      BY <1>1, <3>1 DEF BindingRequest
    <3>3. bound'[b] = "released"
      BY <1>1, <1>3, <2>3 DEF TypeOK
    <3>4. BindingWorkerSound'
      BY <1>1, <1>2, <3>2, <3>3 DEF BindingWorkerSound
    <3>5. ~Exists(t)
      BY <1>1, <1>2, <1>6, <2>3 DEF Exists, Live, Deleting
    <3>6. SecretWorkerSound'
      BY <1>1, <1>2, <1>6, <1>12, <2>3, <3>2, <3>5 DEF SecretWorkerSound
    <3> QED
      BY <3>4, <3>6
  <2> QED
    BY <1>1, <2>1, <2>2, <2>3
<1> QED
  BY <1>8, <1>11, <1>13

LEMMA ConfigureClientStep ==
  ASSUME TypeOK, TypeOK', BindingPart, ConfigureClientComponent
  PROVE  BindingPart'
<1> USE DEF BindingPart
<1> DEFINE w == bindingWorker
<1>1. /\ w \in BindingRequest /\ w # Idle /\ w.pc = "client"
      /\ UNCHANGED <<binding, cachedBinding, elapsed, bound, secret>>
  BY DEF ConfigureClientComponent, TypeOK, Idle, bindingUnchanged, caches
<1>2. (~w.want.expired) \in BOOLEAN
  BY <1>1 DEF BindingRequest, BindingObject
<1>3. CASE w' = Idle
  BY <1>1, <1>3 DEF BindingHistory, SecretHistory, BindingWorkerSound, SecretWorkerSound
<1>4. CASE \E ready \in BOOLEAN : w' = BindingWrites(w, [w.want EXCEPT !.ready = ready])
  <2>1. PICK ready \in BOOLEAN : w' = BindingWrites(w, [w.want EXCEPT !.ready = ready])
    BY <1>4
  <2>2. BindingWorkerSound' /\ SecretWorkerSound'
    BY <1>1, <2>1, RecordedWant
  <2> QED
    BY <1>1, <2>2 DEF BindingHistory, SecretHistory
<1> QED
  BY <1>2, <1>3, <1>4 DEF ConfigureClientComponent

\* A request's last write: nothing happened to the object since it was read,
\* or nothing is written.
LEMMA BindingWriteStep ==
  ASSUME TypeOK, TypeOK', BindingPart, UpdateBindingStatus \/ ClearBindingFinalizer
  PROVE  BindingPart'
<1> USE DEF BindingPart
<1> DEFINE w == bindingWorker
           b == w.uid
<1>1. /\ w \in BindingRequest /\ w # Idle /\ w.pc \in {"status", "clear"}
      /\ b \in ServiceBindings
      /\ bindingWorker' = Idle
      /\ UNCHANGED <<cachedBinding, elapsed, bound, secret>>
  BY DEF UpdateBindingStatus, ClearBindingFinalizer, TypeOK, Idle, bindingUnchanged,
     caches, BindingRequest
<1>2. BindingWorkerSound' /\ SecretWorkerSound'
  BY <1>1 DEF BindingWorkerSound, SecretWorkerSound
<1>3. /\ BindingSound(w.read) /\ BindingSound(w.want) /\ Exists(w.read)
      /\ BindingSince(w.read, cachedBinding[b])
      /\ w.want.phase = w.read.phase
      /\ w.read.id => w.want.id
      /\ w.read.expired => w.want.expired
      /\ w.want.id => bound[b] # "unknown"
      /\ w.want.expired => bound[b] = "released"
      /\ w.want.id => secret[b].phase # "absent" /\ secret[b].data
      /\ w.want.expired => ~secret[b].finalizer
      /\ w.pc = "clear" => /\ Deleting(w.read)
                           /\ w.read.id => bound[b] = "released" /\ ~Exists(secret[b])
  BY <1>1 DEF BindingWorkerSound, SecretWorkerSound
<1>4. cachedBinding[b].phase # "absent"
  <2>1. /\ cachedBinding[b].phase = "absent" => Age(cachedBinding[b]) = 0
        /\ Age(w.read) \in 1..2
    BY <1>3, AgeValue DEF Exists
  <2> QED
    BY <1>3, <2>1 DEF BindingSince
<1>5. CASE binding' = binding
  BY <1>1, <1>2, <1>5 DEF BindingHistory, SecretHistory
<1>6. CASE BindingUnmodified /\ UpdateBindingStatus
  <2>1. binding[b] = w.read /\ binding' = [binding EXCEPT ![b] = w.want]
    BY <1>6 DEF BindingUnmodified, UpdateBindingStatus
  <2>2. /\ binding'[b] = w.want
        /\ \A c \in ServiceBindings \ {b} : binding'[c] = binding[c]
    BY <1>1, <2>1 DEF TypeOK
  <2>3. BindingSince(cachedBinding[b], w.want)
    <3>1. Age(w.want) = Age(w.read)
      BY <1>3 DEF Age
    <3>2. BindingSince(cachedBinding[b], w.read)
      BY <1>1, <2>1 DEF BindingHistory
    <3> QED
      BY <1>3, <3>1, <3>2 DEF BindingSince
  <2>4. BindingHistory'
    BY <1>1, <1>3, <1>4, <2>2, <2>3 DEF BindingHistory, Exists
  <2>5. SecretHistory'
    BY <1>1, <1>3, <2>1, <2>2 DEF SecretHistory, Exists, Live
  <2> QED
    BY <1>2, <2>4, <2>5
<1>7. CASE BindingUnmodified /\ ClearBindingFinalizer
  <2> DEFINE o == FinalizerCleared(w.read)
  <2>1. w.pc = "clear" /\ binding[b] = w.read /\ binding' = [binding EXCEPT ![b] = o]
    BY <1>7 DEF BindingUnmodified, ClearBindingFinalizer
  <2>2. o.phase = "gone" /\ o.id = w.read.id /\ o.expired = w.read.expired
    BY <1>1, <1>3, <2>1 DEF FinalizerCleared, BindingRequest, BindingObject
  <2> HIDE DEF o
  <2>3. /\ binding'[b] = o
        /\ \A c \in ServiceBindings \ {b} : binding'[c] = binding[c]
    BY <1>1, <2>1 DEF TypeOK
  <2>4. cachedBinding[b] \in BindingObject
    BY <1>1 DEF TypeOK
  <2>5. Age(o) = 3 /\ Age(cachedBinding[b]) \in 0..3 /\ Age(w.read) = 2
    BY <1>3, <2>1, <2>2, <2>4, AgeValue DEF BindingObject, Deleting
  <2>6. BindingSound(o) /\ BindingSince(cachedBinding[b], o)
    BY <1>1, <1>3, <2>1, <2>2, <2>5 DEF BindingHistory, BindingSound, BindingSince, Exists
  <2>7. Age(cachedBinding[b]) >= 2
    BY <1>3, <2>5 DEF BindingSince
  <2>8. BindingHistory'
    BY <1>1, <1>3, <1>4, <2>1, <2>2, <2>3, <2>6, <2>7 DEF BindingHistory
  <2>9. SecretHistory'
    BY <1>1, <1>3, <2>1, <2>2, <2>3 DEF SecretHistory, Live
  <2> QED
    BY <1>2, <2>8, <2>9
<1> QED
  BY <1>5, <1>6, <1>7 DEF UpdateBindingStatus, ClearBindingFinalizer

LEMMA BindingUserStep ==
  ASSUME TypeOK, TypeOK', BindingPart,
         NEW b \in ServiceBindings, CreateBinding(b) \/ DeleteBinding(b)
  PROVE  BindingPart'
<1> USE DEF BindingPart
<1>1. UNCHANGED <<bindingWorker, cachedBinding, bound, elapsed, secret>>
  BY DEF CreateBinding, DeleteBinding, caches, remote, controllers
<1>2. BindingWorkerSound' /\ SecretWorkerSound'
  BY <1>1 DEF BindingWorkerSound, SecretWorkerSound
<1>3. binding[b] \in BindingObject /\ cachedBinding[b] \in BindingObject
  BY DEF TypeOK
<1>4. PICK o \in BindingObject :
         /\ binding' = [binding EXCEPT ![b] = o]
         /\ o.id = binding[b].id /\ o.expired = binding[b].expired
         /\ o.finalizer = binding[b].finalizer
         /\ \/ binding[b].phase = "absent" /\ o.phase = "live"
            \/ binding[b].phase = "live" /\ o.finalizer /\ o.phase = "deleting"
            \/ binding[b].phase = "live" /\ ~o.finalizer /\ o.phase = "gone"
  <2>1. CASE CreateBinding(b)
    <3>1. [binding[b] EXCEPT !.phase = "live"] \in BindingObject
      BY <1>3 DEF BindingObject, Phases
    <3> QED
      BY <1>3, <2>1, <3>1 DEF CreateBinding, BindingObject
  <2>2. CASE DeleteBinding(b)
    <3> DEFINE o == DeleteRequested(binding[b])
    <3>1. binding[b].phase = "live"
      BY <2>2 DEF DeleteBinding, Live
    <3>2. /\ o \in BindingObject
          /\ o.id = binding[b].id /\ o.expired = binding[b].expired
          /\ o.finalizer = binding[b].finalizer
          /\ \/ o.finalizer /\ o.phase = "deleting"
             \/ ~o.finalizer /\ o.phase = "gone"
      BY <1>3, <3>1 DEF DeleteRequested, Live, BindingObject, Phases
    <3>3. binding' = [binding EXCEPT ![b] = o]
      BY <2>2 DEF DeleteBinding
    <3> QED
      BY <3>1, <3>2, <3>3
  <2> QED
    BY <2>1, <2>2
<1>5. /\ binding'[b] = o
      /\ \A c \in ServiceBindings \ {b} : binding'[c] = binding[c]
  BY <1>4 DEF TypeOK
<1>6. BindingSound(binding[b]) /\ BindingSince(cachedBinding[b], binding[b])
  BY DEF BindingHistory
<1>7. /\ BindingSound(o)
      /\ o.phase = "gone" => ~o.id
      /\ binding[b].phase = "absent" => ~o.id
  BY <1>4, <1>6 DEF BindingSound, Exists
<1>8. BindingSince(cachedBinding[b], o)
  <2>1. /\ Age(cachedBinding[b]) \in 0..3 /\ Age(binding[b]) \in 0..3 /\ Age(o) \in 0..3
        /\ Age(binding[b]) <= Age(o)
    BY <1>3, <1>4, AgeValue DEF BindingObject
  <2> QED
    BY <1>4, <1>6, <2>1 DEF BindingSince
<1>9. BindingHistory'
  BY <1>1, <1>4, <1>5, <1>7, <1>8 DEF BindingHistory
<1>10. SecretHistory'
  <2>1. Live(cachedBinding[b]) => binding[b].phase # "absent"
    BY <1>6, AgeValue DEF BindingSince, Live
  <2>2. /\ o.id => secret[b].phase # "absent" /\ secret[b].data
        /\ o.expired => ~secret[b].finalizer
        /\ Live(cachedBinding[b]) /\ o.phase # "gone" =>
              secret[b].phase \in {"absent", "live"}
    BY <1>4, <2>1 DEF SecretHistory
  <2>3. /\ Live(o) => secret[b].phase \in {"absent", "live"}
        /\ Live(o) /\ ~elapsed[b] =>
              secret[b].phase = "absent" \/ (Live(secret[b]) /\ secret[b].finalizer)
    BY <1>4 DEF SecretHistory, Live
  <2> QED
    BY <1>1, <1>4, <1>5, <1>7, <2>2, <2>3 DEF SecretHistory
<1> QED
  BY <1>2, <1>9, <1>10

\* Informers catch up, durations elapse.
LEMMA BindingEnvironmentStep ==
  ASSUME TypeOK, TypeOK', BindingPart, NEW b \in ServiceBindings,
         SyncBinding(b) \/ DurationElapses(b)
  PROVE  BindingPart'
<1> USE DEF BindingPart
<1>1. CASE SyncBinding(b)
  <2>1. /\ cachedBinding' = [cachedBinding EXCEPT ![b] = binding[b]]
        /\ UNCHANGED <<binding, bindingWorker, bound, elapsed, secret>>
    BY <1>1 DEF SyncBinding, objects, remote, controllers
  <2>2. /\ BindingSince(binding[b], binding[b])
        /\ binding[b] \in BindingObject /\ secret[b] \in SecretObject
    BY SinceOrder DEF TypeOK
  <2>3. /\ binding[b].phase = "gone" => Age(binding[b]) = 3
        /\ BindingSound(binding[b]) /\ BindingSince(cachedBinding[b], binding[b])
        /\ BindingSound(cachedBinding[b])
    BY AgeValue DEF BindingHistory
  <2>4. BindingHistory'
    BY <2>1, <2>2, <2>3 DEF BindingHistory, BindingSince, BindingSound, TypeOK
  <2>5. Live(binding[b]) => secret[b].phase \in {"absent", "live"}
    BY DEF SecretHistory
  <2>6. SecretHistory'
    BY <2>1, <2>5 DEF SecretHistory, TypeOK
  <2>7. BindingWorkerSound'
    <3> SUFFICES ASSUME bindingWorker # Idle, bindingWorker.uid = b
                 PROVE  BindingSince(bindingWorker.read, binding[b])
      BY <2>1 DEF BindingWorkerSound, TypeOK
    <3>1. BindingSince(bindingWorker.read, cachedBinding[b])
      BY DEF BindingWorkerSound
    <3>2. bindingWorker.read \in BindingObject
      BY DEF TypeOK, BindingRequest
    <3> QED
      BY <2>3, <3>1, <3>2, SinceOrder DEF TypeOK
  <2>8. SecretWorkerSound'
    BY <2>1 DEF SecretWorkerSound
  <2> QED
    BY <2>4, <2>6, <2>7, <2>8
<1>2. CASE DurationElapses(b)
  <2>1. /\ elapsed' = [elapsed EXCEPT ![b] = TRUE]
        /\ UNCHANGED <<binding, cachedBinding, bindingWorker, bound, secret>>
    BY <1>2 DEF DurationElapses, objects, caches, remote, controllers
  <2>2. \A c \in ServiceBindings : ~elapsed'[c] => ~elapsed[c]
    BY <2>1 DEF TypeOK
  <2>3. bindingWorker # Idle /\ elapsed[bindingWorker.uid] => elapsed'[bindingWorker.uid]
    BY <2>1 DEF TypeOK, BindingRequest
  <2>4. BindingHistory' /\ BindingWorkerSound'
    BY <2>1 DEF BindingHistory, BindingWorkerSound
  <2>5. SecretHistory'
    BY <2>1, <2>2 DEF SecretHistory
  <2>6. SecretWorkerSound'
    BY <2>1, <2>3 DEF SecretWorkerSound
  <2> QED
    BY <2>4, <2>5, <2>6
<1> QED
  BY <1>1, <1>2

LEMMA BindingCrashStep ==
  ASSUME TypeOK, TypeOK', BindingPart, Crash \/ RequestFails
  PROVE  BindingPart'
<1> USE DEF BindingPart
<1>1. CASE Crash
  <2>1. /\ cachedBinding' = binding /\ bindingWorker' = Idle
        /\ UNCHANGED <<binding, secret, bound, elapsed>>
    BY <1>1 DEF Crash, objects, remote
  <2>2. \A b \in ServiceBindings :
           /\ BindingSince(binding[b], binding[b])
           /\ binding[b] \in BindingObject
           /\ binding[b].phase = "gone" => Age(binding[b]) = 3
           /\ BindingSound(binding[b]) /\ BindingSince(cachedBinding[b], binding[b])
    BY SinceOrder, AgeValue DEF TypeOK, BindingHistory
  <2>3. BindingHistory'
    BY <2>1, <2>2 DEF BindingHistory, BindingSound, BindingSince
  <2>4. SecretHistory'
    BY <2>1 DEF SecretHistory
  <2>5. BindingWorkerSound' /\ SecretWorkerSound'
    BY <2>1 DEF BindingWorkerSound, SecretWorkerSound
  <2> QED
    BY <2>3, <2>4, <2>5
<1>2. CASE RequestFails
  <2>1. UNCHANGED <<binding, cachedBinding, secret, bound, elapsed>>
    BY <1>2 DEF RequestFails, objects, caches, remote
  <2>2. BindingHistory' /\ SecretHistory'
    BY <2>1 DEF BindingHistory, SecretHistory
  <2>3. CASE bindingWorker' \in {Idle, bindingWorker}
    BY <2>1, <2>2, <2>3 DEF BindingWorkerSound, SecretWorkerSound
  <2>4. CASE /\ bindingWorker.pc = "client"
             /\ bindingWorker' = BindingWrites(bindingWorker,
                                              [bindingWorker.want EXCEPT !.ready = FALSE])
    <3>1. bindingWorker # Idle
      BY <2>4 DEF Idle
    <3> QED
      BY <2>1, <2>2, <2>4, <3>1, RecordedWant
  <2> QED
    BY <1>2, <2>3, <2>4 DEF RequestFails
<1> QED
  BY <1>1, <1>2

\* Everything else leaves the bindings and their Secrets alone.
LEMMA BindingUnchangedStep ==
  ASSUME BindingPart,
         UNCHANGED <<binding, cachedBinding, secret, elapsed, bound, bindingWorker>>
  PROVE  BindingPart'
  BY DEF BindingPart, BindingHistory, SecretHistory, BindingWorkerSound, SecretWorkerSound

LEMMA NextBindings ==
  ASSUME TypeOK, TypeOK', BindingPart, [Next]_vars
  PROVE  BindingPart'
<1> DEFINE part == <<binding, cachedBinding, secret, elapsed, bound, bindingWorker>>
<1>1. CASE InstanceNext
  <2>1. UNCHANGED part
    BY <1>1 DEF InstanceNext, ReconcileInstance, ProvisionAccepted, ProvisionFailed,
       DestroyAccepted, DestroyFailed, UpdateInstanceStatus, ClearInstanceFinalizer,
       instanceUnchanged, caches
  <2> QED
    BY <2>1, BindingUnchangedStep
<1>2. CASE BindingNext
  BY <1>2, ReconcileBindingStep, BindStep, UnbindStep, ConfigureClientStep,
     BindingWriteStep DEF BindingNext
<1>3. CASE UserNext
  <2>1. ASSUME NEW i \in ServiceInstances, CreateInstance(i) \/ DeleteInstance(i)
        PROVE  UNCHANGED part
    BY <2>1 DEF CreateInstance, DeleteInstance, caches, remote, controllers
  <2> QED
    BY <1>3, <2>1, BindingUserStep, BindingUnchangedStep DEF UserNext
<1>4. CASE EnvironmentNext
  <2>1. ASSUME \/ \E to \in LifecycleStates : LifecycleChanges(to)
               \/ \E b \in ServiceBindings, to \in ClientStates : ClientReconciles(b, to)
               \/ \E i \in ServiceInstances : SyncInstance(i)
        PROVE  UNCHANGED part
    BY <2>1 DEF LifecycleChanges, ClientReconciles, SyncInstance, objects, caches, remote,
       controllers
  <2> QED
    BY <1>4, <2>1, BindingEnvironmentStep, BindingCrashStep, BindingUnchangedStep
    DEF EnvironmentNext
<1>5. CASE UNCHANGED vars
  BY <1>5, BindingUnchangedStep DEF vars, objects, caches, remote, controllers
<1> QED
  BY <1>1, <1>2, <1>3, <1>4, <1>5 DEF Next

-----------------------------------------------------------------------------
(* The theorems *)


\* What was read is a past of its object, and what the service and the
\* credential admin did can be told from it, throughout every behaviour.
THEOREM HistoryInvariant == Spec => []History
<1>1. Init => History
  BY InitInstances, InitBindings DEF History
<1>2. TypeOK /\ TypeOK' /\ History /\ [Next]_vars => History'
  BY NextInstances, NextBindings DEF History, BindingPart
<1> QED
  BY <1>1, <1>2, TypeCorrect, PTL DEF Spec

\* A status names an id only after Provision or Bind accepted it, and so does
\* every cached copy of it.
THEOREM RecordedIds == Spec => []RecordedIdsAreAccepted
<1>1. History => RecordedIdsAreAccepted
  BY DEF History, InstanceHistory, BindingHistory, InstanceSince, BindingSince,
     RecordedIdsAreAccepted
<1> QED
  BY <1>1, HistoryInvariant, PTL

\* No recorded object outruns its finalizer: it goes unbound and without its
\* Secret, or destroyed.
THEOREM Finalizers == Spec => []FinalizersHold
<1>1. History => FinalizersHold
  BY DEF History, InstanceHistory, BindingHistory, SecretHistory, FinalizersHold
<1> QED
  BY <1>1, HistoryInvariant, PTL

\* Unbind succeeded before a status says expired.
THEOREM Expiry == Spec => []ExpiredIsReleased
<1>1. History => ExpiredIsReleased
  BY DEF History, BindingHistory, ExpiredIsReleased
<1> QED
  BY <1>1, HistoryInvariant, PTL

\* Neither an early expiry nor a stale finalization takes the credentials of
\* a recorded binding before its time.
THEOREM Credentials == Spec => []CredentialsLastForDuration
<1>1. TypeOK /\ History => CredentialsLastForDuration
  <2> SUFFICES ASSUME TypeOK, History, NEW b \in ServiceBindings,
                      Live(binding[b]), binding[b].id, ~elapsed[b]
               PROVE  secret[b] = [phase |-> "live", finalizer |-> TRUE, data |-> TRUE]
    BY DEF CredentialsLastForDuration
  <2>1. secret[b].phase = "live" /\ secret[b].finalizer /\ secret[b].data
    BY DEF History, SecretHistory, Live
  <2>2. secret[b] \in SecretObject
    BY DEF TypeOK
  <2> QED
    BY <2>1, <2>2 DEF SecretObject
<1> QED
  BY <1>1, TypeCorrect, HistoryInvariant, PTL

\* Whoever finds an instance Ready, in the API server or a cache, finds its id.
THEOREM ReadyInstances == Spec => []ReadyInstanceHasId
<1>1. History => ReadyInstanceHasId
  BY DEF History, InstanceHistory, InstanceSound, ReadyInstanceHasId
<1> QED
  BY <1>1, HistoryInvariant, PTL

-----------------------------------------------------------------------------
(* The deletion check *)

\* Only a fresh request goes to Destroy, past a list without bindings.
LEMMA DestroyComesFromReconcile ==
  ASSUME TypeOK, [Next]_vars, instanceWorker' # instanceWorker,
         instanceWorker'.pc = "destroy"
  PROVE  DependentBindings(instanceWorker'.uid) = {}
<1>1. PICK i \in ServiceInstances : ReconcileInstance(i)
  <2>1. InstanceNext
    <3>1. BindingNext => UNCHANGED instanceWorker
      BY DEF BindingNext, ReconcileBinding, BindAccepted, BindFailed, UnbindAccepted,
         UnbindFailed, ConfigureClientComponent, UpdateBindingStatus,
         ClearBindingFinalizer, bindingUnchanged
    <3>2. UserNext => UNCHANGED instanceWorker
      BY DEF UserNext, CreateInstance, DeleteInstance, CreateBinding, DeleteBinding,
         controllers
    <3>3. EnvironmentNext => UNCHANGED instanceWorker \/ instanceWorker' = Idle
      BY DEF EnvironmentNext, LifecycleChanges, ClientReconciles, DurationElapses,
         SyncInstance, SyncBinding, Crash, RequestFails, controllers
    <3>4. UNCHANGED vars => UNCHANGED instanceWorker
      BY DEF vars
    <3> QED
      BY <3>1, <3>2, <3>3, <3>4 DEF Next, Idle
  <2>2. instanceWorker \in {Idle} \union InstanceRequest
    BY DEF TypeOK
  <2>3. ASSUME instanceWorker \in InstanceRequest, NEW want
        PROVE  InstanceWrites(instanceWorker, want).pc # "destroy"
    BY <2>3 DEF InstanceWrites, InstanceRequest, Idle
  <2>4. instanceWorker \in InstanceRequest => InstanceGoto(instanceWorker, "clear").pc = "clear"
    BY DEF InstanceGoto, InstanceRequest
  <2> QED
    BY <2>1, <2>2, <2>3, <2>4 DEF InstanceNext, ProvisionAccepted, ProvisionFailed,
       DestroyAccepted, DestroyFailed, InstanceBlocked, UpdateInstanceStatus,
       ClearInstanceFinalizer, Idle
<1> DEFINE cached == cachedInstance[i]
           read == IF Live(cached) THEN [cached EXCEPT !.finalizer = TRUE] ELSE cached
           r == [pc |-> "status", uid |-> i, read |-> read, want |-> read]
<1>2. /\ instanceWorker' = ResolveServiceLifecycle(r)
      /\ Exists(cached)
  BY <1>1 DEF ReconcileInstance
<1>3. r \in InstanceRequest /\ r.uid = i /\ Exists(r.read)
  <2>1. cached \in InstanceObject
    BY DEF TypeOK
  <2>2. read \in InstanceObject /\ Exists(read)
    BY <1>2, <2>1 DEF InstanceObject, Exists, Live
  <2> QED
    BY <2>2 DEF InstanceRequest
<1> HIDE DEF r
<1>4. \A want : InstanceWrites(r, want).pc # "destroy"
  BY <1>3 DEF InstanceWrites, InstanceRequest, Idle
<1>5. /\ InstanceGoto(r, "clear").pc # "destroy" /\ InstanceGoto(r, "provision").pc # "destroy"
      /\ InstanceGoto(r, "destroy").uid = i
  BY <1>3 DEF InstanceGoto, InstanceRequest
<1>6. lifecycle = "ready" /\ Deleting(r.read)
  <2>1. ManageServiceInstance(r).pc # "destroy"
    BY <1>4, <1>5 DEF ManageServiceInstance
  <2>2. lifecycle \in LifecycleStates /\ (Live(r.read) \/ Deleting(r.read))
    BY <1>3 DEF TypeOK, Exists, Live, Deleting
  <2> QED
    BY <1>2, <1>4, <2>1, <2>2 DEF ResolveServiceLifecycle, LifecycleStates, Idle
<1>7. instanceWorker' = FinalizeServiceInstance(r)
  BY <1>2, <1>6 DEF ResolveServiceLifecycle, Live, Deleting
<1>8. CASE ~r.read.id
  BY <1>5, <1>7, <1>8 DEF FinalizeServiceInstance
<1>9. CASE r.read.id /\ DependentBindings(r.uid) # {}
  BY <1>4, <1>7, <1>9 DEF FinalizeServiceInstance, InstanceBlocked
<1>10. CASE r.read.id /\ DependentBindings(r.uid) = {}
  BY <1>3, <1>5, <1>7, <1>10 DEF FinalizeServiceInstance
<1> QED
  BY <1>8, <1>9, <1>10

\* The check reads a list that may be behind, and still finds every binding
\* with an id: its status was written over a cached copy of it.
THEOREM DestroySpares == Spec => DestroySparesRecordedBindings
<1> DEFINE spares == instanceWorker' # instanceWorker /\ instanceWorker'.pc = "destroy" =>
             \A b \in ServiceBindings :
                InstanceRef[b] = instanceWorker'.uid /\ Exists(binding[b]) => ~binding[b].id
<1>1. TypeOK /\ History /\ [Next]_vars => spares
  <2> SUFFICES ASSUME TypeOK, History, [Next]_vars, instanceWorker' # instanceWorker,
                      instanceWorker'.pc = "destroy", NEW b \in ServiceBindings,
                      InstanceRef[b] = instanceWorker'.uid, Exists(binding[b]),
                      binding[b].id
               PROVE  FALSE
    OBVIOUS
  <2>1. ~Exists(cachedBinding[b])
    BY DestroyComesFromReconcile DEF DependentBindings
  <2>2. /\ cachedBinding[b].phase # "absent"
        /\ BindingSince(cachedBinding[b], binding[b])
    BY DEF History, BindingHistory
  <2>3. cachedBinding[b].phase = "gone"
    BY <2>1, <2>2 DEF TypeOK, BindingObject, Phases, Exists
  <2>4. Age(cachedBinding[b]) = 3 /\ Age(binding[b]) \in 1..2
    BY <2>3, AgeValue DEF Exists
  <2> QED
    BY <2>2, <2>4 DEF BindingSince
<1> QED
  BY <1>1, TypeCorrect, HistoryInvariant, PTL DEF Spec, DestroySparesRecordedBindings

-----------------------------------------------------------------------------
(* The contract with the lifecycle service *)

LEMMA InstanceStepRefines ==
  ASSUME TypeOK, History, InstanceNext
  PROVE  Contract!ContractNext \/ UNCHANGED <<provisioned, bound>>
<1> DEFINE i == instanceWorker.uid
<1>1. UNCHANGED bound
  BY DEF InstanceNext, ReconcileInstance, ProvisionAccepted, ProvisionFailed,
     DestroyAccepted, DestroyFailed, UpdateInstanceStatus, ClearInstanceFinalizer,
     instanceUnchanged
<1>2. \/ UNCHANGED provisioned
      \/ /\ instanceWorker.pc = "provision"
         /\ provisioned' = [provisioned EXCEPT ![i] = "provisioned"]
      \/ /\ instanceWorker.pc = "destroy"
         /\ provisioned' = [provisioned EXCEPT ![i] = "destroyed"]
  BY DEF InstanceNext, ReconcileInstance, ProvisionAccepted, ProvisionFailed,
     DestroyAccepted, DestroyFailed, UpdateInstanceStatus, ClearInstanceFinalizer
<1>3. instanceWorker.pc \in {"provision", "destroy"} =>
         instanceWorker # Idle /\ i \in ServiceInstances
  BY DEF TypeOK, InstanceRequest, Idle
<1>4. instanceWorker.pc = "provision" => provisioned[i] # "destroyed"
  BY <1>3 DEF History, InstanceWorkerSound
<1>5. instanceWorker.pc = "destroy" => provisioned[i] # "unknown"
  BY <1>3 DEF History, InstanceWorkerSound
<1>6. i \in ServiceInstances =>
         provisioned[i] \in {"unknown", "provisioned", "destroyed"}
  BY DEF TypeOK
<1>7. provisioned' = provisioned \/ Contract!Provision(i) \/ Contract!Destroy(i)
  <2>1. provisioned \in [ServiceInstances -> {"unknown", "provisioned", "destroyed"}]
    BY DEF TypeOK
  <2>2. ASSUME NEW x, i \in ServiceInstances, provisioned[i] = x
        PROVE  [provisioned EXCEPT ![i] = x] = provisioned
    BY <2>1, <2>2
  <2> QED
    BY <1>1, <1>2, <1>3, <1>4, <1>5, <1>6, <2>2 DEF Contract!Provision, Contract!Destroy
<1> QED
  BY <1>1, <1>2, <1>3, <1>7 DEF Contract!ContractNext

LEMMA BindingStepRefines ==
  ASSUME TypeOK, History, BindingNext
  PROVE  Contract!ContractNext \/ UNCHANGED <<provisioned, bound>>
<1> DEFINE b == bindingWorker.uid
<1>1. UNCHANGED provisioned
  BY DEF BindingNext, ReconcileBinding, BindAccepted, BindFailed, UnbindAccepted,
     UnbindFailed, ConfigureClientComponent, UpdateBindingStatus,
     ClearBindingFinalizer, bindingUnchanged
<1>2. \/ UNCHANGED bound
      \/ bindingWorker.pc = "bind" /\ bound' = [bound EXCEPT ![b] = "bound"]
      \/ /\ bindingWorker.pc \in {"expire", "unbind"}
         /\ bound' = [bound EXCEPT ![b] = "released"]
  BY DEF BindingNext, ReconcileBinding, BindAccepted, BindFailed, UnbindAccepted,
     UnbindFailed, ConfigureClientComponent, UpdateBindingStatus,
     ClearBindingFinalizer, ServiceBinds
<1>3. bindingWorker.pc \in {"bind", "expire", "unbind"} =>
         bindingWorker # Idle /\ b \in ServiceBindings
  BY DEF TypeOK, BindingRequest, Idle
<1>4. bindingWorker.pc = "bind" => bound[b] # "released"
  BY <1>3 DEF History, BindingWorkerSound
<1>5. bindingWorker.pc \in {"expire", "unbind"} => bound[b] # "unknown"
  BY <1>3 DEF History, BindingWorkerSound
<1>6. bound' = bound \/ Contract!Bind(b) \/ Contract!Release(b)
  <2>1. bound \in [ServiceBindings -> {"unknown", "bound", "released"}]
    BY DEF TypeOK
  <2>2. ASSUME NEW x, b \in ServiceBindings, bound[b] = x
        PROVE  [bound EXCEPT ![b] = x] = bound
    BY <2>1, <2>2
  <2> QED
    BY <1>1, <1>2, <1>3, <1>4, <1>5, <2>1, <2>2 DEF Contract!Bind, Contract!Release
<1> QED
  BY <1>1, <1>2, <1>3, <1>6 DEF Contract!ContractNext

\* Whatever goes wrong between the controllers and the API server, the service
\* sees every id once through its life.
THEOREM ContractImplemented == Spec => ImplementsContract
<1>1. Init => Contract!ContractInit
  BY DEF Init, StoreInit, Contract!ContractInit
<1>2. TypeOK /\ History /\ [Next]_vars =>
         [Contract!ContractNext]_<<provisioned, bound>>
  <2> SUFFICES ASSUME TypeOK, History, [Next]_vars
               PROVE  Contract!ContractNext \/ UNCHANGED <<provisioned, bound>>
    OBVIOUS
  <2>1. UserNext => UNCHANGED <<provisioned, bound>>
    BY DEF UserNext, CreateInstance, DeleteInstance, CreateBinding, DeleteBinding, remote
  <2>2. EnvironmentNext => UNCHANGED <<provisioned, bound>>
    BY DEF EnvironmentNext, LifecycleChanges, ClientReconciles, DurationElapses,
       SyncInstance, SyncBinding, Crash, RequestFails, remote
  <2>3. UNCHANGED vars => UNCHANGED <<provisioned, bound>>
    BY DEF vars, remote
  <2> QED
    BY <2>1, <2>2, <2>3, InstanceStepRefines, BindingStepRefines DEF Next
<1> QED
  BY <1>1, <1>2, TypeCorrect, HistoryInvariant, PTL
  DEF Spec, ImplementsContract, Contract!ContractSpec
=============================================================================
