------------------------ MODULE ServiceClientProofs ------------------------
(***************************************************************************)
(* A client's rotation never moves it back, renews in time and serves: for *)
(* any durations, any number of bindings, changes and restarts.            *)
(***************************************************************************)
EXTENDS ServiceClientProperties, TLAPS

-----------------------------------------------------------------------------
(* The invariants *)

\* What the cache shows of a binding was true of it once.
Past(a, b) ==
    a.phase # "absent" =>
        /\ b.phase # "absent"
        /\ a.target = b.target /\ a.duration = b.duration /\ a.created = b.created
        /\ a.expired => b.expired
        /\ a.phase = "deleting" => b.phase \in {"deleting", "gone"}
        /\ a.phase = "gone" => b.phase = "gone"

Known(n) == cachedBindings[n].phase # "absent"

\* A client, or a copy of it, names no binding but one the cache has shown.
Names(c) == c.binding # None => Known(c.binding)

\* The status a request will write names the newest binding: the one it found
\* there is older, or no longer good.
WriteMovesOn ==
    worker.pc = "status" =>
        /\ worker.want.binding # None
        /\ worker.want = [worker.read EXCEPT !.binding = worker.want.binding]
        /\ Names(worker.read) /\ Names(worker.want)
        /\ worker.read.binding # None =>
              LET old == bindings[worker.read.binding]
              IN old.phase = "live" /\ ~old.expired =>
                    old.created <= bindings[worker.want.binding].created

MovesInv ==
    /\ \A n \in Ids : Past(cachedBindings[n], bindings[n])
    /\ Names(client) /\ Names(cachedClient)
    /\ WriteMovesOn

\* Everything is made for the spec there is.
OneSpec ==
    /\ \A n \in Ids : bindings[n].phase # "absent" =>
          /\ bindings[n].target = client.target
          /\ bindings[n].duration = client.duration
    /\ cachedClient.target = client.target /\ cachedClient.duration = client.duration
    /\ worker.pc = "status" =>
          worker.read.target = client.target /\ worker.read.duration = client.duration

\* So it is until the spec changes.
SpecInv == changes = 0 => OneSpec

-----------------------------------------------------------------------------
(* The operators *)

\* What a request picks are bindings.
LEMMA Picked ==
    ASSUME NEW c, NEW known, NEW S
    PROVE  /\ Kept(c, known) \subseteq Ids /\ Pruned(c, known) \subseteq Ids
           /\ Newest(known, S) \subseteq S
           /\ Current(c, known) \subseteq Newest(known, Kept(c, known))
           /\ Outdated(c, known) \subseteq Newest(known, Kept(c, known))
           /\ Fresh \subseteq Ids
BY DEF Kept, Pruned, Newest, Current, Outdated, Fresh

\* What the writes of a request make of each binding.
LEMMA Stamped ==
    ASSUME NEW S, NEW F, NEW c, Stamp(S, F, c), NEW n \in Ids
    PROVE  /\ n \in F => bindings'[n] = Create(c)
           /\ n \notin F /\ n \in S => bindings'[n] = Deleted(bindings[n])
           /\ n \notin F /\ n \notin S => bindings'[n] = bindings[n]
BY DEF Stamp

\* A binding's phase moves on, the rest stays.
LEMMA PhaseWritten ==
    ASSUME NEW b \in BindingObject, NEW p \in {"absent", "live", "deleting", "gone"}
    PROVE  /\ [b EXCEPT !.phase = p] \in BindingObject
           /\ [b EXCEPT !.phase = p].state = b.state
           /\ [b EXCEPT !.phase = p].phase = p
           /\ [b EXCEPT !.phase = p].target = b.target
           /\ [b EXCEPT !.phase = p].duration = b.duration
           /\ [b EXCEPT !.phase = p].created = b.created
           /\ [b EXCEPT !.phase = p].expired = b.expired
BY DEF BindingObject

\* Its reconciler reports on it.
LEMMA StateWritten ==
    ASSUME NEW b \in BindingObject, NEW s \in {"new", "notReady", "ready"}
    PROVE  /\ [b EXCEPT !.state = s] \in BindingObject
           /\ [b EXCEPT !.state = s].state = s
           /\ [b EXCEPT !.state = s].phase = b.phase
           /\ [b EXCEPT !.state = s].target = b.target
           /\ [b EXCEPT !.state = s].duration = b.duration
           /\ [b EXCEPT !.state = s].created = b.created
           /\ [b EXCEPT !.state = s].expired = b.expired
BY DEF BindingObject

\* It expires.
LEMMA ExpiryWritten ==
    ASSUME NEW b \in BindingObject, NEW s \in {"new", "notReady", "ready"}
    PROVE  /\ [b EXCEPT !.expired = TRUE, !.state = s] \in BindingObject
           /\ [b EXCEPT !.expired = TRUE, !.state = s].state = s
           /\ [b EXCEPT !.expired = TRUE, !.state = s].phase = b.phase
           /\ [b EXCEPT !.expired = TRUE, !.state = s].target = b.target
           /\ [b EXCEPT !.expired = TRUE, !.state = s].duration = b.duration
           /\ [b EXCEPT !.expired = TRUE, !.state = s].created = b.created
           /\ [b EXCEPT !.expired = TRUE, !.state = s].expired = TRUE
BY DEF BindingObject

\* A binding that is created is one of what the client asks for, made now.
LEMMA Created ==
    ASSUME TypeOK, NEW c \in ClientObject
    PROVE  /\ Create(c) \in BindingObject
           /\ Create(c).phase = "live" /\ Create(c).state = "new"
           /\ Create(c).target = c.target /\ Create(c).duration = c.duration
           /\ Create(c).created = now /\ ~Create(c).expired
BY DEF TypeOK, ClientObject, BindingObject, Create

\* One that is deleted keeps all but its phase.
LEMMA DeletedKeeps ==
    ASSUME NEW b \in BindingObject
    PROVE  /\ Deleted(b) \in BindingObject
           /\ Deleted(b).phase = IF b.phase = "live" THEN "deleting" ELSE b.phase
           /\ Deleted(b).target = b.target /\ Deleted(b).duration = b.duration
           /\ Deleted(b).created = b.created /\ Deleted(b).expired = b.expired
<1>1. CASE b.phase = "live"
  <2>1. Deleted(b) = [b EXCEPT !.phase = "deleting"]
    BY <1>1 DEF Deleted
  <2>2. [b EXCEPT !.phase = "deleting"] \in BindingObject
    BY PhaseWritten
  <2> QED
    BY <1>1, <2>1, <2>2 DEF BindingObject
<1>2. CASE b.phase # "live"
  BY <1>2 DEF Deleted
<1> QED
  BY <1>1, <1>2

\* A step on a binding leaves the others alone, and its spec and its age.
LEMMA BindingStepped ==
    ASSUME NEW n \in Ids, bindings[n] \in BindingObject, bindings \in [Ids -> BindingObject],
           BindingReconciled(n) \/ BindingExpires(n) \/ BindingFinalized(n)
    PROVE  \E b \in BindingObject :
              /\ bindings' = [bindings EXCEPT ![n] = b]
              /\ b.target = bindings[n].target /\ b.duration = bindings[n].duration
              /\ b.created = bindings[n].created
              /\ bindings[n].expired => b.expired
              /\ \/ b.phase = bindings[n].phase
                 \/ bindings[n].phase = "deleting" /\ b.phase = "gone"
<1>1. CASE BindingReconciled(n)
  <2>1. PICK s \in {"notReady", "ready"} : bindings' = [bindings EXCEPT ![n].state = s]
    BY <1>1 DEF BindingReconciled
  <2> DEFINE b == [bindings[n] EXCEPT !.state = s]
  <2>2. bindings' = [bindings EXCEPT ![n] = b]
    BY <2>1
  <2>3. /\ b \in BindingObject /\ b.phase = bindings[n].phase
        /\ b.target = bindings[n].target /\ b.duration = bindings[n].duration
        /\ b.created = bindings[n].created /\ b.expired = bindings[n].expired
    <3>1. s \in {"new", "notReady", "ready"}
      OBVIOUS
    <3> QED
      BY <3>1, StateWritten
  <2> HIDE DEF b
  <2> QED
    BY <2>2, <2>3
<1>2. CASE BindingExpires(n)
  <2> DEFINE b == [bindings[n] EXCEPT !.expired = TRUE, !.state = "notReady"]
  <2>1. bindings' = [bindings EXCEPT ![n] = b]
    BY <1>2 DEF BindingExpires
  <2>2. /\ b \in BindingObject /\ b.phase = bindings[n].phase
        /\ b.target = bindings[n].target /\ b.duration = bindings[n].duration
        /\ b.created = bindings[n].created /\ b.expired
    BY ExpiryWritten
  <2> HIDE DEF b
  <2> QED
    BY <2>1, <2>2
<1>3. CASE BindingFinalized(n)
  <2> DEFINE b == [bindings[n] EXCEPT !.phase = "gone"]
  <2>1. bindings' = [bindings EXCEPT ![n] = b] /\ bindings[n].phase = "deleting"
    BY <1>3 DEF BindingFinalized
  <2>2. /\ b \in BindingObject /\ b.phase = "gone"
        /\ b.target = bindings[n].target /\ b.duration = bindings[n].duration
        /\ b.created = bindings[n].created /\ b.expired = bindings[n].expired
    BY PhaseWritten
  <2> HIDE DEF b
  <2> QED
    BY <2>1, <2>2
<1> QED
  BY <1>1, <1>2, <1>3

LEMMA StampedType ==
    ASSUME TypeOK, NEW S, NEW F, NEW c \in ClientObject, Stamp(S, F, c)
    PROVE  bindings' \in [Ids -> BindingObject]
<1>1. \A n \in Ids : bindings[n] \in BindingObject /\ Deleted(bindings[n]) \in BindingObject
  BY DeletedKeeps DEF TypeOK
<1> QED
  BY <1>1, Created DEF Stamp

\* A request that goes on to the status names the binding it goes on with.
LEMMA Reflected ==
    ASSUME NEW c \in ClientObject, NEW n \in Ids, NEW b \in BindingObject
    PROVE  /\ Reflect(c, n, b) \in {Idle} \union Request
           /\ b.state # "ready" => Reflect(c, n, b) = Idle
           /\ b.state = "ready" =>
                 /\ Reflect(c, n, b).pc = "status"
                 /\ Reflect(c, n, b).read = c
                 /\ Reflect(c, n, b).want = [c EXCEPT !.binding = n]
                 /\ Reflect(c, n, b).requeueAt = Renewal(c, b)
<1>1. [c EXCEPT !.binding = n] \in ClientObject
  BY DEF ClientObject
<1>2. Renewal(c, b) \in Nat
  <2>1. c.duration \in Nat
    BY TimeAssumption DEF ClientObject
  <2>2. b.created \in Nat
    BY TimeAssumption DEF BindingObject
  <2>3. RenewBefore \in Nat
    BY TimeAssumption
  <2> QED
    BY <2>1, <2>2, <2>3 DEF Renewal
<1> QED
  BY <1>1, <1>2 DEF Reflect, Request, Idle

\* A client whose spec is changed, and one whose status is written.
LEMMA SpecWritten ==
    ASSUME NEW c \in ClientObject, NEW t \in Targets, NEW d \in Durations
    PROVE  /\ [c EXCEPT !.target = t, !.duration = d] \in ClientObject
           /\ [c EXCEPT !.target = t, !.duration = d].target = t
           /\ [c EXCEPT !.target = t, !.duration = d].duration = d
           /\ [c EXCEPT !.target = t, !.duration = d].binding = c.binding
BY DEF ClientObject

LEMMA StatusWritten ==
    ASSUME NEW c \in ClientObject, NEW n \in Ids \union {None}
    PROVE  /\ [c EXCEPT !.binding = n] \in ClientObject
           /\ [c EXCEPT !.binding = n].binding = n
           /\ [c EXCEPT !.binding = n].target = c.target
           /\ [c EXCEPT !.binding = n].duration = c.duration
BY DEF ClientObject

-----------------------------------------------------------------------------
(* Type correctness *)

LEMMA InitTypeOK == Init => TypeOK
<1> SUFFICES ASSUME Init PROVE TypeOK
  OBVIOUS
<1>1. PICK t \in Targets, d \in Durations :
         /\ client = [target |-> t, duration |-> d, binding |-> None]
         /\ bindings = [n \in Ids |->
               [phase |-> "absent", target |-> t, duration |-> d, created |-> 0,
                state |-> "new", expired |-> FALSE]]
  BY DEF Init
<1>2. client \in ClientObject
  BY <1>1 DEF ClientObject
<1>3. [phase |-> "absent", target |-> t, duration |-> d, created |-> 0,
       state |-> "new", expired |-> FALSE] \in BindingObject
  BY TimeAssumption DEF BindingObject
<1>4. bindings \in [Ids -> BindingObject]
  BY <1>1, <1>3
<1>5. now \in 0..MaxTime /\ timer \in 0..Never
  BY TimeAssumption DEF Init, Never
<1>6. changes \in 0..MaxChanges /\ crashes \in 0..MaxCrashes /\ failures \in 0..MaxFailures
  BY BoundAssumption DEF Init
<1> QED
  BY <1>2, <1>4, <1>5, <1>6 DEF Init, TypeOK

\* What a request writes and hands on has its type.
LEMMA ReconcileTypeOK ==
    ASSUME TypeOK, ReconcileClient
    PROVE  TypeOK'
<1> DEFINE c == cachedClient
           known == cachedBindings
<1>0. c \in ClientObject /\ \A n \in Ids : known[n] \in BindingObject
  BY DEF TypeOK
<1>1. bindings' \in [Ids -> BindingObject] /\ worker' \in {Idle} \union Request
  <2>1. CASE /\ Stamp(Pruned(c, known), {}, c)
             /\ \E n \in Current(c, known) : worker' = Reflect(c, n, known[n])
    <3>1. PICK n \in Current(c, known) : worker' = Reflect(c, n, known[n])
      BY <2>1
    <3>2. n \in Ids
      BY Picked
    <3> QED
      BY <1>0, <2>1, <3>1, <3>2, StampedType, Reflected
  <2>2. CASE \E f \in Fresh :
                /\ Stamp(Pruned(c, known), {f}, c)
                /\ \E n \in Newest(bindings', Kept(c, known) \union {f}) :
                      worker' = Reflect(c, n, IF n = f THEN bindings'[f] ELSE known[n])
    <3>1. PICK f \in Fresh :
             /\ Stamp(Pruned(c, known), {f}, c)
             /\ \E n \in Newest(bindings', Kept(c, known) \union {f}) :
                   worker' = Reflect(c, n, IF n = f THEN bindings'[f] ELSE known[n])
      BY <2>2
    <3>5. PICK n \in Newest(bindings', Kept(c, known) \union {f}) :
             worker' = Reflect(c, n, IF n = f THEN bindings'[f] ELSE known[n])
      BY <3>1
    <3>2. f \in Ids /\ n \in Ids
      <4>1. n \in Kept(c, known) \union {f}
        BY Picked
      <4> QED
        BY <4>1, Picked
    <3>3. bindings' \in [Ids -> BindingObject]
      BY <1>0, <3>1, StampedType
    <3>4. (IF n = f THEN bindings'[f] ELSE known[n]) \in BindingObject
      BY <1>0, <3>2, <3>3
    <3> QED
      BY <1>0, <3>2, <3>3, <3>4, <3>5, Reflected
  <2> QED
    BY <2>1, <2>2 DEF ReconcileClient
<1> QED
  BY <1>1 DEF TypeOK, ReconcileClient, bounds

\* So do the failures, the status write and the timer.
LEMMA ControllerTypeOK ==
    ASSUME TypeOK, StampFails \/ UpdateClientStatus \/ TimerFires
    PROVE  TypeOK'
<1>1. CASE StampFails
  <2>1. cachedClient \in ClientObject /\ \E S : Stamp(S, {}, cachedClient)
    BY <1>1 DEF StampFails, TypeOK
  <2>2. bindings' \in [Ids -> BindingObject]
    BY <2>1, StampedType
  <2>3. failures' \in 0..MaxFailures
    BY <1>1, BoundAssumption DEF TypeOK, StampFails
  <2> QED
    BY <1>1, <2>2, <2>3 DEF TypeOK, StampFails
<1>2. CASE UpdateClientStatus
  <2>1. worker \in Request
    BY <1>2 DEF UpdateClientStatus, TypeOK, Idle
  <2>2. worker.want \in ClientObject /\ worker.requeueAt \in Nat
    BY <2>1 DEF Request
  <2>3. client' \in ClientObject
    BY <1>2, <2>2 DEF UpdateClientStatus, TypeOK
  <2>4. timer' \in 0..Never
    BY <1>2, <2>2, TimeAssumption DEF UpdateClientStatus, TypeOK, Earliest, Never
  <2> QED
    BY <1>2, <2>3, <2>4 DEF UpdateClientStatus, TypeOK, bounds
<1>3. CASE TimerFires
  BY <1>3, TimeAssumption DEF TimerFires, TypeOK, Never, bounds
<1> QED
  BY <1>1, <1>2, <1>3

\* And the steps of users, the other reconciler, the informers and time.
LEMMA EnvironmentTypeOK ==
    ASSUME TypeOK, ClientEnvironmentNext
    PROVE  TypeOK'
<1>1. ASSUME NEW t \in Targets, NEW d \in Durations, ChangeSpec(t, d)
      PROVE  TypeOK'
  <2>1. client' \in ClientObject
    BY <1>1, SpecWritten DEF ChangeSpec, TypeOK
  <2> QED
    BY <1>1, <2>1, BoundAssumption DEF ChangeSpec, TypeOK
<1>2. ASSUME NEW n \in Ids, BindingReconciled(n) \/ BindingExpires(n) \/ BindingFinalized(n)
      PROVE  TypeOK'
  <2>1. bindings[n] \in BindingObject /\ bindings \in [Ids -> BindingObject]
    BY DEF TypeOK
  <2>2. \E b \in BindingObject : bindings' = [bindings EXCEPT ![n] = b]
    BY <1>2, <2>1, BindingStepped
  <2> QED
    BY <1>2, <2>2 DEF TypeOK, BindingReconciled, BindingExpires, BindingFinalized, bounds
<1>3. CASE SyncClient \/ Resync
  BY <1>3 DEF SyncClient, Resync, TypeOK, bounds
<1>6. ASSUME NEW n \in Ids, SyncBinding(n)
      PROVE  TypeOK'
  <2>1. cachedBindings' \in [Ids -> BindingObject]
    BY <1>6 DEF SyncBinding, TypeOK
  <2> QED
    BY <1>6, <2>1 DEF SyncBinding, TypeOK, bounds
<1>4. CASE Crash
  BY <1>4, TimeAssumption, BoundAssumption DEF Crash, TypeOK, Never
<1>5. CASE Tick
  BY <1>5, TimeAssumption DEF Tick, TypeOK, bounds
<1> QED
  BY <1>1, <1>2, <1>3, <1>4, <1>5, <1>6 DEF ClientEnvironmentNext

\* Every variable keeps its type, the timers and timestamps within time's bound.
THEOREM ClientTypes == Spec => []TypeOK
<1>1. TypeOK /\ [Next]_vars => TypeOK'
  <2>1. TypeOK /\ UNCHANGED vars => TypeOK'
    BY DEF TypeOK, vars, bounds
  <2> QED
    BY <2>1, ReconcileTypeOK, ControllerTypeOK, EnvironmentTypeOK DEF Next, ClientControllerNext
<1> QED
  BY <1>1, InitTypeOK, PTL DEF Spec

-----------------------------------------------------------------------------
(* A client never moves back *)

LEMMA PastOfPast ==
    ASSUME NEW a, NEW b, NEW c, Past(a, b), Past(b, c)
    PROVE  Past(a, c)
BY DEF Past

\* What a request does to a binding moves it on.
LEMMA StampMovesOn ==
    ASSUME TypeOK, NEW S, NEW F \in SUBSET Fresh, NEW c, Stamp(S, F, c), NEW n \in Ids
    PROVE  Past(bindings[n], bindings'[n])
<1>1. bindings[n] \in BindingObject
  BY DEF TypeOK
<1>2. CASE n \in F
  BY <1>2 DEF Fresh, Past
<1>3. CASE n \notin F /\ n \in S
  BY <1>1, <1>3, Stamped, DeletedKeeps DEF Past
<1>4. CASE n \notin F /\ n \notin S
  BY <1>4, Stamped DEF Past
<1> QED
  BY <1>2, <1>3, <1>4

\* A request prunes, and creates one binding at the most.
LEMMA RequestStamps ==
    ASSUME ReconcileClient
    PROVE  \E F \in SUBSET Fresh : Stamp(Pruned(cachedClient, cachedBindings), F, cachedClient)
<1> DEFINE c == cachedClient
           known == cachedBindings
<1>1. CASE Stamp(Pruned(c, known), {}, c)
  BY <1>1
<1>2. CASE \E f \in Fresh : Stamp(Pruned(c, known), {f}, c)
  BY <1>2
<1> QED
  BY <1>1, <1>2 DEF ReconcileClient

\* No step takes anything back from a binding.
LEMMA BindingsMoveOn ==
    ASSUME TypeOK, [Next]_vars, NEW n \in Ids
    PROVE  Past(bindings[n], bindings'[n])
<1>1. CASE ReconcileClient
  BY <1>1, RequestStamps, StampMovesOn
<1>2. CASE StampFails
  BY <1>2, StampMovesOn DEF StampFails
<1>3. ASSUME NEW m \in Ids, BindingReconciled(m) \/ BindingExpires(m) \/ BindingFinalized(m)
      PROVE  Past(bindings[n], bindings'[n])
  <2>1. bindings[m] \in BindingObject /\ bindings \in [Ids -> BindingObject]
    BY DEF TypeOK
  <2>2. PICK b \in BindingObject :
              /\ bindings' = [bindings EXCEPT ![m] = b]
              /\ b.target = bindings[m].target /\ b.duration = bindings[m].duration
              /\ b.created = bindings[m].created
              /\ bindings[m].expired => b.expired
              /\ \/ b.phase = bindings[m].phase
                 \/ bindings[m].phase = "deleting" /\ b.phase = "gone"
    BY <1>3, <2>1, BindingStepped
  <2> QED
    BY <2>1, <2>2 DEF Past
<1>4. CASE UNCHANGED bindings
  BY <1>4 DEF Past
<1> QED
  BY <1>1, <1>2, <1>3, <1>4 DEF Next, ClientControllerNext, ClientEnvironmentNext,
     UpdateClientStatus, TimerFires, ChangeSpec, SyncClient, SyncBinding, Resync, Crash,
     Tick, vars

\* The cache is told of a binding as it is, or of nothing.
LEMMA CacheCatchesUp ==
    ASSUME TypeOK, [Next]_vars, NEW n \in Ids
    PROVE  \/ cachedBindings'[n] = cachedBindings[n]
           \/ cachedBindings'[n] = bindings[n] /\ bindings' = bindings
<1>1. ASSUME NEW m \in Ids, SyncBinding(m)
      PROVE  cachedBindings'[n] \in {cachedBindings[n], bindings[n]} /\ bindings' = bindings
  BY <1>1 DEF SyncBinding, TypeOK
<1>2. CASE Crash
  BY <1>2 DEF Crash
<1>3. CASE UNCHANGED cachedBindings
  BY <1>3
<1> QED
  BY <1>1, <1>2, <1>3 DEF Next, ClientControllerNext, ClientEnvironmentNext, ReconcileClient,
     StampFails, UpdateClientStatus, TimerFires, ChangeSpec, BindingReconciled, BindingExpires,
     BindingFinalized, SyncClient, Resync, Tick, vars

\* What was known is known, and of what it names, the older one or none is good.
LEMMA CopiesKept ==
    ASSUME TypeOK, MovesInv, \A n \in Ids : Past(bindings[n], bindings'[n]),
           cachedBindings' = cachedBindings, worker' = worker,
           client'.binding = client.binding, cachedClient' \in {cachedClient, client}
    PROVE  MovesInv'
<1>1. \A n \in Ids : Past(cachedBindings'[n], bindings'[n])
  BY PastOfPast DEF MovesInv
<1>2. Names(client)' /\ Names(cachedClient)'
  BY DEF MovesInv, Names, Known
<1>3. ASSUME worker.pc = "status"
      PROVE  WriteMovesOn'
  <2> DEFINE o == worker.read.binding
             n == worker.want.binding
  <2>1. worker \in Request
    BY <1>3 DEF TypeOK, Idle
  <2>2. o \in Ids \union {None} /\ n \in Ids \union {None}
    BY <2>1 DEF Request, ClientObject
  <2>3. n # None /\ Known(n) /\ (o # None => Known(o))
    BY <1>3 DEF MovesInv, WriteMovesOn, Names
  <2>4. n \in Ids /\ bindings'[n].created = bindings[n].created
    BY <2>2, <2>3 DEF MovesInv, Past, Known
  <2>5. ASSUME o # None, bindings'[o].phase = "live", ~bindings'[o].expired
        PROVE  /\ bindings[o].phase = "live" /\ ~bindings[o].expired
               /\ bindings'[o].created = bindings[o].created
    <3>1. o \in Ids /\ bindings[o].phase # "absent" /\ Past(bindings[o], bindings'[o])
      BY <2>2, <2>3, <2>5 DEF MovesInv, Past, Known
    <3>2. bindings[o].phase \in {"absent", "live", "deleting", "gone"}
      BY <3>1 DEF TypeOK, BindingObject
    <3> QED
      BY <2>5, <3>1, <3>2 DEF Past
  <2> QED
    BY <1>3, <2>3, <2>4, <2>5 DEF MovesInv, WriteMovesOn, Names, Known
<1> QED
  BY <1>1, <1>2, <1>3 DEF MovesInv, WriteMovesOn

\* A request that goes on to the status goes on with the newest binding kept.
LEMMA RequestFound ==
    ASSUME TypeOK, \A n \in Ids : Past(cachedBindings[n], bindings[n]),
           ReconcileClient, worker' # Idle
    PROVE  \E n \in Kept(cachedClient, cachedBindings) :
              /\ cachedBindings[n].state = "ready"
              /\ worker' = Reflect(cachedClient, n, cachedBindings[n])
              /\ \A m \in Kept(cachedClient, cachedBindings) :
                    bindings'[m].created <= bindings'[n].created
<1> DEFINE c == cachedClient
           known == cachedBindings
<1>0. c \in ClientObject /\ \A n \in Ids : known[n] \in BindingObject
  BY DEF TypeOK
<1>1. CASE /\ Stamp(Pruned(c, known), {}, c)
           /\ \E n \in Current(c, known) : worker' = Reflect(c, n, known[n])
  <2>1. PICK n \in Current(c, known) : worker' = Reflect(c, n, known[n])
    BY <1>1
  <2>2. n \in Newest(known, Kept(c, known)) /\ Kept(c, known) \subseteq Ids
    BY Picked
  <2>3. n \in Kept(c, known) /\ \A m \in Kept(c, known) : known[m].created <= known[n].created
    BY <2>2 DEF Newest
  <2>4. \A m \in Kept(c, known) : known[m].created = bindings'[m].created
    <3>1. ASSUME NEW m \in Kept(c, known)
          PROVE  known[m].created = bindings'[m].created
      <4>1. m \in Ids /\ known[m].phase # "absent"
        BY DEF Kept
      <4>2. Past(bindings[m], bindings'[m])
        BY <1>1, <4>1, StampMovesOn
      <4> QED
        BY <4>1, <4>2 DEF Past
    <3> QED
      BY <3>1
  <2>5. known[n].state = "ready"
    BY <2>1 DEF Reflect
  <2> QED
    BY <2>1, <2>3, <2>4, <2>5
<1>2. CASE \E f \in Fresh :
              /\ Stamp(Pruned(c, known), {f}, c)
              /\ \E n \in Newest(bindings', Kept(c, known) \union {f}) :
                    worker' = Reflect(c, n, IF n = f THEN bindings'[f] ELSE known[n])
  <2>1. PICK f \in Fresh :
           /\ Stamp(Pruned(c, known), {f}, c)
           /\ \E n \in Newest(bindings', Kept(c, known) \union {f}) :
                 worker' = Reflect(c, n, IF n = f THEN bindings'[f] ELSE known[n])
    BY <1>2
  <2>2. PICK n \in Newest(bindings', Kept(c, known) \union {f}) :
           worker' = Reflect(c, n, IF n = f THEN bindings'[f] ELSE known[n])
    BY <2>1
  <2>3. f \in Ids /\ bindings'[f] \in BindingObject /\ bindings'[f].state # "ready"
    BY <1>0, <2>1, Picked, Stamped, Created
  <2>4. n # f
    BY <2>2, <2>3 DEF Reflect
  <2>5. n \in Kept(c, known)
        /\ \A m \in Kept(c, known) : bindings'[m].created <= bindings'[n].created
    BY <2>4 DEF Newest
  <2>6. n \in Ids
    BY <2>5, Picked
  <2>7. known[n].state = "ready"
    BY <2>2, <2>4 DEF Reflect
  <2> QED
    BY <2>2, <2>4, <2>5, <2>7
<1> QED
  BY <1>1, <1>2 DEF ReconcileClient

\* What is not kept is deleted, so what is found is newer than what is good.
LEMMA ReconcileMoves ==
    ASSUME TypeOK, TypeOK', MovesInv, ReconcileClient
    PROVE  MovesInv'
<1> DEFINE c == cachedClient
           known == cachedBindings
<1>1. PICK F \in SUBSET Fresh : Stamp(Pruned(c, known), F, c)
  BY RequestStamps
<1>2. \A n \in Ids : Past(bindings[n], bindings'[n])
  BY <1>1, StampMovesOn
<1>3. \A n \in Ids : Past(cachedBindings'[n], bindings'[n])
  BY <1>2, PastOfPast DEF MovesInv, ReconcileClient
<1>4. Names(client)' /\ Names(cachedClient)'
  BY DEF MovesInv, Names, Known, ReconcileClient
<1>5. CASE worker' = Idle
  BY <1>3, <1>4, <1>5 DEF MovesInv, WriteMovesOn, Idle
<1>6. CASE worker' # Idle
  <2>1. PICK n \in Kept(c, known) :
           /\ known[n].state = "ready"
           /\ worker' = Reflect(c, n, known[n])
           /\ \A m \in Kept(c, known) : bindings'[m].created <= bindings'[n].created
    BY <1>6, RequestFound DEF MovesInv
  <2>2. n \in Ids /\ known[n].phase # "absent" /\ n # None
    BY DEF Kept, Ids, None
  <2>3. c \in ClientObject /\ known[n] \in BindingObject
    BY <2>2 DEF TypeOK
  <2>4. worker'.read = c /\ worker'.want = [c EXCEPT !.binding = n]
    BY <2>1, <2>2, <2>3, Reflected
  <2>5. worker'.want.binding = n
    BY <2>2, <2>3, <2>4, StatusWritten
  <2>6. ASSUME c.binding # None, bindings'[c.binding].phase = "live", ~bindings'[c.binding].expired
        PROVE  bindings'[c.binding].created <= bindings'[n].created
    <3> DEFINE o == c.binding
    <3>1. o \in Ids /\ known[o].phase # "absent"
      BY <2>3, <2>6 DEF ClientObject, MovesInv, Names, Known
    <3>2. known[o].phase \in {"live", "deleting", "gone"} /\ bindings[o] \in BindingObject
      BY <3>1 DEF TypeOK, BindingObject
    <3>3. known[o].phase \in {"live", "deleting"}
      BY <1>2, <2>6, <3>1, <3>2 DEF MovesInv, Past
    <3>4. o \notin F
      BY <3>1 DEF Fresh, MovesInv, Past
    <3>5. o \notin Pruned(c, known)
      BY <1>1, <2>6, <3>1, <3>2, <3>4, Stamped, DeletedKeeps
    <3> QED
      BY <2>1, <3>1, <3>3, <3>5 DEF Pruned
  <2>7. UNCHANGED cachedBindings /\ UNCHANGED cachedClient
    BY DEF ReconcileClient
  <2>8. WriteMovesOn'
    BY <2>2, <2>4, <2>5, <2>6, <2>7, <1>4 DEF WriteMovesOn, Names, Known
  <2> QED
    BY <1>3, <1>4, <2>8 DEF MovesInv
<1> QED
  BY <1>5, <1>6

LEMMA SpecKeepsBinding ==
    ASSUME TypeOK, NEW t \in Targets, NEW d \in Durations, ChangeSpec(t, d)
    PROVE  client'.binding = client.binding
<1>1. client \in ClientObject
  BY DEF TypeOK
<1>2. client' = [client EXCEPT !.target = t, !.duration = d]
  BY DEF ChangeSpec
<1> QED
  BY <1>1, <1>2 DEF ClientObject

LEMMA InitMoves == TypeOK /\ Init => MovesInv
<1> SUFFICES ASSUME TypeOK, Init PROVE MovesInv
  OBVIOUS
<1>1. client.binding = None /\ \A n \in Ids : bindings[n].phase = "absent"
  BY DEF Init
<1> QED
  BY <1>1 DEF Init, MovesInv, Past, Names, WriteMovesOn, Idle

\* The status write names what the request has found, and a new process, or a
\* watch that catches up, knows of all there is.
LEMMA NextMoves ==
    ASSUME TypeOK, TypeOK', MovesInv, [Next]_vars
    PROVE  MovesInv'
<1>0. \A n \in Ids : Past(bindings[n], bindings'[n])
  BY BindingsMoveOn
<1>1. CASE ReconcileClient
  BY <1>1, ReconcileMoves
<1>2. CASE UpdateClientStatus
  <2>1. worker' = Idle /\ UNCHANGED <<bindings, cachedBindings, cachedClient>>
    BY <1>2 DEF UpdateClientStatus
  <2>2. Names(client)'
    BY <1>2, <2>1 DEF UpdateClientStatus, MovesInv, WriteMovesOn, Names, Known
  <2> QED
    BY <2>1, <2>2 DEF MovesInv, WriteMovesOn, Names, Known, Idle
<1>3. ASSUME bindings' = bindings, client' = client,
             (cachedClient' = client /\ worker' = Idle) \/ UNCHANGED <<cachedClient, worker>>
      PROVE  MovesInv'
  <2>1. \A n \in Ids : Known(n) => Known(n)'
    BY CacheCatchesUp DEF Known, MovesInv, Past
  <2>2. \A n \in Ids : Past(cachedBindings'[n], bindings'[n])
    BY <1>3, CacheCatchesUp DEF MovesInv, Past
  <2>3. client \in ClientObject /\ cachedClient \in ClientObject /\ worker \in {Idle} \union Request
    BY DEF TypeOK
  <2>4. Names(client)' /\ Names(cachedClient)'
    BY <1>3, <2>1, <2>3 DEF MovesInv, Names, ClientObject
  <2>5. CASE worker' = Idle
    BY <2>2, <2>4, <2>5 DEF MovesInv, WriteMovesOn, Idle
  <2>6. CASE UNCHANGED worker /\ worker \in Request
    <3>1. worker.read \in ClientObject /\ worker.want \in ClientObject
      BY <2>6 DEF Request
    <3>2. WriteMovesOn'
      BY <1>3, <2>1, <2>6, <3>1 DEF MovesInv, WriteMovesOn, Names, ClientObject
    <3> QED
      BY <2>2, <2>4, <3>2 DEF MovesInv
  <2> QED
    BY <1>3, <2>3, <2>5, <2>6
<1>4. ASSUME cachedBindings' = cachedBindings, worker' = worker,
             client'.binding = client.binding, cachedClient' \in {cachedClient, client}
      PROVE  MovesInv'
  BY <1>0, <1>4, CopiesKept
<1>5. ASSUME NEW t \in Targets, NEW d \in Durations, ChangeSpec(t, d)
      PROVE  client'.binding = client.binding
  BY <1>5, SpecKeepsBinding
<1>6. CASE StampFails \/ TimerFires \/ SyncClient \/ Resync \/ Tick \/ UNCHANGED vars
  BY <1>4, <1>6 DEF StampFails, TimerFires, SyncClient, Resync, Tick, vars
<1>7. CASE \E n \in Ids : BindingReconciled(n) \/ BindingExpires(n) \/ BindingFinalized(n)
  BY <1>4, <1>7 DEF BindingReconciled, BindingExpires, BindingFinalized
<1>8. CASE \E t \in Targets, d \in Durations : ChangeSpec(t, d)
  BY <1>4, <1>5, <1>8 DEF ChangeSpec
<1>9. CASE Crash \/ \E n \in Ids : SyncBinding(n)
  BY <1>3, <1>9 DEF SyncBinding, Crash
<1> QED
  BY <1>1, <1>2, <1>6, <1>7, <1>8, <1>9 DEF Next, ClientControllerNext, ClientEnvironmentNext

\* What the caches show is past, and a request moves the client on from it.
THEOREM MovesInvariant == Spec => []MovesInv
<1> QED
  BY InitTypeOK, InitMoves, NextMoves, ClientTypes, PTL DEF Spec

\* A client moves to a binding made later, and only from one that is no longer
\* good to one made before: whatever its caches lag behind.
THEOREM ClientMovesOn == Spec => NeverMovesBack
<1> DEFINE Moves == client'.binding # client.binding /\ client.binding # None =>
              LET old == bindings[client.binding]
                  new == bindings[client'.binding]
              IN old.phase = "live" /\ ~old.expired => old.created <= new.created
<1>1. TypeOK /\ MovesInv /\ [Next]_vars => [Moves]_vars
  <2> SUFFICES ASSUME TypeOK, MovesInv, [Next]_vars, client'.binding # client.binding
               PROVE  Moves
    OBVIOUS
  <2>1. UpdateClientStatus
    <3>1. ASSUME NEW t \in Targets, NEW d \in Durations, ChangeSpec(t, d)
          PROVE  FALSE
      BY <3>1, SpecKeepsBinding
    <3> QED
      BY <3>1 DEF Next, ClientControllerNext, ClientEnvironmentNext, ReconcileClient, StampFails,
         TimerFires, BindingReconciled, BindingExpires, BindingFinalized, SyncClient,
         SyncBinding, Resync, Crash, Tick, vars
  <2>2. client = worker.read /\ client' = worker.want
    BY <2>1 DEF UpdateClientStatus
  <2> QED
    BY <2>1, <2>2 DEF UpdateClientStatus, MovesInv, WriteMovesOn
<1> QED
  BY <1>1, ClientTypes, MovesInvariant, PTL DEF Spec, NeverMovesBack

\* What a step does to a binding, for the state it is in.
Stepped(n) ==
    \/ bindings'[n] = bindings[n]
    \/ /\ ReconcileClient /\ bindings[n].phase = "absent"
       /\ bindings'[n] = Create(cachedClient)
    \/ /\ ReconcileClient \/ StampFails
       /\ n \in Pruned(cachedClient, cachedBindings)
       /\ bindings'[n] = Deleted(bindings[n])
    \/ /\ bindings[n].phase = "live" /\ bindings[n].state # "ready"
       /\ bindings'[n].phase = "live" /\ (bindings'[n].expired <=> bindings[n].expired)
       /\ bindings'[n].state \in {"notReady", "ready"} \ {bindings[n].state}
    \/ /\ bindings[n].phase = "live" /\ ~bindings[n].expired
       /\ ExpiresAfter(bindings[n]) < now
       /\ bindings'[n].phase = "live" /\ bindings'[n].expired
    \/ /\ bindings[n].phase = "deleting" /\ bindings'[n].phase = "gone"
       /\ bindings'[n].expired <=> bindings[n].expired
       /\ bindings'[n].state = bindings[n].state

LEMMA EveryStep ==
    ASSUME TypeOK, [Next]_vars, NEW n \in Ids
    PROVE  Stepped(n)
<1>0. bindings \in [Ids -> BindingObject] /\ \A m \in Ids : bindings[m] \in BindingObject
  BY DEF TypeOK
<1>1. CASE ReconcileClient
  <2>1. PICK F \in SUBSET Fresh : Stamp(Pruned(cachedClient, cachedBindings), F, cachedClient)
    BY <1>1, RequestStamps
  <2> QED
    BY <1>1, <2>1, Stamped DEF Stepped, Fresh
<1>2. CASE StampFails
  <2>1. PICK S \in SUBSET Pruned(cachedClient, cachedBindings) : Stamp(S, {}, cachedClient)
    BY <1>2 DEF StampFails
  <2> QED
    BY <1>2, <2>1, Stamped DEF Stepped
<1>3. ASSUME NEW m \in Ids, BindingReconciled(m)
      PROVE  Stepped(n)
  <2>1. PICK s \in {"notReady", "ready"} \ {bindings[m].state} :
           bindings' = [bindings EXCEPT ![m].state = s]
    BY <1>3 DEF BindingReconciled
  <2>2. /\ bindings'[m].phase = bindings[m].phase /\ bindings'[m].state = s
        /\ bindings'[m].expired = bindings[m].expired
        /\ \A k \in Ids \ {m} : bindings'[k] = bindings[k]
    BY <1>0, <2>1 DEF BindingObject
  <2> QED
    BY <1>3, <2>2 DEF Stepped, BindingReconciled
<1>4. ASSUME NEW m \in Ids, BindingExpires(m)
      PROVE  Stepped(n)
  <2>1. bindings' = [bindings EXCEPT ![m].expired = TRUE, ![m].state = "notReady"]
    BY <1>4 DEF BindingExpires
  <2>2. /\ bindings'[m].phase = bindings[m].phase /\ bindings'[m].expired
        /\ \A k \in Ids \ {m} : bindings'[k] = bindings[k]
    BY <1>0, <2>1 DEF BindingObject
  <2> QED
    BY <1>4, <2>2 DEF Stepped, BindingExpires
<1>5. ASSUME NEW m \in Ids, BindingFinalized(m)
      PROVE  Stepped(n)
  <2>1. bindings' = [bindings EXCEPT ![m].phase = "gone"]
    BY <1>5 DEF BindingFinalized
  <2>2. /\ bindings'[m].phase = "gone" /\ bindings'[m].state = bindings[m].state
        /\ bindings'[m].expired = bindings[m].expired
        /\ \A k \in Ids \ {m} : bindings'[k] = bindings[k]
    BY <1>0, <2>1 DEF BindingObject
  <2> QED
    BY <1>5, <2>2 DEF Stepped, BindingFinalized
<1>6. CASE UNCHANGED bindings
  BY <1>6 DEF Stepped
<1> QED
  BY <1>1, <1>2, <1>3, <1>4, <1>5, <1>6 DEF Next, ClientControllerNext, ClientEnvironmentNext,
     UpdateClientStatus, TimerFires, ChangeSpec, SyncClient, SyncBinding, Resync, Crash,
     Tick, vars

-----------------------------------------------------------------------------
(* Until the spec changes, everything is made for it *)

\* The spec stays what it is while it has not changed.
LEMMA SteadyBefore ==
    ASSUME TypeOK, MovesInv, [Next]_vars, changes' = 0
    PROVE  changes = 0 /\ client'.target = client.target /\ client'.duration = client.duration
<1>1. ASSUME NEW t \in Targets, NEW d \in Durations, ChangeSpec(t, d)
      PROVE  FALSE
  <2>1. changes \in Nat /\ changes' = changes + 1
    BY <1>1, BoundAssumption DEF TypeOK, ChangeSpec
  <2> QED
    BY <2>1
<1>2. CASE UpdateClientStatus
  <2>1. worker \in Request /\ UNCHANGED changes
    BY <1>2 DEF UpdateClientStatus, TypeOK, Idle, bounds
  <2>2. worker.read \in ClientObject /\ worker.want = [worker.read EXCEPT !.binding = worker.want.binding]
    BY <1>2, <2>1 DEF UpdateClientStatus, MovesInv, WriteMovesOn, Request
  <2>3. client' = client \/ (client = worker.read /\ client' = worker.want)
    BY <1>2 DEF UpdateClientStatus
  <2> QED
    BY <2>1, <2>2, <2>3 DEF ClientObject
<1>3. CASE UNCHANGED <<client, changes>>
  BY <1>3
<1> QED
  BY <1>1, <1>2, <1>3 DEF Next, ClientControllerNext, ClientEnvironmentNext, ReconcileClient,
     StampFails, TimerFires, BindingReconciled, BindingExpires, BindingFinalized, SyncClient,
     SyncBinding, Resync, Crash, Tick, vars, bounds

\* Times are numbers.
LEMMA Numbers ==
    ASSUME TypeOK
    PROVE  /\ now \in Nat /\ timer \in Nat /\ RenewBefore \in Nat /\ Grace \in Nat
           /\ client.duration \in Nat /\ cachedClient.duration \in Nat
           /\ \A n \in Ids : /\ bindings[n].created \in Nat /\ bindings[n].duration \in Nat
                             /\ cachedBindings[n].created \in Nat
<1>1. client \in ClientObject /\ cachedClient \in ClientObject
  BY DEF TypeOK
<1>2. \A n \in Ids : bindings[n] \in BindingObject /\ cachedBindings[n] \in BindingObject
  BY DEF TypeOK
<1>3. client.duration \in Nat /\ cachedClient.duration \in Nat
  BY <1>1, TimeAssumption DEF ClientObject
<1>4. \A n \in Ids : /\ bindings[n].created \in Nat /\ bindings[n].duration \in Nat
                     /\ cachedBindings[n].created \in Nat
  <2>1. ASSUME NEW b \in BindingObject
        PROVE  b.created \in Nat /\ b.duration \in Nat
    <3>1. b.created \in 0..MaxTime /\ b.duration \in Durations
      BY DEF BindingObject
    <3>2. b.created \in Nat
      BY <3>1
    <3>3. Durations \subseteq Nat
      BY TimeAssumption
    <3> QED
      BY <3>1, <3>2, <3>3
  <2> QED
    BY <1>2, <2>1
<1>5. now \in Nat /\ timer \in Nat /\ RenewBefore \in Nat /\ Grace \in Nat
  BY TimeAssumption DEF TypeOK, Never
<1> QED
  BY <1>3, <1>4, <1>5

LEMMA InitSpec == TypeOK /\ Init => SpecInv
<1> SUFFICES ASSUME TypeOK, Init PROVE OneSpec
  BY DEF SpecInv
<1>1. \A n \in Ids : bindings[n].phase = "absent"
  BY DEF Init
<1>2. cachedClient = client /\ worker.pc # "status"
  BY DEF Init, Idle
<1> QED
  BY <1>1, <1>2 DEF OneSpec

\* What is made is made for the spec the cache shows, which is the one there is.
LEMMA NextSpec ==
    ASSUME TypeOK, TypeOK', MovesInv, SpecInv, [Next]_vars
    PROVE  SpecInv'
<1> SUFFICES ASSUME changes' = 0
             PROVE  OneSpec'
  BY DEF SpecInv
<1>0. OneSpec /\ client'.target = client.target /\ client'.duration = client.duration
  BY SteadyBefore DEF SpecInv
<1>1. ASSUME NEW n \in Ids, bindings'[n].phase # "absent"
      PROVE  bindings'[n].target = client.target /\ bindings'[n].duration = client.duration
  <2>1. CASE bindings[n].phase # "absent"
    BY <1>0, <2>1, BindingsMoveOn DEF OneSpec, Past
  <2>2. CASE bindings[n].phase = "absent"
    <3>1. bindings'[n] = Create(cachedClient)
      BY <1>1, <2>2, EveryStep, DeletedKeeps DEF Stepped, Pruned, Deleted
    <3>2. cachedClient \in ClientObject
      BY DEF TypeOK
    <3> QED
      BY <1>0, <3>1, <3>2, Created DEF OneSpec
  <2> QED
    BY <2>1, <2>2
<1>2. cachedClient'.target = client.target /\ cachedClient'.duration = client.duration
  <2>1. cachedClient' \in {cachedClient, client}
    BY DEF Next, ClientControllerNext, ClientEnvironmentNext, ReconcileClient, StampFails,
       UpdateClientStatus, TimerFires, ChangeSpec, BindingReconciled, BindingExpires,
       BindingFinalized, SyncClient, SyncBinding, Resync, Crash, Tick, vars
  <2> QED
    BY <1>0, <2>1 DEF OneSpec
<1>3. worker'.pc = "status" => worker'.read.target = client.target
                               /\ worker'.read.duration = client.duration
  <2>1. CASE UNCHANGED worker
    BY <1>0, <2>1 DEF OneSpec
  <2>2. CASE worker' = Idle
    BY <2>2 DEF Idle
  <2>3. CASE ReconcileClient /\ worker' # Idle
    <3>1. PICK n \in Kept(cachedClient, cachedBindings) :
             worker' = Reflect(cachedClient, n, cachedBindings[n])
      BY <2>3, RequestFound DEF MovesInv
    <3>2. worker'.read = cachedClient
      BY <2>3, <3>1 DEF Reflect
    <3> QED
      BY <1>0, <3>2 DEF OneSpec
  <2> QED
    BY <2>1, <2>2, <2>3 DEF Next, ClientControllerNext, ClientEnvironmentNext, StampFails,
       UpdateClientStatus, TimerFires, ChangeSpec, BindingReconciled, BindingExpires,
       BindingFinalized, SyncClient, SyncBinding, Resync, Crash, Tick, vars
<1> QED
  BY <1>0, <1>1, <1>2, <1>3 DEF OneSpec

\* The bindings there are, and the spec requests go by, are of the one spec
\* until the first change of it.
THEOREM SpecInvariant == Spec => []SpecInv
BY InitTypeOK, InitSpec, NextSpec, ClientTypes, MovesInvariant, PTL DEF Spec

-----------------------------------------------------------------------------
(* The binding made last is the one a client waits for, or has *)

\* The bindings made last.
Last ==
    {n \in Ids : /\ bindings[n].phase # "absent"
                 /\ \A m \in Ids : bindings[m].phase # "absent" =>
                       bindings[m].created <= bindings[n].created}

AskedFor(b, c) == b.target = c.target /\ b.duration = c.duration

\* The state of a binding moves on too, until it expires.
StatePast(a, b) ==
    a.phase # "absent" /\ (a.expired <=> b.expired) =>
        /\ a.state = "ready" => b.state = "ready"
        /\ a.state = "notReady" => b.state # "new"

\* A binding expires after its time, is Ready in time, and is given up only
\* when it has expired or there is one made later.
GivenUpForLater ==
    \A n \in Ids : bindings[n].phase # "absent" =>
        LET b == bindings[n]
        IN /\ b.created <= now
           /\ b.expired => b.created + b.duration < now
           /\ b.phase = "live" /\ b.state # "ready" /\ ~b.expired => now <= b.created + BindTime
           /\ b.phase # "live" =>
                 b.expired \/ \E m \in Ids : /\ bindings[m].phase # "absent"
                                            /\ b.created < bindings[m].created

\* One of those made last still has time.
LastLasts ==
    (\E n \in Ids : bindings[n].phase # "absent") =>
        \E n \in Last : now <= bindings[n].created + bindings[n].duration

\* The binding is one made last, good, and asked for by c; none is left that
\* has expired.
Serves(n, c) ==
    /\ n \in Last
    /\ bindings[n].phase = "live" /\ ~bindings[n].expired
    /\ AskedFor(bindings[n], c)
    /\ \A m \in Ids : bindings[m].phase = "live" => ~bindings[m].expired

\* A client that no event and no request will queue has its last binding, and
\* a timer for its renewal, or waits for it to become Ready.
WaitsForLast ==
    /\ worker = Idle /\ ~queued
    /\ cachedBindings = bindings /\ cachedClient.binding = client.binding
    => \E n \in Ids :
          /\ Serves(n, cachedClient)
          /\ bindings[n].state = "ready" =>
                client.binding = n /\ timer <= Renewal(cachedClient, bindings[n])

\* So does one whose status is still to be written.
WritesLast ==
    worker.pc = "status" /\ ~queued =>
        /\ cachedClient = worker.read
        /\ cachedBindings = bindings =>
              /\ Serves(worker.want.binding, cachedClient)
              /\ worker.requeueAt = Renewal(cachedClient, bindings[worker.want.binding])

CurrentInv ==
    /\ \A n \in Ids : StatePast(cachedBindings[n], bindings[n])
    /\ failures = 0 => GivenUpForLater /\ LastLasts /\ WaitsForLast /\ WritesLast

\* A binding is Ready within the duration it is made for.
ReadyInDuration == \A d \in Durations : BindTime <= d

\* A step that changes a binding leaves the cache behind.
LEMMA CacheLeftBehind ==
    ASSUME TypeOK, TypeOK', MovesInv, \A n \in Ids : StatePast(cachedBindings[n], bindings[n]),
           [Next]_vars, cachedBindings = bindings'
    PROVE  bindings' = bindings
<1>1. ASSUME NEW n \in Ids
      PROVE  bindings'[n] = bindings[n]
  <2> DEFINE a == cachedBindings[n]
             b == bindings[n]
  <2>1. Past(a, b) /\ StatePast(a, b) /\ a = bindings'[n] /\ Stepped(n)
    BY EveryStep DEF MovesInv
  <2>2. b \in BindingObject /\ cachedClient \in ClientObject
    BY DEF TypeOK
  <2>3. CASE b.phase = "absent" /\ a = Create(cachedClient)
    BY <2>1, <2>2, <2>3, Created DEF Past
  <2>4. CASE a = Deleted(b)
    <3>1. CASE b.phase = "live"
      BY <2>1, <2>2, <2>4, <3>1, DeletedKeeps DEF Past
    <3>2. CASE b.phase # "live"
      BY <2>1, <2>4, <3>2 DEF Deleted
    <3> QED
      BY <3>1, <3>2
  <2>5. CASE /\ b.phase = "live" /\ b.state # "ready"
             /\ a.phase = "live" /\ (a.expired <=> b.expired)
             /\ a.state \in {"notReady", "ready"} \ {b.state}
    <3>1. b.state \in {"new", "notReady", "ready"}
      BY <2>2 DEF BindingObject
    <3> QED
      BY <2>1, <2>5, <3>1 DEF StatePast
  <2>6. CASE /\ b.phase = "live" /\ ~b.expired /\ a.phase = "live" /\ a.expired
    BY <2>1, <2>6 DEF Past
  <2>7. CASE b.phase = "deleting" /\ a.phase = "gone"
    BY <2>1, <2>7 DEF Past
  <2> QED
    BY <2>1, <2>3, <2>4, <2>5, <2>6, <2>7 DEF Stepped
<1> QED
  BY <1>1 DEF TypeOK

\* The cache's state of a binding stays past.
LEMMA StatesMoveOn ==
    ASSUME TypeOK, MovesInv, [Next]_vars, NEW n \in Ids,
           StatePast(cachedBindings[n], bindings[n])
    PROVE  StatePast(cachedBindings[n], bindings'[n])
<1> DEFINE a == cachedBindings[n]
           b == bindings[n]
<1>1. Past(a, b) /\ Stepped(n)
  BY EveryStep DEF MovesInv
<1>2. b \in BindingObject /\ a \in BindingObject
  BY DEF TypeOK
<1>3. CASE bindings'[n] = b
  BY <1>3
<1>4. CASE b.phase = "absent"
  BY <1>1, <1>4 DEF Past, StatePast
<1>5. CASE bindings'[n] = Deleted(b)
  BY <1>2, <1>5, DeletedKeeps DEF StatePast, Deleted
<1>6. CASE /\ b.state # "ready" /\ (bindings'[n].expired <=> b.expired)
           /\ bindings'[n].state \in {"notReady", "ready"} \ {b.state}
  BY <1>6 DEF StatePast
<1>7. CASE ~b.expired /\ bindings'[n].expired
  BY <1>1, <1>7 DEF Past, StatePast
<1>8. CASE (bindings'[n].expired <=> b.expired) /\ bindings'[n].state = b.state
  BY <1>8 DEF StatePast
<1> QED
  BY <1>1, <1>3, <1>4, <1>5, <1>6, <1>7, <1>8 DEF Stepped

\* What is new is what a request has created.
LEMMA NewOnes ==
    ASSUME TypeOK, [Next]_vars, NEW n \in Ids, bindings[n].phase = "absent",
           bindings'[n].phase # "absent"
    PROVE  /\ ReconcileClient /\ bindings'[n] = Create(cachedClient)
           /\ bindings'[n].phase = "live" /\ ~bindings'[n].expired
           /\ bindings'[n].created = now /\ AskedFor(bindings'[n], cachedClient)
<1>1. cachedClient \in ClientObject /\ bindings[n] \in BindingObject
  BY DEF TypeOK
<1>2. ReconcileClient /\ bindings'[n] = Create(cachedClient)
  <2>1. Stepped(n)
    BY EveryStep
  <2>2. Deleted(bindings[n]) = bindings[n]
    BY DEF Deleted
  <2> QED
    BY <2>1, <2>2 DEF Stepped
<1> QED
  BY <1>1, <1>2, Created DEF AskedFor

\* A request creates one binding, or none; no other step creates any.
LEMMA CreatesOne ==
    ASSUME TypeOK, MovesInv, [Next]_vars
    PROVE  \/ \A n \in Ids : bindings'[n].phase = "absent" <=> bindings[n].phase = "absent"
           \/ /\ ReconcileClient
              /\ Kept(cachedClient, cachedBindings) = {} \/ Outdated(cachedClient, cachedBindings) # {}
              /\ \E f \in Ids :
                    /\ bindings[f].phase = "absent" /\ bindings'[f] = Create(cachedClient)
                    /\ \A n \in Ids \ {f} :
                          bindings'[n].phase = "absent" <=> bindings[n].phase = "absent"
<1> DEFINE c == cachedClient
           known == cachedBindings
           Same(n) == bindings'[n].phase = "absent" <=> bindings[n].phase = "absent"
<1>0. \A n \in Ids : bindings[n] \in BindingObject
  BY DEF TypeOK
<1>1. ASSUME NEW S, NEW F, Stamp(S, F, c), NEW n \in Ids, n \notin F
      PROVE  Same(n)
  BY <1>0, <1>1, Stamped, DeletedKeeps
<1>2. CASE ReconcileClient /\ Stamp(Pruned(c, known), {}, c)
  BY <1>1, <1>2
<1>3. CASE /\ ReconcileClient
           /\ Kept(c, known) = {} \/ Outdated(c, known) # {}
           /\ \E f \in Fresh : Stamp(Pruned(c, known), {f}, c)
  <2>1. PICK f \in Fresh : Stamp(Pruned(c, known), {f}, c)
    BY <1>3
  <2>2. f \in Ids /\ bindings[f].phase = "absent" /\ bindings'[f] = Create(c)
    BY <2>1, Stamped DEF Fresh
  <2>3. \A n \in Ids \ {f} : Same(n)
    BY <1>1, <2>1
  <2> QED
    BY <1>3, <2>2, <2>3
<1>4. CASE ReconcileClient
  BY <1>2, <1>3, <1>4 DEF ReconcileClient
<1>5. CASE StampFails
  BY <1>1, <1>5 DEF StampFails
<1>6. CASE ~ReconcileClient /\ ~StampFails
  <2>1. \A n \in Ids : Same(n)
    BY <1>6, EveryStep DEF Stepped
  <2> QED
    BY <2>1
<1> QED
  BY <1>4, <1>5, <1>6

\* Creation apart, those made last are the same; what is created is one of them.
LEMMA LastMoves ==
    ASSUME TypeOK, MovesInv, [Next]_vars, GivenUpForLater
    PROVE  \/ Last' = Last
           \/ /\ ReconcileClient
              /\ Kept(cachedClient, cachedBindings) = {} \/ Outdated(cachedClient, cachedBindings) # {}
              /\ \E f \in Ids :
                    /\ bindings[f].phase = "absent" /\ bindings'[f] = Create(cachedClient)
                    /\ f \in Last' /\ f \notin Last
                    /\ \A n \in Last' \ {f} : n \in Last /\ bindings[n].created = now
                    /\ (\E n \in Last : bindings[n].created = now) => Last' = Last \union {f}
                    /\ (\A n \in Last : bindings[n].created # now) => Last' = {f}
<1>0. \A n \in Ids : Past(bindings[n], bindings'[n])
  BY BindingsMoveOn
<1>1. CASE \A n \in Ids : bindings'[n].phase = "absent" <=> bindings[n].phase = "absent"
  <2>1. \A n \in Ids : bindings[n].phase # "absent" => bindings'[n].created = bindings[n].created
    BY <1>0 DEF Past
  <2> QED
    BY <1>1, <2>1 DEF Last
<1>2. ASSUME NEW f \in Ids, bindings[f].phase = "absent", bindings'[f] = Create(cachedClient),
             \A n \in Ids \ {f} : bindings'[n].phase = "absent" <=> bindings[n].phase = "absent"
      PROVE  /\ f \in Last' /\ f \notin Last
             /\ \A n \in Last' \ {f} : n \in Last /\ bindings[n].created = now
             /\ (\E n \in Last : bindings[n].created = now) => Last' = Last \union {f}
             /\ (\A n \in Last : bindings[n].created # now) => Last' = {f}
  <2>1. bindings'[f].phase = "live" /\ bindings'[f].created = now /\ now \in Nat
    BY <1>2, Created, Numbers DEF TypeOK
  <2>2. ASSUME NEW n \in Ids \ {f}, bindings[n].phase # "absent"
        PROVE  /\ bindings'[n].phase # "absent" /\ bindings'[n].created = bindings[n].created
               /\ bindings[n].created <= now /\ bindings[n].created \in Nat
    BY <1>0, <2>2, Numbers DEF Past, GivenUpForLater
  <2>3. f \in Last' /\ f \notin Last
    BY <1>2, <2>1, <2>2 DEF Last
  <2>4. ASSUME NEW n \in Last', n # f
        PROVE  n \in Last /\ bindings[n].created = now
    <3>1. n \in Ids /\ bindings[n].phase # "absent" /\ bindings'[f].created <= bindings'[n].created
      BY <1>2, <2>1, <2>4 DEF Last
    <3>2. bindings[n].created = now
      BY <2>1, <2>2, <2>4, <3>1
    <3>3. \A m \in Ids : bindings[m].phase # "absent" => bindings[m].created <= now
      BY DEF GivenUpForLater
    <3> QED
      BY <3>1, <3>2, <3>3 DEF Last
  <2>5. ASSUME NEW k \in Last, bindings[k].created = now, NEW n \in Last
        PROVE  n \in Last'
    <3>1. n \in Ids \ {f} /\ bindings[n].phase # "absent" /\ k \in Ids \ {f}
          /\ bindings[k].phase # "absent" /\ bindings[k].created <= bindings[n].created
      BY <1>2, <2>5 DEF Last
    <3>2. bindings'[n].phase # "absent" /\ bindings'[n].created = now
      BY <2>2, <2>5, <3>1
    <3>3. \A m \in Ids : bindings'[m].phase # "absent" => bindings'[m].created <= now
      BY <1>2, <2>1, <2>2
    <3> QED
      BY <3>1, <3>2, <3>3 DEF Last
  <2> QED
    BY <2>3, <2>4, <2>5
<1> QED
  BY <1>1, <1>2, CreatesOne

\* A binding made earlier is given up for one made later, or has expired.
LEMMA NextGivenUp ==
    ASSUME TypeOK, TypeOK', MovesInv, GivenUpForLater, [Next]_vars, ~StampFails
    PROVE  GivenUpForLater'
<1> DEFINE c == cachedClient
           known == cachedBindings
<1>0. \A m \in Ids : bindings[m] \in BindingObject /\ bindings'[m] \in BindingObject
  BY DEF TypeOK
<1>1. c \in ClientObject /\ now \in Nat /\ BindTime \in Nat /\ Grace \in Nat
  BY TimeAssumption DEF TypeOK
<1>2. now' \in {now, now + 1}
  BY DEF Next, ClientControllerNext, ClientEnvironmentNext, ReconcileClient, StampFails,
     UpdateClientStatus, TimerFires, ChangeSpec, BindingReconciled, BindingExpires,
     BindingFinalized, SyncClient, SyncBinding, Resync, Crash, Tick, vars
<1>3. \A m \in Ids : Past(bindings[m], bindings'[m])
  BY BindingsMoveOn
<1>4. \A m \in Ids : /\ bindings[m].created \in Nat /\ bindings'[m].created \in Nat
                     /\ bindings[m].duration \in Nat /\ known[m].created \in Nat
  <2>1. \A m \in Ids : bindings'[m].created \in 0..MaxTime
    BY <1>0 DEF BindingObject
  <2> QED
    BY <2>1, Numbers, TimeAssumption
<1>5. ASSUME NEW n \in Ids, bindings'[n].phase # "absent"
      PROVE  bindings'[n].created <= now /\ bindings'[n].created <= now'
  <2>1. CASE bindings[n].phase # "absent"
    BY <1>1, <1>2, <1>3, <1>4, <2>1 DEF Past, GivenUpForLater
  <2>2. CASE bindings[n].phase = "absent"
    <3>1. bindings'[n].created = now
      BY <1>5, <2>2, NewOnes
    <3> QED
      BY <1>1, <1>2, <3>1
  <2> QED
    BY <2>1, <2>2
<1>6. ASSUME NEW n \in Ids, bindings'[n].phase # "absent", bindings'[n].expired
      PROVE  bindings'[n].created + bindings'[n].duration < now'
  <2>1. /\ bindings[n].phase # "absent"
        /\ bindings[n].expired \/ bindings[n].created + bindings[n].duration < now
    BY <1>0, <1>1, <1>6, EveryStep, Created, DeletedKeeps DEF Stepped, ExpiresAfter
  <2>2. bindings[n].created + bindings[n].duration < now
    BY <2>1 DEF GivenUpForLater
  <2>3. bindings'[n].created = bindings[n].created /\ bindings'[n].duration = bindings[n].duration
    BY <1>3, <2>1 DEF Past
  <2> QED
    BY <1>1, <1>2, <1>4, <2>2, <2>3
<1>7. ASSUME NEW n \in Ids, bindings'[n].phase = "live", bindings'[n].state # "ready",
             ~bindings'[n].expired
      PROVE  now' <= bindings'[n].created + BindTime
  <2>1. CASE bindings[n].phase = "absent"
    <3>1. bindings'[n].created = now /\ ReconcileClient
      BY <1>7, <2>1, NewOnes
    <3>2. now' = now
      BY <3>1 DEF ReconcileClient
    <3> QED
      BY <1>1, <3>1, <3>2
  <2>2. CASE bindings[n].phase # "absent"
    <3>1. /\ bindings[n].phase = "live" /\ bindings[n].state # "ready" /\ ~bindings[n].expired
          /\ bindings'[n].created = bindings[n].created
      BY <1>0, <1>3, <1>7, <2>2, EveryStep, DeletedKeeps DEF Stepped, Past
    <3>2. now <= bindings[n].created + BindTime
      BY <3>1 DEF GivenUpForLater
    <3>3. CASE now' = now + 1 /\ Tick
      BY <1>1, <1>4, <3>1, <3>3 DEF Tick
    <3>4. Tick \/ now' = now
      BY DEF Next, ClientControllerNext, ClientEnvironmentNext, ReconcileClient, StampFails,
         UpdateClientStatus, TimerFires, ChangeSpec, BindingReconciled, BindingExpires,
         BindingFinalized, SyncClient, SyncBinding, Resync, Crash, Tick, vars
    <3> QED
      BY <3>1, <3>2, <3>3, <3>4 DEF Tick
  <2> QED
    BY <2>1, <2>2
<1>8. ASSUME NEW n \in Ids, bindings'[n].phase # "absent", bindings'[n].phase # "live",
             ~bindings'[n].expired
      PROVE  \E m \in Ids : bindings'[m].phase # "absent" /\ bindings'[n].created < bindings'[m].created
  <2>1. bindings[n].phase # "absent" /\ ~bindings[n].expired
        /\ bindings'[n].created = bindings[n].created
    <3>1. bindings[n].phase # "absent"
      BY <1>8, NewOnes
    <3> QED
      BY <1>3, <1>8, <3>1 DEF Past
  <2>2. CASE bindings[n].phase # "live"
    <3>1. PICK m \in Ids : bindings[m].phase # "absent" /\ bindings[n].created < bindings[m].created
      BY <2>1, <2>2 DEF GivenUpForLater
    <3> QED
      BY <1>3, <2>1, <3>1 DEF Past
  <2>3. CASE bindings[n].phase = "live"
    <3>1. ReconcileClient /\ n \in Pruned(c, known)
      BY <1>8, <2>3, EveryStep DEF Stepped
    <3>2. /\ n \in Ids /\ known[n].phase \in {"live", "deleting"} /\ n \notin Kept(c, known)
          /\ known[n].created = bindings[n].created /\ ~known[n].expired
      BY <2>1, <3>1 DEF Pruned, MovesInv, Past
    <3>3. ~(known[n].created + c.duration + Grace >= now)
      BY <3>2 DEF Kept
    <3>4. c.duration \in Nat
      BY Numbers
    <3>5. CASE Current(c, known) # {}
      <4>1. PICK m \in Kept(c, known) : TRUE
        BY <3>5, Picked
      <4>2. m \in Ids /\ known[m].phase # "absent" /\ known[m].created + c.duration + Grace >= now
        BY <4>1 DEF Kept
      <4>3. /\ bindings'[m].phase # "absent" /\ bindings'[m].created = known[m].created
        BY <1>3, <4>2 DEF MovesInv, Past
      <4> QED
        BY <1>1, <1>4, <2>1, <3>2, <3>3, <3>4, <4>2, <4>3
    <3>6. CASE \E f \in Fresh : Stamp(Pruned(c, known), {f}, c)
      <4>1. PICK f \in Fresh : Stamp(Pruned(c, known), {f}, c)
        BY <3>6
      <4>2. f \in Ids /\ bindings'[f] = Create(c)
        BY <4>1, Stamped DEF Fresh
      <4>3. bindings'[f].phase # "absent" /\ bindings'[f].created = now
        BY <1>1, <4>2, Created
      <4> QED
        BY <1>1, <1>4, <2>1, <3>2, <3>3, <3>4, <4>2, <4>3
    <3> QED
      BY <3>1, <3>5, <3>6 DEF ReconcileClient
  <2> QED
    BY <2>2, <2>3
<1> QED
  BY <1>5, <1>6, <1>7, <1>8 DEF GivenUpForLater

\* A request that changes no binding has found one made last.
LEMMA ReconcileServes ==
    ASSUME TypeOK, TypeOK', MovesInv, GivenUpForLater, LastLasts,
           \A n \in Ids : StatePast(cachedBindings[n], bindings[n]),
           ReconcileClient, cachedBindings = bindings'
    PROVE  /\ bindings' = bindings
           /\ \E n \in Ids : /\ Serves(n, cachedClient)
                            /\ worker' = Reflect(cachedClient, n, bindings[n])
<1> DEFINE c == cachedClient
<1>1. bindings' = bindings /\ cachedBindings = bindings
  BY CacheLeftBehind DEF Next, ClientControllerNext
<1>2. ASSUME NEW f \in Fresh, NEW S, Stamp(S, {f}, c)
      PROVE  FALSE
  <2>1. f \in Ids /\ bindings[f].phase = "absent" /\ bindings'[f] = Create(c)
    BY <1>2, Stamped DEF Fresh
  <2>2. bindings'[f].phase = "live"
    BY <2>1, Created DEF TypeOK
  <2> QED
    BY <1>1, <2>1, <2>2
<1>3. PICK n \in Current(c, bindings) : worker' = Reflect(c, n, bindings[n])
  BY <1>1, <1>2 DEF ReconcileClient
<1>4. Stamp(Pruned(c, bindings), {}, c)
  BY <1>1, <1>2 DEF ReconcileClient
<1>5. /\ n \in Ids /\ n \in Kept(c, bindings) /\ InSync(c, bindings[n])
      /\ \A m \in Kept(c, bindings) : bindings[m].created <= bindings[n].created
      /\ bindings[n].phase \in {"live", "deleting"} /\ ~bindings[n].expired
      /\ bindings[n].created + c.duration + Grace >= now
  BY <1>3 DEF Current, Newest, Kept
<1>6. PICK m \in Last : now <= bindings[m].created + bindings[m].duration
  BY <1>5 DEF LastLasts
<1>7. /\ m \in Ids /\ bindings[m].phase # "absent"
      /\ \A k \in Ids : bindings[k].phase # "absent" => bindings[k].created <= bindings[m].created
  BY DEF Last
<1>8. /\ bindings[m].created \in Nat /\ bindings[m].duration \in Nat
      /\ bindings[n].created \in Nat /\ now \in Nat /\ c.duration \in Nat /\ Grace \in Nat
      /\ \A k \in Ids : bindings[k].created \in Nat
  BY <1>5, <1>7, Numbers
<1>9. bindings[m].phase = "live" /\ ~bindings[m].expired
  <2>1. ~bindings[m].expired
    BY <1>6, <1>7, <1>8 DEF GivenUpForLater
  <2>2. ~\E k \in Ids : bindings[k].phase # "absent" /\ bindings[m].created < bindings[k].created
    BY <1>7, <1>8
  <2> QED
    BY <1>7, <2>1, <2>2 DEF GivenUpForLater
<1>10. m \in Kept(c, bindings)
  <2>1. bindings[m].created + c.duration + Grace >= now
    BY <1>5, <1>7, <1>8
  <2> QED
    BY <1>7, <1>9, <2>1 DEF Kept
<1>11. \A k \in Ids : bindings[k].phase # "absent" => bindings[k].created <= bindings[n].created
  BY <1>5, <1>7, <1>8, <1>10
<1>12. n \in Last
  BY <1>5, <1>11 DEF Last
<1>13. bindings[n].phase = "live"
  <2>1. ~\E k \in Ids : bindings[k].phase # "absent" /\ bindings[n].created < bindings[k].created
    BY <1>8, <1>11
  <2> QED
    BY <1>5, <2>1 DEF GivenUpForLater
<1>14. ASSUME NEW k \in Ids, bindings[k].phase = "live", bindings[k].expired
       PROVE  FALSE
  <2>1. k \in Pruned(c, bindings)
    BY <1>14 DEF Pruned, Kept
  <2>2. bindings'[k] = Deleted(bindings[k])
    BY <1>4, <2>1, Stamped
  <2>3. bindings'[k].phase = "deleting"
    BY <1>14, <2>2, DeletedKeeps DEF TypeOK
  <2> QED
    BY <1>1, <1>14, <2>3
<1>15. Serves(n, c)
  BY <1>5, <1>12, <1>13, <1>14 DEF Serves, AskedFor, InSync
<1> QED
  BY <1>1, <1>3, <1>5, <1>15

\* The one made last still has time: it waits for BindTime, or for its timer.
LEMMA NextLastLasts ==
    ASSUME ReadyInDuration, TypeOK, TypeOK', MovesInv, GivenUpForLater, LastLasts, WaitsForLast,
           [Next]_vars
    PROVE  LastLasts'
<1>0. \A n \in Ids : Past(bindings[n], bindings'[n])
  BY BindingsMoveOn
<1>1. CASE ReconcileClient /\ \E f \in Last' : bindings'[f] = Create(cachedClient)
  <2>1. PICK f \in Last' : bindings'[f] = Create(cachedClient)
    BY <1>1
  <2>2. cachedClient \in ClientObject
    BY DEF TypeOK
  <2>3. bindings'[f].created = now /\ bindings'[f].duration = cachedClient.duration /\ now' = now
    BY <1>1, <2>1, <2>2, Created DEF ReconcileClient
  <2>4. now \in Nat /\ cachedClient.duration \in Nat
    BY Numbers
  <2> QED
    BY <2>3, <2>4 DEF LastLasts
<1>2. ASSUME Last' = Last, NEW n \in Last, now' <= bindings[n].created + bindings[n].duration
      PROVE  LastLasts'
  <2>1. n \in Ids /\ bindings[n].phase # "absent"
    BY DEF Last
  <2>2. bindings'[n].created = bindings[n].created /\ bindings'[n].duration = bindings[n].duration
    BY <1>0, <2>1 DEF Past
  <2> QED
    BY <1>2, <2>2 DEF LastLasts
<1>3. CASE Last' = Last /\ ~Tick
  <2>1. now' = now
    BY <1>3 DEF Next, ClientControllerNext, ClientEnvironmentNext, ReconcileClient, StampFails,
       UpdateClientStatus, TimerFires, ChangeSpec, BindingReconciled, BindingExpires,
       BindingFinalized, SyncClient, SyncBinding, Resync, Crash, vars
  <2>2. CASE \E n \in Ids : bindings[n].phase # "absent"
    BY <1>2, <1>3, <2>1, <2>2 DEF LastLasts
  <2>3. CASE ~\E n \in Ids : bindings[n].phase # "absent"
    <3>1. Last' = {}
      BY <1>3, <2>3 DEF Last
    <3>2. \A n \in Ids : bindings'[n].phase = "absent"
      <4>1. ASSUME NEW n \in Ids, bindings'[n].phase # "absent"
            PROVE  FALSE
        <5>1. ReconcileClient /\ bindings'[n].created = now
          BY <2>3, <4>1, NewOnes
        <5>2. \A m \in Ids : bindings'[m].phase # "absent" => bindings'[m].created = now
          BY <2>3, NewOnes
        <5> QED
          BY <3>1, <4>1, <5>1, <5>2, Numbers DEF Last
      <4> QED
        BY <4>1
    <3> QED
      BY <3>2 DEF LastLasts
  <2> QED
    BY <2>2, <2>3
<1>4. CASE Tick
  <2>1. /\ worker = Idle /\ ~queued /\ timer > now /\ cachedClient = client
        /\ cachedBindings = bindings /\ now' = now + 1 /\ UNCHANGED bindings
    BY <1>4 DEF Tick, Quiet
  <2>2. PICK n \in Ids :
           /\ Serves(n, cachedClient)
           /\ bindings[n].state = "ready" => timer <= Renewal(cachedClient, bindings[n])
    BY <2>1 DEF WaitsForLast
  <2>3. /\ bindings[n].created \in Nat /\ bindings[n].duration \in Nat /\ now \in Nat
        /\ timer \in Nat /\ RenewBefore \in Nat /\ BindTime \in Nat
    BY Numbers, TimeAssumption
  <2>4. bindings[n].duration \in Durations /\ bindings[n].duration = cachedClient.duration
    BY <2>2 DEF TypeOK, BindingObject, Serves, AskedFor
  <2>5. now + 1 <= bindings[n].created + bindings[n].duration
    <3>1. CASE bindings[n].state = "ready"
      BY <2>1, <2>2, <2>3, <2>4, <3>1 DEF Renewal
    <3>2. CASE bindings[n].state # "ready"
      <4>1. now < bindings[n].created + BindTime
        BY <1>4, <2>2, <3>2 DEF Tick, Serves
      <4>2. BindTime <= bindings[n].duration
        BY <2>4 DEF ReadyInDuration
      <4> QED
        BY <2>3, <4>1, <4>2
    <3> QED
      BY <3>1, <3>2
  <2>6. Last' = Last
    BY <2>1 DEF Last
  <2> QED
    BY <1>2, <2>1, <2>2, <2>5, <2>6 DEF Serves
<1> QED
  BY <1>1, <1>3, <1>4, LastMoves

\* What a client waits for is the binding found, or one it has been told of.
LEMMA NextWaits ==
    ASSUME TypeOK, TypeOK', MovesInv, GivenUpForLater, LastLasts, WaitsForLast, WritesLast,
           \A n \in Ids : StatePast(cachedBindings[n], bindings[n]), [Next]_vars, ~StampFails
    PROVE  WaitsForLast'
<1> SUFFICES ASSUME worker' = Idle, ~queued', cachedBindings' = bindings',
                    cachedClient'.binding = client'.binding
             PROVE  \E n \in Ids :
                       /\ Serves(n, cachedClient)'
                       /\ bindings'[n].state = "ready" =>
                             client'.binding = n /\ timer' <= Renewal(cachedClient', bindings'[n])
  BY DEF WaitsForLast
<1>1. CASE ReconcileClient
  <2>1. UNCHANGED <<cachedBindings, cachedClient, client, timer>>
    BY <1>1 DEF ReconcileClient
  <2>2. bindings' = bindings
    BY <1>1, <2>1, ReconcileServes
  <2>3. PICK n \in Ids : Serves(n, cachedClient) /\ worker' = Reflect(cachedClient, n, bindings[n])
    BY <1>1, <2>1, ReconcileServes
  <2>4. bindings[n].state # "ready"
    BY <2>3 DEF Reflect, Idle
  <2> QED
    BY <2>1, <2>2, <2>3, <2>4 DEF Serves, Last
<1>2. CASE UpdateClientStatus
  <2> DEFINE n == worker.want.binding
  <2>1. /\ worker.pc = "status" /\ ~queued /\ client' = worker.want
        /\ UNCHANGED <<bindings, cachedBindings, cachedClient>>
        /\ timer' = Earliest(timer, worker.requeueAt)
    BY <1>2 DEF UpdateClientStatus
  <2>2. cachedBindings = bindings
    BY <2>1
  <2>3. worker \in Request
    BY <2>1 DEF TypeOK, Idle
  <2>4. n # None /\ n \in Ids /\ worker.requeueAt \in Nat
    BY <2>1, <2>3 DEF Request, ClientObject, MovesInv, WriteMovesOn
  <2>5. Serves(n, cachedClient) /\ worker.requeueAt = Renewal(cachedClient, bindings[n])
    BY <2>1, <2>2 DEF WritesLast
  <2>6. timer' <= Renewal(cachedClient, bindings[n])
    BY <2>1, <2>4, <2>5, Numbers DEF Earliest
  <2> QED
    BY <2>1, <2>4, <2>5, <2>6 DEF Serves, Last
<1>3. CASE /\ UNCHANGED <<worker, queued, timer, cachedBindings, cachedClient>>
           /\ client'.binding = client.binding
  <2>1. bindings' = bindings
    BY <1>3, CacheLeftBehind
  <2>2. PICK n \in Ids :
          /\ Serves(n, cachedClient)
          /\ bindings[n].state = "ready" =>
                client.binding = n /\ timer <= Renewal(cachedClient, bindings[n])
    BY <1>3, <2>1 DEF WaitsForLast
  <2> QED
    BY <1>3, <2>1, <2>2 DEF Serves, Last
<1>4. ASSUME NEW t \in Targets, NEW d \in Durations, ChangeSpec(t, d)
      PROVE  client'.binding = client.binding
  BY <1>4, SpecKeepsBinding
<1> QED
  BY <1>1, <1>2, <1>3, <1>4 DEF Next, ClientControllerNext, ClientEnvironmentNext, TimerFires,
     ChangeSpec, BindingReconciled, BindingExpires, BindingFinalized, SyncClient, SyncBinding,
     Resync, Crash, Tick, vars

\* And a request that has found it goes on with it.
LEMMA NextWrites ==
    ASSUME TypeOK, TypeOK', MovesInv, GivenUpForLater, LastLasts, WritesLast,
           \A n \in Ids : StatePast(cachedBindings[n], bindings[n]), [Next]_vars, ~StampFails
    PROVE  WritesLast'
<1> SUFFICES ASSUME worker'.pc = "status", ~queued'
             PROVE  /\ cachedClient' = worker'.read
                    /\ cachedBindings' = bindings' =>
                          /\ Serves(worker.want.binding, cachedClient)'
                          /\ worker'.requeueAt =
                                Renewal(cachedClient, bindings[worker.want.binding])'
  BY DEF WritesLast
<1>1. CASE ReconcileClient
  <2>1. UNCHANGED <<cachedBindings, cachedClient>>
    BY <1>1 DEF ReconcileClient
  <2>2. worker' # Idle
    BY DEF Idle
  <2>3. PICK m \in Kept(cachedClient, cachedBindings) :
           worker' = Reflect(cachedClient, m, cachedBindings[m])
    BY <1>1, <2>2, RequestFound DEF MovesInv
  <2>4. worker'.read = cachedClient
    BY <2>2, <2>3 DEF Reflect
  <2>5. ASSUME cachedBindings' = bindings'
        PROVE  /\ Serves(worker.want.binding, cachedClient)'
               /\ worker'.requeueAt = Renewal(cachedClient, bindings[worker.want.binding])'
    <3>1. bindings' = bindings
      BY <1>1, <2>1, <2>5, ReconcileServes
    <3>2. PICK n \in Ids : Serves(n, cachedClient) /\ worker' = Reflect(cachedClient, n, bindings[n])
      BY <1>1, <2>1, <2>5, ReconcileServes
    <3>3. /\ worker'.want = [cachedClient EXCEPT !.binding = n]
          /\ worker'.requeueAt = Renewal(cachedClient, bindings[n])
      BY <2>2, <3>2 DEF Reflect
    <3>4. worker'.want.binding = n
      BY <3>3 DEF TypeOK, ClientObject
    <3>5. Serves(worker.want.binding, cachedClient)'
      BY <2>1, <3>1, <3>2, <3>4 DEF Serves, Last
    <3>6. Renewal(cachedClient, bindings[worker.want.binding])' = Renewal(cachedClient, bindings[n])
      BY <2>1, <3>1, <3>4 DEF Renewal
    <3> QED
      BY <3>3, <3>5, <3>6
  <2> QED
    BY <2>1, <2>4, <2>5
<1>2. CASE UNCHANGED <<worker, queued, cachedBindings, cachedClient>>
  <2>1. cachedBindings' = bindings' => bindings' = bindings
    BY <1>2, CacheLeftBehind
  <2>2. ASSUME bindings' = bindings
        PROVE  /\ Serves(worker.want.binding, cachedClient)' <=> Serves(worker.want.binding, cachedClient)
               /\ Renewal(cachedClient, bindings[worker.want.binding])'
                     = Renewal(cachedClient, bindings[worker.want.binding])
    BY <1>2, <2>2 DEF Serves, Last, Renewal
  <2> QED
    BY <1>2, <2>1, <2>2 DEF WritesLast
<1>3. ReconcileClient \/ UNCHANGED <<worker, queued, cachedBindings, cachedClient>>
  <2>1. worker' # Idle
    BY DEF Idle
  <2> QED
    BY <2>1 DEF Next, ClientControllerNext, ClientEnvironmentNext, UpdateClientStatus,
       TimerFires, ChangeSpec, BindingReconciled, BindingExpires, BindingFinalized, SyncClient,
       SyncBinding, Resync, Crash, Tick, vars
<1> QED
  BY <1>1, <1>2, <1>3

LEMMA InitCurrent == TypeOK /\ Init => CurrentInv
<1> SUFFICES ASSUME TypeOK, Init PROVE CurrentInv
  OBVIOUS
<1>1. \A n \in Ids : bindings[n].phase = "absent"
  BY DEF Init
<1>2. cachedBindings = bindings /\ queued
  BY DEF Init
<1> QED
  BY <1>1, <1>2 DEF CurrentInv, StatePast, GivenUpForLater, LastLasts, WaitsForLast, WritesLast

\* No failure yet means none before.
LEMMA FailuresBefore ==
    ASSUME TypeOK, [Next]_vars, failures' = 0
    PROVE  failures = 0 /\ ~StampFails
<1>1. failures \in Nat
  BY BoundAssumption DEF TypeOK
<1>2. ~StampFails
  BY <1>1 DEF StampFails
<1>3. failures' = failures
  BY <1>2 DEF Next, ClientControllerNext, ClientEnvironmentNext, ReconcileClient,
     UpdateClientStatus, TimerFires, ChangeSpec, BindingReconciled, BindingExpires,
     BindingFinalized, SyncClient, SyncBinding, Resync, Crash, Tick, vars, bounds
<1> QED
  BY <1>2, <1>3

LEMMA NextCurrent ==
    ASSUME ReadyInDuration, TypeOK, TypeOK', MovesInv, CurrentInv, [Next]_vars
    PROVE  CurrentInv'
<1>1. \A n \in Ids : StatePast(cachedBindings'[n], bindings'[n])
  <2>1. ASSUME NEW n \in Ids
        PROVE  StatePast(cachedBindings'[n], bindings'[n])
    <3>1. CASE cachedBindings'[n] = cachedBindings[n]
      BY <3>1, StatesMoveOn DEF CurrentInv
    <3>2. CASE cachedBindings'[n] = bindings[n] /\ bindings' = bindings
      BY <3>2 DEF StatePast
    <3> QED
      BY <3>1, <3>2, CacheCatchesUp
  <2> QED
    BY <2>1
<1> QED
  BY <1>1, FailuresBefore, NextGivenUp, NextLastLasts, NextWaits, NextWrites DEF CurrentInv

\* Everything made for a client is given up only for what is made later, and
\* when all is told and done it has the last one, or waits for it.
THEOREM CurrentInvariant ==
    ASSUME ReadyInDuration
    PROVE  Spec => []CurrentInv
<1>1. TypeOK /\ TypeOK' /\ MovesInv /\ CurrentInv /\ [Next]_vars => CurrentInv'
  BY NextCurrent
<1> QED
  BY <1>1, InitTypeOK, InitCurrent, ClientTypes, MovesInvariant, PTL DEF Spec

\* A controller at rest has what the spec asks for, as long as no API call has
\* failed and every binding is Ready within its duration.
THEOREM ClientIsCurrent ==
    ASSUME ReadyInDuration
    PROVE  Spec => [](failures = 0 => QuietClientIsCurrent)
<1>1. CurrentInv => (failures = 0 => QuietClientIsCurrent)
  <2> SUFFICES ASSUME CurrentInv, failures = 0, Quiet
               PROVE  /\ \E n \in Ids :
                            /\ bindings[n].phase = "live" /\ ~bindings[n].expired
                            /\ bindings[n].target = client.target
                            /\ bindings[n].duration = client.duration
                            /\ bindings[n].state = "ready" =>
                                  /\ client.binding # None
                                  /\ bindings[client.binding].created = bindings[n].created
                      /\ \A n \in Ids : bindings[n].phase = "live" => ~bindings[n].expired
    BY DEF QuietClientIsCurrent
  <2>1. PICK n \in Ids : Serves(n, client) /\ (bindings[n].state = "ready" => client.binding = n)
    BY DEF CurrentInv, WaitsForLast, Quiet
  <2>2. n # None
    BY DEF Ids, None
  <2> QED
    BY <2>1, <2>2 DEF Serves, AskedFor
<1> QED
  BY <1>1, CurrentInvariant, PTL

\* Every duration leaves more than BindTime before the renewal.
RenewalAfterReady == \A d \in Durations : RenewBefore + BindTime < d

\* A controller at rest has nothing to renew, as long as no API call has failed:
\* the binding made last waits to be Ready, or for the timer of its renewal.
THEOREM ClientRenewsInTime ==
    ASSUME RenewalAfterReady
    PROVE  Spec => [](failures = 0 => RenewedInTime)
<1>1. ReadyInDuration
  <2>1. ASSUME NEW d \in Durations
        PROVE  BindTime <= d
    <3>1. RenewBefore + BindTime < d /\ {RenewBefore, BindTime, d} \subseteq Nat
      BY TimeAssumption DEF RenewalAfterReady
    <3> QED
      BY <3>1
  <2> QED
    BY <2>1 DEF ReadyInDuration
<1>2. TypeOK /\ CurrentInv => (failures = 0 => RenewedInTime)
  <2> SUFFICES ASSUME TypeOK, CurrentInv, failures = 0, Quiet
               PROVE  Current(client, bindings) # {}
    BY DEF RenewedInTime
  <2>1. GivenUpForLater /\ cachedClient = client /\ timer > now
    BY DEF CurrentInv, Quiet
  <2>2. PICK n \in Ids :
           /\ Serves(n, client)
           /\ bindings[n].state = "ready" => timer <= Renewal(client, bindings[n])
    BY <2>1 DEF CurrentInv, WaitsForLast, Quiet
  <2>3. /\ bindings[n].created \in Nat /\ client.duration \in Nat /\ now \in Nat
        /\ timer \in Nat /\ RenewBefore \in Nat /\ BindTime \in Nat /\ Grace \in Nat
    BY Numbers, TimeAssumption
  <2>4. RenewBefore + BindTime < client.duration
    BY DEF RenewalAfterReady, TypeOK, ClientObject
  <2>5. bindings[n].created + client.duration > now + RenewBefore
    <3>1. CASE bindings[n].state = "ready"
      <4>1. now < Renewal(client, bindings[n])
        BY <2>1, <2>2, <2>3, <3>1 DEF Renewal
      <4> QED
        BY <2>3, <4>1 DEF Renewal
    <3>2. CASE bindings[n].state # "ready"
      <4>1. now <= bindings[n].created + BindTime
        BY <2>1, <2>2, <3>2 DEF GivenUpForLater, Serves
      <4> QED
        BY <2>3, <2>4, <4>1
    <3> QED
      BY <3>1, <3>2
  <2>6. n \in Kept(client, bindings)
    BY <2>2, <2>3, <2>5 DEF Kept, Serves
  <2>7. n \in Newest(bindings, Kept(client, bindings))
    BY <2>2, <2>6 DEF Newest, Kept, Serves, Last
  <2> QED
    BY <2>2, <2>5, <2>7 DEF Current, InSync, Serves, AskedFor
<1>3. Spec => []CurrentInv
  BY <1>1, CurrentInvariant
<1> QED
  BY <1>2, <1>3, ClientTypes, PTL

-----------------------------------------------------------------------------
(* It is there before the one before it expires *)

\* Whether the last bindings are what the client asks for.
LastAskedFor == \A n \in Last : AskedFor(bindings[n], client)

\* The cached client has those made last, and they are on their way to Ready.
Covered ==
    /\ Last # {}
    /\ \A n \in Last : /\ Known(n)
                        /\ AskedFor(bindings[n], cachedClient)
                        /\ now <= bindings[n].created + BindTime

\* When the client's binding expires, put off by BindTime for every change of
\* the spec there was.
PutOff == ExpiresAfter(bindings[client.binding]) + changes * BindTime

\* Those made last were made in time, by a BindTime more if the spec has
\* changed since.
MadeInTime ==
    client.binding # None =>
        \A n \in Last :
            /\ bindings[n].created + RenewBefore <= PutOff
            /\ ~LastAskedFor => bindings[n].created + RenewBefore + BindTime <= PutOff

\* One will be made in time, unless it is on its way.
MakesInTime ==
    client.binding # None =>
        \/ Covered
        \/ /\ now + RenewBefore <= PutOff
           /\ ~AskedFor(cachedClient, client) => now + RenewBefore + BindTime <= PutOff

\* The binding a status names is not due for renewal yet.
WritesInTime ==
    worker.pc = "status" =>
        now + RenewBefore <= ExpiresAfter(bindings[worker.want.binding])

\* A binding of an ordinary duration serves its time.
OrdinaryServe ==
    \A n \in Ids : /\ bindings[n].phase # "absent" /\ OrdinaryDuration(bindings[n])
                   /\ now <= ExpiresAfter(bindings[n])
                   => bindings[n].phase = "live" /\ ~bindings[n].expired

InTimeInv == failures = 0 => MadeInTime /\ MakesInTime /\ WritesInTime /\ OrdinaryServe

\* Every duration leaves more than BindTime before the renewal, and renewBefore
\* a BindTime for it and one for every change of the spec.
RenewalLeavesTime ==
    /\ \A d \in Durations : RenewBefore + BindTime < d
    /\ (MaxChanges + 1) * BindTime <= RenewBefore

LEMMA TimeForReady ==
    ASSUME RenewalLeavesTime
    PROVE  ReadyInDuration
<1>1. ASSUME NEW d \in Durations
      PROVE  BindTime <= d
  <2>1. RenewBefore + BindTime < d
    BY DEF RenewalLeavesTime
  <2>2. RenewBefore \in Nat /\ BindTime \in Nat
    BY TimeAssumption
  <2>3. d \in Nat
    BY TimeAssumption
  <2> QED
    BY <2>1, <2>2, <2>3
<1> QED
  BY <1>1 DEF ReadyInDuration

LEMMA Slack ==
    ASSUME RenewalLeavesTime, TypeOK
    PROVE  /\ BindTime \in Nat /\ changes * BindTime \in Nat
           /\ (changes + 1) * BindTime = changes * BindTime + BindTime
           /\ changes * BindTime + BindTime <= RenewBefore
           /\ changes # 0 => BindTime <= changes * BindTime
<1>1. BindTime \in Nat /\ MaxChanges \in Nat /\ RenewBefore \in Nat
  BY TimeAssumption, BoundAssumption
<1>2. changes \in Nat /\ changes <= MaxChanges
  BY <1>1 DEF TypeOK
<1>3. \A i, j \in Nat : i * j \in Nat /\ (i + 1) * j = i * j + j
  OBVIOUS
<1>4. (MaxChanges + 1) * BindTime = changes * BindTime + BindTime + (MaxChanges - changes) * BindTime
  BY <1>1, <1>2
<1>5. MaxChanges - changes \in Nat
  BY <1>1, <1>2
<1>6. (MaxChanges - changes) * BindTime \in Nat
  BY <1>1, <1>3, <1>5
<1>7. changes * BindTime \in Nat /\ (changes + 1) * BindTime = changes * BindTime + BindTime
  BY <1>1, <1>2, <1>3
<1>8. changes * BindTime + BindTime <= RenewBefore
  BY <1>1, <1>4, <1>6, <1>7 DEF RenewalLeavesTime
<1>9. ASSUME changes # 0
      PROVE  BindTime <= changes * BindTime
  <2>1. changes - 1 \in Nat
    BY <1>2, <1>9
  <2>2. (changes - 1) * BindTime \in Nat /\ changes * BindTime = (changes - 1) * BindTime + BindTime
    BY <1>1, <1>2, <1>3, <2>1
  <2> QED
    BY <1>1, <2>2
<1> QED
  BY <1>1, <1>7, <1>8, <1>9

\* What is not asked for was asked for before a change of the spec.
LEMMA ChangedSince ==
    ASSUME SpecInv, changes = 0
    PROVE  LastAskedFor /\ AskedFor(cachedClient, client)
<1>1. OneSpec
  BY DEF SpecInv
<1> QED
  BY <1>1 DEF OneSpec, LastAskedFor, AskedFor, Last

\* When the client's binding expires stays what it is, but for the changes.
LEMMA PutOffKept ==
    ASSUME TypeOK, MovesInv, [Next]_vars, client.binding # None, client'.binding = client.binding,
           changes' = changes
    PROVE  PutOff' = PutOff
<1>1. client.binding \in Ids /\ bindings[client.binding].phase # "absent"
  BY DEF TypeOK, ClientObject, MovesInv, Names, Known, Past
<1>2. /\ bindings'[client.binding].created = bindings[client.binding].created
      /\ bindings'[client.binding].duration = bindings[client.binding].duration
  BY <1>1, BindingsMoveOn DEF Past
<1> QED
  BY <1>2 DEF PutOff, ExpiresAfter

\* Times are numbers.
LEMMA MoreNumbers ==
    ASSUME RenewalLeavesTime, TypeOK
    PROVE  /\ \A n \in Ids : ExpiresAfter(bindings[n]) \in Nat
           /\ client.binding # None => PutOff \in Nat
<1>1. \A n \in Ids : ExpiresAfter(bindings[n]) \in Nat
  BY Numbers DEF ExpiresAfter
<1>2. client.binding \in Ids \union {None}
  BY DEF TypeOK, ClientObject
<1> QED
  BY <1>1, <1>2, Slack DEF PutOff

\* A request of a client that is covered creates nothing.
LEMMA CoveredKeeps ==
    ASSUME RenewalLeavesTime, TypeOK, MovesInv, GivenUpForLater, Covered
    PROVE  /\ Kept(cachedClient, cachedBindings) # {}
           /\ Outdated(cachedClient, cachedBindings) = {}
<1> DEFINE c == cachedClient
           known == cachedBindings
<1>1. PICK n \in Last : TRUE
  BY DEF Covered
<1>2. /\ n \in Ids /\ bindings[n].phase # "absent" /\ Known(n) /\ AskedFor(bindings[n], c)
      /\ now <= bindings[n].created + BindTime
      /\ \A m \in Ids : bindings[m].phase # "absent" => bindings[m].created <= bindings[n].created
  BY DEF Covered, Last
<1>3. /\ bindings[n].created \in Nat /\ bindings[n].duration \in Nat /\ now \in Nat
      /\ BindTime \in Nat /\ RenewBefore \in Nat /\ c.duration \in Nat /\ Grace \in Nat
      /\ \A m \in Ids : bindings[m].created \in Nat /\ known[m].created \in Nat
  BY <1>2, Numbers, Slack
<1>4. bindings[n].duration \in Durations /\ bindings[n].duration = c.duration
  BY <1>2 DEF TypeOK, BindingObject, AskedFor
<1>5. RenewBefore + BindTime < bindings[n].duration
  BY <1>4 DEF RenewalLeavesTime
<1>6. ~bindings[n].expired
  BY <1>2, <1>3, <1>5 DEF GivenUpForLater
<1>7. bindings[n].phase = "live"
  <2>1. ~\E m \in Ids : bindings[m].phase # "absent" /\ bindings[n].created < bindings[m].created
    BY <1>2, <1>3
  <2> QED
    BY <1>2, <1>6, <2>1 DEF GivenUpForLater
<1>8. /\ known[n].phase = "live" /\ ~known[n].expired /\ known[n].created = bindings[n].created
  <2>1. Past(known[n], bindings[n]) /\ known[n] \in BindingObject
    BY <1>2 DEF MovesInv, TypeOK
  <2> QED
    BY <1>2, <1>6, <1>7, <2>1 DEF Past, Known, BindingObject
<1>9. n \in Kept(c, known)
  <2>1. known[n].created + c.duration + Grace >= now
    BY <1>2, <1>3, <1>4, <1>5, <1>8
  <2> QED
    BY <1>2, <1>8, <2>1 DEF Kept
<1>10. ASSUME NEW m \in Newest(known, Kept(c, known))
       PROVE  m \in Current(c, known)
  <2>1. m \in Ids /\ known[m].phase # "absent" /\ known[n].created <= known[m].created
    BY <1>9 DEF Newest, Kept
  <2>2. /\ bindings[m].phase # "absent" /\ known[m].created = bindings[m].created
        /\ known[m].target = bindings[m].target /\ known[m].duration = bindings[m].duration
    BY <2>1 DEF MovesInv, Past
  <2>3. bindings[m].created = bindings[n].created
    BY <1>2, <1>3, <1>8, <2>1, <2>2
  <2>4. m \in Last
    BY <1>2, <2>1, <2>2, <2>3 DEF Last
  <2>5. AskedFor(bindings[m], c)
    BY <2>4 DEF Covered
  <2>6. known[m].created + c.duration > now + RenewBefore
    BY <1>2, <1>3, <1>4, <1>5, <2>2, <2>3
  <2> QED
    BY <2>2, <2>5, <2>6 DEF Current, InSync, AskedFor
<1> QED
  BY <1>9, <1>10 DEF Outdated

\* Time passes by one, or not at all.
LEMMA TimePasses ==
    ASSUME TypeOK, [Next]_vars
    PROVE  now' = now \/ (Tick /\ now' = now + 1)
BY DEF Next, ClientControllerNext, ClientEnvironmentNext, ReconcileClient, StampFails,
   UpdateClientStatus, TimerFires, ChangeSpec, BindingReconciled, BindingExpires, BindingFinalized,
   SyncClient, SyncBinding, Resync, Crash, Tick, vars

\* Within its time a binding is neither pruned for its age nor expired.
LEMMA NextOrdinary ==
    ASSUME TypeOK, TypeOK', MovesInv, OrdinaryServe, [Next]_vars
    PROVE  OrdinaryServe'
<1> SUFFICES ASSUME NEW n \in Ids, bindings'[n].phase # "absent", OrdinaryDuration(bindings'[n]),
                    now' <= ExpiresAfter(bindings'[n])
             PROVE  bindings'[n].phase = "live" /\ ~bindings'[n].expired
  BY DEF OrdinaryServe, OrdinaryDuration, ExpiresAfter
<1>1. CASE bindings[n].phase = "absent"
  BY <1>1, NewOnes
<1>2. CASE bindings[n].phase # "absent"
  <2> DEFINE b == bindings[n]
             known == cachedBindings
  <2>1. bindings'[n].created = b.created /\ bindings'[n].duration = b.duration
    BY <1>2, BindingsMoveOn DEF Past
  <2>2. /\ now \in Nat /\ b.created \in Nat /\ b.duration \in Nat /\ Grace \in Nat
        /\ cachedClient.duration \in Nat
    BY Numbers
  <2>3. now <= ExpiresAfter(b)
    <3>1. ExpiresAfter(bindings'[n]) = ExpiresAfter(b) /\ ExpiresAfter(b) \in Nat
      BY <2>1, <2>2 DEF ExpiresAfter
    <3> QED
      BY <2>2, <3>1, TimePasses
  <2>4. OrdinaryDuration(b)
    BY <2>1 DEF OrdinaryDuration
  <2>5. b.phase = "live" /\ ~b.expired
    BY <1>2, <2>3, <2>4 DEF OrdinaryServe
  <2>6. n \notin Pruned(cachedClient, known)
    <3>1. CASE known[n].phase = "absent"
      BY <3>1 DEF Pruned
    <3>2. CASE known[n].phase # "absent"
      <4>1. known[n].created = b.created /\ ~known[n].expired
        BY <2>5, <3>2 DEF MovesInv, Past
      <4>2. b.duration <= cachedClient.duration + Grace
        BY <2>4 DEF OrdinaryDuration, TypeOK, ClientObject
      <4>3. known[n].created + cachedClient.duration + Grace >= now
        BY <2>2, <2>3, <4>1, <4>2 DEF ExpiresAfter
      <4> QED
        BY <4>1, <4>3 DEF Pruned, Kept
    <3> QED
      BY <3>1, <3>2
  <2>7. ~(ExpiresAfter(b) < now)
    BY <2>2, <2>3 DEF ExpiresAfter
  <2>8. Stepped(n)
    BY EveryStep
  <2> QED
    BY <2>5, <2>6, <2>7, <2>8 DEF Stepped
<1> QED
  BY <1>1, <1>2

\* A request that knows what it writes is in time: what it names is in sync, or
\* as new as what it has created.
LEMMA NextWritesInTime ==
    ASSUME RenewalLeavesTime, TypeOK, TypeOK', MovesInv, WritesInTime, [Next]_vars
    PROVE  WritesInTime'
<1> SUFFICES ASSUME worker'.pc = "status"
             PROVE  (now + RenewBefore <= ExpiresAfter(bindings[worker.want.binding]))'
  BY DEF WritesInTime
<1> DEFINE c == cachedClient
           known == cachedBindings
<1>0. /\ c \in ClientObject /\ now \in Nat /\ RenewBefore \in Nat /\ BindTime \in Nat
      /\ \A n \in Ids : bindings'[n].created \in Nat /\ bindings'[n].duration \in Nat
      /\ \A n \in Ids : bindings'[n].duration \in Durations
  <2>1. \A n \in Ids : bindings'[n] \in BindingObject
    BY DEF TypeOK
  <2>2. ASSUME NEW b \in BindingObject
        PROVE  b.created \in Nat /\ b.duration \in Nat /\ b.duration \in Durations
    <3>1. b.created \in 0..MaxTime /\ b.duration \in Durations
      BY DEF BindingObject
    <3>2. b.created \in Nat
      BY <3>1
    <3> QED
      BY <3>1, <3>2, TimeAssumption
  <2> QED
    BY <2>1, <2>2, Numbers, Slack DEF TypeOK
<1>1. CASE ReconcileClient
  <2>1. now' = now
    BY <1>1 DEF ReconcileClient
  <2>2. worker' # Idle
    BY DEF Idle
  <2>3. ASSUME NEW n \in Ids, NEW b, worker' = Reflect(c, n, b),
               now + RenewBefore <= bindings'[n].created + bindings'[n].duration
        PROVE  (now + RenewBefore <= ExpiresAfter(bindings[worker.want.binding]))'
    <3>1. worker'.want = [c EXCEPT !.binding = n]
      BY <2>2, <2>3 DEF Reflect
    <3>2. worker'.want.binding = n
      BY <1>0, <3>1 DEF ClientObject
    <3> QED
      BY <2>1, <2>3, <3>2 DEF ExpiresAfter
  <2>4. ASSUME NEW n \in Current(c, known)
        PROVE  n \in Ids /\ now + RenewBefore <= bindings'[n].created + bindings'[n].duration
    <3>1. /\ n \in Ids /\ known[n].phase # "absent" /\ known[n].duration = c.duration
          /\ known[n].created + c.duration > now + RenewBefore
      BY DEF Current, Newest, Kept, InSync
    <3>2. Past(known[n], bindings[n]) /\ Past(bindings[n], bindings'[n])
      BY <3>1, BindingsMoveOn DEF MovesInv
    <3>3. bindings'[n].created = known[n].created /\ bindings'[n].duration = c.duration
      BY <3>1, <3>2 DEF Past
    <3> QED
      BY <1>0, <3>1, <3>3
  <2>5. ASSUME NEW f \in Fresh, NEW S, Stamp(S, {f}, c),
               NEW n \in Newest(bindings', Kept(c, known) \union {f})
        PROVE  n \in Ids /\ now + RenewBefore <= bindings'[n].created + bindings'[n].duration
    <3>1. f \in Ids /\ n \in Ids /\ bindings'[f].created <= bindings'[n].created
      BY Picked DEF Newest, Fresh, Kept
    <3>2. bindings'[f].created = now
      BY <1>0, <2>5, <3>1, Stamped, Created
    <3>3. RenewBefore + BindTime < bindings'[n].duration
      BY <1>0, <3>1 DEF RenewalLeavesTime
    <3> QED
      BY <1>0, <3>1, <3>2, <3>3
  <2> QED
    BY <1>1, <2>3, <2>4, <2>5 DEF ReconcileClient
<1>2. CASE UNCHANGED <<worker, now>>
  <2>1. worker.want.binding \in Ids /\ bindings[worker.want.binding].phase # "absent"
    <3>1. worker \in Request
      BY <1>2 DEF TypeOK, Idle
    <3>2. worker.want.binding \in Ids \union {None}
      BY <3>1 DEF Request, ClientObject
    <3>3. worker.want.binding # None /\ Names(worker.want)
      BY <1>2 DEF MovesInv, WriteMovesOn
    <3> QED
      BY <3>2, <3>3 DEF MovesInv, Names, Known, Past
  <2>2. Past(bindings[worker.want.binding], bindings'[worker.want.binding])
    BY <2>1, BindingsMoveOn
  <2> QED
    BY <1>2, <2>1, <2>2 DEF WritesInTime, Past, ExpiresAfter
<1>3. ReconcileClient \/ UNCHANGED <<worker, now>>
  <2>1. worker' # Idle
    BY DEF Idle
  <2>2. worker.pc # "status" => ~Tick \/ worker' = Idle
    BY DEF Tick, Quiet
  <2> QED
    BY <2>1, <2>2 DEF Next, ClientControllerNext, ClientEnvironmentNext, StampFails,
       UpdateClientStatus, TimerFires, ChangeSpec, BindingReconciled, BindingExpires,
       BindingFinalized, SyncClient, SyncBinding, Resync, Crash, Tick, Quiet, vars
<1> QED
  BY <1>1, <1>2, <1>3

\* A client moves to a binding not due for renewal.
LEMMA MovesInTime ==
    ASSUME RenewalLeavesTime, TypeOK, MovesInv, SpecInv, GivenUpForLater, WritesInTime,
           UpdateClientStatus, client' = worker.want, client = worker.read
    PROVE  MadeInTime' /\ MakesInTime'
<1> DEFINE n == worker.want.binding
<1>1. /\ worker.pc = "status" /\ UNCHANGED <<now, cachedClient, bindings, changes>>
      /\ Last' = Last
  BY DEF UpdateClientStatus, bounds, Last
<1>2. client'.target = client.target /\ client'.duration = client.duration
  <2>1. worker.want = [worker.read EXCEPT !.binding = worker.want.binding]
    BY <1>1 DEF MovesInv, WriteMovesOn
  <2> QED
    BY <2>1 DEF TypeOK, ClientObject
<1>3. now + RenewBefore <= ExpiresAfter(bindings[n])
  BY <1>1 DEF WritesInTime
<1>4. PutOff' = ExpiresAfter(bindings[n]) + changes * BindTime
  BY <1>1 DEF PutOff, ExpiresAfter
<1>5. n \in Ids
  BY <1>1 DEF MovesInv, WriteMovesOn, TypeOK, Idle, Request, ClientObject
<1>6. /\ now \in Nat /\ RenewBefore \in Nat /\ ExpiresAfter(bindings[n]) \in Nat
      /\ \A m \in Ids : bindings[m].created \in Nat
  BY <1>5, Numbers, MoreNumbers
<1>7. now + RenewBefore <= PutOff' /\ PutOff' \in Nat
  BY <1>3, <1>4, <1>6, Slack
<1>8. changes # 0 => now + RenewBefore + BindTime <= PutOff'
  BY <1>3, <1>4, <1>6, Slack
<1>9. \A m \in Last : m \in Ids /\ bindings[m].created <= now
  BY DEF Last, GivenUpForLater
<1>10. (LastAskedFor' <=> LastAskedFor)
       /\ (AskedFor(cachedClient, client)' <=> AskedFor(cachedClient, client))
  BY <1>1, <1>2 DEF LastAskedFor, AskedFor
<1>11. MakesInTime'
  BY <1>1, <1>7, <1>8, <1>10, ChangedSince DEF MakesInTime
<1>12. ASSUME NEW m \in Last
       PROVE  /\ bindings[m].created + RenewBefore <= PutOff'
              /\ ~LastAskedFor => bindings[m].created + RenewBefore + BindTime <= PutOff'
  <2>1. bindings[m].created + RenewBefore <= PutOff'
    BY <1>6, <1>7, <1>9
  <2>2. changes # 0 => bindings[m].created + RenewBefore + BindTime <= PutOff'
    BY <1>6, <1>7, <1>8, <1>9, Slack
  <2> QED
    BY <2>1, <2>2, ChangedSince
<1> QED
  BY <1>1, <1>10, <1>11, <1>12 DEF MadeInTime

\* A change of the spec puts it off.
LEMMA ChangeInTime ==
    ASSUME RenewalLeavesTime, TypeOK, MovesInv, MadeInTime, MakesInTime,
           NEW t \in Targets, NEW d \in Durations, ChangeSpec(t, d)
    PROVE  MadeInTime' /\ MakesInTime'
<1>1. /\ UNCHANGED <<now, cachedClient, bindings, cachedBindings>> /\ Last' = Last
      /\ changes' = changes + 1 /\ client'.binding = client.binding
  BY SpecKeepsBinding DEF ChangeSpec, Last
<1>2. Covered' <=> Covered
  BY <1>1 DEF Covered, Known, AskedFor
<1> SUFFICES ASSUME client.binding # None
             PROVE  MadeInTime' /\ MakesInTime'
  BY <1>1 DEF MadeInTime, MakesInTime
<1>3. /\ now \in Nat /\ RenewBefore \in Nat /\ PutOff \in Nat /\ BindTime \in Nat
      /\ \A n \in Ids : bindings[n].created \in Nat
  BY Numbers, MoreNumbers, Slack
<1>4. PutOff' = PutOff + BindTime
  <2>1. PutOff' = ExpiresAfter(bindings[client.binding]) + (changes + 1) * BindTime
    BY <1>1 DEF PutOff, ExpiresAfter
  <2>2. ExpiresAfter(bindings[client.binding]) \in Nat
    BY MoreNumbers DEF TypeOK, ClientObject
  <2> QED
    BY <2>1, <2>2, Slack DEF PutOff
<1>5. MakesInTime'
  <2>1. now + RenewBefore <= PutOff => now + RenewBefore + BindTime <= PutOff'
    BY <1>3, <1>4
  <2>2. now + RenewBefore <= PutOff => now + RenewBefore <= PutOff'
    BY <1>3, <1>4
  <2> QED
    BY <1>1, <1>2, <2>1, <2>2 DEF MakesInTime
<1>6. ASSUME NEW n \in Last
      PROVE  /\ bindings[n].created + RenewBefore <= PutOff'
             /\ bindings[n].created + RenewBefore + BindTime <= PutOff'
  <2>1. n \in Ids /\ bindings[n].created + RenewBefore <= PutOff
    BY DEF MadeInTime, Last
  <2> QED
    BY <1>3, <1>4, <2>1
<1> QED
  BY <1>1, <1>5, <1>6 DEF MadeInTime

\* What a request creates is made in time, for a client not covered.
LEMMA CreatesInTime ==
    ASSUME RenewalLeavesTime, TypeOK, TypeOK', MovesInv, GivenUpForLater, MadeInTime, MakesInTime,
           ReconcileClient, Last' # Last
    PROVE  MadeInTime' /\ MakesInTime'
<1>1. UNCHANGED <<now, client, cachedClient, changes>>
  BY DEF ReconcileClient, bounds
<1> SUFFICES ASSUME client.binding # None
             PROVE  MadeInTime' /\ MakesInTime'
  BY <1>1 DEF MadeInTime, MakesInTime
<1>2. [Next]_vars
  BY DEF Next, ClientControllerNext
<1>3. PutOff' = PutOff
  BY <1>1, <1>2, PutOffKept
<1>4. /\ Kept(cachedClient, cachedBindings) = {} \/ Outdated(cachedClient, cachedBindings) # {}
      /\ \E f \in Ids : /\ bindings'[f] = Create(cachedClient)
                        /\ \A n \in Last' \ {f} : n \in Last /\ bindings[n].created = now
  BY <1>2, LastMoves
<1>5. PICK f \in Ids : /\ bindings'[f] = Create(cachedClient)
                       /\ \A n \in Last' \ {f} : n \in Last /\ bindings[n].created = now
  BY <1>4
<1>6. ~Covered
  BY <1>4, CoveredKeeps
<1>7. /\ now + RenewBefore <= PutOff
      /\ ~AskedFor(cachedClient, client) => now + RenewBefore + BindTime <= PutOff
  BY <1>6 DEF MakesInTime
<1>8. MakesInTime'
  BY <1>1, <1>3, <1>7 DEF MakesInTime, AskedFor
<1>9. /\ bindings'[f].created = now
      /\ bindings'[f].target = cachedClient.target
      /\ bindings'[f].duration = cachedClient.duration
  BY <1>5, Created DEF TypeOK
<1>10. ASSUME NEW n \in Last' \ {f}
       PROVE  /\ n \in Last /\ bindings[n].created = now
              /\ bindings'[n].created = now /\ bindings'[n].target = bindings[n].target
              /\ bindings'[n].duration = bindings[n].duration
  <2>1. n \in Last /\ bindings[n].created = now /\ n \in Ids /\ bindings[n].phase # "absent"
    BY <1>5 DEF Last
  <2> QED
    BY <1>2, <2>1, BindingsMoveOn DEF Past
<1>11. ASSUME ~LastAskedFor'
       PROVE  now + RenewBefore + BindTime <= PutOff
  <2>1. PICK k \in Last' : ~AskedFor(bindings'[k], client')
    BY <1>11 DEF LastAskedFor
  <2>2. CASE k = f
    BY <1>1, <1>7, <1>9, <2>1, <2>2 DEF AskedFor
  <2>3. CASE k # f
    <3>1. k \in Last /\ bindings[k].created = now /\ ~AskedFor(bindings[k], client)
      BY <1>1, <1>10, <2>1, <2>3 DEF AskedFor
    <3>2. ~LastAskedFor
      BY <3>1 DEF LastAskedFor
    <3> QED
      BY <3>1, <3>2 DEF MadeInTime
  <2> QED
    BY <2>2, <2>3
<1>12. \A n \in Last' : bindings'[n].created = now
  BY <1>9, <1>10
<1> QED
  BY <1>1, <1>3, <1>7, <1>8, <1>11, <1>12 DEF MadeInTime

\* Time passes no further than the renewal is due, or than it takes to be Ready.
LEMMA TicksInTime ==
    ASSUME RenewalLeavesTime, TypeOK, MovesInv, GivenUpForLater, WaitsForLast, MadeInTime, Tick
    PROVE  MakesInTime'
<1>1. /\ worker = Idle /\ ~queued /\ timer > now /\ cachedClient = client
      /\ cachedBindings = bindings /\ now' = now + 1
      /\ UNCHANGED <<client, cachedClient, bindings, cachedBindings, changes>>
  BY DEF Tick, Quiet, bounds
<1> SUFFICES ASSUME client.binding # None
             PROVE  MakesInTime'
  BY <1>1 DEF MakesInTime
<1>2. PICK n \in Ids :
        /\ Serves(n, cachedClient)
        /\ bindings[n].state = "ready" =>
              client.binding = n /\ timer <= Renewal(cachedClient, bindings[n])
  BY <1>1 DEF WaitsForLast
<1>3. PutOff' = PutOff /\ Last' = Last
  BY <1>1 DEF PutOff, ExpiresAfter, Last
<1>4. /\ now \in Nat /\ timer \in Nat /\ RenewBefore \in Nat /\ PutOff \in Nat /\ BindTime \in Nat
      /\ \A m \in Ids : bindings[m].created \in Nat /\ bindings[m].duration \in Nat
      /\ changes * BindTime \in Nat
  BY Numbers, MoreNumbers, Slack
<1>5. AskedFor(cachedClient, client)'
  BY <1>1 DEF AskedFor
<1>6. CASE bindings[n].state = "ready"
  <2>1. timer <= Renewal(client, bindings[n]) /\ client.binding = n
    BY <1>1, <1>2, <1>6
  <2>2. bindings[n].duration = client.duration
    BY <1>1, <1>2 DEF Serves, AskedFor
  <2>3. now + 1 + RenewBefore <= bindings[n].created + bindings[n].duration
    BY <1>1, <1>4, <2>1, <2>2 DEF Renewal
  <2>4. now + 1 + RenewBefore <= PutOff
    BY <1>4, <2>1, <2>3 DEF PutOff, ExpiresAfter
  <2> QED
    BY <1>1, <1>3, <1>5, <2>4 DEF MakesInTime
<1>7. CASE bindings[n].state # "ready"
  <2>1. now < bindings[n].created + BindTime
    BY <1>2, <1>7 DEF Tick, Serves
  <2>2. n \in Last
    BY <1>2 DEF Serves
  <2>3. CASE LastAskedFor
    <3>1. ASSUME NEW m \in Last
          PROVE  /\ bindings[m].phase # "absent" /\ AskedFor(bindings[m], client)
                 /\ now + 1 <= bindings[m].created + BindTime
      <4>1. m \in Ids /\ bindings[m].phase # "absent" /\ bindings[n].created <= bindings[m].created
        BY <2>2 DEF Last
      <4> QED
        BY <1>4, <2>1, <2>3, <4>1 DEF LastAskedFor
    <3>2. Covered'
      BY <1>1, <1>3, <2>2, <3>1 DEF Covered, Known, AskedFor
    <3> QED
      BY <3>2 DEF MakesInTime
  <2>4. CASE ~LastAskedFor
    <3>1. bindings[n].created + RenewBefore + BindTime <= PutOff
      BY <2>2, <2>4 DEF MadeInTime
    <3>2. now + 1 + RenewBefore <= PutOff
      BY <1>4, <2>1, <3>1
    <3> QED
      BY <1>1, <1>3, <1>5, <3>2 DEF MakesInTime
  <2> QED
    BY <2>3, <2>4
<1> QED
  BY <1>6, <1>7

\* Those made last stay asked for, or not, while the client stays what it is.
LEMMA LastKept ==
    ASSUME TypeOK, MovesInv, [Next]_vars, Last' = Last
    PROVE  /\ \A n \in Last : /\ bindings'[n].created = bindings[n].created
                              /\ \A c : AskedFor(bindings'[n], c) <=> AskedFor(bindings[n], c)
                              /\ Known(n) => Known(n)'
           /\ client' = client => (LastAskedFor' <=> LastAskedFor)
<1>1. ASSUME NEW n \in Last
      PROVE  /\ bindings'[n].created = bindings[n].created
             /\ bindings'[n].target = bindings[n].target /\ bindings'[n].duration = bindings[n].duration
             /\ n \in Ids /\ bindings[n].phase # "absent"
  <2>1. n \in Ids /\ bindings[n].phase # "absent"
    BY DEF Last
  <2> QED
    BY <2>1, BindingsMoveOn DEF Past
<1>2. ASSUME NEW n \in Last, Known(n)
      PROVE  Known(n)'
  <2>1. cachedBindings'[n] = cachedBindings[n] \/ cachedBindings'[n] = bindings[n]
    BY <1>1, CacheCatchesUp
  <2> QED
    BY <1>1, <1>2, <2>1 DEF Known
<1>3. ASSUME NEW n \in Last, NEW c
      PROVE  AskedFor(bindings'[n], c) <=> AskedFor(bindings[n], c)
  BY <1>1 DEF AskedFor
<1> QED
  BY <1>1, <1>2, <1>3 DEF LastAskedFor

\* A client told of a change of its spec is not late, or is covered still.
LEMMA StaysInTime ==
    ASSUME RenewalLeavesTime, TypeOK, MovesInv, MadeInTime, MakesInTime, [Next]_vars,
           now' = now, client' = client, changes' = changes, Last' = Last,
           cachedClient' \in {cachedClient, client}
    PROVE  MadeInTime' /\ MakesInTime'
<1> SUFFICES ASSUME client.binding # None
             PROVE  MadeInTime' /\ MakesInTime'
  BY DEF MadeInTime, MakesInTime
<1>1. PutOff' = PutOff
  BY PutOffKept
<1>2. MadeInTime'
  BY <1>1, LastKept DEF MadeInTime
<1>3. ASSUME Covered, \A n \in Last : AskedFor(bindings[n], cachedClient')
      PROVE  Covered'
  BY <1>3, LastKept DEF Covered
<1>4. CASE cachedClient' = cachedClient
  <2>1. Covered => Covered'
    BY <1>3, <1>4 DEF Covered
  <2>2. AskedFor(cachedClient, client)' <=> AskedFor(cachedClient, client)
    BY <1>4 DEF AskedFor
  <2> QED
    BY <1>1, <1>2, <2>1, <2>2 DEF MakesInTime
<1>5. CASE cachedClient' = client
  <2>1. AskedFor(cachedClient, client)'
    BY <1>5 DEF AskedFor
  <2>2. CASE Covered /\ LastAskedFor
    BY <1>2, <1>3, <1>5, <2>2 DEF LastAskedFor, MakesInTime
  <2>3. CASE Covered /\ ~LastAskedFor
    <3>1. PICK n \in Last : now <= bindings[n].created + BindTime /\ n \in Ids
      BY <2>3 DEF Covered, Last
    <3>2. bindings[n].created + RenewBefore + BindTime <= PutOff
      BY <2>3, <3>1 DEF MadeInTime
    <3>3. now + RenewBefore <= PutOff
      BY <3>1, <3>2, Numbers, MoreNumbers, Slack
    <3> QED
      BY <1>1, <1>2, <2>1, <3>3 DEF MakesInTime
  <2>4. CASE ~Covered
    <3>1. now + RenewBefore <= PutOff
      BY <2>4 DEF MakesInTime
    <3> QED
      BY <1>1, <1>2, <2>1, <3>1 DEF MakesInTime
  <2> QED
    BY <2>2, <2>3, <2>4
<1> QED
  BY <1>4, <1>5

LEMMA NextMadeInTime ==
    ASSUME RenewalLeavesTime, TypeOK, TypeOK', MovesInv, SpecInv, GivenUpForLater, WaitsForLast,
           MadeInTime, MakesInTime, WritesInTime, [Next]_vars, ~StampFails
    PROVE  MadeInTime' /\ MakesInTime'
<1>1. CASE UpdateClientStatus /\ client' # client
  <2>1. client' = worker.want /\ client = worker.read
    BY <1>1 DEF UpdateClientStatus
  <2> QED
    BY <1>1, <2>1, MovesInTime
<1>2. CASE \E t \in Targets, d \in Durations : ChangeSpec(t, d)
  BY <1>2, ChangeInTime
<1>3. CASE ReconcileClient /\ Last' # Last
  BY <1>3, CreatesInTime
<1>4. CASE Tick
  <2>1. UNCHANGED <<client, cachedClient, bindings, cachedBindings, changes>> /\ Last' = Last
    BY <1>4 DEF Tick, bounds, Last
  <2>2. PutOff' = PutOff
    BY <2>1 DEF PutOff, ExpiresAfter
  <2>3. MadeInTime'
    BY <2>1, <2>2, LastKept DEF MadeInTime
  <2> QED
    BY <1>4, <2>3, TicksInTime
<1>5. CASE /\ now' = now /\ client' = client /\ changes' = changes
           /\ cachedClient' \in {cachedClient, client} /\ Last' = Last
  BY <1>5, StaysInTime
<1>6. CASE /\ ~(UpdateClientStatus /\ client' # client) /\ ~Tick
           /\ ~\E t \in Targets, d \in Durations : ChangeSpec(t, d)
  <2>1. now' = now /\ client' = client /\ changes' = changes /\ cachedClient' \in {cachedClient, client}
    BY <1>6 DEF Next, ClientControllerNext, ClientEnvironmentNext, ReconcileClient,
       UpdateClientStatus, TimerFires, BindingReconciled, BindingExpires, BindingFinalized,
       SyncClient, SyncBinding, Resync, Crash, bounds, vars
  <2> QED
    BY <1>3, <1>5, <2>1, LastMoves
<1> QED
  BY <1>1, <1>2, <1>4, <1>6

LEMMA InitInTime ==
    ASSUME TypeOK, Init
    PROVE  InTimeInv
<1>1. /\ client.binding = None /\ worker = Idle
      /\ \A n \in Ids : bindings[n].phase = "absent"
  BY DEF Init
<1>2. worker.pc # "status"
  BY <1>1 DEF Idle
<1> QED
  BY <1>1, <1>2 DEF InTimeInv, MadeInTime, MakesInTime, WritesInTime, OrdinaryServe

LEMMA NextInTime ==
    ASSUME RenewalLeavesTime, TypeOK, TypeOK', MovesInv, SpecInv, CurrentInv, InTimeInv,
           [Next]_vars
    PROVE  InTimeInv'
<1> SUFFICES ASSUME failures' = 0
             PROVE  (MadeInTime /\ MakesInTime /\ WritesInTime /\ OrdinaryServe)'
  BY DEF InTimeInv
<1>1. failures = 0 /\ ~StampFails
  BY FailuresBefore
<1> QED
  BY <1>1, NextMadeInTime, NextWritesInTime, NextOrdinary DEF InTimeInv, CurrentInv

\* What a client is given is made in time for it to be Ready when the one
\* before it expires: the timers and events that queue the client come before.
THEOREM InTimeInvariant ==
    ASSUME RenewalLeavesTime
    PROVE  Spec => []InTimeInv
<1>2. Spec => []CurrentInv
  BY TimeForReady, CurrentInvariant
<1>3. TypeOK /\ Init => InTimeInv
  BY InitInTime
<1>4. TypeOK /\ TypeOK' /\ MovesInv /\ SpecInv /\ CurrentInv /\ InTimeInv /\ [Next]_vars
         => InTimeInv'
  BY NextInTime
<1> QED
  BY <1>2, <1>3, <1>4, InitTypeOK, ClientTypes, MovesInvariant, SpecInvariant, PTL DEF Spec

\* What a client publishes serves: bindings of an ordinary duration are live and
\* in date, over restarts, stale caches and changes of the spec, as long as no
\* API call has failed.
THEOREM ClientIsServed ==
    ASSUME RenewalLeavesTime
    PROVE  Spec => [](failures = 0 => ClientBindingServes)
<1>1. TypeOK /\ MovesInv /\ CurrentInv /\ InTimeInv => (failures = 0 => ClientBindingServes)
  <2> SUFFICES ASSUME TypeOK, MovesInv, CurrentInv, InTimeInv, failures = 0, client.binding # None,
                      OrdinaryDuration(bindings[client.binding])
               PROVE  LET b == bindings[client.binding]
                      IN b.phase = "live" /\ ~b.expired /\ now <= ExpiresAfter(b)
    BY DEF ClientBindingServes
  <2>1. client.binding \in Ids /\ bindings[client.binding].phase # "absent"
    BY DEF TypeOK, ClientObject, MovesInv, Names, Known, Past
  <2>2. /\ now \in Nat /\ RenewBefore \in Nat /\ ExpiresAfter(bindings[client.binding]) \in Nat
        /\ \A n \in Ids : bindings[n].created \in Nat
    BY <2>1, Numbers, MoreNumbers
  <2>3. ASSUME now + RenewBefore <= PutOff
        PROVE  now <= ExpiresAfter(bindings[client.binding])
    BY <2>2, <2>3, Slack DEF PutOff
  <2>4. ASSUME Covered
        PROVE  now <= ExpiresAfter(bindings[client.binding])
    <3>1. PICK n \in Last : now <= bindings[n].created + BindTime /\ n \in Ids
      BY <2>4 DEF Covered, Last
    <3>2. bindings[n].created + RenewBefore <= PutOff
      BY <3>1 DEF InTimeInv, MadeInTime
    <3> QED
      BY <2>2, <3>1, <3>2, Slack DEF PutOff
  <2>5. now <= ExpiresAfter(bindings[client.binding])
    BY <2>3, <2>4 DEF InTimeInv, MakesInTime
  <2> QED
    BY <2>1, <2>5 DEF InTimeInv, OrdinaryServe
<1>3. Spec => []CurrentInv
  BY TimeForReady, CurrentInvariant
<1>4. Spec => []InTimeInv
  BY InTimeInvariant
<1> QED
  BY <1>1, <1>3, <1>4, ClientTypes, MovesInvariant, PTL
=============================================================================
