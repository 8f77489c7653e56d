------------------------ MODULE ServiceLifecycleProofs ----------------------
(***************************************************************************)
(* A lifecycle keeps its promises, for any number of instances, changes    *)
(* and faults.                                                             *)
(***************************************************************************)
EXTENDS ServiceLifecycleProperties, TLAPS

\* What is on a lifecycle's status was written with its finalizer in place.
Promised ==
    /\ lifecycle.phase = "absent" => ~lifecycle.finalizer
    /\ lifecycle.phase = "deleting" => lifecycle.finalizer
    /\ lifecycle.observed => lifecycle.finalizer

IInv == TypeOK /\ Promised

-----------------------------------------------------------------------------
\* The record shapes: a request or a user never leaves anything but an object.
LEMMA ObjectShapes ==
    ASSUME TypeOK
    PROVE  /\ \A v \in Nat : Absent(v) \in LifecycleObject /\ Created(v) \in LifecycleObject
           /\ WithFinalizer \in LifecycleObject
           /\ DesiredComposition \in CompositionObject
           /\ DesiredTrigger \in TriggerObject
           /\ NoComposition \in CompositionObject
           /\ NoTrigger \in TriggerObject /\ OthersTrigger \in TriggerObject
  <1>1. \A v \in Nat : Absent(v) \in LifecycleObject
    BY DEF Absent, LifecycleObject, Phases
  <1>2. \A v \in Nat : Created(v) \in LifecycleObject
    BY <1>1 DEF Created, LifecycleObject, Phases
  <1>3. WithFinalizer \in LifecycleObject
    BY DEF TypeOK, WithFinalizer, LifecycleObject
  <1>4. DesiredComposition \in CompositionObject
    <2>1. CASE cachedComposition.name = 0
      BY <2>1 DEF TypeOK, DesiredComposition, CompositionObject, LifecycleObject, Conditions
    <2>2. CASE cachedComposition.name # 0
      BY <2>2 DEF TypeOK, DesiredComposition, CompositionObject, LifecycleObject, Conditions
    <2>. QED  BY <2>1, <2>2
  <1>5. DesiredTrigger \in TriggerObject
    BY DEF TypeOK, DesiredTrigger, TriggerObject, CompositionObject, LifecycleObject, Conditions
  <1>6. /\ NoComposition \in CompositionObject
        /\ NoTrigger \in TriggerObject /\ OthersTrigger \in TriggerObject
    BY DEF NoComposition, CompositionObject, NoTrigger, OthersTrigger, TriggerObject, Conditions
  <1>. QED  BY <1>1, <1>2, <1>3, <1>4, <1>5, <1>6

\* The invariant holds at first.
LEMMA InitIInv == Init => IInv
  <1> SUFFICES ASSUME Init PROVE IInv
    OBVIOUS
  <1> USE DEF Init, StoreInit
  <1>1. lifecycle \in LifecycleObject /\ ~lifecycle.observed /\ lifecycle.phase = "live"
    BY DEF Created, Absent, LifecycleObject, Phases
  <1>2. /\ composition \in CompositionObject /\ cachedComposition \in CompositionObject
        /\ httpTrigger \in TriggerObject /\ cachedHttpTrigger \in TriggerObject
    BY DEF NoComposition, CompositionObject, NoTrigger, OthersTrigger, TriggerObject, Conditions
  <1>3. /\ instance \in [ServiceInstances -> Phases]
        /\ cachedInstances \subseteq ServiceInstances
    BY DEF Phases
  <1>4. changes \in 0..MaxChanges /\ faults \in 0..MaxFaults
    BY LifecycleBounds
  <1>. QED  BY <1>1, <1>2, <1>3, <1>4 DEF IInv, TypeOK, Promised

\* A request of a live lifecycle keeps its phase and version, and writes
\* a status only with the finalizer in place.
LEMMA LiveAnswers ==
    ASSUME TypeOK, ReconcileLive
    PROVE  /\ lifecycle' \in LifecycleObject
           /\ lifecycle'.phase = "live"
           /\ lifecycle'.finalizer
  <1>1. CASE ~lifecycle.finalizer
    <2>1. lifecycle.phase = "live" /\ lifecycle' = WithFinalizer
      BY <1>1 DEF ReconcileLive
    <2>2. lifecycle \in LifecycleObject
      BY DEF TypeOK
    <2>. QED  BY <2>1, <2>2 DEF WithFinalizer, LifecycleObject
  <1>2. CASE lifecycle.finalizer
    <2> USE <1>2 DEF TypeOK, LifecycleObject, HaltUnwritten, Halt, HaltTransient
    <2>0. lifecycle.phase = "live"
      BY DEF ReconcileLive
    <2>1. ASSUME WaitForComposition(lifecycle)
          PROVE  /\ lifecycle' \in LifecycleObject
                 /\ lifecycle'.phase = "live" /\ lifecycle'.finalizer
      BY <2>0, <2>1 DEF WaitForComposition
    <2>2. ASSUME WaitForTrigger([lifecycle EXCEPT !.composed = TRUE])
          PROVE  /\ lifecycle' \in LifecycleObject
                 /\ lifecycle'.phase = "live" /\ lifecycle'.finalizer
      BY <2>0, <2>2 DEF WaitForTrigger
    <2>3. ASSUME ReflectClient([lifecycle EXCEPT !.composed = TRUE, !.served = TRUE])
          PROVE  /\ lifecycle' \in LifecycleObject
                 /\ lifecycle'.phase = "live" /\ lifecycle'.finalizer
      <3>1. CASE UNCHANGED lifecycle
        BY <2>0, <3>1
      <3>2. CASE \E b \in BOOLEAN :
                    lifecycle' = [lifecycle EXCEPT !.composed = TRUE, !.served = TRUE,
                                                   !.configured = b, !.observed = TRUE]
        BY <2>0, <3>2
      <3>. QED  BY <2>3, <3>1, <3>2 DEF ReflectClient
    <2>. QED  BY <2>1, <2>2, <2>3 DEF ReconcileLive
  <1>. QED  BY <1>1, <1>2 DEF TypeOK, LifecycleObject

\* What a request of a live lifecycle makes of the children.
LEMMA LiveChildren ==
    ASSUME TypeOK, ReconcileLive
    PROVE  /\ composition' \in CompositionObject
           /\ httpTrigger' \in TriggerObject
           /\ made' \in Nat
           /\ tracked' \subseteq ServiceInstances \union {"client"}
           /\ queued' \in BOOLEAN
           /\ composition.name # 0 => composition'.name = composition.name
           /\ IsOurs(httpTrigger) => IsOurs(httpTrigger')
  <1> USE DEF TypeOK
  <1>0. DesiredComposition \in CompositionObject /\ DesiredTrigger \in TriggerObject
    BY ObjectShapes
  <1>1. ASSUME WaitForComposition(lifecycle)
        PROVE  /\ composition' \in CompositionObject /\ made' \in Nat
               /\ composition.name # 0 => composition'.name = composition.name
    BY <1>0, <1>1 DEF WaitForComposition, WriteComposition, DesiredComposition, CompositionObject
  <1>2. ASSUME NEW l, WaitForTrigger(l)
        PROVE  /\ httpTrigger' \in TriggerObject
               /\ IsOurs(httpTrigger) => IsOurs(httpTrigger')
    BY <1>0, <1>2 DEF WaitForTrigger, WriteTrigger, DesiredTrigger, IsOurs
  <1>3. CASE ~lifecycle.finalizer
    BY <1>3 DEF ReconcileLive, children
  <1>4. CASE lifecycle.finalizer
    <2>1. queued' \in BOOLEAN
      BY <1>4 DEF ReconcileLive
    <2>. QED  BY <1>1, <1>2, <1>4, <2>1 DEF ReconcileLive, children
  <1>. QED  BY <1>3, <1>4

\* A lifecycle that is being deleted is answered, or goes with its children.
LEMMA FinalizeEffect ==
    ASSUME TypeOK, FinalizeLifecycle
    PROVE  /\ lifecycle' \in LifecycleObject
           /\ composition' \in CompositionObject
           /\ httpTrigger' \in TriggerObject
           /\ made' \in Nat
           /\ tracked' \subseteq ServiceInstances \union {"client"}
           /\ queued' \in BOOLEAN
           /\ \/ /\ lifecycle'.phase = "deleting"
                 /\ lifecycle'.finalizer = lifecycle.finalizer
                 /\ UNCHANGED children
              \/ /\ cachedInstances = {}
                 /\ lifecycle' = Absent(lifecycle.version)
  <1> USE DEF TypeOK
  <1>0. lifecycle.version \in Nat
    BY DEF LifecycleObject
  <1>1. ASSUME NEW i \in cachedInstances,
               Halt([lifecycle EXCEPT !.blocked = TRUE])
        PROVE  /\ lifecycle' \in LifecycleObject
               /\ lifecycle'.phase = lifecycle.phase
               /\ lifecycle'.finalizer = lifecycle.finalizer
    BY <1>1 DEF Halt, LifecycleObject
  <1>2. ASSUME DeleteChildren
        PROVE  /\ composition' \in CompositionObject
               /\ httpTrigger' \in TriggerObject
               /\ made' \in Nat
    BY <1>2, ObjectShapes DEF DeleteChildren
  <1>3. Absent(lifecycle.version) \in LifecycleObject
    BY <1>0, ObjectShapes
  <1>4. CASE \E i \in cachedInstances :
                /\ tracked' = tracked \union {i}
                /\ Halt([lifecycle EXCEPT !.blocked = TRUE])
                /\ UNCHANGED children
    BY <1>1, <1>4 DEF FinalizeLifecycle, children
  <1>5. CASE /\ cachedInstances = {}
             /\ DeleteChildren
             /\ lifecycle' = Absent(lifecycle.version)
             /\ UNCHANGED tracked
    BY <1>2, <1>3, <1>5 DEF FinalizeLifecycle
  <1>. QED  BY <1>4, <1>5 DEF FinalizeLifecycle

\* A request that fails: its object is still one, and its children too.
LEMMA FailureEffect ==
    ASSUME TypeOK, FailsHalfWay \/ ChildFails
    PROVE  /\ lifecycle' \in LifecycleObject
           /\ lifecycle'.phase = lifecycle.phase
           /\ lifecycle'.finalizer = lifecycle.finalizer
           /\ lifecycle'.observed => lifecycle.observed \/ lifecycle.finalizer
           /\ composition' \in CompositionObject
           /\ httpTrigger' \in TriggerObject
           /\ made' \in Nat
           /\ tracked' = tracked
           /\ queued' \in BOOLEAN /\ unannounced' \in BOOLEAN
           /\ cachedInstances # {} =>
                 /\ composition.name # 0 => composition'.name = composition.name
                 /\ IsOurs(httpTrigger) => IsOurs(httpTrigger')
  <1> USE DEF TypeOK
  <1>0. /\ DesiredComposition \in CompositionObject /\ DesiredTrigger \in TriggerObject
        /\ NoComposition \in CompositionObject /\ NoTrigger \in TriggerObject
    BY ObjectShapes
  <1>1. ASSUME ~CompositionIsCurrent, composition = cachedComposition, WriteComposition
        PROVE  /\ composition' \in CompositionObject /\ made' \in Nat
               /\ composition.name # 0 => composition'.name = composition.name
    BY <1>0, <1>1 DEF WriteComposition, DesiredComposition, CompositionObject
  <1>2. ASSUME WriteTrigger
        PROVE  httpTrigger' \in TriggerObject /\ IsOurs(httpTrigger')
    BY <1>0, <1>2 DEF WriteTrigger, DesiredTrigger, IsOurs
  <1>3. ASSUME DeleteChildren
        PROVE  /\ composition' \in CompositionObject /\ httpTrigger' \in TriggerObject
               /\ made' \in Nat
    BY <1>0, <1>3 DEF DeleteChildren
  <1>4. CASE FailsHalfWay
    BY <1>1, <1>2, <1>3, <1>4 DEF FailsHalfWay, requests
  <1>5. CASE ChildFails
    <2>1. ASSUME NEW b \in BOOLEAN, HaltTransient([lifecycle EXCEPT !.composed = b])
          PROVE  /\ lifecycle' \in LifecycleObject
                 /\ lifecycle'.phase = lifecycle.phase
                 /\ lifecycle'.finalizer = lifecycle.finalizer
      BY <2>1 DEF HaltTransient, LifecycleObject
    <2>2. ASSUME HaltTransient([lifecycle EXCEPT !.composed = TRUE, !.served = FALSE])
          PROVE  /\ lifecycle' \in LifecycleObject
                 /\ lifecycle'.phase = lifecycle.phase
                 /\ lifecycle'.finalizer = lifecycle.finalizer
      BY <2>2 DEF HaltTransient, LifecycleObject
    <2>. QED  BY <1>5, <2>1, <2>2 DEF ChildFails, children
  <1>. QED  BY <1>4, <1>5

-----------------------------------------------------------------------------
(* Type correctness *)

\* A request leaves every variable in its type, also one that fails.
LEMMA RequestTypes ==
    ASSUME TypeOK, ControllerNext
    PROVE  TypeOK'
  <1>1. CASE ReconcileLifecycle
    <2>0. UNCHANGED <<surroundings, caches, changes, faults>> /\ unannounced' = FALSE
      BY <1>1 DEF ReconcileLifecycle
    <2>1. CASE ReconcileLive
      BY <2>0, <2>1, LiveAnswers, LiveChildren DEF TypeOK, surroundings, caches
    <2>2. CASE FinalizeLifecycle
      BY <2>0, <2>2, FinalizeEffect DEF TypeOK, surroundings, caches
    <2>. QED  BY <1>1, <2>1, <2>2 DEF ReconcileLifecycle
  <1>2. CASE RequestFails
    <2>1. UNCHANGED <<surroundings, caches, changes>> /\ faults' \in 0..MaxFaults
      BY <1>2, LifecycleBounds DEF RequestFails, TypeOK
    <2>2. FailsHalfWay \/ ChildFails
      BY <1>2 DEF RequestFails
    <2>. QED  BY <2>1, <2>2, FailureEffect DEF TypeOK, surroundings, caches
  <1>. QED  BY <1>1, <1>2 DEF ControllerNext

\* Neither do users, other controllers, informers or a restart.
LEMMA EnvironmentTypes ==
    ASSUME TypeOK, EnvironmentNext
    PROVE  TypeOK'
  <1> USE DEF TypeOK, children, surroundings, caches, requests
  <1>0. /\ \A v \in Nat : Absent(v) \in LifecycleObject /\ Created(v) \in LifecycleObject
        /\ NoComposition \in CompositionObject
        /\ NoTrigger \in TriggerObject /\ OthersTrigger \in TriggerObject
        /\ lifecycle.version \in Nat
    BY ObjectShapes DEF LifecycleObject
  <1>c. ASSUME Changes PROVE changes' \in 0..MaxChanges
    BY <1>c, LifecycleBounds DEF Changes
  <1>1. ASSUME LifecycleCreated PROVE TypeOK'
    BY <1>0, <1>c, <1>1 DEF LifecycleCreated
  <1>2. ASSUME LifecycleEdited PROVE TypeOK'
    <2>0. lifecycle' = [lifecycle EXCEPT !.version = lifecycle.version + 1, !.observed = FALSE]
      BY <1>2 DEF LifecycleEdited
    <2>1. lifecycle' \in LifecycleObject
      <3>. HIDE DEF TypeOK
      <3>1. lifecycle \in LifecycleObject
        BY DEF TypeOK
      <3>2. lifecycle.version + 1 \in Nat
        BY <1>0
      <3>. QED  BY <2>0, <3>1, <3>2 DEF LifecycleObject
    <2>. QED  BY <1>c, <1>2, <2>1 DEF LifecycleEdited
  <1>3. ASSUME LifecycleDeleted PROVE TypeOK'
    <2>1. lifecycle' \in LifecycleObject
      BY <1>0, <1>3 DEF LifecycleDeleted, LifecycleObject, Phases
    <2>2. queued' \in BOOLEAN
      BY <1>3 DEF LifecycleDeleted, LifecycleObject
    <2>. QED  BY <1>c, <1>3, <2>1, <2>2 DEF LifecycleDeleted
  <1>4. ASSUME ChildDeleted PROVE TypeOK'
    BY <1>0, <1>c, <1>4 DEF ChildDeleted
  <1>5. ASSUME ChildChanges PROVE TypeOK'
    <2>1. composition' \in CompositionObject /\ httpTrigger' \in TriggerObject
      BY <1>5 DEF ChildChanges, CompositionObject, TriggerObject, Conditions
    <2>. QED  BY <1>c, <1>5, <2>1 DEF ChildChanges
  <1>6. ASSUME NameIsTaken PROVE TypeOK'
    BY <1>0, <1>c, <1>6 DEF NameIsTaken
  <1>7. ASSUME NameIsFreed PROVE TypeOK'
    BY <1>0, <1>c, <1>7 DEF NameIsFreed
  <1>8. ASSUME NEW state \in Conditions \union {"missing"}, ClientChanges(state) PROVE TypeOK'
    BY <1>c, <1>8 DEF ClientChanges
  <1>9. ASSUME NEW state \in {"notReady", "ready"}, CompositionReports(state) PROVE TypeOK'
    <2>1. composition' \in CompositionObject
      BY <1>9 DEF CompositionReports, CompositionObject, Conditions
    <2>. QED  BY <1>9, <2>1 DEF CompositionReports
  <1>10. ASSUME NEW state \in {"notReady", "ready"}, TriggerReports(state) PROVE TypeOK'
    <2>1. httpTrigger' \in TriggerObject
      BY <1>10 DEF TriggerReports, TriggerObject, Conditions
    <2>. QED  BY <1>10, <2>1 DEF TriggerReports
  <1>11. ASSUME NEW state \in {"notReady", "ready"}, ClientReports(state) PROVE TypeOK'
    BY <1>11 DEF ClientReports, Conditions
  <1>12. ASSUME NEW i \in ServiceInstances, InstanceCreated(i) PROVE TypeOK'
    BY <1>c, <1>12 DEF InstanceCreated, Phases
  <1>13. ASSUME NEW i \in ServiceInstances, InstanceDeleted(i) PROVE TypeOK'
    BY <1>13 DEF InstanceDeleted, Phases
  <1>14. ASSUME NEW i \in ServiceInstances, InstanceFinalized(i) PROVE TypeOK'
    BY <1>14 DEF InstanceFinalized, Phases
  <1>15. ASSUME NEW i \in ServiceInstances, SyncInstance(i) PROVE TypeOK'
    BY <1>15 DEF SyncInstance
  <1>16. ASSUME SyncComposition PROVE TypeOK'
    BY <1>16 DEF SyncComposition
  <1>17. ASSUME SyncTrigger PROVE TypeOK'
    BY <1>17 DEF SyncTrigger
  <1>18. ASSUME Resync PROVE TypeOK'
    BY <1>18 DEF Resync
  <1>19. ASSUME Restart PROVE TypeOK'
    <2>1. faults' \in 0..MaxFaults
      BY <1>19, LifecycleBounds DEF Restart
    <2>2. cachedInstances' \subseteq ServiceInstances /\ tracked' = {}
      BY <1>19 DEF Restart
    <2>3. queued' \in BOOLEAN /\ unannounced' \in BOOLEAN
      BY <1>19 DEF Restart
    <2>. QED  BY <1>19, <2>1, <2>2, <2>3 DEF Restart
  <1>. QED
    BY <1>1, <1>2, <1>3, <1>4, <1>5, <1>6, <1>7, <1>8, <1>9, <1>10, <1>11, <1>12, <1>13,
       <1>14, <1>15, <1>16, <1>17, <1>18, <1>19 DEF EnvironmentNext

-----------------------------------------------------------------------------
(* Promises *)

\* What any step does to the lifecycle object: nothing; a change that keeps
\* its finalizer; or it goes, and then no instance is listed if it had one.
Kept ==
    /\ lifecycle'.phase # "absent"
    /\ lifecycle.finalizer => lifecycle'.finalizer
    /\ lifecycle'.phase = "deleting" => lifecycle'.finalizer
    /\ lifecycle'.observed => lifecycle'.finalizer

Gone ==
    /\ lifecycle'.phase = "absent"
    /\ ~lifecycle'.finalizer /\ ~lifecycle'.observed
    /\ lifecycle.finalizer => cachedInstances = {}

\* Every step keeps the finalizer or lets the lifecycle go.
LEMMA LifecycleSteps ==
    ASSUME IInv, Next
    PROVE  UNCHANGED lifecycle \/ Kept \/ Gone
  <1> USE DEF IInv, Promised
  <1>0. /\ lifecycle.phase \in Phases /\ lifecycle.finalizer \in BOOLEAN
        /\ lifecycle.version \in Nat /\ lifecycle.observed \in BOOLEAN
    BY DEF TypeOK, LifecycleObject
  <1>1. ASSUME ReconcileLive PROVE Kept
    BY <1>1, LiveAnswers DEF Kept
  <1>2. ASSUME FinalizeLifecycle PROVE Kept \/ Gone
    <2>1. lifecycle.finalizer
      BY <1>2 DEF FinalizeLifecycle
    <2>2. CASE lifecycle'.phase = "deleting" /\ lifecycle'.finalizer = lifecycle.finalizer
      BY <2>1, <2>2 DEF Kept
    <2>3. CASE cachedInstances = {} /\ lifecycle' = Absent(lifecycle.version)
      BY <2>3 DEF Gone, Absent
    <2>. QED  BY <1>2, <2>2, <2>3, FinalizeEffect
  <1>3. ASSUME RequestFails PROVE UNCHANGED lifecycle \/ Kept
    <2>1. CASE FailsHalfWay
      BY <2>1 DEF FailsHalfWay
    <2>2. CASE ChildFails
      <3>1. lifecycle.phase = "live" /\ lifecycle.finalizer
        BY <2>2 DEF ChildFails
      <3>. QED  BY <2>2, <3>1, FailureEffect DEF Kept
    <2>. QED  BY <1>3, <2>1, <2>2 DEF RequestFails
  <1>4. ASSUME LifecycleCreated PROVE Kept
    <2>. QED  BY <1>4 DEF LifecycleCreated, Kept, Created, Absent
  <1>5. ASSUME LifecycleEdited PROVE Kept
    BY <1>0, <1>5 DEF LifecycleEdited, Kept, TypeOK, LifecycleObject
  <1>6. ASSUME LifecycleDeleted PROVE Kept \/ Gone
    BY <1>0, <1>6 DEF LifecycleDeleted, Kept, Gone, Absent, TypeOK, LifecycleObject
  <1>7. ASSUME EnvironmentNext, ~LifecycleCreated, ~LifecycleEdited, ~LifecycleDeleted
        PROVE  UNCHANGED lifecycle
    BY <1>7 DEF EnvironmentNext, ChildDeleted, ChildChanges, NameIsTaken, NameIsFreed,
       ClientChanges, CompositionReports, TriggerReports, ClientReports, InstanceCreated,
       InstanceDeleted, InstanceFinalized, SyncInstance, SyncComposition, SyncTrigger,
       Resync, Restart
  <1>. QED
    BY <1>1, <1>2, <1>3, <1>4, <1>5, <1>6, <1>7 DEF Next, ControllerNext, ReconcileLifecycle

\* The invariant is inductive.
LEMMA StepIInv == IInv /\ [Next]_vars => IInv'
  <1> SUFFICES ASSUME IInv, [Next]_vars PROVE IInv'
    OBVIOUS
  <1>1. CASE Next
    <2>1. TypeOK'
      BY <1>1, RequestTypes, EnvironmentTypes DEF IInv, Next
    <2>2. Promised'
      <3>1. CASE UNCHANGED lifecycle
        BY <3>1 DEF IInv, Promised
      <3>2. CASE Kept
        BY <3>2 DEF Kept, Promised
      <3>3. CASE Gone
        BY <3>3 DEF Gone, Promised
      <3>. QED  BY <1>1, <3>1, <3>2, <3>3, LifecycleSteps
    <2>. QED  BY <2>1, <2>2 DEF IInv
  <1>2. CASE UNCHANGED vars
    BY <1>2 DEF IInv, TypeOK, Promised, vars, children, surroundings, caches, requests
  <1>. QED  BY <1>1, <1>2

\* Every variable has its type, for any number of instances, edits and faults:
\* whatever the requests, the API server and the informers do to it.
THEOREM LifecycleTypes == Spec => []TypeOK
  <1>1. Spec => []IInv
    BY InitIInv, StepIInv, PTL DEF Spec
  <1>. QED  BY <1>1, PTL DEF IInv

-----------------------------------------------------------------------------
(* The contract *)

\* What a reader makes of the lifecycle after a step that keeps it.
LEMMA KeptAvailability ==
    ASSUME IInv', Kept
    PROVE  /\ Availability' \in Contract!ContractStates \ {"absent"}
           /\ Contract!Reported(Availability') => lifecycle'.finalizer
  <1>0. lifecycle'.observed \in BOOLEAN /\ lifecycle'.phase # "absent"
    BY DEF IInv, TypeOK, LifecycleObject, Kept
  <1>1. CASE ~lifecycle'.observed
    <2>1. Availability' = "reconciling"
      BY <1>0, <1>1 DEF Availability
    <2>. QED  BY <2>1 DEF Contract!ContractStates, Contract!Reported
  <1>2. CASE lifecycle'.observed
    <2>1. Availability' = IF Ready(lifecycle)' THEN "ready" ELSE "notReady"
      BY <1>0, <1>2 DEF Availability
    <2>. QED  BY <1>2, <2>1 DEF Kept, Contract!ContractStates
  <1>. QED  BY <1>0, <1>1, <1>2

\* The lifecycle, in all its states and with its controller's stale lists,
\* failed requests and restarts, keeps the contract its instances rely on.
THEOREM LifecycleKeepsItsContract == Spec => ImplementsContract
  <1>1. Init => Contract!ContractInit
    BY DEF Init, StoreInit, Created, Absent, Availability, Contract!ContractInit
  <1>2. IInv /\ IInv' /\ [Next]_vars => [Contract!ContractNext]_<<Availability, lifecycle.finalizer>>
    <2> SUFFICES ASSUME IInv, IInv', [Next]_vars
                 PROVE  [Contract!ContractNext]_<<Availability, lifecycle.finalizer>>
      OBVIOUS
    <2>0. /\ lifecycle.finalizer \in BOOLEAN /\ lifecycle'.finalizer \in BOOLEAN
      BY DEF IInv, TypeOK, LifecycleObject
    <2>1. CASE UNCHANGED lifecycle
      BY <2>1 DEF Availability, Ready
    <2>2. CASE Kept
      <3>1. /\ Availability' \in Contract!ContractStates
            /\ Availability' # "absent"
            /\ Contract!Reported(Availability') => lifecycle'.finalizer
        BY <2>2, KeptAvailability
      <3>2. Contract!Change(Availability')
        BY <2>0, <2>2, <3>1 DEF Kept, Contract!Change
      <3>. QED  BY <3>1, <3>2 DEF Contract!ContractNext
    <2>3. CASE Gone
      <3>1. Availability' = "absent"
        BY <2>3 DEF Gone, Availability
      <3>2. Contract!Withdraw
        BY <2>0, <2>3, <3>1 DEF Gone, Contract!Withdraw
      <3>. QED  BY <3>2 DEF Contract!ContractNext
    <2>4. CASE UNCHANGED vars
      BY <2>1, <2>4 DEF vars
    <2>. QED  BY <2>1, <2>2, <2>3, <2>4, LifecycleSteps
  <1>3. Spec => []IInv
    BY InitIInv, StepIInv, PTL DEF Spec
  <1>. QED  BY <1>1, <1>2, <1>3, PTL DEF Spec, ImplementsContract, Contract!ContractSpec

-----------------------------------------------------------------------------
(* The service *)

\* No request, failed or not, takes a child away while an instance is listed.
THEOREM LifecycleKeepsServing == Spec => KeepsServing
  <1>1. IInv /\ [Next]_vars =>
           [changes' = changes /\ cachedInstances # {} =>
               /\ composition.name # 0 => composition'.name = composition.name
               /\ IsOurs(httpTrigger) => IsOurs(httpTrigger')]_vars
    <2> SUFFICES ASSUME IInv, Next, changes' = changes, cachedInstances # {}
                 PROVE  /\ composition.name # 0 => composition'.name = composition.name
                        /\ IsOurs(httpTrigger) => IsOurs(httpTrigger')
      OBVIOUS
    <2>0. TypeOK /\ changes \in Nat
      BY DEF IInv, TypeOK
    <2>1. CASE ReconcileLive
      BY <2>0, <2>1, LiveChildren
    <2>2. CASE FinalizeLifecycle
      BY <2>0, <2>2, FinalizeEffect DEF children
    <2>3. CASE RequestFails
      BY <2>0, <2>3, FailureEffect DEF RequestFails
    <2>4. ~Changes
      BY <2>0 DEF Changes
    <2>5. CASE \E state \in {"notReady", "ready"} : CompositionReports(state) \/ TriggerReports(state)
      BY <2>0, <2>5 DEF CompositionReports, TriggerReports, TypeOK, CompositionObject,
         TriggerObject, IsOurs
    <2>6. ASSUME EnvironmentNext,
                 ~\E state \in {"notReady", "ready"} : CompositionReports(state) \/ TriggerReports(state)
          PROVE  UNCHANGED <<composition, httpTrigger>>
      BY <2>4, <2>6 DEF EnvironmentNext, LifecycleCreated, LifecycleEdited, LifecycleDeleted,
         ChildDeleted, ChildChanges, NameIsTaken, NameIsFreed, ClientChanges, ClientReports,
         InstanceCreated, InstanceDeleted, InstanceFinalized, SyncInstance, SyncComposition,
         SyncTrigger, Resync, Restart, children
    <2>. QED
      BY <2>1, <2>2, <2>3, <2>5, <2>6 DEF Next, ControllerNext, ReconcileLifecycle
  <1>2. Spec => []IInv
    BY InitIInv, StepIInv, PTL DEF Spec
  <1>. QED  BY <1>1, <1>2, PTL DEF Spec, KeepsServing


-----------------------------------------------------------------------------
(* No change is missed *)

\* A child in a cache is not ahead of the child: what was made or changed since
\* is of another spec, or is gone.
CompositionPast ==
    /\ cachedComposition.name = 0 => cachedComposition.state = "pending"
    /\ composition.name = 0 => composition.state = "pending"
    /\ /\ cachedComposition.name = composition.name
       /\ cachedComposition.version = composition.version
       /\ composition.state = "pending"
       => cachedComposition.state = "pending"

TriggerPast ==
    /\ IsOurs(cachedHttpTrigger) /\ IsOurs(httpTrigger)
    /\ cachedHttpTrigger.composition = httpTrigger.composition
    /\ cachedHttpTrigger.version = httpTrigger.version
    /\ httpTrigger.state = "pending"
    => cachedHttpTrigger.state = "pending"

\* An event of the trigger is to come, and queues the lifecycle.
TriggerEventToCome ==
    /\ cachedHttpTrigger # httpTrigger
    /\ IsOurs(cachedHttpTrigger) \/ IsOurs(httpTrigger)

\* The last stage was reached, and tells of the client there is.
ClientReflected ==
    /\ "client" \in tracked
    /\ client # "pending" =>
          /\ lifecycle.observed /\ lifecycle.composed /\ lifecycle.served
          /\ lifecycle.configured <=> client = "ready"

\* The trigger that was asked for is waited for, or it is told of.
TriggerReflected ==
    /\ IsOurs(httpTrigger)
    /\ httpTrigger.composition = composition.name
    /\ httpTrigger.version = lifecycle.version
    /\ httpTrigger.state = "notReady" => ~lifecycle.served
    /\ httpTrigger.state = "ready" => ClientReflected

NameReflected == httpTrigger.owner = "other" /\ ~lifecycle.served

\* The same of the Composition.
CompositionReflected ==
    /\ composition.version = lifecycle.version
    /\ composition.state = "notReady" => ~lifecycle.composed
    /\ composition.state = "ready" =>
          TriggerEventToCome \/ NameReflected \/ TriggerReflected

\* Whoever does not queue a live lifecycle leaves it answered.
Answered ==
    lifecycle.phase = "live" /\ ~queued /\ ~unannounced =>
        cachedComposition # composition \/ CompositionReflected

AnsweredInv == CompositionPast /\ TriggerPast /\ Answered


-----------------------------------------------------------------------------
\* What is written to a child differs from what was read, and a child that is
\* as it should be is of the spec there is.
LEMMA WrittenDiffers ==
    ASSUME TypeOK
    PROVE  /\ DesiredComposition.version = lifecycle.version
           /\ DesiredComposition.name # 0
           /\ /\ DesiredComposition.name = cachedComposition.name
              /\ DesiredComposition.version = cachedComposition.version
              => CompositionIsCurrent
           /\ /\ IsOurs(cachedHttpTrigger)
              /\ DesiredTrigger.composition = cachedHttpTrigger.composition
              /\ DesiredTrigger.version = cachedHttpTrigger.version
              => TriggerIsCurrent
  <1>0. /\ made \in Nat /\ cachedComposition \in CompositionObject
        /\ cachedHttpTrigger \in TriggerObject
    BY DEF TypeOK
  <1>1. CASE cachedComposition.name = 0
    BY <1>0, <1>1 DEF DesiredComposition, CompositionIsCurrent, DesiredTrigger, TriggerIsCurrent,
       TriggerObject, IsOurs
  <1>2. CASE cachedComposition.name # 0
    BY <1>0, <1>2 DEF DesiredComposition, CompositionIsCurrent, CompositionObject,
       DesiredTrigger, TriggerIsCurrent, TriggerObject, IsOurs
  <1>. QED  BY <1>1, <1>2

\* What a step does to a child that informers know of: it is written as it was
\* read, it goes, its controller reports, or it is seen.
CompositionWritten ==
    /\ composition = cachedComposition /\ ~CompositionIsCurrent
    /\ composition' = DesiredComposition
    /\ UNCHANGED cachedComposition

CompositionLost == composition' = NoComposition /\ UNCHANGED cachedComposition

CompositionMoves ==
    /\ composition.name # 0
    /\ composition.state = "pending" \/ cachedComposition = composition
    /\ \E s \in {"notReady", "ready"} \ {composition.state} :
          composition' = [composition EXCEPT !.state = s]
    /\ UNCHANGED cachedComposition

CompositionSeen == cachedComposition' = composition /\ UNCHANGED composition

TriggerWritten ==
    /\ ~TriggerIsCurrent /\ CanWriteTrigger
    /\ httpTrigger' = DesiredTrigger
    /\ UNCHANGED cachedHttpTrigger

TriggerLost == ~IsOurs(httpTrigger') /\ UNCHANGED cachedHttpTrigger

TriggerMoves ==
    /\ IsOurs(httpTrigger)
    /\ httpTrigger.state = "pending" \/ cachedHttpTrigger = httpTrigger
    /\ \E s \in {"notReady", "ready"} \ {httpTrigger.state} :
          httpTrigger' = [httpTrigger EXCEPT !.state = s]
    /\ UNCHANGED cachedHttpTrigger

TriggerSeen == cachedHttpTrigger' = httpTrigger /\ UNCHANGED httpTrigger

\* These are all there are.
LEMMA ChildSteps ==
    ASSUME IInv, CompositionPast, Next
    PROVE  /\ \/ UNCHANGED <<composition, cachedComposition>>
              \/ CompositionWritten \/ CompositionLost \/ CompositionMoves \/ CompositionSeen
           /\ \/ UNCHANGED <<httpTrigger, cachedHttpTrigger>>
              \/ TriggerWritten \/ TriggerLost \/ TriggerMoves \/ TriggerSeen
  <1> DEFINE C == \/ UNCHANGED <<composition, cachedComposition>>
                  \/ CompositionWritten \/ CompositionLost \/ CompositionMoves \/ CompositionSeen
             T == \/ UNCHANGED <<httpTrigger, cachedHttpTrigger>>
                  \/ TriggerWritten \/ TriggerLost \/ TriggerMoves \/ TriggerSeen
  <1>0. UNCHANGED <<composition, httpTrigger>> /\ UNCHANGED caches => C /\ T
    BY DEF caches
  <1>d. ASSUME DeleteChildren, UNCHANGED caches PROVE C /\ T
    <2>1. C
      BY <1>d DEF DeleteChildren, CompositionLost, caches
    <2>2. TriggerLost
      BY <1>d DEF DeleteChildren, TriggerLost, IsOurs, NoTrigger, caches
    <2>. QED  BY <2>1, <2>2
  <1>1. ASSUME ReconcileLive, UNCHANGED caches PROVE C /\ T
    <2>1. CASE ~lifecycle.finalizer
      BY <1>0, <1>1, <2>1 DEF ReconcileLive, children
    <2>2. ASSUME WaitForComposition(lifecycle), UNCHANGED httpTrigger PROVE C /\ T
      BY <1>1, <2>2 DEF WaitForComposition, WriteComposition, CompositionWritten, caches
    <2>3. ASSUME WaitForTrigger([lifecycle EXCEPT !.composed = TRUE]), UNCHANGED composition
          PROVE  C /\ T
      BY <1>1, <2>3 DEF WaitForTrigger, WriteTrigger, TriggerWritten, caches
    <2>. QED  BY <1>0, <1>1, <2>1, <2>2, <2>3 DEF ReconcileLive, children
  <1>2. ASSUME FinalizeLifecycle, UNCHANGED caches PROVE C /\ T
    BY <1>0, <1>d, <1>2 DEF FinalizeLifecycle, children
  <1>3. ASSUME FailsHalfWay \/ ChildFails, UNCHANGED caches PROVE C /\ T
    <2>1. ASSUME WriteComposition, UNCHANGED httpTrigger, ~CompositionIsCurrent,
                 composition = cachedComposition
          PROVE  C /\ T
      BY <1>3, <2>1 DEF WriteComposition, CompositionWritten, caches
    <2>2. ASSUME WriteTrigger, UNCHANGED composition, ~TriggerIsCurrent, CanWriteTrigger
          PROVE  C /\ T
      BY <1>3, <2>2 DEF WriteTrigger, TriggerWritten, caches
    <2>. QED  BY <1>0, <1>d, <1>3, <2>1, <2>2 DEF FailsHalfWay, ChildFails, children
  <1>4. ASSUME ChildDeleted PROVE C /\ T
    BY <1>4 DEF ChildDeleted, CompositionLost, TriggerLost, IsOurs, NoTrigger, caches
  <1>5. ASSUME ChildChanges PROVE C /\ T
    BY <1>5 DEF ChildChanges, CompositionMoves, TriggerMoves, CompositionPast, IsOurs, Serving, caches
  <1>6. ASSUME NameIsTaken \/ NameIsFreed PROVE C /\ T
    BY <1>6 DEF NameIsTaken, NameIsFreed, TriggerLost, IsOurs, NoTrigger, OthersTrigger, caches
  <1>7. ASSUME NEW state \in {"notReady", "ready"},
               CompositionReports(state) \/ TriggerReports(state)
        PROVE  C /\ T
    BY <1>7 DEF CompositionReports, TriggerReports, CompositionMoves, TriggerMoves, caches
  <1>8. ASSUME SyncComposition \/ SyncTrigger \/ Restart PROVE C /\ T
    BY <1>8 DEF SyncComposition, SyncTrigger, Restart, CompositionSeen, TriggerSeen, children, caches
  <1>9. ASSUME NEW i \in ServiceInstances, SyncInstance(i) PROVE C /\ T
    BY <1>9 DEF SyncInstance, children
  <1>10. ASSUME \/ LifecycleCreated \/ LifecycleEdited \/ LifecycleDeleted \/ Resync
                \/ \E state \in Conditions \union {"missing"} : ClientChanges(state)
                \/ \E state \in {"notReady", "ready"} : ClientReports(state)
                \/ \E i \in ServiceInstances :
                      InstanceCreated(i) \/ InstanceDeleted(i) \/ InstanceFinalized(i)
         PROVE  UNCHANGED <<composition, httpTrigger>> /\ UNCHANGED caches
    BY <1>10 DEF LifecycleCreated, LifecycleEdited, LifecycleDeleted, Resync, ClientChanges,
       ClientReports, InstanceCreated, InstanceDeleted, InstanceFinalized, children
  <1>. HIDE DEF C, T
  <1>11. C /\ T
    BY <1>0, <1>1, <1>2, <1>3, <1>4, <1>5, <1>6, <1>7, <1>8, <1>9, <1>10
       DEF Next, ControllerNext, EnvironmentNext, ReconcileLifecycle, RequestFails
  <1>. QED  BY <1>11 DEF C, T

\* A cache stays behind, whatever comes.
LEMMA PastStep ==
    ASSUME IInv, CompositionPast, TriggerPast, [Next]_vars
    PROVE  CompositionPast' /\ TriggerPast'
  <1> USE DEF CompositionPast, TriggerPast
  <1>0. TypeOK
    BY DEF IInv
  <1>t. /\ composition \in CompositionObject /\ cachedComposition \in CompositionObject
        /\ httpTrigger \in TriggerObject /\ cachedHttpTrigger \in TriggerObject
    BY <1>0 DEF TypeOK
  <1>1. CASE Next
    <2>1. CompositionPast'
      <3>1. CASE UNCHANGED <<composition, cachedComposition>>
        BY <3>1
      <3>2. CASE CompositionWritten
        BY <1>0, <3>2, WrittenDiffers DEF CompositionWritten
      <3>3. CASE CompositionLost
        BY <3>3 DEF CompositionLost, NoComposition
      <3>4. CASE CompositionMoves
        BY <1>t, <3>4 DEF CompositionMoves, CompositionObject
      <3>5. CASE CompositionSeen
        BY <3>5 DEF CompositionSeen
      <3>. QED  BY <1>1, <3>1, <3>2, <3>3, <3>4, <3>5, ChildSteps
    <2>2. TriggerPast'
      <3>1. CASE UNCHANGED <<httpTrigger, cachedHttpTrigger>>
        BY <3>1 DEF IsOurs
      <3>2. CASE TriggerWritten
        BY <1>0, <3>2, WrittenDiffers DEF TriggerWritten, IsOurs
      <3>3. CASE TriggerLost
        BY <3>3 DEF TriggerLost
      <3>4. CASE TriggerMoves
        BY <1>t, <3>4 DEF TriggerMoves, TriggerObject, IsOurs
      <3>5. CASE TriggerSeen
        BY <3>5 DEF TriggerSeen, IsOurs
      <3>. QED  BY <1>1, <3>1, <3>2, <3>3, <3>4, <3>5, ChildSteps
    <2>. QED  BY <2>1, <2>2
  <1>2. CASE UNCHANGED vars
    BY <1>2 DEF vars, children, caches
  <1>. QED  BY <1>1, <1>2


\* A request that is over leaves the lifecycle answered, or an event to come.
LEMMA RequestAnswers ==
    ASSUME IInv, queued, ReconcileLive, UNCHANGED <<surroundings, caches>>
    PROVE  Answered'
  <1>0. TypeOK
    BY DEF IInv
  <1>l. lifecycle \in LifecycleObject
    BY <1>0 DEF TypeOK
  <1>u. UNCHANGED <<client, cachedComposition, cachedHttpTrigger>>
    BY DEF surroundings, caches
  <1>1. CASE ~lifecycle.finalizer
    BY <1>1 DEF ReconcileLive, Answered
  <1>2. ASSUME WaitForComposition(lifecycle) PROVE Answered'
    <2>1. CASE ~CompositionIsCurrent /\ composition = cachedComposition /\ WriteComposition
      <3>1. composition' # cachedComposition'
        BY <1>u, <2>1 DEF WriteComposition, CompositionIsCurrent
      <3>. QED  BY <3>1 DEF Answered
    <2>2. CASE composition # cachedComposition /\ UNCHANGED composition
      BY <1>u, <2>2 DEF Answered
    <2>3. CASE CompositionIsCurrent /\ cachedComposition.state = "pending"
               /\ HaltUnwritten /\ UNCHANGED composition
      <3>1. cachedComposition.version = lifecycle'.version
        BY <1>0, <2>3, WrittenDiffers DEF CompositionIsCurrent, HaltUnwritten
      <3>. QED  BY <1>u, <2>3, <3>1 DEF Answered, CompositionReflected
    <2>4. CASE CompositionIsCurrent /\ cachedComposition.state = "notReady"
               /\ Halt([lifecycle EXCEPT !.composed = FALSE]) /\ UNCHANGED composition
      <3>1. lifecycle'.version = lifecycle.version /\ ~lifecycle'.composed
        BY <1>l, <2>4 DEF Halt, LifecycleObject
      <3>2. cachedComposition.version = lifecycle'.version
        BY <1>0, <2>4, <3>1, WrittenDiffers DEF CompositionIsCurrent
      <3>. QED  BY <1>u, <2>4, <3>1, <3>2 DEF Answered, CompositionReflected
    <2>. QED  BY <1>2, <2>1, <2>2, <2>3, <2>4 DEF WaitForComposition
  <1>r. ASSUME CompositionReady, UNCHANGED composition, lifecycle'.version = lifecycle.version,
               cachedComposition = composition =>
                  TriggerEventToCome' \/ NameReflected' \/ TriggerReflected'
        PROVE  Answered'
    <2>1. cachedComposition.version = lifecycle'.version /\ cachedComposition.state = "ready"
      BY <1>0, <1>r, WrittenDiffers DEF CompositionIsCurrent, CompositionReady
    <2>. QED  BY <1>u, <1>r, <2>1 DEF Answered, CompositionReflected
  <1>c. ASSUME TriggerIsCurrent, UNCHANGED httpTrigger, ~TriggerEventToCome'
        PROVE  /\ IsOurs(httpTrigger) /\ cachedHttpTrigger = httpTrigger
               /\ httpTrigger.composition = cachedComposition.name
               /\ httpTrigger.version = lifecycle.version
    BY <1>u, <1>c DEF TriggerIsCurrent, DesiredTrigger, TriggerEventToCome, IsOurs
  <1>3. ASSUME CompositionReady, UNCHANGED composition,
               WaitForTrigger([lifecycle EXCEPT !.composed = TRUE])
        PROVE  Answered'
    <2> DEFINE l == [lifecycle EXCEPT !.composed = TRUE]
    <2>0. /\ l \in LifecycleObject /\ l.version = lifecycle.version
      BY <1>l DEF LifecycleObject
    <2>v. lifecycle'.version = lifecycle.version
      <3>1. ASSUME HaltUnwritten PROVE lifecycle'.version = lifecycle.version
        BY <3>1 DEF HaltUnwritten
      <3>2. ASSUME HaltTransient([l EXCEPT !.served = FALSE]) \/ Halt([l EXCEPT !.served = FALSE])
            PROVE  lifecycle'.version = lifecycle.version
        BY <1>l, <3>2 DEF HaltTransient, Halt, LifecycleObject
      <3>. QED  BY <1>3, <3>1, <3>2 DEF WaitForTrigger
    <2>s. ASSUME Halt([l EXCEPT !.served = FALSE]) PROVE ~lifecycle'.served
      BY <1>l, <2>s DEF Halt, LifecycleObject
    <2>1. CASE ~TriggerIsCurrent /\ CanWriteTrigger /\ WriteTrigger
      <3>1. TriggerEventToCome'
        <4>1. IsOurs(httpTrigger')
          BY <2>1 DEF WriteTrigger, DesiredTrigger, IsOurs
        <4>2. httpTrigger' # cachedHttpTrigger
          BY <2>1, <4>1 DEF WriteTrigger, TriggerIsCurrent
        <4>. QED  BY <1>u, <4>1, <4>2 DEF TriggerEventToCome
      <3>. QED  BY <1>3, <1>r, <2>v, <3>1
    <2>2. CASE ~CanWriteTrigger /\ IsOurs(cachedHttpTrigger) /\ UNCHANGED httpTrigger
      <3>1. TriggerEventToCome'
        BY <1>u, <2>2 DEF TriggerEventToCome, CanWriteTrigger, IsOurs
      <3>. QED  BY <1>3, <1>r, <2>v, <3>1
    <2>3. CASE /\ ~CanWriteTrigger /\ ~IsOurs(cachedHttpTrigger) /\ UNCHANGED httpTrigger
               /\ Halt([l EXCEPT !.served = FALSE])
      <3>1. httpTrigger.owner = "other"
        <4>1. httpTrigger.owner \in {"none", "own", "other"}
          BY <1>0 DEF TypeOK, TriggerObject
        <4>. QED  BY <2>3, <4>1 DEF CanWriteTrigger, ReconcileLive, ChildrenDelivered, IsOurs
      <3>2. NameReflected'
        BY <2>3, <2>s, <3>1 DEF NameReflected
      <3>. QED  BY <1>3, <1>r, <2>v, <3>2
    <2>4. CASE TriggerIsCurrent /\ cachedHttpTrigger.state = "pending" /\ UNCHANGED httpTrigger
      BY <1>3, <1>c, <1>r, <2>4, <2>v DEF TriggerReflected, IsOurs
    <2>5. CASE /\ TriggerIsCurrent /\ cachedHttpTrigger.state = "notReady" /\ UNCHANGED httpTrigger
               /\ Halt([l EXCEPT !.served = FALSE])
      BY <1>3, <1>c, <1>r, <2>5, <2>s, <2>v DEF TriggerReflected, IsOurs
    <2>. QED  BY <1>3, <2>1, <2>2, <2>3, <2>4, <2>5 DEF WaitForTrigger
  <1>4. ASSUME CompositionReady, TriggerIsReady, UNCHANGED children, "client" \in tracked',
               ReflectClient([lifecycle EXCEPT !.composed = TRUE, !.served = TRUE])
        PROVE  Answered'
    <2>1. UNCHANGED <<composition, httpTrigger>>
      BY <1>4 DEF children
    <2>2. CASE client = "pending" /\ HaltUnwritten
      <3>1. ClientReflected' /\ lifecycle'.version = lifecycle.version
        BY <1>u, <1>4, <2>2 DEF ClientReflected, HaltUnwritten
      <3>. QED  BY <1>4, <1>c, <1>r, <2>1, <3>1 DEF TriggerIsReady, TriggerReflected, IsOurs
    <2>3. CASE Halt([[lifecycle EXCEPT !.composed = TRUE, !.served = TRUE]
                        EXCEPT !.configured = client = "ready"])
      <3>1. /\ lifecycle'.version = lifecycle.version
            /\ lifecycle'.observed /\ lifecycle'.composed /\ lifecycle'.served
        BY <1>l, <2>3 DEF Halt, LifecycleObject
      <3>2. lifecycle'.configured <=> client = "ready"
        BY <1>l, <2>3 DEF Halt, LifecycleObject
      <3>3. ClientReflected'
        BY <1>u, <1>4, <3>1, <3>2 DEF ClientReflected
      <3>. QED  BY <1>4, <1>c, <1>r, <2>1, <3>1, <3>3 DEF TriggerIsReady, TriggerReflected, IsOurs
    <2>. QED  BY <1>4, <2>2, <2>3 DEF ReflectClient
  <1>5. "client" \in tracked \union {"client"}
    OBVIOUS
  <1>. QED
    BY <1>1, <1>2, <1>3, <1>4, <1>5 DEF ReconcileLive


\* What happens to a lifecycle that is at rest, apart from requests.
RestStep ==
    /\ lifecycle.phase = "live" /\ ~queued /\ ~unannounced
    /\ UNCHANGED <<lifecycle, tracked>>
    /\ UNCHANGED cachedComposition

\* What leaves a lifecycle at rest is a step of another's, of which the
\* lifecycle is not told.
LEMMA RestSteps ==
    ASSUME IInv, Next, ~ReconcileLifecycle,
           lifecycle'.phase = "live", ~queued', ~unannounced'
    PROVE  /\ RestStep
           /\ \/ ChildDeleted \/ ChildChanges \/ NameIsTaken
              \/ \E state \in Conditions \union {"missing"} : ClientChanges(state)
              \/ \E state \in {"notReady", "ready"} :
                    CompositionReports(state) \/ TriggerReports(state) \/ ClientReports(state)
              \/ SyncTrigger
              \/ UNCHANGED <<children, client, cachedHttpTrigger>>
  <1>0. TypeOK
    BY DEF IInv
  <1>t. queued \in BOOLEAN /\ unannounced \in BOOLEAN
    BY <1>0 DEF TypeOK
  <1>2. ~RequestFails
    BY DEF RequestFails, FailsHalfWay, ChildFails, requests
  <1>3. ~LifecycleCreated /\ ~LifecycleEdited
    BY DEF LifecycleCreated, LifecycleEdited
  <1>4. ~LifecycleDeleted
    BY <1>0 DEF LifecycleDeleted, TypeOK, LifecycleObject, Absent
  <1>5. ~NameIsFreed
    BY DEF NameIsFreed
  <1>6. ~SyncComposition /\ ~Resync /\ ~Restart
    BY DEF SyncComposition, Resync, Restart
  <1>7. CASE \/ ChildDeleted \/ ChildChanges \/ NameIsTaken
             \/ \E state \in {"notReady", "ready"} : CompositionReports(state) \/ TriggerReports(state)
    BY <1>t, <1>7 DEF ChildDeleted, ChildChanges, NameIsTaken, CompositionReports,
       TriggerReports, RestStep, requests, caches
  <1>8. CASE \/ \E state \in Conditions \union {"missing"} : ClientChanges(state)
             \/ \E state \in {"notReady", "ready"} : ClientReports(state)
    BY <1>t, <1>8 DEF ClientChanges, ClientReports, RestStep, caches
  <1>9. CASE SyncTrigger
    BY <1>t, <1>9 DEF SyncTrigger, RestStep
  <1>10. CASE \E i \in ServiceInstances :
                 InstanceCreated(i) \/ InstanceDeleted(i) \/ InstanceFinalized(i) \/ SyncInstance(i)
    BY <1>t, <1>10 DEF InstanceCreated, InstanceDeleted, InstanceFinalized, SyncInstance,
       RestStep, requests, caches, surroundings
  <1>. QED
    BY <1>2, <1>3, <1>4, <1>5, <1>6, <1>7, <1>8, <1>9, <1>10
       DEF Next, ControllerNext, EnvironmentNext

\* A change that does not queue the lifecycle is one it is told of later, or
\* that its answer does not depend on.
LEMMA AnsweredStep ==
    ASSUME IInv, AnsweredInv, [Next]_vars
    PROVE  Answered'
  <1>0. TypeOK /\ CompositionPast /\ TriggerPast /\ Answered
    BY DEF IInv, AnsweredInv
  <1>t. /\ composition \in CompositionObject /\ cachedComposition \in CompositionObject
        /\ httpTrigger \in TriggerObject /\ cachedHttpTrigger \in TriggerObject
        /\ queued \in BOOLEAN /\ unannounced \in BOOLEAN
    BY <1>0 DEF TypeOK
  <1>1. CASE UNCHANGED vars
    <2>1. /\ UNCHANGED <<lifecycle, queued, unannounced, client, tracked>>
          /\ UNCHANGED <<composition, cachedComposition, httpTrigger, cachedHttpTrigger>>
      BY <1>1 DEF vars, children, surroundings, caches, requests
    <2>. QED
      BY <1>0, <2>1 DEF Answered, CompositionReflected, TriggerEventToCome, NameReflected,
         TriggerReflected, ClientReflected, IsOurs
  <1>2. CASE ReconcileLifecycle
    <2>1. CASE ReconcileLive
      BY <1>2, <2>1, RequestAnswers DEF ReconcileLifecycle
    <2>2. CASE FinalizeLifecycle
      <3>1. lifecycle'.phase # "live"
        BY <1>0, <2>2, FinalizeEffect DEF Absent
      <3>. QED  BY <3>1 DEF Answered
    <2>. QED  BY <1>2, <2>1, <2>2 DEF ReconcileLifecycle
  <1>3. CASE Next /\ ~ReconcileLifecycle
    <2> SUFFICES ASSUME lifecycle'.phase = "live", ~queued', ~unannounced'
                 PROVE  cachedComposition' # composition' \/ CompositionReflected'
      BY DEF Answered
    <2>r. RestStep
      BY <1>3, RestSteps
    <2>a. cachedComposition # composition \/ CompositionReflected
      BY <1>0, <2>r DEF Answered, RestStep
    <2>c. /\ UNCHANGED <<lifecycle, tracked, cachedComposition>>
      BY <2>r DEF RestStep
    <2>1. ASSUME UNCHANGED <<composition, client>>,
                 CompositionReflected /\ composition.state = "ready" =>
                    \/ TriggerEventToCome' \/ NameReflected'
                    \/ UNCHANGED <<httpTrigger, cachedHttpTrigger>>
          PROVE  cachedComposition' # composition' \/ CompositionReflected'
      BY <2>1, <2>a, <2>c DEF CompositionReflected, TriggerEventToCome, NameReflected,
         TriggerReflected, ClientReflected, IsOurs
    <2>2. CASE ChildDeleted
      <3>1. CASE composition.name # 0 /\ cachedComposition.name = composition.name
                 /\ composition' = NoComposition
        BY <2>c, <3>1 DEF NoComposition
      <3>2. CASE IsOurs(cachedHttpTrigger) /\ httpTrigger' = NoTrigger /\ UNCHANGED composition
        <4>1. TriggerEventToCome'
          BY <2>2, <3>2 DEF ChildDeleted, caches, TriggerEventToCome, IsOurs, NoTrigger
        <4>. QED  BY <2>1, <2>2, <3>2, <4>1 DEF ChildDeleted, surroundings
      <3>. QED  BY <2>2, <3>1, <3>2 DEF ChildDeleted
    <2>3. CASE ChildChanges
      <3>1. CASE cachedComposition = composition /\ composition.state = "ready"
                 /\ composition' = [composition EXCEPT !.state = "notReady"]
        BY <1>t, <2>c, <3>1 DEF CompositionObject
      <3>2. CASE /\ Serving /\ cachedHttpTrigger = httpTrigger /\ UNCHANGED composition
                 /\ httpTrigger' = [httpTrigger EXCEPT !.state = "notReady"]
        <4>1. TriggerEventToCome'
          BY <1>t, <2>3, <3>2 DEF ChildChanges, caches, TriggerEventToCome, IsOurs, Serving,
             TriggerObject
        <4>. QED  BY <2>1, <2>3, <3>2, <4>1 DEF ChildChanges, surroundings
      <3>. QED  BY <2>3, <3>1, <3>2 DEF ChildChanges
    <2>4. CASE NameIsTaken
      <3>1. UNCHANGED <<composition, client, cachedHttpTrigger>>
        BY <2>4 DEF NameIsTaken, surroundings, caches
      <3>2. CompositionReflected /\ composition.state = "ready" => TriggerEventToCome'
        BY <2>4, <3>1 DEF NameIsTaken, CompositionReflected, TriggerEventToCome, NameReflected,
           TriggerReflected, IsOurs, OthersTrigger, NoTrigger
      <3>. QED  BY <2>1, <3>1, <3>2
    <2>5. ASSUME NEW state \in {"notReady", "ready"}, CompositionReports(state)
          PROVE  cachedComposition' # composition' \/ CompositionReflected'
      <3>1. cachedComposition' # composition'
        BY <1>0, <1>t, <2>c, <2>5 DEF CompositionReports, CompositionPast, CompositionObject
      <3>. QED  BY <3>1
    <2>6. ASSUME NEW state \in {"notReady", "ready"}, TriggerReports(state)
          PROVE  cachedComposition' # composition' \/ CompositionReflected'
      <3>1. UNCHANGED <<composition, client, cachedHttpTrigger>>
        BY <2>6 DEF TriggerReports, surroundings, caches
      <3>2. TriggerEventToCome'
        BY <1>0, <1>t, <2>6, <3>1 DEF TriggerReports, TriggerPast, TriggerObject,
           TriggerEventToCome, IsOurs
      <3>. QED  BY <2>1, <3>1, <3>2
    <2>7. CASE \/ \E state \in Conditions \union {"missing"} : ClientChanges(state)
               \/ \E state \in {"notReady", "ready"} : ClientReports(state)
      <3>1. /\ UNCHANGED <<composition, httpTrigger, cachedHttpTrigger>>
            /\ "client" \notin tracked
        BY <2>7 DEF ClientChanges, ClientReports, children, caches
      <3>. QED
        BY <2>a, <2>c, <3>1 DEF CompositionReflected, TriggerEventToCome, NameReflected,
           TriggerReflected, ClientReflected, IsOurs
    <2>8. CASE SyncTrigger
      <3>1. /\ UNCHANGED <<composition, client, httpTrigger>>
            /\ ~IsOurs(httpTrigger) /\ ~IsOurs(cachedHttpTrigger)
        BY <2>8, <2>r DEF SyncTrigger, children, surroundings, RestStep
      <3>2. CompositionReflected /\ composition.state = "ready" => NameReflected'
        BY <2>c, <3>1 DEF CompositionReflected, TriggerEventToCome, NameReflected, TriggerReflected
      <3>. QED  BY <2>1, <3>1, <3>2
    <2>9. CASE UNCHANGED <<children, client, cachedHttpTrigger>>
      BY <2>1, <2>9 DEF children
    <2>. QED  BY <1>3, <2>2, <2>3, <2>4, <2>5, <2>6, <2>7, <2>8, <2>9, RestSteps
  <1>. QED  BY <1>1, <1>2, <1>3

\* At first the lifecycle is queued, and nothing is made yet.
LEMMA InitAnswered == Init => AnsweredInv
  BY DEF Init, StoreInit, AnsweredInv, CompositionPast, TriggerPast, Answered, NoComposition,
     NoTrigger, OthersTrigger, IsOurs

\* What has been answered is true of the children and the client there are.
LEMMA AnsweredIsHonest ==
    ASSUME TypeOK, Answered
    PROVE  QuietLifecycleIsHonest
  <1> SUFFICES ASSUME QuietLifecycle, lifecycle.phase = "live"
               PROVE  /\ Availability = "ready" =>
                            /\ composition.version = lifecycle.version
                            /\ composition.state # "pending" =>
                                  /\ CompositionServes
                                  /\ IsOurs(httpTrigger)
                                  /\ httpTrigger.state # "pending" =>
                                        TriggerServes /\ client \in {"ready", "pending"}
                      /\ CompositionServes /\ TriggerServes /\ client = "ready" =>
                            Availability = "ready"
    BY DEF QuietLifecycleIsHonest
  <1>0. /\ composition.state \in Conditions /\ httpTrigger.state \in Conditions
        /\ lifecycle.phase # "absent"
        /\ lifecycle.observed \in BOOLEAN
    BY DEF TypeOK, CompositionObject, TriggerObject, LifecycleObject
  <1>1. Availability = "ready" <=> (lifecycle.observed /\ Ready(lifecycle))
    <2>1. CASE ~lifecycle.observed
      BY <1>0, <2>1 DEF Availability
    <2>2. CASE lifecycle.observed
      <3>1. Availability = IF Ready(lifecycle) THEN "ready" ELSE "notReady"
        BY <1>0, <2>2 DEF Availability
      <3>. QED  BY <2>2, <3>1
    <2>. QED  BY <1>0, <2>1, <2>2
  <1>2. CompositionReflected /\ ~TriggerEventToCome
    BY DEF QuietLifecycle, Answered, TriggerEventToCome
  <1>3. ASSUME Availability = "ready", composition.state # "pending"
        PROVE  /\ CompositionServes
               /\ IsOurs(httpTrigger)
               /\ httpTrigger.state # "pending" =>
                     TriggerServes /\ client \in {"ready", "pending"}
    <2>1. lifecycle.composed /\ lifecycle.served /\ lifecycle.configured
      BY <1>1, <1>3 DEF Ready
    <2>2. composition.state = "ready" /\ TriggerReflected
      BY <1>0, <1>2, <1>3, <2>1 DEF CompositionReflected, NameReflected, Conditions
    <2>3. httpTrigger.state # "pending" => httpTrigger.state = "ready" /\ ClientReflected
      BY <1>0, <2>1, <2>2 DEF TriggerReflected, Conditions
    <2>4. ClientReflected => client \in {"ready", "pending"}
      BY <2>1 DEF ClientReflected
    <2>. QED
      BY <1>2, <2>2, <2>3, <2>4
         DEF CompositionServes, CompositionReflected, TriggerServes, TriggerReflected, Serving, IsOurs
  <1>4. ASSUME CompositionServes, TriggerServes, client = "ready"
        PROVE  Availability = "ready"
    <2>1. TriggerReflected
      BY <1>2, <1>4
         DEF CompositionServes, CompositionReflected, TriggerServes, Serving, NameReflected
    <2>2. ClientReflected
      BY <1>4, <2>1 DEF TriggerServes, Serving, TriggerReflected
    <2>. QED  BY <1>1, <1>4, <2>2 DEF ClientReflected, Ready
  <1>5. Availability = "ready" => composition.version = lifecycle.version
    BY <1>2 DEF CompositionReflected
  <1>. QED  BY <1>3, <1>4, <1>5

\* However changes of the children, the client and the trigger's name, failed
\* requests and restarts fall between its requests, a lifecycle at rest is Ready
\* exactly when it can be used, up to what is being reconciled.
THEOREM LifecycleIsHonest == Spec => []QuietLifecycleIsHonest
  <1>1. IInv /\ AnsweredInv /\ [Next]_vars => AnsweredInv'
    BY PastStep, AnsweredStep DEF AnsweredInv
  <1>2. IInv /\ AnsweredInv => QuietLifecycleIsHonest
    BY AnsweredIsHonest DEF IInv, AnsweredInv
  <1>. QED  BY InitIInv, StepIInv, InitAnswered, <1>1, <1>2, PTL DEF Spec
=============================================================================
