--------------------- MODULE CompositionDependenciesProofs ---------------------
(***************************************************************************)
(* Whatever fails or lags behind, a Composition is composed of what its    *)
(* dependencies are or were: for any number of dependencies, changes and   *)
(* faults.                                                                 *)
(***************************************************************************)
EXTENDS CompositionDependenciesProperties, TLAPS

CompositionObject ==
    [spec : [Slots -> Sources], wantsCopy : BOOLEAN, observed : BOOLEAN,
     resolved : BOOLEAN, copied : BOOLEAN, pushed : BOOLEAN, image : [Slots -> Sources]]

\* No child, and no copy of one in the cache, is ahead of its dependency.
Behind(c, spec) == \A x \in Children \ {Copy} : c[x].version <= spec[x[2]].version

NoneAhead == Behind(child, composition.spec) /\ Behind(cachedChild, composition.spec)

\* What is composed depends on the cache, so that no cached child may be of a
\* version its dependency has not had.
IInv == TypeOK /\ NoneAhead

-----------------------------------------------------------------------------
(* The operators *)

\* A child is one of some dependency, or the copy.
LEMMA ChildrenAre ==
    ASSUME NEW x \in Children, x # Copy
    PROVE  x \in Kinds \X Slots /\ x[2] \in Slots
BY DEF Children

\* New and missing children are children.
LEMMA ChildrenMade ==
    /\ NoChild \in ChildObject /\ NoChild.version = 0
    /\ \A version \in Nat :
          NewChild(version) \in ChildObject /\ NewChild(version).version = version
BY DEF NoChild, NewChild, ChildObject, ChildStates

\* What is made of a child is one, and of no version the spec has not had.
LEMMA ManagedIsBehind ==
    ASSUME IInv, NEW failing \in SUBSET Children
    PROVE  /\ Managed(failing) \in [Children -> ChildObject]
           /\ Behind(Managed(failing), composition.spec)
<1>1. composition.spec \in [Slots -> Sources] /\ child \in [Children -> ChildObject]
  BY DEF IInv, TypeOK
<1>2. ASSUME NEW x \in Children, x # Copy
      PROVE  /\ ManagedDependency(x) \in ChildObject
             /\ ManagedDependency(x).version <= composition.spec[x[2]].version
  <2>1. x[2] \in Slots
    BY <1>2, ChildrenAre
  <2>2. Dependency(x) = composition.spec[x[2]] /\ Dependency(x).version \in Nat
    BY <1>1, <2>1 DEF Dependency, Sources
  <2>3. child[x] \in ChildObject /\ child[x].version <= composition.spec[x[2]].version
    BY <1>1, <1>2 DEF IInv, NoneAhead, Behind
  <2>4. NewChild(Dependency(x).version) \in ChildObject
        /\ NewChild(Dependency(x).version).version <= composition.spec[x[2]].version
    BY <2>2, ChildrenMade
  <2>5. NoChild \in ChildObject /\ NoChild.version <= composition.spec[x[2]].version
    BY <2>2, ChildrenMade
  <2> QED
    BY <2>3, <2>4, <2>5 DEF ManagedDependency
<1>3. ASSUME NEW x \in Children, x = Copy
      PROVE  ManagedDependency(x) = child[x]
  BY <1>3 DEF ManagedDependency, DesiredDependency, OurDependency
<1>4. ASSUME NEW x \in Children
      PROVE  Managed(failing)[x] \in {child[x], ManagedDependency(x)}
  BY DEF Managed
<1>5. ASSUME NEW x \in Children
      PROVE  Managed(failing)[x] \in ChildObject
  BY <1>1, <1>2, <1>3, <1>4
<1>6. ASSUME NEW x \in Children \ {Copy}
      PROVE  Managed(failing)[x].version <= composition.spec[x[2]].version
  <2>1. child[x].version <= composition.spec[x[2]].version
    BY DEF IInv, NoneAhead, Behind
  <2> QED
    BY <1>2, <1>4, <2>1
<1> QED
  BY <1>5, <1>6 DEF Managed, Behind

\* Seeing to the copy touches no other child.
LEMMA ManagedWithCopy ==
    ASSUME IInv, NEW failing \in SUBSET Children
    PROVE  /\ [Managed(failing) EXCEPT ![Copy] = ManagedCopy(@)] \in [Children -> ChildObject]
           /\ Behind([Managed(failing) EXCEPT ![Copy] = ManagedCopy(@)], composition.spec)
<1>1. /\ Managed(failing) \in [Children -> ChildObject]
      /\ Behind(Managed(failing), composition.spec)
  BY ManagedIsBehind
<1>2. Copy \in Children
  BY DEF Children
<1>3. ASSUME NEW c \in ChildObject
      PROVE  ManagedCopy(c) \in ChildObject
  BY ChildrenMade DEF ManagedCopy
<1>4. ManagedCopy(Managed(failing)[Copy]) \in ChildObject
  BY <1>1, <1>2, <1>3
<1> QED
  BY <1>1, <1>2, <1>4 DEF Behind

\* What is composed for a dependency is of its kind, and of no version that it
\* has not had.
LEMMA ComposedOfOwn ==
    ASSUME IInv, NEW s \in Slots
    PROVE  /\ ResolvedSource(s) \in Sources
           /\ ResolvedSource(s).kind = composition.spec[s].kind
           /\ ResolvedSource(s).version <= composition.spec[s].version
<1>1. composition.spec[s] \in Sources /\ composition.spec[s].version \in Nat
  BY DEF IInv, TypeOK, Sources
<1>2. CASE ~IsInline(s)
  BY <1>1, <1>2 DEF ResolvedSource
<1>3. CASE IsInline(s)
  <2>1. composition.spec[s].kind \in Kinds
    BY <1>1, <1>3 DEF IsInline, Sources
  <2>2. ChildOf(s) \in Children /\ ChildOf(s) # Copy /\ ChildOf(s)[2] = s
    BY <2>1, SlotsAssumption DEF ChildOf, Children, Copy
  <2>3. cachedChild[ChildOf(s)] \in ChildObject
    BY <2>2 DEF IInv, TypeOK
  <2>4. cachedChild[ChildOf(s)].version \in Nat
    BY <2>3 DEF ChildObject
  <2>5. cachedChild[ChildOf(s)].version <= composition.spec[s].version
    BY <2>2 DEF IInv, NoneAhead, Behind
  <2>6. ResolvedSource(s) = [kind |-> composition.spec[s].kind,
                             version |-> cachedChild[ChildOf(s)].version]
    BY <1>3 DEF ResolvedSource
  <2> QED
    BY <2>1, <2>4, <2>5, <2>6 DEF Sources
<1> QED
  BY <1>2, <1>3

-----------------------------------------------------------------------------
(* The steps *)

\* What a request writes, whoever halts it.
LEMMA RequestWrites ==
    ASSUME NEW failing \in SUBSET Children, NEW copyFails \in BOOLEAN,
           Request(failing, copyFails)
    PROVE  /\ \/ child' = Managed(failing)
              \/ child' = [Managed(failing) EXCEPT ![Copy] = ManagedCopy(@)]
           /\ \/ composition' = composition
              \/ \E o, r, c \in BOOLEAN : composition' = Answer(o, r, c)
              \/ \E c \in BOOLEAN : composition' = Answer(composition.observed, TRUE, c)
              \/ composition' = Compose(Answer(TRUE, TRUE, TRUE))
<1>0. (CopyIsThere /\ ~copyFails) \in BOOLEAN
  BY DEF CopyIsThere
<1>1. CASE HaltedByDependency(failing, copyFails)
  BY <1>0, <1>1 DEF HaltedByDependency, SeesToCopy
<1>2. CASE HaltedByCopy(failing, copyFails)
  BY <1>2 DEF HaltedByCopy, SeesToCopy
<1>3. CASE NotHalted(failing)
  BY <1>3 DEF NotHalted, SeesToCopy
<1> QED
  BY <1>1, <1>2, <1>3 DEF Request

\* An answer is a status, and leaves the rest alone.
LEMMA AnswerWritten ==
    ASSUME composition \in CompositionObject,
           NEW o \in BOOLEAN, NEW r \in BOOLEAN, NEW c \in BOOLEAN
    PROVE  LET new == Answer(o, r, c)
           IN /\ new \in CompositionObject
              /\ new.spec = composition.spec /\ new.wantsCopy = composition.wantsCopy
              /\ new.image = composition.image
              /\ (new.observed <=> o) /\ (new.resolved <=> r) /\ (new.copied <=> c)
BY DEF Answer, CompositionObject

\* So is what is composed.
LEMMA ComposedWritten ==
    ASSUME IInv, NEW c \in CompositionObject
    PROVE  LET new == Compose(c)
           IN /\ new \in CompositionObject
              /\ new.spec = c.spec /\ new.wantsCopy = c.wantsCopy
              /\ (new.observed <=> c.observed) /\ (new.resolved <=> c.resolved)
              /\ (new.copied <=> c.copied) /\ new.pushed
              /\ new.image = [s \in Slots |-> ResolvedSource(s)]
<1>1. [s \in Slots |-> ResolvedSource(s)] \in [Slots -> Sources]
  BY ComposedOfOwn
<1> QED
  BY <1>1 DEF Compose, CompositionObject

\* A status written is one, and leaves the spec alone; its image is the last
\* one or what the dependencies are.
LEMMA StatusWritten ==
    ASSUME IInv, NEW failing \in SUBSET Children, NEW copyFails \in BOOLEAN,
           Request(failing, copyFails)
    PROVE  /\ composition' \in CompositionObject
           /\ composition'.spec = composition.spec
           /\ composition'.wantsCopy = composition.wantsCopy
           /\ \/ composition'.image = composition.image
              \/ composition'.image = [s \in Slots |-> ResolvedSource(s)]
           /\ child' \in [Children -> ChildObject]
           /\ Behind(child', composition.spec)
<1>1. composition \in CompositionObject /\ composition.observed \in BOOLEAN
  BY DEF IInv, TypeOK, CompositionObject
<1>2. /\ child' \in [Children -> ChildObject]
      /\ Behind(child', composition.spec)
  BY RequestWrites, ManagedIsBehind, ManagedWithCopy
<1>3. CASE composition' = composition
  BY <1>1, <1>2, <1>3
<1>4. ASSUME NEW o \in BOOLEAN, NEW r \in BOOLEAN, NEW c \in BOOLEAN,
             composition' = Answer(o, r, c)
      PROVE  /\ composition' \in CompositionObject
             /\ composition'.spec = composition.spec
             /\ composition'.wantsCopy = composition.wantsCopy
             /\ composition'.image = composition.image
  BY <1>1, <1>4, AnswerWritten
<1>5. CASE composition' = Compose(Answer(TRUE, TRUE, TRUE))
  <2>1. /\ Answer(TRUE, TRUE, TRUE) \in CompositionObject
        /\ Answer(TRUE, TRUE, TRUE).spec = composition.spec
        /\ Answer(TRUE, TRUE, TRUE).wantsCopy = composition.wantsCopy
    BY <1>1, AnswerWritten
  <2>2. /\ composition' \in CompositionObject
        /\ composition'.spec = composition.spec
        /\ composition'.wantsCopy = composition.wantsCopy
        /\ composition'.image = [s \in Slots |-> ResolvedSource(s)]
    BY <1>5, <2>1, ComposedWritten
  <2> QED
    BY <1>2, <2>2
<1> QED
  BY <1>1, <1>2, <1>3, <1>4, <1>5, RequestWrites

\* A request with any failures keeps the invariant, and composes what the
\* property allows.
LEMMA RequestKeeps ==
    ASSUME IInv, NEW failing \in SUBSET Children, NEW copyFails \in BOOLEAN,
           Request(failing, copyFails), faults' \in 0..MaxFaults
    PROVE  /\ IInv'
           /\ composition'.image # composition.image =>
                 \A s \in Slots :
                    /\ composition'.image[s].kind = composition.spec[s].kind
                    /\ composition'.image[s].version <= composition.spec[s].version
<1>1. /\ composition' \in CompositionObject
      /\ composition'.spec = composition.spec
      /\ \/ composition'.image = composition.image
         \/ composition'.image = [s \in Slots |-> ResolvedSource(s)]
      /\ child' \in [Children -> ChildObject]
      /\ Behind(child', composition.spec)
  BY StatusWritten
<1>2. /\ cachedChild' = cachedChild /\ nameTaken' = nameTaken /\ changes' = changes
      /\ queued' \in BOOLEAN /\ unannounced' \in BOOLEAN
  BY DEF Request, HaltedByDependency, HaltedByCopy, NotHalted, Ends, Repeats
<1>3. TypeOK'
  BY <1>1, <1>2 DEF IInv, TypeOK, CompositionObject
<1>4. NoneAhead'
  BY <1>1, <1>2 DEF IInv, NoneAhead, Behind
<1>5. \A s \in Slots : /\ ResolvedSource(s).kind = composition.spec[s].kind
                       /\ ResolvedSource(s).version <= composition.spec[s].version
  BY ComposedOfOwn
<1> QED
  BY <1>1, <1>3, <1>4, <1>5 DEF IInv

\* Whatever fails, a request leaves what it conflicts with unwritten.
LEMMA RequestsAre ==
    ASSUME ControllerNext
    PROVE  \E failing \in SUBSET Children :
              /\ Conflicts \subseteq failing
              /\ \E copyFails \in BOOLEAN : Request(failing, copyFails)
<1>1. Conflicts \in SUBSET Children
  BY DEF Conflicts
<1>2. ASSUME NEW failing \in SUBSET Children, NEW F \in Unwritten(failing)
      PROVE  F \in SUBSET Children /\ failing \subseteq F
  BY DEF Unwritten
<1>3. CASE ReconcileComposition
  <2>1. PICK F \in Unwritten(Conflicts) : Request(F, FALSE)
    BY <1>3 DEF ReconcileComposition
  <2> QED
    BY <1>1, <1>2, <2>1
<1>4. ASSUME NEW x \in Children, RequestFails(x)
      PROVE  \E failing \in SUBSET Children :
                /\ Conflicts \subseteq failing
                /\ \E copyFails \in BOOLEAN : Request(failing, copyFails)
  <2>1. CASE \E F \in Unwritten(Conflicts \union {x}) : Request(F, FALSE)
    <3>1. PICK F \in Unwritten(Conflicts \union {x}) : Request(F, FALSE)
      BY <2>1
    <3>2. F \in SUBSET Children /\ Conflicts \subseteq F
      BY <1>1, <1>2
    <3> QED
      BY <3>1, <3>2
  <2>2. CASE \E F \in Unwritten(Conflicts) : Request(F, TRUE)
    <3>1. PICK F \in Unwritten(Conflicts) : Request(F, TRUE)
      BY <2>2
    <3> QED
      BY <1>1, <1>2, <3>1
  <2> QED
    BY <1>4, <2>1, <2>2 DEF RequestFails
<1> QED
  BY <1>3, <1>4 DEF ControllerNext

-----------------------------------------------------------------------------

\* A bounded count goes up by one.
LEMMA Counted ==
    ASSUME NEW max \in Nat, NEW n \in 0..max, n < max
    PROVE  n + 1 \in 0..max
OBVIOUS

\* What users and other controllers do keeps the invariant, and no image is
\* touched.
LEMMA EnvironmentKeeps ==
    ASSUME IInv, EnvironmentNext
    PROVE  IInv' /\ composition'.image = composition.image
<1> USE DEF IInv
<1>1. /\ composition \in CompositionObject
      /\ child \in [Children -> ChildObject] /\ cachedChild \in [Children -> ChildObject]
      /\ {nameTaken, queued, unannounced} \subseteq BOOLEAN
      /\ changes \in 0..MaxChanges /\ faults \in 0..MaxFaults
  BY DEF TypeOK, CompositionObject
<1>2. MaxChanges \in Nat /\ MaxFaults \in Nat
  BY DependencyBounds
<1>3. Changes => changes' \in 0..MaxChanges
  BY <1>1, <1>2, Counted DEF Changes
<1>4. ASSUME NEW s \in Slots, NEW kind \in Kinds \union {"ref"}, DependencyEdited(s, kind)
      PROVE  IInv' /\ composition'.image = composition.image
  <2>1. /\ composition.spec \in [Slots -> Sources]
        /\ composition.spec[s].version \in Nat
    BY <1>1 DEF CompositionObject, Sources
  <2> DEFINE new == [kind |-> kind, version |-> composition.spec[s].version + 1]
  <2>2. new \in Sources /\ new.version = composition.spec[s].version + 1
    BY <2>1 DEF Sources
  <2>3. composition' = [composition EXCEPT !.spec = [composition.spec EXCEPT ![s] = new],
                                           !.observed = FALSE]
    BY <1>1, <1>4, <2>1 DEF DependencyEdited, CompositionObject
  <2>4. [composition.spec EXCEPT ![s] = new] \in [Slots -> Sources]
    BY <2>1, <2>2
  <2>5. /\ composition' \in CompositionObject
        /\ composition'.spec = [composition.spec EXCEPT ![s] = new]
        /\ composition'.image = composition.image
    BY <1>1, <2>3, <2>4 DEF CompositionObject
  <2>6. ASSUME NEW c \in [Children -> ChildObject], Behind(c, composition.spec)
        PROVE  Behind(c, [composition.spec EXCEPT ![s] = new])
    <3>1. ASSUME NEW x \in Children \ {Copy}
          PROVE  c[x].version <= [composition.spec EXCEPT ![s] = new][x[2]].version
      <4>1. x[2] \in Slots
        BY ChildrenAre
      <4>2. c[x].version \in Nat /\ c[x].version <= composition.spec[x[2]].version
        BY <2>6 DEF Behind, ChildObject
      <4> HIDE DEF new
      <4>3. CASE x[2] = s
        BY <2>1, <2>2, <4>1, <4>2, <4>3
      <4>4. CASE x[2] # s
        BY <2>1, <4>1, <4>2, <4>4
      <4> QED
        BY <4>3, <4>4
    <3> QED
      BY <3>1 DEF Behind
  <2>7. /\ child' = child /\ cachedChild' = cachedChild /\ nameTaken' = nameTaken
        /\ queued' = TRUE /\ unannounced' = unannounced /\ faults' = faults
        /\ changes' \in 0..MaxChanges
    BY <1>3, <1>4 DEF DependencyEdited
  <2>8. NoneAhead'
    BY <1>1, <2>5, <2>6, <2>7 DEF NoneAhead
  <2> HIDE DEF new
  <2> QED
    BY <1>1, <2>5, <2>7, <2>8 DEF TypeOK, CompositionObject
<1>5. CASE AnnotationChanged
  <2>1. /\ composition' \in CompositionObject
        /\ composition'.spec = composition.spec /\ composition'.image = composition.image
    BY <1>1, <1>5 DEF AnnotationChanged, CompositionObject
  <2> QED
    BY <1>1, <1>3, <1>5, <2>1 DEF AnnotationChanged, TypeOK, CompositionObject, NoneAhead
<1>6. CASE NameChanges
  BY <1>1, <1>3, <1>6 DEF NameChanges, TypeOK, NoneAhead
<1>7. ASSUME NEW x \in Children, ChildDeleted(x)
      PROVE  IInv' /\ composition'.image = composition.image
  <2>1. child' \in [Children -> ChildObject]
    BY <1>1, <1>7, ChildrenMade DEF ChildDeleted
  <2>2. Behind(child', composition.spec)
    <3>1. ASSUME NEW y \in Children \ {Copy}
          PROVE  child'[y].version <= composition.spec[y[2]].version
      <4>1. composition.spec[y[2]].version \in Nat
        BY <1>1, ChildrenAre DEF CompositionObject, Sources
      <4>2. child[y].version <= composition.spec[y[2]].version
        BY DEF NoneAhead, Behind
      <4> QED
        BY <1>1, <1>7, <4>1, <4>2, ChildrenMade DEF ChildDeleted
    <3> QED
      BY <3>1 DEF Behind
  <2> QED
    BY <1>3, <1>7, <2>1, <2>2 DEF ChildDeleted, TypeOK, NoneAhead
<1>8. ASSUME NEW x \in Children, SyncChild(x)
      PROVE  IInv' /\ composition'.image = composition.image
  <2>1. cachedChild' \in [Children -> ChildObject]
    BY <1>1, <1>8 DEF SyncChild
  <2>2. Behind(cachedChild', composition.spec)
    BY <1>1, <1>8 DEF SyncChild, NoneAhead, Behind
  <2> QED
    BY <1>8, <2>1, <2>2 DEF SyncChild, TypeOK, NoneAhead
<1>9. ASSUME NEW x \in Children, NEW state \in {"notReady", "ready"}, ChildReports(x, state)
      PROVE  IInv' /\ composition'.image = composition.image
  <2>1. [child[x] EXCEPT !.state = state] \in ChildObject
        /\ [child[x] EXCEPT !.state = state].version = child[x].version
    BY <1>1 DEF ChildObject, ChildStates
  <2>2. child' = [child EXCEPT ![x] = [child[x] EXCEPT !.state = state]]
    BY <1>1, <1>9 DEF ChildReports
  <2>3. child' \in [Children -> ChildObject]
    BY <1>1, <2>1, <2>2
  <2>4. \A y \in Children : child'[y].version = child[y].version
    BY <1>1, <2>1, <2>2
  <2>5. Behind(child', composition.spec)
    BY <2>4 DEF NoneAhead, Behind
  <2>6. changes' \in 0..MaxChanges
    BY <1>1, <1>3, <1>9 DEF ChildReports
  <2> QED
    BY <1>9, <2>3, <2>5, <2>6 DEF ChildReports, TypeOK, NoneAhead
<1>10. CASE Resync
  BY <1>1, <1>10 DEF Resync, TypeOK, NoneAhead
<1>11. CASE Restart
  <2>1. faults' \in 0..MaxFaults
    BY <1>1, <1>2, <1>11, Counted DEF Restart
  <2> QED
    BY <1>1, <1>11, <2>1 DEF Restart, TypeOK, NoneAhead
<1> QED
  BY <1>4, <1>5, <1>6, <1>7, <1>8, <1>9, <1>10, <1>11 DEF EnvironmentNext

\* Every step keeps the invariant, and composes what the property allows.
LEMMA StepKeeps ==
    ASSUME IInv, Next
    PROVE  /\ IInv'
           /\ composition'.image # composition.image =>
                 \A s \in Slots :
                    /\ composition'.image[s].kind = composition.spec[s].kind
                    /\ composition'.image[s].version <= composition.spec[s].version
<1>1. faults \in 0..MaxFaults /\ MaxFaults \in Nat
  BY DependencyBounds DEF IInv, TypeOK
<1>2. CASE ControllerNext
  <2>1. PICK failing \in SUBSET Children :
           Conflicts \subseteq failing /\ \E copyFails \in BOOLEAN : Request(failing, copyFails)
    BY <1>2, RequestsAre
  <2>2. faults' \in 0..MaxFaults
    BY <1>1, <1>2, Counted DEF ControllerNext, ReconcileComposition, RequestFails
  <2> QED
    BY <2>1, <2>2, RequestKeeps
<1>3. CASE EnvironmentNext
  BY <1>3, EnvironmentKeeps
<1> QED
  BY <1>2, <1>3 DEF Next

\* At first there are no children.
LEMMA InitKeeps == Init => IInv
<1> SUFFICES ASSUME Init PROVE IInv
  OBVIOUS
<1> DEFINE First == [kind : Kinds \union {"ref"}, version : {1}]
           NoImage == [s \in Slots |-> [kind |-> "ref", version |-> 0]]
<1>1. composition \in CompositionObject
  <2>1. First \subseteq Sources
    BY DEF Sources
  <2>2. [Slots -> First] \subseteq [Slots -> Sources]
    BY <2>1
  <2>3. NoImage \in [Slots -> Sources]
    BY DEF Sources
  <2>4. composition \in [spec : [Slots -> First], wantsCopy : BOOLEAN, observed : {FALSE},
                          resolved : {FALSE}, copied : {FALSE}, pushed : {FALSE},
                          image : {NoImage}]
    BY DEF Init
  <2> HIDE DEF First, NoImage
  <2> QED
    BY <2>2, <2>3, <2>4 DEF CompositionObject
<1>2. child = [x \in Children |-> NoChild] /\ cachedChild = child
  BY DEF Init
<1>3. child \in [Children -> ChildObject]
  BY <1>2, ChildrenMade
<1>4. TypeOK
  <2>1. 0 \in 0..MaxChanges /\ 0 \in 0..MaxFaults
    BY DependencyBounds
  <2>2. /\ nameTaken \in BOOLEAN /\ queued = TRUE /\ unannounced = FALSE
        /\ changes = 0 /\ faults = 0
    BY DEF Init
  <2> QED
    BY <1>1, <1>2, <1>3, <2>1, <2>2 DEF TypeOK, CompositionObject
<1>5. ASSUME NEW x \in Children \ {Copy}
      PROVE  child[x].version <= composition.spec[x[2]].version
  <2>1. composition.spec[x[2]].version \in Nat
    BY <1>1, ChildrenAre DEF CompositionObject, Sources
  <2> QED
    BY <1>2, <2>1, ChildrenMade
<1> QED
  BY <1>2, <1>4, <1>5 DEF IInv, NoneAhead, Behind

\* A step that changes nothing keeps the invariant.
LEMMA StutterKeeps == IInv /\ UNCHANGED vars => IInv'
BY DEF IInv, TypeOK, NoneAhead, Behind, vars

\* The inductive invariant: nothing is ahead of the spec.
LEMMA Invariant == Spec => []IInv
<1>1. IInv /\ [Next]_vars => IInv'
  BY StepKeeps, StutterKeeps
<1> QED
  BY InitKeeps, <1>1, PTL DEF Spec

\* Type correctness of a Composition and its children.
THEOREM DependencyTypes == Spec => []TypeOK
<1>1. IInv => TypeOK
  BY DEF IInv
<1> QED
  BY Invariant, <1>1, PTL

\* Whatever the cache holds of earlier kinds and versions, and whatever fails
\* or restarts, what is composed for a dependency is its own and no newer than
\* it.
THEOREM ComposedOfItsOwn == Spec => ComposesItsOwn
<1> DEFINE Own ==
      composition'.image # composition.image =>
          \A s \in Slots :
             /\ composition'.image[s].kind = composition.spec[s].kind
             /\ composition'.image[s].version <= composition.spec[s].version
<1>1. IInv /\ [Next]_vars => [Own]_vars
  BY StepKeeps
<1> QED
  BY Invariant, <1>1, PTL DEF Spec, ComposesItsOwn


-----------------------------------------------------------------------------
(* No change is missed *)

\* A child in the cache is not ahead of the child: what was made or written
\* since is of another version, or the cache has none.
ChildPast ==
    \A x \in Children :
        /\ cachedChild[x].exists /\ child[x].exists
        /\ cachedChild[x].version = child[x].version
        /\ child[x].state = "pending"
        => cachedChild[x].state = "pending"

CopyHasItsName == child[Copy].exists => ~nameTaken

QuietInv ==
    /\ ChildPast /\ CopyHasItsName
    /\ QuietDependenciesAreKept /\ QuietDependenciesAreComposed

\* What one request makes of a child that it does not fail to write.
LEMMA WrittenChild ==
    ASSUME IInv, NEW failing \in SUBSET Children, NEW copyFails \in BOOLEAN,
           Request(failing, copyFails), NEW x \in Children, x # Copy
    PROVE  child'[x] = IF x \in failing THEN child[x] ELSE ManagedDependency(x)
<1>1. Managed(failing) \in [Children -> ChildObject]
  BY ManagedIsBehind
<1>2. child'[x] = Managed(failing)[x]
  BY <1>1, RequestWrites
<1> QED
  BY <1>2 DEF Managed

\* A request panics over a child that it has failed to write, only.
LEMMA PanicsOverFailed ==
    ASSUME IInv, NEW failing \in SUBSET Children, NEW s \in Slots,
           Resolution(s, failing) = "panics"
    PROVE  failing # {}
<1>1. CASE ~IsInline(s)
  BY <1>1 DEF Resolution
<1>2. CASE IsInline(s) /\ ChildOf(s) \notin failing
  <2>1. Resolution(s, failing) =
          IF cachedChild[ChildOf(s)].exists THEN cachedChild[ChildOf(s)].state ELSE "missing"
    BY <1>2 DEF Resolution
  <2>2. composition.spec[s].kind \in Kinds
    BY <1>2 DEF IsInline, IInv, TypeOK, Sources
  <2>3. cachedChild[ChildOf(s)].state \in ChildStates
    BY <2>2 DEF ChildOf, Children, IInv, TypeOK, ChildObject
  <2> QED
    BY <2>1, <2>3 DEF ChildStates
<1> QED
  BY <1>1, <1>2

\* The copy is seen to, unless the request panics or its write fails.
LEMMA WrittenCopy ==
    ASSUME IInv, NEW failing \in SUBSET Children, NEW copyFails \in BOOLEAN,
           Request(failing, copyFails)
    PROVE  /\ \/ child'[Copy] = child[Copy]
              \/ child'[Copy] = ManagedCopy(child[Copy])
           /\ failing = {} /\ ~copyFails => child'[Copy] = ManagedCopy(child[Copy])
<1>1. Managed(failing) \in [Children -> ChildObject] /\ Copy \in Children
  BY ManagedIsBehind DEF Children
<1>2. Managed(failing)[Copy] = child[Copy]
  BY <1>1 DEF Managed, ManagedDependency, DesiredDependency, OurDependency
<1>3. [Managed(failing) EXCEPT ![Copy] = ManagedCopy(@)][Copy] = ManagedCopy(child[Copy])
  BY <1>1, <1>2
<1>4. failing = {} /\ ~copyFails => SeesToCopy(failing, FALSE)
  BY PanicsOverFailed DEF Request, HaltedByDependency, HaltedByCopy, NotHalted
<1> QED
  BY <1>2, <1>3, <1>4, RequestWrites DEF SeesToCopy

\* A request leaves the cache behind, and the copy under its name.
LEMMA RequestPast ==
    ASSUME IInv, ChildPast, CopyHasItsName,
           NEW failing \in SUBSET Children, Conflicts \subseteq failing,
           NEW copyFails \in BOOLEAN, Request(failing, copyFails)
    PROVE  ChildPast' /\ CopyHasItsName'
<1>1. /\ Delivered
      /\ cachedChild' = cachedChild /\ nameTaken' = nameTaken
  BY DEF Request
<1>2. Copy \in Children
  BY DEF Children
<1>3. ChildPast'
  <2> SUFFICES ASSUME NEW x \in Children,
                      cachedChild[x].exists, child'[x].exists,
                      cachedChild[x].version = child'[x].version,
                      child'[x].state = "pending"
               PROVE  cachedChild[x].state = "pending"
    BY <1>1 DEF ChildPast
  <2>1. CASE child'[x] = child[x]
    BY <2>1 DEF ChildPast
  <2>2. CASE x = Copy
    <3>1. child'[x] = NoChild \/ child'[x] = child[x]
      BY <1>1, <2>2, WrittenCopy DEF ManagedCopy
    <3> QED
      BY <2>1, <3>1 DEF NoChild
  <2>3. CASE x # Copy /\ child'[x] # child[x]
    <3>1. child'[x] = ManagedDependency(x) /\ x \notin Conflicts
      BY <1>1, <2>3, WrittenChild
    <3>2. DesiredDependency(x)
      BY <2>3, <3>1 DEF ManagedDependency, NoChild
    <3>3. cachedChild[x].version # Dependency(x).version
      BY <2>3, <3>1, <3>2 DEF ManagedDependency
    <3>4. child'[x] = NewChild(Dependency(x).version)
      BY <3>1, <3>2, <3>3 DEF ManagedDependency
    <3> QED
      BY <3>3, <3>4 DEF NewChild
  <2> QED
    BY <2>1, <2>2, <2>3
<1>4. CopyHasItsName'
  BY <1>1, WrittenCopy DEF CopyHasItsName, ManagedCopy, NoChild
<1> QED
  BY <1>3, <1>4

\* After a request that nobody repeats everything was written.
LEMMA RestingRequest ==
    ASSUME NEW failing, NEW copyFails \in BOOLEAN, Request(failing, copyFails),
           ~queued', ~unannounced'
    PROVE  failing = {} /\ ~copyFails
<1>1. CASE HaltedByDependency(failing, copyFails)
  BY <1>1 DEF HaltedByDependency, Ends, Repeats
<1>2. CASE HaltedByCopy(failing, copyFails)
  BY <1>2 DEF HaltedByCopy, Ends
<1>3. CASE ~copyFails /\ NotHalted(failing)
  BY <1>3 DEF NotHalted, Repeats
<1> QED
  BY <1>1, <1>2, <1>3 DEF Request

\* A request that nobody repeats leaves what the spec asks for, or events of
\* the children it wrote to come.
LEMMA RequestKept ==
    ASSUME IInv, ChildPast', CopyHasItsName', Request({}, FALSE), Conflicts = {},
           cachedChild' = child'
    PROVE  /\ \A s \in Slots : Provided(s)'
           /\ \A x \in Children \ {Copy} : child'[x].exists => DesiredDependency(x)'
           /\ child'[Copy].exists <=> composition'.wantsCopy /\ ~nameTaken'
<1>1. /\ Delivered /\ {} \in SUBSET Children
      /\ cachedChild' = cachedChild /\ nameTaken' = nameTaken
  BY DEF Request
<1>2. composition'.spec = composition.spec /\ composition'.wantsCopy = composition.wantsCopy
  BY <1>1, StatusWritten
<1>3. Copy \in Children
  BY DEF Children
<1>4. ASSUME NEW x \in Children \ {Copy}
      PROVE  IF DesiredDependency(x)
             THEN child'[x].exists /\ child'[x].version = Dependency(x).version
             ELSE ~child'[x].exists
  <2>1. child'[x] = ManagedDependency(x) /\ child'[x] = cachedChild[x]
    BY <1>1, WrittenChild
  <2>2. CASE DesiredDependency(x)
    BY <2>1, <2>2 DEF ManagedDependency, NewChild
  <2>3. CASE ~DesiredDependency(x) /\ cachedChild[x].exists
    BY <2>1, <2>3 DEF ManagedDependency, OurDependency, NoChild
  <2>4. CASE ~DesiredDependency(x) /\ ~cachedChild[x].exists
    BY <2>1, <2>4
  <2> QED
    BY <2>2, <2>3, <2>4
<1>5. ASSUME NEW s \in Slots
      PROVE  Provided(s)'
  <2>1. CASE ~IsInline(s)
    BY <1>2, <2>1 DEF IsInline, Provided
  <2>2. CASE IsInline(s)
    <3>1. composition.spec[s].kind \in Kinds
      BY <2>2 DEF IsInline, IInv, TypeOK, Sources
    <3>2. ChildOf(s) \in Children \ {Copy}
      BY <3>1, SlotsAssumption DEF ChildOf, Children, Copy
    <3>3. DesiredDependency(ChildOf(s)) /\ Dependency(ChildOf(s)) = composition.spec[s]
      BY <3>2 DEF DesiredDependency, Dependency, ChildOf
    <3>4. child'[ChildOf(s)].exists /\ child'[ChildOf(s)].version = composition.spec[s].version
      BY <1>4, <3>2, <3>3
    <3> QED
      BY <1>2, <3>4 DEF Provided, ChildOf
  <2> QED
    BY <2>1, <2>2
<1>6. ASSUME NEW x \in Children \ {Copy}, child'[x].exists
      PROVE  DesiredDependency(x)'
  BY <1>2, <1>4, <1>6 DEF DesiredDependency, Dependency
<1>7. child'[Copy].exists <=> composition'.wantsCopy /\ ~nameTaken'
  <2>1. /\ child'[Copy] = ManagedCopy(child[Copy])
        /\ child'[Copy] = cachedChild[Copy]
    BY <1>1, WrittenCopy
  <2>2. CASE ~composition.wantsCopy
    BY <1>2, <2>1, <2>2 DEF ManagedCopy, NoChild
  <2>3. CASE composition.wantsCopy /\ nameTaken
    BY <1>1, <2>3 DEF CopyHasItsName
  <2>4. CASE composition.wantsCopy /\ ~nameTaken
    BY <1>1, <1>2, <2>1, <2>4 DEF ManagedCopy, NewChild
  <2> QED
    BY <2>2, <2>3, <2>4
<1> QED
  BY <1>5, <1>6, <1>7


\* What the status says after such a request.
LEMMA RequestComposed ==
    ASSUME IInv, ChildPast', CopyHasItsName', Request({}, FALSE), Conflicts = {},
           cachedChild' = child',
           \A s \in Slots : IsInline(s)' => child'[ChildOf(s)'].state # "pending"
    PROVE  LET settled == \A s \in Slots : IsInline(s)' => child'[ChildOf(s)'].state = "ready"
               hasCopy == composition'.wantsCopy => ~nameTaken'
           IN /\ composition'.copied <=> hasCopy
              /\ Ready(composition)' => settled
              /\ settled /\ hasCopy => Ready(composition)' /\ composition'.image = composition'.spec
<1> DEFINE settled == \A s \in Slots : IsInline(s)' => child'[ChildOf(s)'].state = "ready"
           hasCopy == composition'.wantsCopy => ~nameTaken'
<1>1. /\ Delivered /\ {} \in SUBSET Children
      /\ cachedChild' = cachedChild /\ nameTaken' = nameTaken
  BY DEF Request
<1>2. composition \in CompositionObject
  BY DEF IInv, TypeOK, CompositionObject
<1>3. composition'.spec = composition.spec /\ composition'.wantsCopy = composition.wantsCopy
  BY <1>1, StatusWritten
<1>4. /\ \A s \in Slots : IsInline(s)' = IsInline(s) /\ ChildOf(s)' = ChildOf(s)
      /\ \A s \in Slots : Provided(s)'
      /\ child'[Copy].exists <=> composition'.wantsCopy /\ ~nameTaken'
  BY <1>3, RequestKept DEF IsInline, ChildOf
<1>5. ASSUME NEW s \in Slots, IsInline(s)
      PROVE  /\ Resolution(s, {}) = child'[ChildOf(s)].state
             /\ Resolution(s, {}) \in {"notReady", "ready"}
             /\ cachedChild[ChildOf(s)].version = composition.spec[s].version
  <2>1. Resolution(s, {}) = IF cachedChild[ChildOf(s)].exists
                            THEN cachedChild[ChildOf(s)].state ELSE "missing"
    BY <1>5 DEF Resolution
  <2>2. cachedChild = child' /\ child'[ChildOf(s)].exists
        /\ child'[ChildOf(s)].version = composition.spec[s].version
        /\ child'[ChildOf(s)].state # "pending"
    BY <1>1, <1>3, <1>4, <1>5 DEF Provided
  <2>3. composition.spec[s].kind \in Kinds
    BY <1>5 DEF IsInline, IInv, TypeOK, Sources
  <2>4. cachedChild[ChildOf(s)].state \in ChildStates
    BY <2>3 DEF ChildOf, Children, IInv, TypeOK, ChildObject
  <2> QED
    BY <2>1, <2>2, <2>4 DEF ChildStates
<1>6. ASSUME NEW s \in Slots, ~IsInline(s)
      PROVE  Resolution(s, {}) = "ready"
  BY <1>6 DEF Resolution
<1>7. settled <=> Halting({}) = {}
  BY <1>4, <1>5, <1>6 DEF Halting
<1>8. CopyIsThere <=> hasCopy
  <2>1. cachedChild[Copy].exists <=> composition.wantsCopy /\ ~nameTaken
    BY <1>1, <1>3, <1>4
  <2> QED
    BY <1>1, <1>3, <2>1 DEF CopyIsThere
<1>9. ASSUME NEW s \in Slots
      PROVE  ResolvedSource(s) = composition.spec[s]
  <2>1. composition.spec[s] \in Sources
    BY DEF IInv, TypeOK
  <2> QED
    BY <1>5, <2>1 DEF ResolvedSource, Sources
<1>10. [s \in Slots |-> ResolvedSource(s)] = composition.spec
  <2>1. composition.spec = [s \in Slots |-> composition.spec[s]]
    BY DEF IInv, TypeOK
  <2> QED
    BY <1>9, <2>1
<1> HIDE DEF settled, hasCopy
<1>11. CASE composition' = Answer(TRUE, FALSE, CopyIsThere /\ ~FALSE) /\ Halting({}) # {}
  <2>1. (CopyIsThere /\ ~FALSE) \in BOOLEAN
    BY DEF CopyIsThere
  <2>2. (composition'.copied <=> CopyIsThere) /\ ~composition'.resolved
    BY <1>2, <1>11, <2>1, AnswerWritten
  <2> QED
    BY <1>7, <1>8, <1>11, <2>2 DEF Ready, settled, hasCopy
<1>12. CASE composition' = Answer(TRUE, TRUE, FALSE) /\ ~CopyIsThere /\ Halting({}) = {}
  <2>1. ~composition'.copied
    BY <1>2, <1>12, AnswerWritten
  <2> QED
    BY <1>7, <1>8, <1>12, <2>1 DEF settled, hasCopy
<1>13. CASE composition' = Compose(Answer(TRUE, TRUE, TRUE)) /\ CopyIsThere /\ Halting({}) = {}
  <2>1. /\ Answer(TRUE, TRUE, TRUE) \in CompositionObject
        /\ Answer(TRUE, TRUE, TRUE).observed /\ Answer(TRUE, TRUE, TRUE).resolved
        /\ Answer(TRUE, TRUE, TRUE).copied
    BY <1>2, AnswerWritten
  <2>2. composition'.observed /\ composition'.resolved /\ composition'.pushed /\ composition'.copied
    BY <1>13, <2>1, ComposedWritten
  <2>3. composition'.image = composition'.spec
    BY <1>3, <1>10, <1>13, <2>1, ComposedWritten
  <2> QED
    BY <1>7, <1>8, <1>13, <2>2, <2>3 DEF Ready, settled, hasCopy
<1>14. ASSUME NEW s \in Slots, HaltsAt(s, {})
       PROVE  Halting({}) # {} /\ Resolution(s, {}) \notin {"panics", "pending"}
  BY <1>5, <1>6, <1>14 DEF HaltsAt, Halting
<1>15. CASE HaltedByDependency({}, FALSE)
  <2>1. composition' = Answer(TRUE, FALSE, CopyIsThere /\ ~FALSE) /\ Halting({}) # {}
    BY <1>14, <1>15 DEF HaltedByDependency
  <2> QED
    BY <1>11, <2>1 DEF settled, hasCopy
<1>16. CASE HaltedByCopy({}, FALSE)
  BY <1>12, <1>16 DEF HaltedByCopy, settled, hasCopy
<1>17. CASE NotHalted({})
  BY <1>13, <1>17 DEF NotHalted, settled, hasCopy
<1> QED
  BY <1>15, <1>16, <1>17 DEF Request, settled, hasCopy

-----------------------------------------------------------------------------
\* Apart from requests, what does not queue the Composition either changes one
\* child that the cache had, or takes the name of a copy it does not have.
LEMMA RestingChanges ==
    ASSUME IInv, EnvironmentNext, ~queued', ~unannounced'
    PROVE  /\ ~queued /\ ~unannounced
           /\ UNCHANGED <<composition, cachedChild>>
           /\ \/ NameChanges /\ ~nameTaken
              \/ \E x \in Children :
                    \/ ChildDeleted(x)
                    \/ \E state \in {"notReady", "ready"} : ChildReports(x, state)
<1>0. queued \in BOOLEAN /\ unannounced \in BOOLEAN /\ nameTaken \in BOOLEAN
  BY DEF IInv, TypeOK
<1>1. /\ \A s \in Slots, kind \in Kinds \union {"ref"} : ~DependencyEdited(s, kind)
      /\ ~AnnotationChanged /\ ~Resync /\ ~Restart
      /\ \A x \in Children : ~SyncChild(x)
  BY DEF DependencyEdited, AnnotationChanged, Resync, Restart, SyncChild
<1>2. CASE NameChanges
  BY <1>0, <1>2 DEF NameChanges
<1>3. ASSUME NEW x \in Children, ChildDeleted(x)
      PROVE  ~queued /\ ~unannounced /\ UNCHANGED <<composition, cachedChild>>
  BY <1>0, <1>3 DEF ChildDeleted
<1>4. ASSUME NEW x \in Children, NEW state \in {"notReady", "ready"}, ChildReports(x, state)
      PROVE  ~queued /\ ~unannounced /\ UNCHANGED <<composition, cachedChild>>
  BY <1>0, <1>4 DEF ChildReports
<1> QED
  BY <1>1, <1>2, <1>3, <1>4 DEF EnvironmentNext

\* The cache stays behind, and the copy has its name, whatever the others do.
LEMMA EnvironmentPast ==
    ASSUME IInv, ChildPast, CopyHasItsName, EnvironmentNext
    PROVE  ChildPast' /\ CopyHasItsName'
<1>0. child \in [Children -> ChildObject] /\ cachedChild \in [Children -> ChildObject]
      /\ Copy \in Children
  BY DEF IInv, TypeOK, Children
<1>1. CASE UNCHANGED <<child, cachedChild, nameTaken>>
  BY <1>1 DEF ChildPast, CopyHasItsName
<1>2. CASE NameChanges
  BY <1>2 DEF NameChanges, ChildPast, CopyHasItsName
<1>3. ASSUME NEW x \in Children, ChildDeleted(x)
      PROVE  ChildPast' /\ CopyHasItsName'
  BY <1>0, <1>3 DEF ChildDeleted, NoChild, ChildPast, CopyHasItsName
<1>4. ASSUME NEW x \in Children, NEW state \in {"notReady", "ready"}, ChildReports(x, state)
      PROVE  ChildPast' /\ CopyHasItsName'
  <2>1. /\ child' = [child EXCEPT ![x] = [child[x] EXCEPT !.state = state]]
        /\ cachedChild' = cachedChild /\ nameTaken' = nameTaken
    BY <1>0, <1>4 DEF ChildReports
  <2>2. child'[x] = [child[x] EXCEPT !.state = state] /\ child'[x].state = state
    BY <1>0, <2>1 DEF ChildObject
  <2>3. \A y \in Children : child'[y].exists = child[y].exists
    BY <1>0, <2>1 DEF ChildObject
  <2>4. \A y \in Children : y # x => child'[y] = child[y]
    BY <1>0, <2>1
  <2>5. ChildPast'
    BY <2>1, <2>2, <2>4 DEF ChildPast
  <2>6. CopyHasItsName'
    BY <1>0, <2>1, <2>3 DEF CopyHasItsName
  <2> QED
    BY <2>5, <2>6
<1>5. ASSUME NEW x \in Children, SyncChild(x)
      PROVE  ChildPast' /\ CopyHasItsName'
  BY <1>0, <1>5 DEF SyncChild, ChildPast, CopyHasItsName
<1>6. CASE Restart
  BY <1>6 DEF Restart, ChildPast, CopyHasItsName
<1>7. ASSUME \/ \E s \in Slots, kind \in Kinds \union {"ref"} : DependencyEdited(s, kind)
             \/ AnnotationChanged \/ Resync
      PROVE  UNCHANGED <<child, cachedChild, nameTaken>>
  BY <1>7 DEF DependencyEdited, AnnotationChanged, Resync
<1> QED
  BY <1>1, <1>2, <1>3, <1>4, <1>5, <1>6, <1>7 DEF EnvironmentNext


\* A child that changes while the Composition is at rest differs from its copy
\* in the cache: the Composition is told.
LEMMA ChangedChildDiffers ==
    ASSUME IInv, ChildPast, NEW x \in Children,
           ChildDeleted(x) \/ \E state \in {"notReady", "ready"} : ChildReports(x, state)
    PROVE  cachedChild' # child'
<1>0. child \in [Children -> ChildObject] /\ cachedChild \in [Children -> ChildObject]
  BY DEF IInv, TypeOK
<1>1. CASE ChildDeleted(x)
  <2>1. ~child'[x].exists /\ cachedChild'[x].exists
    BY <1>0, <1>1 DEF ChildDeleted, NoChild
  <2> QED
    BY <2>1
<1>2. ASSUME NEW state \in {"notReady", "ready"}, ChildReports(x, state)
      PROVE  cachedChild' # child'
  <2>1. /\ child' = [child EXCEPT ![x] = [child[x] EXCEPT !.state = state]]
        /\ cachedChild' = cachedChild
        /\ child[x].exists
        /\ child[x].state # state
        /\ child[x].state # "pending" => cachedChild[x] = child[x]
    BY <1>0, <1>2 DEF ChildReports
  <2>2. /\ child'[x].state = state /\ child'[x].exists = child[x].exists
        /\ child'[x].version = child[x].version
    BY <1>0, <2>1 DEF ChildObject
  <2>3. CASE child[x].state # "pending"
    <3>1. cachedChild'[x].state # child'[x].state
      BY <2>1, <2>2, <2>3
    <3> QED
      BY <3>1
  <2>4. CASE child[x].state = "pending"
    <3>1. cachedChild[x].exists /\ cachedChild[x].version = child[x].version =>
             cachedChild[x].state = "pending"
      BY <2>1, <2>4 DEF ChildPast
    <3>2. cachedChild[x] # child'[x]
      BY <2>1, <2>2, <3>1
    <3> QED
      BY <2>1, <3>2
  <2> QED
    BY <2>3, <2>4
<1> QED
  BY <1>1, <1>2

\* The same of a name that is taken: no copy was asked for.
LEMMA TakenNameIsNotNeeded ==
    ASSUME IInv, QuietInv, NameChanges, ~nameTaken, UNCHANGED <<composition, cachedChild>>,
           ~queued, ~unannounced
    PROVE  QuietDependenciesAreKept' /\ QuietDependenciesAreComposed'
<1>1. ~child[Copy].exists /\ UNCHANGED child
  BY DEF NameChanges
<1>2. CASE cachedChild # child
  BY <1>1, <1>2 DEF QuietDependenciesAreKept, QuietDependenciesAreComposed, QuietDependencies
<1>3. CASE cachedChild = child
  <2>1. QuietDependencies
    BY <1>3 DEF QuietDependencies
  <2>2. ~composition.wantsCopy
    BY <1>1, <2>1 DEF QuietInv, QuietDependenciesAreKept
  <2>3. QuietDependenciesAreKept'
    BY <1>1, <2>1, <2>2 DEF QuietInv, QuietDependenciesAreKept, Provided, IsInline, ChildOf,
       DesiredDependency, Dependency
  <2>4. QuietDependenciesAreComposed'
    BY <1>1, <2>1, <2>2 DEF QuietInv, QuietDependenciesAreComposed, IsInline, ChildOf, Ready
  <2> QED
    BY <2>3, <2>4
<1> QED
  BY <1>2, <1>3

\* The invariant is inductive: whatever does not queue the Composition leaves
\* its answer true, or an event to come.
LEMMA QuietStep ==
    ASSUME IInv, QuietInv, [Next]_vars
    PROVE  QuietInv'
<1>0. ChildPast /\ CopyHasItsName
  BY DEF QuietInv
<1>1. CASE UNCHANGED vars
  BY <1>1 DEF vars, QuietInv, ChildPast, CopyHasItsName, QuietDependenciesAreKept,
     QuietDependenciesAreComposed, QuietDependencies, Provided, IsInline, ChildOf,
     DesiredDependency, Dependency, Ready
<1>2. ASSUME NEW failing \in SUBSET Children, Conflicts \subseteq failing,
             NEW copyFails \in BOOLEAN, Request(failing, copyFails)
      PROVE  QuietInv'
  <2>1. ChildPast' /\ CopyHasItsName'
    BY <1>0, <1>2, RequestPast
  <2>2. CASE failing # {} \/ copyFails \/ cachedChild' # child'
    <3>1. ~QuietDependencies'
      BY <1>2, <2>2, RestingRequest DEF QuietDependencies
    <3> QED
      BY <2>1, <3>1 DEF QuietInv, QuietDependenciesAreKept, QuietDependenciesAreComposed
  <2>3. CASE failing = {} /\ ~copyFails /\ cachedChild' = child'
    <3>1. Request({}, FALSE) /\ Conflicts = {}
      BY <1>2, <2>3
    <3>2. QuietDependenciesAreKept'
      BY <2>1, <2>3, <3>1, RequestKept DEF QuietDependenciesAreKept
    <3>3. QuietDependenciesAreComposed'
      BY <2>1, <2>3, <3>1, RequestComposed DEF QuietDependenciesAreComposed
    <3> QED
      BY <2>1, <3>2, <3>3 DEF QuietInv
  <2> QED
    BY <2>2, <2>3
<1>3. CASE ControllerNext
  <2>1. PICK failing \in SUBSET Children :
           Conflicts \subseteq failing /\ \E copyFails \in BOOLEAN : Request(failing, copyFails)
    BY <1>3, RequestsAre
  <2> QED
    BY <1>2, <2>1
<1>4. CASE EnvironmentNext
  <2>1. ChildPast' /\ CopyHasItsName'
    BY <1>0, <1>4, EnvironmentPast
  <2>2. CASE ~QuietDependencies'
    BY <2>1, <2>2 DEF QuietInv, QuietDependenciesAreKept, QuietDependenciesAreComposed
  <2>3. CASE QuietDependencies'
    <3>1. /\ ~queued /\ ~unannounced
          /\ UNCHANGED <<composition, cachedChild>>
          /\ \/ NameChanges /\ ~nameTaken
             \/ \E x \in Children :
                   \/ ChildDeleted(x)
                   \/ \E state \in {"notReady", "ready"} : ChildReports(x, state)
      BY <1>4, <2>3, RestingChanges DEF QuietDependencies
    <3>2. ~ \E x \in Children :
              \/ ChildDeleted(x)
              \/ \E state \in {"notReady", "ready"} : ChildReports(x, state)
      BY <1>0, <2>3, ChangedChildDiffers DEF QuietDependencies
    <3> QED
      BY <2>1, <3>1, <3>2, TakenNameIsNotNeeded DEF QuietInv
  <2> QED
    BY <2>2, <2>3
<1> QED
  BY <1>1, <1>3, <1>4 DEF Next

\* At first the Composition is queued, and the cache is as empty as the API server.
LEMMA InitQuiet == Init => QuietInv
<1> SUFFICES ASSUME Init PROVE QuietInv
  OBVIOUS
<1>1. ChildPast
  BY DEF Init, ChildPast, NoChild
<1>2. CopyHasItsName
  BY DEF Init, CopyHasItsName, NoChild, Children
<1>3. ~QuietDependencies
  BY DEF Init, QuietDependencies
<1> QED
  BY <1>1, <1>2, <1>3 DEF QuietInv, QuietDependenciesAreKept, QuietDependenciesAreComposed

\* The inductive invariant of a Composition at rest.
LEMMA QuietInvariant == Spec => []QuietInv
<1>1. IInv /\ QuietInv /\ [Next]_vars => QuietInv'
  BY QuietStep
<1> QED
  BY Invariant, InitQuiet, <1>1, PTL DEF Spec

\* For any number of dependencies, edits, conflicts, failed calls and panics: a
\* Composition at rest, with nothing left to the resync, has a child for every
\* dependency, none that is left over, and its copy exactly if it is asked for
\* and can be.
THEOREM DependenciesAreKept == Spec => []QuietDependenciesAreKept
<1>1. QuietInv => QuietDependenciesAreKept
  BY DEF QuietInv
<1> QED
  BY QuietInvariant, <1>1, PTL

\* And it says what is so of them, and is composed of the versions there are.
THEOREM DependenciesAreComposed == Spec => []QuietDependenciesAreComposed
<1>1. QuietInv => QuietDependenciesAreComposed
  BY DEF QuietInv
<1> QED
  BY QuietInvariant, <1>1, PTL
=============================================================================
