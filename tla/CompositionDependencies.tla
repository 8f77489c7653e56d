---------------------- MODULE CompositionDependencies -----------------------
(***************************************************************************)
(* A Composition with dependencies that are spelled out in place: for each *)
(* of them the controller keeps a ConfigStore, a Component or a Composition, *)
(* resolves it like any other reference and composes the results; and it   *)
(* keeps a Component of the Composition's own name, a copy of the whole.   *)
(*                                                                         *)
(* A request is one step.  It reads its own object as it is, since its     *)
(* status write would fail otherwise, and the others from the cache as it  *)
(* was before the request.                                                 *)
(***************************************************************************)
EXTENDS Naturals

CONSTANTS
    Slots,       \* the dependencies, in their order
    Kinds,       \* kinds of dependencies spelled out in place, to look at
    MaxChanges,  \* bound on what users and the world outside do
    MaxFaults    \* bound on failed API calls and restarts

ASSUME SlotsAssumption == Slots \subseteq Nat \ {0}
ASSUME KindsAssumption == Kinds \subseteq {"config", "oci", "composition"}
ASSUME DependencyBounds == {MaxChanges, MaxFaults} \subseteq Nat

VARIABLES
    composition,
    child,        \* in the API server
    cachedChild,  \* the informers' view
    nameTaken,    \* somebody else has a Component of the Composition's name
    queued,       \* the Composition is in the work queue
    unannounced,  \* its last answer is outdated and nobody queues it
    changes, faults

vars == <<composition, child, cachedChild, nameTaken, queued, unannounced, changes, faults>>

\* Every child by its kind and the dependency its annotation names; the copy
\* has no such annotation.
Copy == <<"oci", 0>>
Children == (Kinds \X Slots) \union {Copy}

\* What a dependency asks for: something that is there, or a child.
Sources == [kind : Kinds \union {"ref"}, version : Nat]

\* pending: its generation is not observed yet
ChildStates == {"pending", "notReady", "ready"}
NoChild == [exists |-> FALSE, version |-> 0, state |-> "pending"]

NewChild(version) == [exists |-> TRUE, version |-> version, state |-> "pending"]

\* The living condition set, which the copy is no part of; the image is that
\* of the last push.
Ready(c) == c.observed /\ c.resolved /\ c.pushed

Init ==
    /\ composition \in [spec : [Slots -> [kind : Kinds \union {"ref"}, version : {1}]],
                        wantsCopy : BOOLEAN, observed : {FALSE}, resolved : {FALSE},
                        copied : {FALSE}, pushed : {FALSE},
                        image : {[s \in Slots |-> [kind |-> "ref", version |-> 0]]}]
    /\ child = [x \in Children |-> NoChild]
    /\ cachedChild = child
    /\ nameTaken \in BOOLEAN
    /\ queued = TRUE
    /\ unannounced = FALSE
    /\ changes = 0 /\ faults = 0

-----------------------------------------------------------------------------
(* ManageDependencies *)

Dependency(x) == composition.spec[x[2]]

DesiredDependency(x) == x # Copy /\ Dependency(x).kind = x[1]

\* Wrong: every Component of the Composition is taken for a dependency.
AllComponents(x) == TRUE

\* Wrong: a child is one of ours as long as the spec asks for it.
DesiredOnly(x) == DesiredDependency(x)

\* The children of the three reconcilers: the annotation tells them from the copy.
OurDependency(x) == x # Copy

\* What is to become of a child, as its copy in the cache is; a new child is
\* made if there is none.
ManagedDependency(x) ==
    LET cached == cachedChild[x]
    IN IF DesiredDependency(x)
       THEN IF cached.exists /\ cached.version = Dependency(x).version
            THEN child[x]
            ELSE NewChild(Dependency(x).version)
       ELSE IF OurDependency(x) /\ cached.exists THEN NoChild
       ELSE child[x]

\* A child that is not what was read cannot be changed.
Conflicts ==
    {x \in Children :
        /\ DesiredDependency(x) /\ cachedChild[x].exists
        /\ cachedChild[x].version # Dependency(x).version
        /\ child[x] # cachedChild[x]}

Managed(failing) ==
    [x \in Children |-> IF x \in failing THEN child[x] ELSE ManagedDependency(x)]

-----------------------------------------------------------------------------
(* ResolveDependencies: the references to the children, in their order      *)

ChildOf(s) == <<composition.spec[s].kind, s>>

IsInline(s) == composition.spec[s].kind # "ref"

\* The reference to a child that could not be written is nil, and the request
\* panics; one that has just been made is not found.
Resolution(s, failing) ==
    CASE ~IsInline(s)                                    -> "ready"
      [] IsInline(s) /\ ChildOf(s) \in failing           -> "panics"
      [] IsInline(s) /\ ChildOf(s) \notin failing        ->
            IF cachedChild[ChildOf(s)].exists THEN cachedChild[ChildOf(s)].state ELSE "missing"

\* The first dependency that halts decides.
Halting(failing) == {s \in Slots : Resolution(s, failing) # "ready"}
HaltsAt(s, failing) ==
    /\ s \in Halting(failing)
    /\ \A t \in Halting(failing) : s <= t

\* Wrong: a child is found by its dependency alone.
AnySource(s) ==
    IF \E k \in Kinds : cachedChild[<<k, s>>].exists
    THEN LET k == CHOOSE k \in Kinds : cachedChild[<<k, s>>].exists
         IN [kind |-> k, version |-> cachedChild[<<k, s>>].version]
    ELSE composition.spec[s]

\* What is composed for a dependency.
ResolvedSource(s) ==
    IF IsInline(s)
    THEN [kind |-> composition.spec[s].kind, version |-> cachedChild[ChildOf(s)].version]
    ELSE composition.spec[s]

-----------------------------------------------------------------------------
(* ComponentChildReconciler: the copy                                       *)

\* Exists, NotNeeded, or the name is taken.
CopyIsThere == composition.wantsCopy => cachedChild[Copy].exists \/ ~nameTaken

\* What becomes of it after the dependencies are managed.
ManagedCopy(c) ==
    IF ~composition.wantsCopy THEN NoChild
    ELSE IF ~cachedChild[Copy].exists /\ ~nameTaken THEN NewChild(0)
    ELSE c

-----------------------------------------------------------------------------
(* Requests *)

\* A child that is not in the cache yet must not be made a second time.
Delivered == \A x \in Children : child[x].exists => cachedChild[x].exists

\* Wrong: a composition that was pushed is not touched.
ComposeOnce(c) ==
    IF composition.pushed THEN c
    ELSE [c EXCEPT !.pushed = TRUE, !.image = [s \in Slots |-> ResolvedSource(s)]]

\* ComposeComponents, PushComponent, ReflectComponentableStatus.
Compose(c) == [c EXCEPT !.pushed = TRUE, !.image = [s \in Slots |-> ResolvedSource(s)]]

\* What the conditions say, if the dependencies and the copy are all that there is.
Answer(observed, resolved, copied) ==
    [composition EXCEPT !.observed = observed, !.resolved = resolved, !.copied = copied]

\* The copy is seen to whatever becomes of the dependencies.
SeesToCopy(failing, copyFails) ==
    child' = IF copyFails THEN Managed(failing)
             ELSE [Managed(failing) EXCEPT ![Copy] = ManagedCopy(@)]

\* The errors of the dependencies and of the copy are joined.  With one among
\* them that halts, the request ends as if it had succeeded: what else failed
\* is left as it is until an event, or the resync.
Ends(failing, copyFails) ==
    /\ queued' = FALSE
    /\ unannounced' = (failing # {} \/ copyFails)

\* The work queue repeats what ends in a plain error, or panics.
Repeats == queued' = TRUE /\ unannounced' = FALSE

\* A dependency halts the request.  One that is pending has its status left alone.
HaltedByDependency(failing, copyFails) ==
    \E s \in Slots :
        /\ HaltsAt(s, failing)
        /\ \/ /\ Resolution(s, failing) = "panics"
              /\ UNCHANGED composition
              /\ child' = Managed(failing)
              /\ Repeats
           \/ /\ Resolution(s, failing) = "pending"
              /\ UNCHANGED composition
              /\ SeesToCopy(failing, copyFails)
              /\ Ends(failing, copyFails)
           \/ /\ Resolution(s, failing) \in {"missing", "notReady"}
              /\ composition' = Answer(TRUE, FALSE, CopyIsThere /\ ~copyFails)
              /\ SeesToCopy(failing, copyFails)
              /\ Ends(failing, copyFails)

\* The copy does.  While a failed write of it is taken for transient the status
\* may be left alone; that the name is taken is not.
HaltedByCopy(failing, copyFails) ==
    /\ Halting(failing) = {}
    /\ SeesToCopy(failing, copyFails)
    /\ Ends(failing, copyFails)
    /\ \/ copyFails /\ composition' \in {composition, Answer(TRUE, TRUE, FALSE)}
       \/ ~copyFails /\ ~CopyIsThere /\ composition' = Answer(TRUE, TRUE, FALSE)

\* Only a child was not written: the generation stays unobserved.
NotHalted(failing) ==
    /\ Halting(failing) = {}
    /\ CopyIsThere
    /\ SeesToCopy(failing, FALSE)
    /\ \/ /\ failing # {}
          /\ composition' \in {composition, Answer(composition.observed, TRUE, TRUE)}
          /\ Repeats
       \/ /\ failing = {}
          /\ composition' = Compose(Answer(TRUE, TRUE, TRUE))
          /\ Ends({}, FALSE)

Request(failing, copyFails) ==
    /\ queued
    /\ Delivered
    /\ UNCHANGED <<cachedChild, nameTaken, changes>>
    /\ \/ HaltedByDependency(failing, copyFails)
       \/ HaltedByCopy(failing, copyFails)
       \/ ~copyFails /\ NotHalted(failing)

\* The children of a kind are seen to one after the other, in the order of their
\* names: those after one that fails are left as they are.
Unwritten(failing) ==
    LET others == {x \in Children \ {Copy} : \E y \in failing : y[1] = x[1]}
    IN {failing \union F : F \in SUBSET others}

ReconcileComposition ==
    /\ UNCHANGED faults
    /\ \E F \in Unwritten(Conflicts) : Request(F, FALSE)

\* A call for a child fails, or the one that makes or deletes the copy.
RequestFails(x) ==
    /\ faults < MaxFaults
    /\ faults' = faults + 1
    /\ \/ /\ x # Copy /\ x \notin Conflicts
          /\ ManagedDependency(x) # child[x]
          /\ \E F \in Unwritten(Conflicts \union {x}) : Request(F, FALSE)
       \/ /\ x = Copy
          /\ ManagedCopy(child[x]) # child[x]
          /\ \E F \in Unwritten(Conflicts) : Request(F, TRUE)

-----------------------------------------------------------------------------
(* Users, and the controllers of the children *)

Changes ==
    /\ changes < MaxChanges
    /\ changes' = changes + 1

\* A dependency is changed, in kind or not.
DependencyEdited(s, kind) ==
    /\ Changes
    /\ composition' = [composition EXCEPT
          !.spec[s] = [kind |-> kind, version |-> @.version + 1], !.observed = FALSE]
    /\ queued' = TRUE
    /\ UNCHANGED <<child, cachedChild, nameTaken, unannounced, faults>>

\* The annotation that asks for a copy is no part of the spec.
AnnotationChanged ==
    /\ Changes
    /\ composition' = [composition EXCEPT !.wantsCopy = ~@]
    /\ queued' = TRUE
    /\ UNCHANGED <<child, cachedChild, nameTaken, unannounced, faults>>

\* A user deletes a child that informers know of; they will tell.
ChildDeleted(x) ==
    /\ Changes
    /\ child[x].exists /\ cachedChild[x].exists
    /\ child' = [child EXCEPT ![x] = NoChild]
    /\ UNCHANGED <<composition, cachedChild, nameTaken, queued, unannounced, faults>>

\* Nobody tells when the name is free.
NameChanges ==
    /\ Changes
    /\ ~child[Copy].exists
    /\ nameTaken' = ~nameTaken
    /\ unannounced' = (unannounced \/ nameTaken)
    /\ UNCHANGED <<composition, child, cachedChild, queued, faults>>

\* A child's controller reports on it, and may change its mind.  The cache
\* holds a copy, not events: two changes that undo each other are told apart
\* by having the first arrive before the second is made.  Nobody looks at what
\* the copy has to say: that it does wakes the Composition up.
ChildReports(x, state) ==
    /\ child[x].exists
    /\ x = Copy => state = "ready"
    /\ \/ child[x].state = "pending" /\ UNCHANGED changes
       \/ child[x].state = "notReady" /\ state = "ready" /\ UNCHANGED changes
       \/ child[x].state = "ready" /\ state = "notReady" /\ Changes
    /\ child[x].state # "pending" => cachedChild[x] = child[x]
    /\ child' = [child EXCEPT ![x].state = state]
    /\ UNCHANGED <<composition, cachedChild, nameTaken, queued, unannounced, faults>>

-----------------------------------------------------------------------------
(* Informers, the resync, restarts *)

SyncChild(x) ==
    /\ cachedChild[x] # child[x]
    /\ cachedChild' = [cachedChild EXCEPT ![x] = child[x]]
    /\ queued' = TRUE
    /\ UNCHANGED <<composition, child, nameTaken, unannounced, changes, faults>>

Resync ==
    /\ unannounced
    /\ unannounced' = FALSE
    /\ queued' = TRUE
    /\ UNCHANGED <<composition, child, cachedChild, nameTaken, changes, faults>>

Restart ==
    /\ faults < MaxFaults
    /\ faults' = faults + 1
    /\ cachedChild' = child
    /\ queued' = TRUE
    /\ unannounced' = FALSE
    /\ UNCHANGED <<composition, child, nameTaken, changes>>

ControllerNext == ReconcileComposition \/ \E x \in Children : RequestFails(x)

EnvironmentNext ==
    \/ \E s \in Slots, kind \in Kinds \union {"ref"} : DependencyEdited(s, kind)
    \/ AnnotationChanged \/ NameChanges
    \/ \E x \in Children :
          \/ ChildDeleted(x) \/ SyncChild(x)
          \/ \E state \in {"notReady", "ready"} : ChildReports(x, state)
    \/ Resync \/ Restart

Next == ControllerNext \/ EnvironmentNext

Spec == Init /\ [][Next]_vars
=============================================================================
