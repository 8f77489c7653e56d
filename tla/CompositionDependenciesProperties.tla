----------------- MODULE CompositionDependenciesProperties ------------------
(***************************************************************************)
(* What becomes of the dependencies that are spelled out in place.         *)
(***************************************************************************)
EXTENDS CompositionDependencies

ChildObject == [exists : BOOLEAN, version : Nat, state : ChildStates]

\* What is stored has the shape the controller and users write.
TypeOK ==
    /\ composition \in [spec : [Slots -> Sources], wantsCopy : BOOLEAN, observed : BOOLEAN,
                        resolved : BOOLEAN, copied : BOOLEAN, pushed : BOOLEAN,
                        image : [Slots -> Sources]]
    /\ child \in [Children -> ChildObject] /\ cachedChild \in [Children -> ChildObject]
    /\ nameTaken \in BOOLEAN /\ queued \in BOOLEAN /\ unannounced \in BOOLEAN
    /\ changes \in 0..MaxChanges /\ faults \in 0..MaxFaults

\* No request is queued and no event on its way; and the resync has seen to what
\* failed and was not repeated.
QuietDependencies == ~queued /\ ~unannounced /\ cachedChild = child

\* The child of a dependency, as it is asked for now.
Provided(s) ==
    IsInline(s) => /\ child[ChildOf(s)].exists
                   /\ child[ChildOf(s)].version = composition.spec[s].version

\* When all is quiet, every dependency that is spelled out has its child, as it
\* was last edited, and nothing is left of what it was before: also when its
\* kind was changed, requests panicked, and calls failed whose errors were lost
\* among those that halt.
QuietDependenciesAreKept ==
    QuietDependencies =>
        /\ \A s \in Slots : Provided(s)
        /\ \A x \in Children \ {Copy} : child[x].exists => DesiredDependency(x)
        /\ child[Copy].exists <=> composition.wantsCopy /\ ~nameTaken

\* When all is quiet the Composition is Ready with all that it has, in its
\* current version; a child that is being reconciled is waited for.  Only when
\* its copy has nowhere to go may it be Ready with what it was.
QuietDependenciesAreComposed ==
    LET Settled == \A s \in Slots : IsInline(s) => child[ChildOf(s)].state = "ready"
        Copied == composition.wantsCopy => ~nameTaken
    IN QuietDependencies /\ (\A s \in Slots : IsInline(s) => child[ChildOf(s)].state # "pending") =>
          /\ composition.copied <=> Copied
          /\ Ready(composition) => Settled
          /\ Settled /\ Copied => Ready(composition) /\ composition.image = composition.spec

\* What is composed for a dependency is of the kind the spec has for it: never
\* what another dependency or an earlier kind of it left in the cache; and of
\* no version it has not had.
ComposesItsOwn ==
    [][composition'.image # composition.image =>
          \A s \in Slots :
             /\ composition'.image[s].kind = composition.spec[s].kind
             /\ composition'.image[s].version <= composition.spec[s].version]_vars

-----------------------------------------------------------------------------
(* Liveness *)

\* Some event arrives, some child is reconciled: there is no end of others only
\* if there is one of changes.
DependenciesFairness ==
    /\ WF_vars(ReconcileComposition) /\ WF_vars(Resync)
    /\ WF_vars(\E x \in Children : SyncChild(x))
    /\ WF_vars(\E x \in Children : ChildReports(x, "ready"))

FairSpec == Spec /\ DependenciesFairness

\* The controller comes to rest, and then the Composition is Ready with what it
\* has now, unless its copy has nowhere to go: no panic is repeated for ever, the
\* resync makes up for what failed unrepeated, and the two reconcilers of
\* Components leave each other's alone.
DependenciesSettle ==
    <>[](/\ QuietDependencies
          /\ \/ Ready(composition) /\ composition.image = composition.spec
             \/ composition.wantsCopy /\ nameTaken)
=============================================================================
