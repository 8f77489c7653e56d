------------------------ MODULE ComponentReferences ------------------------
(***************************************************************************)
(* Components and Compositions that refer to each other, their images and  *)
(* the traces by which reference cycles are found.                         *)
(*                                                                         *)
(* A request is one step.  Its status write fails when its object changed  *)
(* since it was read, and what it read of others may be arbitrarily old,   *)
(* so nothing new comes from letting others act in between.  For the same  *)
(* reason a request waits until its own object is current in the cache.    *)
(***************************************************************************)
EXTENDS Naturals, Sequences

CONSTANTS
    Components, Compositions,
    Images,        \* digests in remote repositories
    NoImage,
    Dependencies,  \* the sequences of references a Composition may have
    MaxEdits,      \* bound on what users do
    MaxFaults,     \* bound on restarts and failed uploads
    MaxOutages     \* bound on changes of the repository

Nodes == Components \union Compositions

ASSUME NodesAssumption == Components \intersect Compositions = {}
ASSUME ImagesAssumption == NoImage \notin Images
ASSUME DependenciesAssumption == Dependencies \subseteq Seq(Nodes) \ {<< >>}
ASSUME ReferenceBounds == {MaxEdits, MaxFaults, MaxOutages} \subseteq Nat

VARIABLES
    object,      \* in the API server
    cached,      \* the informers' view
    queued,      \* the work queues
    repository,  \* the ClusterRepository all of them publish to
    edits, faults, outages

counters == <<edits, faults, outages>>
vars == <<object, cached, queued, repository, counters>>

-----------------------------------------------------------------------------
(* Data *)

\* What a Component refers to: an image or one other object.
FromImage(d) == [oci |-> d, refs |-> << >>]
FromRefs(refs) == [oci |-> NoImage, refs |-> refs]
Specs(x) ==
    IF x \in Components
    THEN {FromImage(d) : d \in Images} \union {FromRefs(<<y>>) : y \in Nodes}
    ELSE {FromRefs(refs) : refs \in Dependencies}

\* An object created again under its name has another UID.
Uid(x, n) == <<x, n>>

\* observed: .status.observedGeneration = .metadata.generation
\* cycle: the condition that holds it back has the reason CycleDetected
Created(x, n, spec) ==
    [exists |-> TRUE, uid |-> Uid(x, n), generation |-> 1, spec |-> spec, observed |-> FALSE,
     ready |-> FALSE, cycle |-> FALSE, image |-> NoImage, trace |-> {}]

NoSpec == [oci |-> NoImage, refs |-> << >>]
Missing(x, n) == [Created(x, n, NoSpec) EXCEPT !.exists = FALSE]

\* A trace is a forest of spans, kept as the set of its paths from the roots.
Span(o) == [uid |-> o.uid, digest |-> o.image, omitted |-> FALSE]
SynthesizeSpan(o) == {<<Span(o)>> \o path : path \in o.trace \union {<< >>}}

\* Wrong: only the references themselves are looked at.
DetectDirectCycle(trace, uid) == \E path \in trace : path[1].uid = uid

DetectTraceCycle(trace, uid) == \E path \in trace : \E k \in DOMAIN path : path[k].uid = uid

Avoids(path, uid) == \A k \in DOMAIN path : path[k].uid # uid

\* The paths that reach uid with their last span, and not before.
EndsAt(path, uid) ==
    path[Len(path)].uid = uid /\ \A k \in 1..(Len(path) - 1) : path[k].uid # uid

MarkOmitted(path) == [path EXCEPT ![Len(path)] = [@ EXCEPT !.omitted = TRUE]]

\* Every path is cut at the first span of uid, which is marked.
Sanitized(trace, uid) ==
    {path \in trace : Avoids(path, uid)} \union
    {MarkOmitted(path) : path \in {p \in trace : EndsAt(p, uid)}}

\* WAC makes another image of the images it is given, in their order.
Composed(x, images) == <<x>> \o images

\* Some of the objects have been created, in any order.
Init ==
    /\ \E spec \in [Nodes -> UNION {Specs(x) : x \in Nodes}], missing \in SUBSET Nodes :
          /\ \A x \in Nodes : spec[x] \in Specs(x)
          /\ object = [x \in Nodes |->
                IF x \in missing THEN Missing(x, 0) ELSE Created(x, 1, spec[x])]
    /\ cached = object
    /\ queued = {x \in Nodes : object[x].exists}
    /\ repository = "ready"
    /\ edits = 0 /\ faults = 0 /\ outages = 0

-----------------------------------------------------------------------------
(* What a request writes to the status of its object o                     *)

NotReady(o) == [o EXCEPT !.ready = FALSE, !.cycle = FALSE, !.observed = TRUE]

\* The other conditions keep what they last said.
RepositoryNotReady(o) == [o EXCEPT !.ready = FALSE, !.observed = TRUE]

CycleDetected(o, trace) ==
    [o EXCEPT !.ready = FALSE, !.cycle = TRUE, !.observed = TRUE,
              !.trace = Sanitized(trace, o.uid)]

\* Wrong: the image is published without the trace it was resolved by.
ReflectImage(o, image, trace) ==
    [o EXCEPT !.ready = TRUE, !.cycle = FALSE, !.observed = TRUE, !.image = image]

\* Once every sub-reconciler has succeeded.
ReflectComponentableStatus(o, image, trace) ==
    [o EXCEPT !.ready = TRUE, !.cycle = FALSE, !.observed = TRUE,
              !.image = image, !.trace = trace]

\* ErrGenerationMismatch: no status update.
Skipped(o) == o

\* Wrong: an image is enough.
HasImage(c) == c.image # NoImage

Usable(c) == c.ready /\ c.image # NoImage

\* A Component does not ask whether the object it refers to has been
\* reconciled since it last changed.
CopyReference(o, c) ==
    LET trace == SynthesizeSpan(c)
    IN IF ~c.exists                          THEN NotReady(o)
       ELSE IF DetectTraceCycle(trace, o.uid) THEN CycleDetected(o, trace)
       ELSE IF ~Usable(c)                     THEN NotReady(o)
       ELSE ReflectComponentableStatus(o, c.image, trace)

CopyComponent(o) ==
    IF o.spec.refs = << >>
    THEN ReflectComponentableStatus(o, o.spec.oci, {})
    ELSE CopyReference(o, cached[o.spec.refs[1]])

\* Also of the dependencies, which are pulled from it.
ResolveRepository(o) ==
    IF repository = "reconciling" THEN Skipped(o) ELSE RepositoryNotReady(o)

\* The first dependency that halts a request decides what is written.
ResolveDependency(o, c, trace) ==
    IF ~c.exists                               THEN NotReady(o)
    ELSE IF DetectTraceCycle(trace, o.uid)     THEN CycleDetected(o, trace)
    ELSE IF ~c.observed                        THEN Skipped(o)
    ELSE IF ~Usable(c)                         THEN NotReady(o)
    ELSE ResolveRepository(o)

Dependency(o, i) == cached[o.spec.refs[i]]

\* The spans of the first i dependencies.
TraceUpTo(o, i) == UNION {SynthesizeSpan(Dependency(o, j)) : j \in 1..i}

Halting(o) ==
    {i \in DOMAIN o.spec.refs :
        LET c == Dependency(o, i)
        IN \/ ~c.exists \/ ~c.observed \/ ~Usable(c) \/ repository # "ready"
           \/ DetectTraceCycle(SynthesizeSpan(c), o.uid)}

ComposeComponents(o) ==
    ReflectComponentableStatus(
        o,
        Composed(o.uid[1], [i \in DOMAIN o.spec.refs |-> Dependency(o, i).image]),
        TraceUpTo(o, Len(o.spec.refs)))

-----------------------------------------------------------------------------
(* Actions *)

Request(x) ==
    /\ x \in queued
    /\ object[x].exists
    /\ object[x] = cached[x]

WritesStatus(x, o) ==
    /\ object' = [object EXCEPT ![x] = o]
    /\ queued' = queued \ {x}
    /\ UNCHANGED <<cached, repository, counters>>

\* The repository is resolved first, and nothing without it.
ReconcileComponent(x) ==
    /\ Request(x)
    /\ WritesStatus(x, IF repository = "ready" THEN CopyComponent(object[x])
                                               ELSE ResolveRepository(object[x]))

\* The dependencies are resolved one after the other, also without a
\* repository; but while that is reconciling, no status is written.
ReconcileComposition(x) ==
    LET o == object[x]
    IN /\ Request(x)
       /\ \/ /\ repository = "reconciling"
             /\ WritesStatus(x, Skipped(o))
          \/ /\ repository # "reconciling"
             /\ \E i \in Halting(o) :
                   /\ \A j \in Halting(o) : i <= j
                   /\ WritesStatus(x, ResolveDependency(o, Dependency(o, i), TraceUpTo(o, i)))
          \/ /\ Halting(o) = {}
             /\ WritesStatus(x, ComposeComponents(o))

\* Does a request get as far as to publish something?
Uploads(x) ==
    /\ repository = "ready"
    /\ \/ x \in Components /\ CopyComponent(object[x]).ready
       \/ x \in Compositions /\ Halting(object[x]) = {}

\* The registry fails what would have been published; the request is repeated.
\* The first errors leave the status alone.
UploadFails(x) ==
    /\ faults < MaxFaults
    /\ faults' = faults + 1
    /\ Request(x)
    /\ Uploads(x)
    /\ object' \in {object, [object EXCEPT ![x].ready = FALSE, ![x].cycle = FALSE]}
    /\ UNCHANGED <<cached, queued, repository, edits, outages>>

\* A request tracks what its object refers to; while the spec has changed
\* since, the object is queued anyway.
Tracks(y, x) == \E i \in DOMAIN object[y].spec.refs : object[y].spec.refs[i] = x

\* Wrong: who refers to the object is not queued.
SyncOnlyOwn(x) ==
    /\ cached[x] # object[x]
    /\ cached' = [cached EXCEPT ![x] = object[x]]
    /\ queued' = queued \union {y \in {x} : object[y].exists}
    /\ UNCHANGED <<object, repository, counters>>

\* The informer delivers an object: it is queued, and so is who tracks it.
SyncCache(x) ==
    /\ cached[x] # object[x]
    /\ cached' = [cached EXCEPT ![x] = object[x]]
    /\ queued' = queued \union
          {y \in Nodes : object[y].exists /\ (y = x \/ Tracks(y, x))}
    /\ UNCHANGED <<object, repository, counters>>

\* Every object tracks its repository.
RepositoryChanges ==
    /\ outages < MaxOutages
    /\ outages' = outages + 1
    /\ repository' \in {"ready", "reconciling", "notReady"} \ {repository}
    /\ queued' = {x \in Nodes : object[x].exists}
    /\ UNCHANGED <<object, cached, edits, faults>>

Edit(x, o) ==
    /\ edits < MaxEdits
    /\ edits' = edits + 1
    /\ object' = [object EXCEPT ![x] = o]
    /\ UNCHANGED <<cached, repository, faults, outages>>

ChangeSpec(x) ==
    /\ object[x].exists
    /\ \E spec \in Specs(x) \ {object[x].spec} :
          Edit(x, [object[x] EXCEPT !.spec = spec, !.observed = FALSE, !.generation = @ + 1])
    /\ UNCHANGED queued

Delete(x) ==
    /\ object[x].exists
    /\ Edit(x, Missing(x, object[x].uid[2]))
    /\ queued' = queued \ {x}

Create(x) ==
    /\ ~object[x].exists
    /\ \E spec \in Specs(x) : Edit(x, Created(x, object[x].uid[2] + 1, spec))
    /\ UNCHANGED queued

\* A new process lists every object and queues it; so does the resync.
Restart ==
    /\ faults < MaxFaults
    /\ faults' = faults + 1
    /\ cached' = object
    /\ queued' = {x \in Nodes : object[x].exists}
    /\ UNCHANGED <<object, repository, edits, outages>>

ControllerNext ==
    \/ \E x \in Components : ReconcileComponent(x)
    \/ \E x \in Compositions : ReconcileComposition(x)
    \/ \E x \in Nodes : UploadFails(x)

EnvironmentNext ==
    \/ \E x \in Nodes : SyncCache(x) \/ ChangeSpec(x) \/ Delete(x) \/ Create(x)
    \/ RepositoryChanges
    \/ Restart

Next == ControllerNext \/ EnvironmentNext

Spec == Init /\ [][Next]_vars
=============================================================================
