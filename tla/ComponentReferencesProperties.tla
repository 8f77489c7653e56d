------------------- MODULE ComponentReferencesProperties -------------------
(***************************************************************************)
(* What references between components guarantee, and where their controllers *)
(* come to rest.                                                           *)
(***************************************************************************)
EXTENDS ComponentReferences

\* No work is left until something changes.
Quiet == queued = {} /\ cached = object

Exists(x) == object[x].exists
Ready(x) == Exists(x) /\ object[x].ready
References(x) == {object[x].spec.refs[i] : i \in DOMAIN object[x].spec.refs}

\* The least set that has W, and whatever refers only to its members.
Closed(S, W) ==
    \A x \in Nodes : Exists(x) /\ (x \in W \/ References(x) \subseteq S) => x \in S
Least(W) == {x \in Nodes : \A S \in SUBSET Nodes : Closed(S, W) => x \in S}

\* The objects from which no chain of references leads to a missing object or
\* into a cycle.
Resolvable == Least({})

\* A Composition keeps what it has while a dependency has not observed its own
\* generation.
Waiting ==
    {x \in Compositions :
        Exists(x) /\ \E y \in References(x) : Exists(y) /\ ~object[y].observed}

\* Images nest as deep as Compositions do, so only their presence is typed.
SpanOK(s) ==
    s.uid[1] \in Nodes /\ s.uid[2] \in Nat /\ s.omitted \in BOOLEAN

ObjectOK(x, o) ==
    /\ {o.exists, o.observed, o.ready, o.cycle} \subseteq BOOLEAN
    /\ o.uid[1] = x /\ o.uid[2] \in Nat /\ o.generation \in Nat
    /\ o.spec \in IF o.exists THEN Specs(x) ELSE {NoSpec}
    /\ \A path \in o.trace : path # << >> /\ \A k \in DOMAIN path : SpanOK(path[k])

\* What is stored and cached has the shape the controllers write; traces hold
\* no empty paths.
TypeOK ==
    /\ \A x \in Nodes : ObjectOK(x, object[x]) /\ ObjectOK(x, cached[x])
    /\ queued \subseteq Nodes
    /\ repository \in {"ready", "reconciling", "notReady"}
    /\ edits \in 0..MaxEdits /\ faults \in 0..MaxFaults /\ outages \in 0..MaxOutages

-----------------------------------------------------------------------------

\* A Component is a copy: its digest is that of the next span.
Linked(path) ==
    \A k \in 1..(Len(path) - 1) :
        path[k].uid[1] \in Components => path[k].digest = path[k + 1].digest

Provenance(x, o) ==
    o.ready =>
        /\ x \in Components => o.image # NoImage
        /\ \A path \in o.trace :
              Linked(path) /\ (x \in Components => path[1].digest = o.image)

\* The trace of a Ready object tells where its image is from, whatever its
\* sources have become since; and no Component is Ready without an image.
ReadyProvenance == \A x \in Nodes : Exists(x) => Provenance(x, object[x])

\* A path meets no object twice, except in a last span that says so.
SimplePath(path) ==
    \A k \in DOMAIN path :
        /\ path[k].omitted => k = Len(path)
        /\ \A m \in 1..(k - 1) : path[m].uid = path[k].uid => path[k].omitted

\* Nor does it meet the object uid whose trace it is in.
FinitePath(path, uid) ==
    /\ SimplePath(path)
    /\ \A k \in DOMAIN path : path[k].uid = uid => path[k].omitted

\* Traces stay finite, although each holds old copies of the others.
TracesAreFinite ==
    \A x \in Nodes : \A path \in object[x].trace : FinitePath(path, object[x].uid)

\* What was last published is what the references have now.
IsCurrent(x) ==
    /\ object[x].image =
          IF x \in Compositions
          THEN Composed(x, [i \in DOMAIN object[x].spec.refs |->
                               object[object[x].spec.refs[i]].image])
          ELSE IF References(x) = {} THEN object[x].spec.oci
          ELSE object[object[x].spec.refs[1]].image
    /\ object[x].trace = UNION {SynthesizeSpan(object[y]) : y \in References(x)}

\* When the controllers come to rest, every object that can be resolved is
\* Ready, no other is but for those that wait and who refers to them, and each
\* has the image and the trace of what its references have now: no cycle is
\* mistaken for one, none goes unnoticed, and no change is missed by the events
\* that queue who refers to it.  Only who waits has not observed its spec.
QuietIsResolved ==
    Quiet /\ repository = "ready" =>
        \A x \in Nodes : Exists(x) =>
            /\ x \in Resolvable => Ready(x)
            /\ Ready(x) => x \in Least(Waiting)
            /\ x \notin Waiting => object[x].observed /\ (Ready(x) => IsCurrent(x))

-----------------------------------------------------------------------------
(* Liveness *)

ReferencesFairness ==
    /\ \A x \in Components : WF_vars(ReconcileComponent(x))
    /\ \A x \in Compositions : WF_vars(ReconcileComposition(x))
    /\ \A x \in Nodes : WF_vars(SyncCache(x))

FairSpec == Spec /\ ReferencesFairness

\* The controllers come to rest: they do not wake each other for ever, not
\* even around a cycle, where each publishes what the next one reads.
ComesToRest == <>[]Quiet
=============================================================================
