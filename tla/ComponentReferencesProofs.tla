--------------------- MODULE ComponentReferencesProofs ---------------------
(***************************************************************************)
(* For any set of Components and Compositions, whatever users, informers,  *)
(* failures and outages do: traces stay finite and tell the truth, and     *)
(* when the controllers come to rest what can be resolved is Ready.        *)
(*                                                                         *)
(* The former are claims about what is published; their invariant extends  *)
(* them to every copy in a cache, which the next trace is made of.         *)
(***************************************************************************)
EXTENDS ComponentReferencesProperties, WellFoundedInduction, TLAPS

\* Spans and objects are records: images and traces are of no set known
\* beforehand, but of some set.
SpanShape(s) == \E U, D : s \in [uid : U, digest : D, omitted : BOOLEAN]

ObjectShape(o) ==
    \E U, S, I, T :
        o \in [exists : BOOLEAN, uid : U, generation : Nat, spec : S, observed : BOOLEAN,
               ready : BOOLEAN, cycle : BOOLEAN, image : I, trace : T]

IsPath(path) ==
    /\ path # << >>
    /\ \E S : path \in Seq(S)
    /\ \A k \in DOMAIN path : SpanShape(path[k]) /\ SpanOK(path[k])

ObjectInvariant(x, o) ==
    /\ ObjectShape(o)
    /\ ObjectOK(x, o)
    /\ \A path \in o.trace : IsPath(path) /\ FinitePath(path, o.uid)
    /\ Provenance(x, o)

ReferencesInvariant ==
    /\ TypeOK
    /\ object = [x \in Nodes |-> object[x]]
    /\ cached = [x \in Nodes |-> cached[x]]
    /\ \A x \in Nodes : ObjectInvariant(x, object[x]) /\ ObjectInvariant(x, cached[x])

-----------------------------------------------------------------------------
(* Paths *)

\* A path is a sequence with at least one span.
LEMMA PathLength ==
    ASSUME NEW path, IsPath(path)
    PROVE  Len(path) \in Nat \ {0} /\ DOMAIN path = 1..Len(path)
<1>1. PICK S : path \in Seq(S)  BY DEF IsPath
<1>2. Len(path) # 0 BY <1>1 DEF IsPath
<1> QED BY <1>1, <1>2

\* One more span in front of a path, or none.
LEMMA ConsPath ==
    ASSUME NEW S, NEW path \in Seq(S), NEW s
    PROVE  LET longer == <<s>> \o path
           IN /\ longer \in Seq(S \union {s})
              /\ Len(longer) = Len(path) + 1
              /\ longer[1] = s
              /\ \A k \in 1..Len(path) : longer[k + 1] = path[k]
<1>1. path \in Seq(S \union {s})  OBVIOUS
<1>2. <<s>> \in Seq(S \union {s})  OBVIOUS
<1> QED BY <1>1, <1>2

\* What SynthesizeSpan puts in front of the paths of a good object.
LEMMA SynthesizedPath ==
    ASSUME NEW y \in Nodes, NEW o, ObjectInvariant(y, o), NEW path \in SynthesizeSpan(o)
    PROVE  /\ IsPath(path) /\ SimplePath(path)
           /\ path[1] = Span(o)
           /\ \/ path = <<Span(o)>>
              \/ \E rest \in o.trace :
                    Len(path) = Len(rest) + 1 /\ \A k \in 1..Len(rest) : path[k + 1] = rest[k]
<1> DEFINE s == Span(o)
<1>1. PICK rest \in o.trace \union {<< >>} : path = <<s>> \o rest
  BY DEF SynthesizeSpan
<1>2. s.uid = o.uid /\ s.digest = o.image /\ s.omitted = FALSE /\ SpanShape(s) /\ SpanOK(s)
  <2>1. s \in [uid : {o.uid}, digest : {o.image}, omitted : BOOLEAN] BY DEF Span
  <2> QED BY <2>1 DEF Span, SpanShape, SpanOK, ObjectInvariant, ObjectOK
<1>3. CASE rest = << >>
  <2>1. path = <<s>> BY <1>1, <1>3
  <2>2. IsPath(path)
    <3>1. path \in Seq({s}) /\ path # << >> BY <2>1
    <3>2. DOMAIN path = {1} /\ path[1] = s BY <2>1
    <3> QED BY <3>1, <3>2, <1>2 DEF IsPath
  <2>3. SimplePath(path) BY <2>1, <1>2 DEF SimplePath
  <2> QED BY <2>1, <2>2, <2>3
<1>4. CASE rest \in o.trace
  <2>1. IsPath(rest) /\ FinitePath(rest, o.uid) BY <1>4 DEF ObjectInvariant
  <2>2. Len(rest) \in Nat \ {0} /\ DOMAIN rest = 1..Len(rest) BY <2>1, PathLength
  <2>3. PICK S : rest \in Seq(S) BY <2>1 DEF IsPath
  <2>4. /\ path \in Seq(S \union {s})
        /\ Len(path) = Len(rest) + 1
        /\ path[1] = s
        /\ \A k \in 1..Len(rest) : path[k + 1] = rest[k]
    BY <1>1, <2>3, ConsPath
  <2>5. DOMAIN path = 1..(Len(rest) + 1) BY <2>4, <2>2
  <2>6. ASSUME NEW k \in DOMAIN path, k # 1
        PROVE  k - 1 \in DOMAIN rest /\ path[k] = rest[k - 1]
    BY <2>6, <2>2, <2>4, <2>5
  <2>7. IsPath(path)
    <3>1. path # << >> BY <2>4, <2>2
    <3>2. \A k \in DOMAIN path : SpanShape(path[k]) /\ SpanOK(path[k])
      BY <2>1, <2>4, <2>6, <1>2 DEF IsPath
    <3> QED BY <3>1, <3>2, <2>4 DEF IsPath
  <2>8. SimplePath(path)
    <3> SUFFICES ASSUME NEW k \in DOMAIN path
                 PROVE  /\ path[k].omitted => k = Len(path)
                        /\ \A m \in 1..(k - 1) : path[m].uid = path[k].uid => path[k].omitted
      BY DEF SimplePath
    <3>1. CASE k = 1 BY <3>1, <2>4, <1>2
    <3>2. CASE k # 1
      <4>1. k - 1 \in DOMAIN rest /\ path[k] = rest[k - 1] BY <3>2, <2>6
      <4>2. path[k].omitted => k = Len(path)
        BY <4>1, <2>1, <2>2, <2>4, <2>5 DEF FinitePath, SimplePath
      <4>3. ASSUME NEW m \in 1..(k - 1), path[m].uid = path[k].uid
            PROVE  path[k].omitted
        <5>1. CASE m = 1 BY <5>1, <4>1, <4>3, <2>4, <1>2, <2>1 DEF FinitePath
        <5>2. CASE m # 1
          <6>1. m \in DOMAIN path BY <2>5
          <6>2. path[m] = rest[m - 1] BY <6>1, <5>2, <2>6
          <6>3. m - 1 \in 1..(k - 1 - 1) BY <5>2, <2>5
          <6> QED BY <6>2, <6>3, <4>1, <4>3, <2>1 DEF FinitePath, SimplePath
        <5> QED BY <5>1, <5>2
      <4> QED BY <4>2, <4>3
    <3> QED BY <3>1, <3>2
  <2> QED BY <1>4, <2>4, <2>7, <2>8
<1> QED BY <1>3, <1>4

\* The next link of a synthesized path is the first of the object's own.
LEMMA SynthesizedLinks ==
    ASSUME NEW y \in Nodes, NEW o, ObjectInvariant(y, o), Usable(o),
           NEW path \in SynthesizeSpan(o)
    PROVE  Linked(path) /\ path[1].digest = o.image
<1>1. path[1] = Span(o) /\ IsPath(path) BY SynthesizedPath
<1>2. path[1].digest = o.image /\ path[1].uid = o.uid BY <1>1 DEF Span
<1>3. CASE path = <<Span(o)>>
  BY <1>2, <1>3 DEF Linked
<1>4. ASSUME NEW rest \in o.trace, Len(path) = Len(rest) + 1,
             \A k \in 1..Len(rest) : path[k + 1] = rest[k]
      PROVE  Linked(path)
  <2>1. IsPath(rest) /\ Linked(rest) /\ (y \in Components => rest[1].digest = o.image)
    BY DEF ObjectInvariant, Provenance, Usable
  <2>2. Len(rest) \in Nat \ {0} BY <2>1, PathLength
  <2> SUFFICES ASSUME NEW k \in 1..(Len(path) - 1), path[k].uid[1] \in Components
               PROVE  path[k].digest = path[k + 1].digest
    BY DEF Linked
  <2>3. k \in 1..Len(rest) /\ path[k + 1] = rest[k] BY <1>4, <2>2
  <2>4. CASE k = 1
    <3>1. y \in Components BY <1>2, <2>4 DEF ObjectInvariant, ObjectOK
    <3> QED BY <3>1, <2>1, <2>3, <2>4, <1>2
  <2>5. CASE k # 1
    <3>1. k - 1 \in 1..(Len(rest) - 1) /\ path[(k - 1) + 1] = rest[k - 1]
      BY <1>4, <2>2, <2>3, <2>5
    <3>2. rest[k - 1].digest = rest[(k - 1) + 1].digest
      BY <3>1, <2>1, <2>3 DEF Linked
    <3> QED BY <3>1, <3>2, <2>3
  <2> QED BY <2>4, <2>5
<1> QED BY <1>2, <1>3, <1>4, SynthesizedPath

\* A trace in which no cycle is found is a good one to publish.
LEMMA AcyclicTrace ==
    ASSUME NEW trace, NEW uid, ~DetectTraceCycle(trace, uid),
           \A path \in trace : IsPath(path) /\ SimplePath(path)
    PROVE  \A path \in trace : IsPath(path) /\ FinitePath(path, uid)
BY DEF DetectTraceCycle, FinitePath

\* Marking a span leaves its other fields alone.
LEMMA MarkedSpan ==
    ASSUME NEW s, SpanShape(s), NEW marked, marked = [s EXCEPT !.omitted = TRUE]
    PROVE  SpanShape(marked) /\ marked.uid = s.uid /\ marked.omitted = TRUE
<1>1. PICK U, D : s \in [uid : U, digest : D, omitted : BOOLEAN] BY DEF SpanShape
<1>2. marked \in [uid : U, digest : D, omitted : BOOLEAN] BY <1>1
<1> QED BY <1>1, <1>2 DEF SpanShape

\* So is the one that is left of a trace with a cycle.
LEMMA SanitizedTrace ==
    ASSUME NEW trace, NEW uid, \A path \in trace : IsPath(path) /\ SimplePath(path)
    PROVE  \A path \in Sanitized(trace, uid) : IsPath(path) /\ FinitePath(path, uid)
<1> SUFFICES ASSUME NEW path \in Sanitized(trace, uid)
             PROVE  IsPath(path) /\ FinitePath(path, uid)
  OBVIOUS
<1>1. CASE path \in trace /\ Avoids(path, uid)
  BY <1>1 DEF Avoids, FinitePath
<1>2. ASSUME NEW cut \in trace, EndsAt(cut, uid), path = MarkOmitted(cut)
      PROVE  IsPath(path) /\ FinitePath(path, uid)
  <2>1. IsPath(cut) /\ SimplePath(cut) OBVIOUS
  <2>2. Len(cut) \in Nat \ {0} /\ DOMAIN cut = 1..Len(cut) BY <2>1, PathLength
  <2> DEFINE n == Len(cut)
             last == [cut[n] EXCEPT !.omitted = TRUE]
  <2>3. PICK S : cut \in Seq(S) BY <2>1 DEF IsPath
  <2>4. path = [cut EXCEPT ![n] = last] BY <1>2 DEF MarkOmitted
  <2>5. /\ path \in Seq(S \union {last})
        /\ Len(path) = n /\ DOMAIN path = 1..n
        /\ path[n] = last /\ \A k \in 1..(n - 1) : path[k] = cut[k]
    <3> HIDE DEF last
    <3>1. cut \in Seq(S \union {last}) BY <2>3
    <3>2. path \in Seq(S \union {last}) /\ Len(path) = n /\ DOMAIN path = 1..n
      BY <2>2, <2>4, <3>1
    <3> QED BY <3>1, <3>2, <2>2, <2>4
  <2>6. SpanShape(cut[n]) /\ SpanOK(cut[n]) BY <2>1, <2>2 DEF IsPath
  <2>7. SpanShape(last) /\ SpanOK(last) /\ last.omitted = TRUE /\ last.uid = cut[n].uid
    BY <2>6, MarkedSpan DEF SpanOK
  <2> HIDE DEF last
  <2>8. IsPath(path)
    <3>1. path # << >> BY <2>2, <2>5
    <3>2. \A k \in DOMAIN path : SpanShape(path[k]) /\ SpanOK(path[k])
      BY <2>1, <2>2, <2>5, <2>7 DEF IsPath
    <3> QED BY <3>1, <3>2, <2>5 DEF IsPath
  <2>9. \A k \in 1..(n - 1) : path[k].uid # uid
    BY <1>2, <2>2, <2>5 DEF EndsAt
  <2>10. SimplePath(path)
    <3> SUFFICES ASSUME NEW k \in DOMAIN path
                 PROVE  /\ path[k].omitted => k = Len(path)
                        /\ \A m \in 1..(k - 1) : path[m].uid = path[k].uid => path[k].omitted
      BY DEF SimplePath
    <3>1. CASE k = n BY <3>1, <2>5, <2>7
    <3>2. CASE k # n
      <4>1. k \in 1..(n - 1) /\ \A m \in 1..(k - 1) : m \in 1..(n - 1) BY <3>2, <2>2, <2>5
      <4> QED BY <4>1, <2>1, <2>2, <2>5 DEF SimplePath
    <3> QED BY <3>1, <3>2
  <2> QED BY <2>2, <2>5, <2>7, <2>8, <2>9, <2>10 DEF FinitePath
<1> QED BY <1>1, <1>2 DEF Sanitized

-----------------------------------------------------------------------------
(* What a request writes *)

\* The invariant of an object that got a new status.
LEMMA StatusWritten ==
    ASSUME NEW x \in Nodes, NEW o, ObjectInvariant(x, o), NEW new, ObjectShape(new),
           new.exists = o.exists, new.uid = o.uid, new.spec = o.spec,
           \A path \in new.trace : IsPath(path) /\ FinitePath(path, o.uid),
           Provenance(x, new)
    PROVE  ObjectInvariant(x, new)
<1>1. {new.exists, new.observed, new.ready, new.cycle} \subseteq BOOLEAN /\ new.generation \in Nat
  BY DEF ObjectShape
<1>2. ObjectOK(x, new) BY <1>1 DEF ObjectOK, ObjectInvariant, IsPath
<1> QED BY <1>2 DEF ObjectInvariant

LEMMA NotReadyWritten ==
    ASSUME NEW x \in Nodes, NEW o, ObjectInvariant(x, o)
    PROVE  ObjectInvariant(x, NotReady(o)) /\ ObjectInvariant(x, RepositoryNotReady(o))
<1>1. PICK U, S, I, T :
        o \in [exists : BOOLEAN, uid : U, generation : Nat, spec : S, observed : BOOLEAN,
               ready : BOOLEAN, cycle : BOOLEAN, image : I, trace : T]
  BY DEF ObjectInvariant, ObjectShape
<1>2. ASSUME NEW new \in {NotReady(o), RepositoryNotReady(o)}
      PROVE  ObjectInvariant(x, new)
  <2>1. new \in [exists : BOOLEAN, uid : U, generation : Nat, spec : S, observed : BOOLEAN,
               ready : BOOLEAN, cycle : BOOLEAN, image : I, trace : T]
    BY <1>1 DEF NotReady, RepositoryNotReady
  <2>2. /\ new.exists = o.exists /\ new.uid = o.uid /\ new.spec = o.spec
        /\ new.trace = o.trace /\ new.ready = FALSE
    BY <1>1 DEF NotReady, RepositoryNotReady
  <2>3. ObjectShape(new) BY <2>1 DEF ObjectShape
  <2>4. Provenance(x, new) BY <2>2 DEF Provenance
  <2> QED BY <2>2, <2>3, <2>4, StatusWritten DEF ObjectInvariant
<1> QED BY <1>2

LEMMA CycleDetectedWritten ==
    ASSUME NEW x \in Nodes, NEW o, ObjectInvariant(x, o), NEW trace,
           \A path \in trace : IsPath(path) /\ SimplePath(path)
    PROVE  ObjectInvariant(x, CycleDetected(o, trace))
<1> DEFINE new == CycleDetected(o, trace)
           sanitized == Sanitized(trace, o.uid)
<1>1. PICK U, S, I, T :
        o \in [exists : BOOLEAN, uid : U, generation : Nat, spec : S, observed : BOOLEAN,
               ready : BOOLEAN, cycle : BOOLEAN, image : I, trace : T]
  BY DEF ObjectInvariant, ObjectShape
<1>2. \A path \in sanitized : IsPath(path) /\ FinitePath(path, o.uid) BY SanitizedTrace
<1> HIDE DEF sanitized
<1>3. /\ new \in [exists : BOOLEAN, uid : U, generation : Nat, spec : S, observed : BOOLEAN,
               ready : BOOLEAN, cycle : BOOLEAN, image : I, trace : {sanitized}]
      /\ new.exists = o.exists /\ new.uid = o.uid /\ new.spec = o.spec
      /\ new.trace = sanitized /\ new.ready = FALSE
  BY <1>1 DEF CycleDetected, sanitized
<1> HIDE DEF new
<1>4. ObjectShape(new) BY <1>3 DEF ObjectShape
<1>5. Provenance(x, new) BY <1>3 DEF Provenance
<1>6. ObjectInvariant(x, new) BY <1>2, <1>3, <1>4, <1>5, StatusWritten
<1> QED BY <1>6 DEF new

LEMMA ReflectedWritten ==
    ASSUME NEW x \in Nodes, NEW o, ObjectInvariant(x, o), NEW image, NEW trace,
           \A path \in trace : IsPath(path) /\ FinitePath(path, o.uid),
           x \in Components => image # NoImage,
           \A path \in trace : Linked(path) /\ (x \in Components => path[1].digest = image)
    PROVE  ObjectInvariant(x, ReflectComponentableStatus(o, image, trace))
<1> DEFINE new == ReflectComponentableStatus(o, image, trace)
<1>1. PICK U, S, I, T :
        o \in [exists : BOOLEAN, uid : U, generation : Nat, spec : S, observed : BOOLEAN,
               ready : BOOLEAN, cycle : BOOLEAN, image : I, trace : T]
  BY DEF ObjectInvariant, ObjectShape
<1>2. /\ new \in [exists : BOOLEAN, uid : U, generation : Nat, spec : S, observed : BOOLEAN,
               ready : BOOLEAN, cycle : BOOLEAN, image : {image}, trace : {trace}]
      /\ new.exists = o.exists /\ new.uid = o.uid /\ new.spec = o.spec
      /\ new.trace = trace /\ new.image = image
  BY <1>1 DEF ReflectComponentableStatus
<1> HIDE DEF new
<1>3. ObjectShape(new) BY <1>2 DEF ObjectShape
<1>4. Provenance(x, new) BY <1>2 DEF Provenance
<1>5. ObjectInvariant(x, new) BY <1>2, <1>3, <1>4, StatusWritten
<1> QED BY <1>5 DEF new

\* A request of a Component.
LEMMA CopyComponentWritten ==
    ASSUME NEW x \in Components, NEW o, ObjectInvariant(x, o), o.exists,
           \A y \in Nodes : ObjectInvariant(y, cached[y])
    PROVE  ObjectInvariant(x, CopyComponent(o))
<1>1. x \in Nodes /\ o.spec \in Specs(x) BY DEF Nodes, ObjectInvariant, ObjectOK
<1>2. CASE o.spec.refs = << >>
  <2>1. o.spec.oci \in Images
    BY <1>1, <1>2 DEF Specs, FromImage, FromRefs
  <2>2. ObjectInvariant(x, ReflectComponentableStatus(o, o.spec.oci, {}))
    BY <1>1, <2>1, ReflectedWritten, ImagesAssumption
  <2> QED BY <1>2, <2>2 DEF CopyComponent
<1>3. CASE o.spec.refs # << >>
  <2>1. PICK y \in Nodes : o.spec.refs[1] = y
    BY <1>1, <1>3 DEF Specs, FromImage, FromRefs
  <2> DEFINE c == cached[y]
             trace == SynthesizeSpan(c)
  <2>2. ObjectInvariant(y, c) OBVIOUS
  <2>3. \A path \in trace : IsPath(path) /\ SimplePath(path) BY <2>2, SynthesizedPath
  <2>4. ~DetectTraceCycle(trace, o.uid) => \A path \in trace : IsPath(path) /\ FinitePath(path, o.uid)
    BY <2>3, AcyclicTrace
  <2>5. Usable(c) => /\ c.image # NoImage
                     /\ \A path \in trace : Linked(path) /\ path[1].digest = c.image
    BY <2>2, SynthesizedLinks DEF Usable
  <2>6. CopyComponent(o) = CopyReference(o, c) BY <1>3, <2>1 DEF CopyComponent
  <2> HIDE DEF c
  <2>7. ObjectInvariant(x, NotReady(o)) BY <1>1, NotReadyWritten
  <2>8. ObjectInvariant(x, CycleDetected(o, trace)) BY <1>1, <2>3, CycleDetectedWritten
  <2>9. ~DetectTraceCycle(trace, o.uid) /\ Usable(c) =>
            ObjectInvariant(x, ReflectComponentableStatus(o, c.image, trace))
    BY <1>1, <2>4, <2>5, ReflectedWritten
  <2> QED BY <2>6, <2>7, <2>8, <2>9 DEF CopyReference
<1> QED BY <1>2, <1>3
-----------------------------------------------------------------------------
(* Requests of a Composition *)

\* Every dependency is a node, and its paths are good ones.
LEMMA DependencyTrace ==
    ASSUME NEW x \in Compositions, NEW o, ObjectInvariant(x, o), o.exists,
           \A y \in Nodes : ObjectInvariant(y, cached[y])
    PROVE  /\ Len(o.spec.refs) \in Nat /\ DOMAIN o.spec.refs = 1..Len(o.spec.refs)
           /\ \A i \in DOMAIN o.spec.refs :
                 LET y == o.spec.refs[i]
                 IN y \in Nodes /\ Dependency(o, i) = cached[y]
           /\ \A i \in DOMAIN o.spec.refs : \A path \in TraceUpTo(o, i) :
                 IsPath(path) /\ SimplePath(path)
<1>1. x \in Nodes /\ x \notin Components BY NodesAssumption DEF Nodes
<1>2. o.spec \in Specs(x) BY <1>1 DEF ObjectInvariant, ObjectOK
<1>3. PICK refs \in Dependencies : o.spec = FromRefs(refs) BY <1>1, <1>2 DEF Specs
<1>4. o.spec.refs = refs /\ refs \in Seq(Nodes) BY <1>3, DependenciesAssumption DEF FromRefs
<1>5. \A i \in DOMAIN o.spec.refs : o.spec.refs[i] \in Nodes BY <1>4
<1>6. ASSUME NEW i \in DOMAIN o.spec.refs, NEW path \in TraceUpTo(o, i)
      PROVE  IsPath(path) /\ SimplePath(path)
  <2>1. PICK j \in 1..i : path \in SynthesizeSpan(Dependency(o, j)) BY <1>6 DEF TraceUpTo
  <2>2. j \in DOMAIN o.spec.refs BY <1>4
  <2>3. ObjectInvariant(o.spec.refs[j], Dependency(o, j)) BY <1>5, <2>2 DEF Dependency
  <2> QED BY <1>5, <2>1, <2>2, <2>3, SynthesizedPath
<1> QED BY <1>4, <1>5, <1>6 DEF Dependency

\* The status when a dependency halts the request.
LEMMA ResolveDependencyWritten ==
    ASSUME NEW x \in Nodes, NEW o, ObjectInvariant(x, o), NEW c, NEW trace,
           \A path \in trace : IsPath(path) /\ SimplePath(path)
    PROVE  ObjectInvariant(x, ResolveDependency(o, c, trace))
<1>1. ObjectInvariant(x, NotReady(o)) /\ ObjectInvariant(x, RepositoryNotReady(o))
  BY NotReadyWritten
<1>2. ObjectInvariant(x, CycleDetected(o, trace)) BY CycleDetectedWritten
<1> QED BY <1>1, <1>2 DEF ResolveDependency, ResolveRepository, Skipped

\* The status when none does: each dependency is Usable and closes no cycle.
LEMMA ComposeComponentsWritten ==
    ASSUME NEW x \in Compositions, NEW o, ObjectInvariant(x, o), o.exists,
           \A y \in Nodes : ObjectInvariant(y, cached[y]),
           Halting(o) = {}
    PROVE  ObjectInvariant(x, ComposeComponents(o))
<1> DEFINE n == Len(o.spec.refs)
           trace == TraceUpTo(o, n)
           image == Composed(o.uid[1], [i \in DOMAIN o.spec.refs |-> Dependency(o, i).image])
<1>1. x \in Nodes /\ x \notin Components BY NodesAssumption DEF Nodes
<1>2. n \in Nat /\ DOMAIN o.spec.refs = 1..n BY DependencyTrace
<1>3. ASSUME NEW path \in trace
      PROVE  IsPath(path) /\ FinitePath(path, o.uid) /\ Linked(path)
  <2>1. PICK j \in 1..n : path \in SynthesizeSpan(Dependency(o, j)) BY <1>3 DEF TraceUpTo
  <2> DEFINE y == o.spec.refs[j]
             c == Dependency(o, j)
  <2>2. j \in DOMAIN o.spec.refs BY <1>2, <2>1
  <2>3. y \in Nodes /\ c = cached[y] BY <2>2, DependencyTrace
  <2>4. ObjectInvariant(y, c) BY <2>3
  <2>5. Usable(c) /\ ~DetectTraceCycle(SynthesizeSpan(c), o.uid) BY <2>2 DEF Halting
  <2> HIDE DEF y, c
  <2>6. path \in SynthesizeSpan(c) BY <2>1 DEF c
  <2>7. \A p \in SynthesizeSpan(c) : IsPath(p) /\ SimplePath(p)
    BY <2>3, <2>4, SynthesizedPath
  <2>8. IsPath(path) /\ FinitePath(path, o.uid) BY <2>5, <2>6, <2>7, AcyclicTrace
  <2>9. Linked(path) BY <2>3, <2>4, <2>5, <2>6, SynthesizedLinks
  <2> QED BY <2>8, <2>9
<1> HIDE DEF n, trace, image
<1>4. ObjectInvariant(x, ReflectComponentableStatus(o, image, trace))
  BY <1>1, <1>3, ReflectedWritten
<1> QED BY <1>4 DEF ComposeComponents, n, trace, image
-----------------------------------------------------------------------------
(* What users write *)

\* New and missing objects have no trace and are not Ready.
LEMMA CreatedWritten ==
    ASSUME NEW x \in Nodes, NEW n \in Nat
    PROVE  /\ \A spec \in Specs(x) : ObjectInvariant(x, Created(x, n, spec))
           /\ ObjectInvariant(x, Missing(x, n))
<1> DEFINE Shape(S) ==
             [exists : BOOLEAN, uid : {Uid(x, n)}, generation : Nat, spec : S,
              observed : BOOLEAN, ready : BOOLEAN, cycle : BOOLEAN, image : {NoImage}, trace : {{}}]
<1>1. ASSUME NEW spec
      PROVE  LET o == Created(x, n, spec)
             IN o \in Shape({spec}) /\ o.exists = TRUE /\ o.ready = FALSE
  BY DEF Created
<1>2. LET o == Missing(x, n)
      IN o \in Shape({NoSpec}) /\ o.exists = FALSE /\ o.ready = FALSE
  BY <1>1 DEF Missing
<1>3. ASSUME NEW spec, NEW o \in Shape({spec}), o.ready = FALSE,
             spec \in IF o.exists THEN Specs(x) ELSE {NoSpec}
      PROVE  ObjectInvariant(x, o)
  <2>1. ObjectShape(o) BY <1>3 DEF ObjectShape
  <2>2. /\ {o.exists, o.observed, o.ready, o.cycle} \subseteq BOOLEAN
        /\ o.generation \in Nat /\ o.uid = Uid(x, n) /\ o.spec = spec /\ o.trace = {}
    BY <1>3
  <2>3. o.uid[1] = x /\ o.uid[2] = n BY <2>2 DEF Uid
  <2>4. ObjectOK(x, o) BY <1>3, <2>2, <2>3 DEF ObjectOK
  <2> QED BY <1>3, <2>1, <2>2, <2>4 DEF ObjectInvariant, Provenance
<1> HIDE DEF Shape
<1> QED BY <1>1, <1>2, <1>3

\* A user who changes the spec leaves the status alone.
LEMMA SpecWritten ==
    ASSUME NEW x \in Nodes, NEW o, ObjectInvariant(x, o), o.exists, NEW spec \in Specs(x),
           NEW n \in Nat, NEW new,
           new = [o EXCEPT !.spec = spec, !.observed = FALSE, !.generation = n]
    PROVE  ObjectInvariant(x, new)
<1>1. PICK U, S, I, T :
        o \in [exists : BOOLEAN, uid : U, generation : Nat, spec : S, observed : BOOLEAN,
               ready : BOOLEAN, cycle : BOOLEAN, image : I, trace : T]
  BY DEF ObjectInvariant, ObjectShape
<1>2. /\ new \in [exists : BOOLEAN, uid : U, generation : Nat, spec : {spec}, observed : BOOLEAN,
                  ready : BOOLEAN, cycle : BOOLEAN, image : I, trace : T]
      /\ new.exists = o.exists /\ new.uid = o.uid /\ new.spec = spec
      /\ new.ready = o.ready /\ new.image = o.image /\ new.trace = o.trace
  BY <1>1
<1>3. ObjectShape(new) BY <1>2 DEF ObjectShape
<1>4. {new.exists, new.observed, new.ready, new.cycle} \subseteq BOOLEAN /\ new.generation \in Nat
  BY <1>2
<1>5. ObjectOK(x, new) BY <1>2, <1>4 DEF ObjectInvariant, ObjectOK
<1>6. Provenance(x, new) BY <1>2 DEF ObjectInvariant, Provenance
<1> QED BY <1>2, <1>3, <1>5, <1>6 DEF ObjectInvariant

\* What a failed upload may leave.
LEMMA UploadFailureWritten ==
    ASSUME NEW x \in Nodes, NEW o, ObjectInvariant(x, o),
           NEW new, new = [o EXCEPT !.ready = FALSE, !.cycle = FALSE]
    PROVE  ObjectInvariant(x, new)
<1>1. PICK U, S, I, T :
        o \in [exists : BOOLEAN, uid : U, generation : Nat, spec : S, observed : BOOLEAN,
               ready : BOOLEAN, cycle : BOOLEAN, image : I, trace : T]
  BY DEF ObjectInvariant, ObjectShape
<1>2. /\ new \in [exists : BOOLEAN, uid : U, generation : Nat, spec : S, observed : BOOLEAN,
               ready : BOOLEAN, cycle : BOOLEAN, image : I, trace : T]
      /\ new.exists = o.exists /\ new.uid = o.uid /\ new.spec = o.spec
      /\ new.trace = o.trace /\ new.ready = FALSE
  BY <1>1
<1>3. ObjectShape(new) BY <1>2 DEF ObjectShape
<1>4. Provenance(x, new) BY <1>2 DEF Provenance
<1> QED BY <1>2, <1>3, <1>4, StatusWritten DEF ObjectInvariant

-----------------------------------------------------------------------------
(* Steps *)

BoundsOK ==
    /\ queued \subseteq Nodes
    /\ repository \in {"ready", "reconciling", "notReady"}
    /\ edits \in 0..MaxEdits /\ faults \in 0..MaxFaults /\ outages \in 0..MaxOutages

\* An action that puts one good object in the place of another.
LEMMA ObjectWritten ==
    ASSUME ReferencesInvariant, BoundsOK', NEW x \in Nodes, NEW o, ObjectInvariant(x, o),
           object' = [object EXCEPT ![x] = o], cached' = cached
    PROVE  ReferencesInvariant'
<1>1. object' = [y \in Nodes |-> object'[y]] BY DEF ReferencesInvariant
<1>2. \A y \in Nodes : ObjectInvariant(y, object'[y]) /\ ObjectInvariant(y, cached'[y])
  BY DEF ReferencesInvariant
<1>3. \A y \in Nodes : ObjectOK(y, object'[y]) /\ ObjectOK(y, cached'[y])
  BY <1>2 DEF ObjectInvariant
<1> QED BY <1>1, <1>2, <1>3 DEF ReferencesInvariant, TypeOK, BoundsOK

\* An action that writes no object, but may put what is there in the cache.
LEMMA ObjectsCached ==
    ASSUME ReferencesInvariant, BoundsOK', object' = object,
           cached' = [x \in Nodes |-> cached'[x]],
           \A x \in Nodes : cached'[x] \in {object[x], cached[x]}
    PROVE  ReferencesInvariant'
<1>1. \A y \in Nodes : ObjectInvariant(y, object'[y]) /\ ObjectInvariant(y, cached'[y])
  BY DEF ReferencesInvariant
<1>2. \A y \in Nodes : ObjectOK(y, object'[y]) /\ ObjectOK(y, cached'[y])
  BY <1>1 DEF ObjectInvariant
<1> QED BY <1>1, <1>2 DEF ReferencesInvariant, TypeOK, BoundsOK

LEMMA ReconcileComponentKeeps ==
    ASSUME ReferencesInvariant, NEW x \in Components, ReconcileComponent(x)
    PROVE  ReferencesInvariant'
<1> DEFINE o == object[x]
<1>1. x \in Nodes /\ ObjectInvariant(x, o) /\ o.exists
  BY DEF Nodes, ReferencesInvariant, ReconcileComponent, Request
<1>2. \A y \in Nodes : ObjectInvariant(y, cached[y]) BY DEF ReferencesInvariant
<1>3. BoundsOK'
  BY DEF ReferencesInvariant, TypeOK, BoundsOK, ReconcileComponent, WritesStatus, counters
<1>4. PICK new \in {CopyComponent(o), ResolveRepository(o)} : WritesStatus(x, new)
  BY DEF ReconcileComponent
<1>5. ObjectInvariant(x, new)
  BY <1>1, <1>2, <1>4, CopyComponentWritten, NotReadyWritten DEF ResolveRepository, Skipped
<1> QED BY <1>1, <1>3, <1>4, <1>5, ObjectWritten DEF WritesStatus

LEMMA ReconcileCompositionKeeps ==
    ASSUME ReferencesInvariant, NEW x \in Compositions, ReconcileComposition(x)
    PROVE  ReferencesInvariant'
<1> DEFINE o == object[x]
<1>1. x \in Nodes /\ ObjectInvariant(x, o) /\ o.exists
  BY DEF Nodes, ReferencesInvariant, ReconcileComposition, Request
<1>2. \A y \in Nodes : ObjectInvariant(y, cached[y]) BY DEF ReferencesInvariant
<1>3. ASSUME NEW new, ObjectInvariant(x, new), WritesStatus(x, new)
      PROVE  ReferencesInvariant'
  <2>1. BoundsOK' BY <1>3 DEF ReferencesInvariant, TypeOK, BoundsOK, WritesStatus, counters
  <2> QED BY <1>1, <1>3, <2>1, ObjectWritten DEF WritesStatus
<1>4. CASE WritesStatus(x, Skipped(o)) BY <1>1, <1>3, <1>4 DEF Skipped
<1>5. ASSUME NEW i \in Halting(o),
             WritesStatus(x, ResolveDependency(o, Dependency(o, i), TraceUpTo(o, i)))
      PROVE  ReferencesInvariant'
  <2>1. i \in DOMAIN o.spec.refs BY DEF Halting
  <2>2. \A path \in TraceUpTo(o, i) : IsPath(path) /\ SimplePath(path)
    BY <1>1, <1>2, <2>1, DependencyTrace
  <2>3. ObjectInvariant(x, ResolveDependency(o, Dependency(o, i), TraceUpTo(o, i)))
    BY <1>1, <2>2, ResolveDependencyWritten
  <2> QED BY <1>3, <1>5, <2>3
<1>6. CASE Halting(o) = {} /\ WritesStatus(x, ComposeComponents(o))
  <2>1. ObjectInvariant(x, ComposeComponents(o)) BY <1>1, <1>2, <1>6, ComposeComponentsWritten
  <2> QED BY <1>3, <1>6, <2>1
<1> QED BY <1>4, <1>5, <1>6 DEF ReconcileComposition

LEMMA UploadFailsKeeps ==
    ASSUME ReferencesInvariant, NEW x \in Nodes, UploadFails(x)
    PROVE  ReferencesInvariant'
<1>1. BoundsOK'
  BY ReferenceBounds DEF ReferencesInvariant, TypeOK, BoundsOK, UploadFails
<1>2. ObjectInvariant(x, object[x]) BY DEF ReferencesInvariant
<1>3. object' = [object EXCEPT ![x] = object[x]]
      \/ object' = [object EXCEPT ![x] = [object[x] EXCEPT !.ready = FALSE, !.cycle = FALSE]]
  BY DEF ReferencesInvariant, UploadFails
<1>4. ObjectInvariant(x, [object[x] EXCEPT !.ready = FALSE, !.cycle = FALSE])
  BY <1>2, UploadFailureWritten
<1> QED BY <1>1, <1>2, <1>3, <1>4, ObjectWritten DEF UploadFails

\* The informers, the repository and restarts.
LEMMA DeliveryKeeps ==
    ASSUME ReferencesInvariant,
           (\E x \in Nodes : SyncCache(x)) \/ RepositoryChanges \/ Restart
    PROVE  ReferencesInvariant'
<1>1. ASSUME NEW x \in Nodes, SyncCache(x) PROVE ReferencesInvariant'
  <2>1. BoundsOK' BY <1>1 DEF ReferencesInvariant, TypeOK, BoundsOK, SyncCache, counters
  <2>2. /\ object' = object
        /\ cached' = [y \in Nodes |-> cached'[y]]
        /\ \A y \in Nodes : cached'[y] \in {object[y], cached[y]}
    BY <1>1 DEF ReferencesInvariant, SyncCache
  <2> QED BY <2>1, <2>2, ObjectsCached
<1>2. CASE RepositoryChanges
  <2>1. BoundsOK'
    BY <1>2, ReferenceBounds DEF ReferencesInvariant, TypeOK, BoundsOK, RepositoryChanges
  <2>2. /\ object' = object
        /\ cached' = [y \in Nodes |-> cached'[y]]
        /\ \A y \in Nodes : cached'[y] \in {object[y], cached[y]}
    BY <1>2 DEF ReferencesInvariant, RepositoryChanges
  <2> QED BY <2>1, <2>2, ObjectsCached
<1>3. CASE Restart
  <2>1. BoundsOK'
    BY <1>3, ReferenceBounds DEF ReferencesInvariant, TypeOK, BoundsOK, Restart
  <2>2. /\ object' = object
        /\ cached' = [y \in Nodes |-> cached'[y]]
        /\ \A y \in Nodes : cached'[y] \in {object[y], cached[y]}
    BY <1>3 DEF ReferencesInvariant, Restart
  <2> QED BY <2>1, <2>2, ObjectsCached
<1> QED BY <1>1, <1>2, <1>3

\* Users.
LEMMA EditKeeps ==
    ASSUME ReferencesInvariant, NEW x \in Nodes, ChangeSpec(x) \/ Delete(x) \/ Create(x)
    PROVE  ReferencesInvariant'
<1> DEFINE o == object[x]
<1>1. ObjectInvariant(x, o) /\ o.uid[2] \in Nat
  BY DEF ReferencesInvariant, ObjectInvariant, ObjectOK
<1>2. BoundsOK'
  <2>1. \E new : Edit(x, new) BY DEF ChangeSpec, Delete, Create
  <2>2. queued' \in {queued, queued \ {x}} BY DEF ChangeSpec, Delete, Create
  <2> QED BY <2>1, <2>2, ReferenceBounds DEF ReferencesInvariant, TypeOK, BoundsOK, Edit
<1>3. ASSUME NEW new, ObjectInvariant(x, new), Edit(x, new) PROVE ReferencesInvariant'
  BY <1>2, <1>3, ObjectWritten DEF Edit
<1>4. CASE ChangeSpec(x)
  <2>1. PICK spec \in Specs(x) :
          Edit(x, [o EXCEPT !.spec = spec, !.observed = FALSE, !.generation = @ + 1])
    BY <1>4 DEF ChangeSpec
  <2>2. o.exists BY <1>4 DEF ChangeSpec
  <2>3. o.generation + 1 \in Nat BY <1>1 DEF ObjectInvariant, ObjectOK
  <2>4. ObjectInvariant(x, [o EXCEPT !.spec = spec, !.observed = FALSE, !.generation = @ + 1])
    BY <1>1, <2>2, <2>3, SpecWritten
  <2> QED BY <1>3, <2>1, <2>4
<1>5. CASE Delete(x) BY <1>1, <1>3, <1>5, CreatedWritten DEF Delete
<1>6. CASE Create(x)
  <2>1. PICK spec \in Specs(x) : Edit(x, Created(x, o.uid[2] + 1, spec)) BY <1>6 DEF Create
  <2> QED BY <1>1, <1>3, <2>1, CreatedWritten
<1> QED BY <1>4, <1>5, <1>6

-----------------------------------------------------------------------------

\* The invariant holds of every behaviour.
THEOREM ReferencesInvariantHolds == Spec => []ReferencesInvariant
<1>1. Init => ReferencesInvariant
  <2> SUFFICES ASSUME Init PROVE ReferencesInvariant OBVIOUS
  <2>1. BoundsOK BY ReferenceBounds DEF Init, BoundsOK
  <2>2. PICK spec \in [Nodes -> UNION {Specs(x) : x \in Nodes}], missing \in SUBSET Nodes :
          /\ \A x \in Nodes : spec[x] \in Specs(x)
          /\ object = [x \in Nodes |->
                IF x \in missing THEN Missing(x, 0) ELSE Created(x, 1, spec[x])]
    BY DEF Init
  <2>3. cached = object BY DEF Init
  <2>4. \A x \in Nodes : ObjectInvariant(x, object[x]) BY <2>2, CreatedWritten
  <2>5. \A x \in Nodes : ObjectOK(x, object[x]) BY <2>4 DEF ObjectInvariant
  <2> QED BY <2>1, <2>2, <2>3, <2>4, <2>5 DEF ReferencesInvariant, TypeOK, BoundsOK
<1>2. ReferencesInvariant /\ [Next]_vars => ReferencesInvariant'
  <2> SUFFICES ASSUME ReferencesInvariant, [Next]_vars PROVE ReferencesInvariant' OBVIOUS
  <2>1. CASE ControllerNext
    BY <2>1, ReconcileComponentKeeps, ReconcileCompositionKeeps, UploadFailsKeeps
    DEF ControllerNext
  <2>2. CASE EnvironmentNext BY <2>2, DeliveryKeeps, EditKeeps DEF EnvironmentNext
  <2>3. CASE UNCHANGED vars
    BY <2>3 DEF vars, counters, ReferencesInvariant, TypeOK
  <2> QED BY <2>1, <2>2, <2>3 DEF Next
<1> QED BY <1>1, <1>2, PTL DEF Spec

\* Values keep their shape.
THEOREM ReferencesTyped == Spec => []TypeOK
<1>1. ReferencesInvariant => TypeOK BY DEF ReferencesInvariant
<1> QED BY <1>1, ReferencesInvariantHolds, PTL

\* The trace of a Ready object tells where its image is from, and no Component
\* is Ready without an image.
THEOREM ReferencesReadyProvenance == Spec => []ReadyProvenance
<1>1. ReferencesInvariant => ReadyProvenance
  BY DEF ReferencesInvariant, ObjectInvariant, ReadyProvenance
<1> QED BY <1>1, ReferencesInvariantHolds, PTL

\* Whatever cycles there are, no trace goes around one.
THEOREM ReferencesTracesAreFinite == Spec => []TracesAreFinite
<1>1. ReferencesInvariant => TracesAreFinite
  BY DEF ReferencesInvariant, ObjectInvariant, TracesAreFinite
<1> QED BY <1>1, ReferencesInvariantHolds, PTL
-----------------------------------------------------------------------------
(* At rest                                                                 *)
(*                                                                         *)
(* A request leaves its object as the caches have it, or differing from    *)
(* its cached copy, which then is delivered and queues the object again.   *)

\* The object is what a request would leave of it.
ComponentAnswered(o) == o = CopyComponent(o)

CompositionAnswered(o) ==
    \/ \E i \in Halting(o) :
          /\ \A j \in Halting(o) : i <= j
          /\ o = ResolveDependency(o, Dependency(o, i), TraceUpTo(o, i))
    \/ Halting(o) = {} /\ o = ComposeComponents(o)

Answer(x) ==
    IF x \in Components THEN ComponentAnswered(object[x]) ELSE CompositionAnswered(object[x])

\* A node nobody queues has its answer, or its own change is still to come.
Answered(x) ==
    object[x].exists /\ x \notin queued /\ repository = "ready" =>
        cached[x] # object[x] \/ Answer(x)

\* A cached copy is not ahead of the object, so that no edit makes them equal.
NodePast(x) ==
    /\ cached[x].uid[2] <= object[x].uid[2]
    /\ cached[x].uid = object[x].uid /\ object[x].exists =>
          cached[x].generation <= object[x].generation

\* Traces hold copies of copies, but never of infinitely many.
TracesBounded ==
    \E n \in Nat : \A x \in Nodes :
        \A path \in object[x].trace \union cached[x].trace : Len(path) <= n

RestInvariant ==
    /\ \A x \in Nodes : Answered(x) /\ NodePast(x)
    /\ TracesBounded

\* No image is the absence of one, and composed images are sequences.
NoImageIsNone == \A S : NoImage \notin Seq(S)

\* Each set of numbers has a least one.
LEMMA LeastNumber ==
    ASSUME NEW S \in SUBSET Nat, S # {}
    PROVE  \E n \in S : \A m \in S : n <= m
<1> DEFINE R == OpToRel(<, Nat)
<1>1. IsWellFoundedOn(R, Nat) BY NatLessThanWellFounded
<1>2. R = {pair \in Nat \X Nat : pair[1] < pair[2]} BY DEF OpToRel
<1> HIDE DEF R
<1>3. PICK n \in S : \A m \in S : <<m, n>> \notin R BY <1>1, WFMin
<1>4. ASSUME NEW m \in S PROVE n <= m
  <2>1. m \in Nat /\ n \in Nat OBVIOUS
  <2>2. CASE m < n
    <3>1. <<m, n>> \in R BY <1>2, <2>1, <2>2
    <3> QED BY <1>3, <3>1
  <2> QED BY <2>1, <2>2
<1> QED BY <1>4

\* What each way to write a status makes of the fields that are read.
LEMMA NotReadyFields ==
    ASSUME NEW o, ObjectShape(o)
    PROVE  LET new == NotReady(o)
           IN /\ ~new.ready /\ new.observed /\ new.trace = o.trace
              /\ new.uid = o.uid /\ new.generation = o.generation
<1>1. PICK U, S, I, T :
        o \in [exists : BOOLEAN, uid : U, generation : Nat, spec : S, observed : BOOLEAN,
               ready : BOOLEAN, cycle : BOOLEAN, image : I, trace : T]
  BY DEF ObjectShape
<1> QED BY <1>1 DEF NotReady

LEMMA RepositoryNotReadyFields ==
    ASSUME NEW o, ObjectShape(o)
    PROVE  LET new == RepositoryNotReady(o)
           IN /\ ~new.ready /\ new.observed /\ new.trace = o.trace
              /\ new.uid = o.uid /\ new.generation = o.generation
<1>1. PICK U, S, I, T :
        o \in [exists : BOOLEAN, uid : U, generation : Nat, spec : S, observed : BOOLEAN,
               ready : BOOLEAN, cycle : BOOLEAN, image : I, trace : T]
  BY DEF ObjectShape
<1> QED BY <1>1 DEF RepositoryNotReady

LEMMA CycleDetectedFields ==
    ASSUME NEW o, ObjectShape(o), NEW trace
    PROVE  LET new == CycleDetected(o, trace)
           IN /\ ~new.ready /\ new.observed /\ new.trace = Sanitized(trace, o.uid)
              /\ new.uid = o.uid /\ new.generation = o.generation
<1> DEFINE sanitized == Sanitized(trace, o.uid)
           new == CycleDetected(o, trace)
<1>1. PICK U, S, I, T :
        o \in [exists : BOOLEAN, uid : U, generation : Nat, spec : S, observed : BOOLEAN,
               ready : BOOLEAN, cycle : BOOLEAN, image : I, trace : T]
  BY DEF ObjectShape
<1>2. new = [o EXCEPT !.ready = FALSE, !.cycle = TRUE, !.observed = TRUE, !.trace = sanitized]
  BY DEF CycleDetected
<1> HIDE DEF sanitized, new
<1>3. /\ ~new.ready /\ new.observed /\ new.trace = sanitized
      /\ new.uid = o.uid /\ new.generation = o.generation
  BY <1>1, <1>2
<1> QED BY <1>3 DEF sanitized, new

LEMMA ReflectedFields ==
    ASSUME NEW o, ObjectShape(o), NEW image, NEW trace
    PROVE  LET new == ReflectComponentableStatus(o, image, trace)
           IN /\ new.ready /\ new.observed /\ new.image = image /\ new.trace = trace
              /\ new.uid = o.uid /\ new.generation = o.generation
<1>1. PICK U, S, I, T :
        o \in [exists : BOOLEAN, uid : U, generation : Nat, spec : S, observed : BOOLEAN,
               ready : BOOLEAN, cycle : BOOLEAN, image : I, trace : T]
  BY DEF ObjectShape
<1> QED BY <1>1 DEF ReflectComponentableStatus

\* A Component refers to one node or none, a Composition to several.
LEMMA ReferencesOfComponent ==
    ASSUME NEW x \in Components, NEW o, ObjectInvariant(x, o), o.exists
    PROVE  \/ o.spec.refs = << >> /\ o.spec.oci \in Images
           \/ \E y \in Nodes : o.spec.refs = <<y>>
<1>1. o.spec \in Specs(x) BY DEF Nodes, ObjectInvariant, ObjectOK
<1> QED BY <1>1 DEF Specs, FromImage, FromRefs

LEMMA ReferencesOfComposition ==
    ASSUME NEW x \in Compositions, NEW o, ObjectInvariant(x, o), o.exists
    PROVE  /\ o.spec.refs \in Seq(Nodes) /\ Len(o.spec.refs) \in Nat \ {0}
           /\ DOMAIN o.spec.refs = 1..Len(o.spec.refs)
           /\ \A i \in DOMAIN o.spec.refs : o.spec.refs[i] \in Nodes
<1>1. x \in Nodes /\ x \notin Components BY NodesAssumption DEF Nodes
<1>2. o.spec \in Specs(x) BY <1>1 DEF ObjectInvariant, ObjectOK
<1>3. PICK refs \in Dependencies : o.spec = FromRefs(refs) BY <1>1, <1>2 DEF Specs
<1>4. o.spec.refs = refs /\ refs \in Seq(Nodes) /\ refs # << >>
  BY <1>3, DependenciesAssumption DEF FromRefs
<1> QED BY <1>4

\* A Component at rest.
LEMMA ComponentAtRest ==
    ASSUME ReferencesInvariant, cached = object, NEW x \in Components, Exists(x),
           ComponentAnswered(object[x])
    PROVE  /\ object[x].observed
           /\ Ready(x) => /\ IsCurrent(x) /\ object[x].image # NoImage
                          /\ \A y \in References(x) : Ready(y)
           /\ (\A y \in References(x) :
                  /\ Ready(y) /\ object[y].image # NoImage
                  /\ ~DetectTraceCycle(SynthesizeSpan(object[y]), object[x].uid))
              => Ready(x)
<1> DEFINE o == object[x]
<1>1. x \in Nodes /\ x \notin Compositions BY NodesAssumption DEF Nodes
<1>2. ObjectInvariant(x, o) /\ ObjectShape(o) /\ o.exists
  BY <1>1 DEF ReferencesInvariant, ObjectInvariant, Exists
<1>3. CASE o.spec.refs = << >> /\ o.spec.oci \in Images
  <2>1. o = ReflectComponentableStatus(o, o.spec.oci, {})
    BY <1>3 DEF ComponentAnswered, CopyComponent
  <2>2. o.ready /\ o.observed /\ o.image = o.spec.oci /\ o.trace = {}
    BY <2>1, <1>2, ReflectedFields
  <2>3. References(x) = {} BY <1>3 DEF References
  <2>4. IsCurrent(x) BY <2>2, <2>3, <1>1 DEF IsCurrent
  <2> QED BY <2>2, <2>3, <2>4, <1>2, <1>3, ImagesAssumption DEF Ready, Exists
<1>4. ASSUME NEW y \in Nodes, o.spec.refs = <<y>>
      PROVE  /\ o.observed
             /\ Ready(x) => /\ IsCurrent(x) /\ o.image # NoImage
                            /\ \A z \in References(x) : Ready(z)
             /\ (\A z \in References(x) :
                    /\ Ready(z) /\ object[z].image # NoImage
                    /\ ~DetectTraceCycle(SynthesizeSpan(object[z]), o.uid))
                => Ready(x)
  <2> DEFINE c == object[y]
             trace == SynthesizeSpan(c)
  <2>1. o.spec.refs # << >> /\ o.spec.refs[1] = y /\ References(x) = {y}
    BY <1>4 DEF References
  <2>2. o = CopyReference(o, c) BY <2>1 DEF ComponentAnswered, CopyComponent
  <2>3. \/ o = NotReady(o) /\ (~c.exists \/ ~Usable(c))
        \/ o = CycleDetected(o, trace) /\ DetectTraceCycle(trace, o.uid)
        \/ o = ReflectComponentableStatus(o, c.image, trace) /\ c.exists /\ Usable(c)
    BY <2>2 DEF CopyReference
  <2> HIDE DEF c
  <2>4. CASE o = NotReady(o) /\ (~c.exists \/ ~Usable(c))
    <3>1. ~o.ready /\ o.observed BY <2>4, <1>2, NotReadyFields, RepositoryNotReadyFields
    <3> QED BY <3>1, <2>4, <2>1 DEF Ready, Exists, Usable, c
  <2>5. CASE o = CycleDetected(o, trace) /\ DetectTraceCycle(trace, o.uid)
    <3>1. ~o.ready /\ o.observed BY <2>5, <1>2, CycleDetectedFields
    <3> QED BY <3>1, <2>5, <2>1 DEF Ready, Exists, c
  <2>6. CASE o = ReflectComponentableStatus(o, c.image, trace) /\ c.exists /\ Usable(c)
    <3>1. o.ready /\ o.observed /\ o.image = c.image /\ o.trace = trace
      BY <2>6, <1>2, ReflectedFields
    <3>2. Ready(x) BY <3>1, <1>2 DEF Ready, Exists
    <3>3. UNION {SynthesizeSpan(object[z]) : z \in References(x)} = trace BY <2>1 DEF c
    <3>4. IsCurrent(x) BY <3>1, <3>3, <2>1, <1>1 DEF IsCurrent, c
    <3>5. \A z \in References(x) : Ready(z) BY <2>1, <2>6 DEF Ready, Exists, Usable, c
    <3> QED BY <3>1, <3>2, <3>4, <3>5, <2>6 DEF Usable
  <2> QED BY <2>3, <2>4, <2>5, <2>6
<1> QED BY <1>2, <1>3, <1>4, ReferencesOfComponent

\* A Composition at rest: no dependency halts it but one it waits for, or one
\* that leaves it not Ready.
LEMMA CompositionAtRest ==
    ASSUME ReferencesInvariant, NoImageIsNone, cached = object, repository = "ready",
           NEW x \in Compositions, Exists(x), CompositionAnswered(object[x])
    PROVE  /\ x \notin Waiting =>
                 /\ object[x].observed
                 /\ Ready(x) => /\ IsCurrent(x) /\ object[x].image # NoImage
                                /\ \A y \in References(x) : Ready(y)
           /\ (\A y \in References(x) :
                  /\ Ready(y) /\ object[y].observed /\ object[y].image # NoImage
                  /\ ~DetectTraceCycle(SynthesizeSpan(object[y]), object[x].uid))
              => Ready(x)
<1> DEFINE o == object[x]
           refs == o.spec.refs
<1>1. x \in Nodes /\ x \notin Components BY NodesAssumption DEF Nodes
<1>2. ObjectInvariant(x, o) /\ ObjectShape(o) /\ o.exists
  BY <1>1 DEF ReferencesInvariant, ObjectInvariant, Exists
<1>3. /\ DOMAIN refs = 1..Len(refs) /\ Len(refs) \in Nat \ {0}
      /\ \A i \in DOMAIN refs : refs[i] \in Nodes /\ Dependency(o, i) = object[refs[i]]
  BY <1>2, ReferencesOfComposition DEF Dependency
<1>4. References(x) = {refs[i] : i \in DOMAIN refs} BY DEF References
<1>5. ASSUME NEW i \in Halting(o), o = ResolveDependency(o, Dependency(o, i), TraceUpTo(o, i))
      PROVE  /\ x \notin Waiting => object[x].observed /\ ~Ready(x)
             /\ \E y \in References(x) :
                   \/ ~Ready(y) \/ ~object[y].observed \/ object[y].image = NoImage
                   \/ DetectTraceCycle(SynthesizeSpan(object[y]), o.uid)
  <2> DEFINE y == refs[i]
             c == object[y]
             trace == TraceUpTo(o, i)
  <2>1. i \in DOMAIN refs BY DEF Halting
  <2>2. y \in References(x) /\ y \in Nodes /\ Dependency(o, i) = c BY <2>1, <1>3, <1>4
  <2>3. \/ o = NotReady(o)
        \/ o = CycleDetected(o, trace)
        \/ c.exists /\ ~c.observed
        \/ o = RepositoryNotReady(o)
    BY <1>5, <2>2 DEF ResolveDependency, ResolveRepository
  <2>4. x \notin Waiting => ~(c.exists /\ ~c.observed)
    BY <2>2, <1>2 DEF Waiting, Exists
  <2>5. x \notin Waiting => o.observed /\ ~o.ready
    BY <2>3, <2>4, <1>2, NotReadyFields, RepositoryNotReadyFields, CycleDetectedFields
  <2>6. \/ ~c.exists \/ ~c.observed \/ ~Usable(c)
        \/ DetectTraceCycle(SynthesizeSpan(c), o.uid)
    BY <2>2 DEF Halting
  <2>7. \/ ~Ready(y) \/ ~c.observed \/ c.image = NoImage
        \/ DetectTraceCycle(SynthesizeSpan(c), o.uid)
    BY <2>6 DEF Ready, Exists, Usable
  <2> HIDE DEF y, c
  <2>8. \/ ~Ready(y) \/ ~object[y].observed \/ object[y].image = NoImage
        \/ DetectTraceCycle(SynthesizeSpan(object[y]), o.uid)
    BY <2>7 DEF c
  <2> QED BY <2>2, <2>5, <2>8 DEF Ready
<1>6. CASE Halting(o) = {} /\ o = ComposeComponents(o)
  <2> DEFINE images == [i \in DOMAIN refs |-> Dependency(o, i).image]
  <2>1. /\ o.ready /\ o.observed /\ o.image = Composed(o.uid[1], images)
        /\ o.trace = TraceUpTo(o, Len(refs))
    BY <1>2, <1>6, ReflectedFields DEF ComposeComponents
  <2>2. o.uid[1] = x BY <1>2 DEF ObjectInvariant, ObjectOK
  <2>3. images = [i \in DOMAIN refs |-> object[refs[i]].image] BY <1>3
  <2>4. images \in Seq({images[i] : i \in DOMAIN refs}) BY <1>3
  <2>5. o.image # NoImage
    <3> HIDE DEF images
    <3> DEFINE S == {images[i] : i \in DOMAIN refs} \union {x}
    <3>1. images \in Seq(S) /\ <<x>> \in Seq(S) BY <2>4
    <3>2. <<x>> \o images \in Seq(S) BY <3>1
    <3> QED BY <2>1, <2>2, <3>2 DEF Composed, NoImageIsNone
  <2>6. o.trace = UNION {SynthesizeSpan(object[y]) : y \in References(x)}
    BY <2>1, <1>3, <1>4 DEF TraceUpTo
  <2>7. IsCurrent(x)
    <3> HIDE DEF images
    <3> QED BY <2>1, <2>2, <2>3, <2>6 DEF IsCurrent
  <2>8. \A y \in References(x) : Ready(y)
    <3>1. ASSUME NEW i \in DOMAIN refs PROVE Ready(refs[i])
      BY <1>3, <1>6 DEF Halting, Usable, Ready, Exists
    <3> QED BY <3>1, <1>4
  <2> QED BY <2>1, <2>5, <2>7, <2>8, <1>2 DEF Ready, Exists
<1> QED BY <1>5, <1>6 DEF CompositionAnswered


-----------------------------------------------------------------------------
(* Chains of references at rest                                            *)

AtRest ==
    /\ ReferencesInvariant /\ RestInvariant /\ NoImageIsNone
    /\ Quiet /\ repository = "ready"

\* Both kinds of nodes.
LEMMA NodeAtRest ==
    ASSUME AtRest, NEW x \in Nodes, Exists(x)
    PROVE  /\ x \notin Waiting =>
                 /\ object[x].observed
                 /\ Ready(x) => /\ IsCurrent(x) /\ object[x].image # NoImage
                                /\ \A y \in References(x) : Ready(y)
           /\ (\A y \in References(x) :
                  /\ Ready(y) /\ object[y].observed /\ object[y].image # NoImage
                  /\ ~DetectTraceCycle(SynthesizeSpan(object[y]), object[x].uid))
              => Ready(x)
<1>1. ReferencesInvariant /\ NoImageIsNone /\ cached = object /\ repository = "ready"
  BY DEF AtRest, Quiet
<1>2. IF x \in Components THEN ComponentAnswered(object[x]) ELSE CompositionAnswered(object[x])
  BY DEF AtRest, RestInvariant, Answered, Answer, Quiet, Exists
<1>3. CASE x \in Components BY <1>1, <1>2, <1>3, ComponentAtRest
<1>4. CASE x \notin Components
  <2>1. x \in Compositions BY <1>4 DEF Nodes
  <2> QED BY <1>1, <1>2, <1>4, <2>1, CompositionAtRest
<1> QED BY <1>3, <1>4

\* References are nodes, and the object has the name it is kept under.
LEMMA ReferencesAreNodes ==
    ASSUME ReferencesInvariant, NEW x \in Nodes, Exists(x)
    PROVE  /\ References(x) \subseteq Nodes
           /\ ObjectInvariant(x, object[x]) /\ object[x].uid[1] = x
<1>1. ObjectInvariant(x, object[x]) /\ object[x].exists
  BY DEF ReferencesInvariant, Exists
<1>2. ASSUME x \in Components PROVE References(x) \subseteq Nodes
  <2>1. CASE object[x].spec.refs = << >> BY <2>1 DEF References
  <2>2. ASSUME NEW y \in Nodes, object[x].spec.refs = <<y>>
        PROVE  References(x) \subseteq Nodes
    BY <2>2 DEF References
  <2> QED BY <1>1, <1>2, <2>1, <2>2, ReferencesOfComponent
<1>3. ASSUME x \in Compositions PROVE References(x) \subseteq Nodes
  BY <1>1, <1>3, ReferencesOfComposition DEF References
<1>4. object[x].uid[1] = x BY <1>1 DEF ObjectInvariant, ObjectOK
<1> QED BY <1>1, <1>2, <1>3, <1>4 DEF Nodes

\* The least closed set is closed.
LEMMA LeastIsClosed ==
    ASSUME NEW W PROVE Closed(Least(W), W)
<1> SUFFICES ASSUME NEW x \in Nodes, Exists(x), x \in W \/ References(x) \subseteq Least(W),
                    NEW S \in SUBSET Nodes, Closed(S, W)
             PROVE  x \in S
  BY DEF Closed, Least
<1>1. Least(W) \subseteq S BY DEF Least
<1> QED BY <1>1 DEF Closed

\* A Ready object whose references lead nowhere would have paths of any length.
LEMMA ReadyIsFounded ==
    ASSUME AtRest, NEW x \in Nodes, Ready(x)
    PROVE  x \in Least(Waiting)
<1> DEFINE Lost == {y \in Nodes : Ready(y) /\ y \notin Least(Waiting)}
           Short(y, n) == \A path \in object[y].trace : Len(path) <= n
           Lengths == {n \in Nat : \E y \in Lost : Short(y, n)}
<1> SUFFICES ASSUME x \in Lost PROVE FALSE OBVIOUS
<1>1. Lengths # {}
  <2>1. PICK n \in Nat : \A y \in Nodes :
          \A path \in object[y].trace \union cached[y].trace : Len(path) <= n
    BY DEF AtRest, RestInvariant, TracesBounded
  <2>2. Short(x, n) BY <2>1
  <2> QED BY <2>1, <2>2
<1>2. PICK n \in Lengths : \A m \in Lengths : n <= m
  <2>1. Lengths \in SUBSET Nat OBVIOUS
  <2> HIDE DEF Lengths
  <2> QED BY <1>1, <2>1, LeastNumber
<1>3. PICK y \in Lost : Short(y, n) OBVIOUS
<1>4. y \in Nodes /\ Exists(y) /\ y \notin Least(Waiting) BY DEF Ready
<1>5. y \notin Waiting /\ ~(References(y) \subseteq Least(Waiting))
  BY <1>4, LeastIsClosed DEF Closed
<1>6. PICK z \in References(y) : z \notin Least(Waiting) BY <1>5
<1>7. ReferencesInvariant BY DEF AtRest
<1>8. Ready(z) /\ IsCurrent(y) BY <1>4, <1>5, NodeAtRest DEF Ready
<1>9. z \in Lost BY <1>4, <1>6, <1>7, <1>8, ReferencesAreNodes
<1>10. ObjectInvariant(z, object[z])
  BY <1>7, <1>9, ReferencesAreNodes DEF Ready
<1>11. SynthesizeSpan(object[z]) \subseteq object[y].trace
  BY <1>8 DEF IsCurrent
<1>12. <<Span(object[z])>> \in SynthesizeSpan(object[z])
  BY DEF SynthesizeSpan
<1>13. n \in Nat /\ 1 <= n
  <2>1. Len(<<Span(object[z])>>) <= n BY <1>3, <1>11, <1>12
  <2> QED BY <2>1
<1>14. Short(z, n - 1)
  <2> SUFFICES ASSUME NEW path \in object[z].trace PROVE Len(path) <= n - 1 OBVIOUS
  <2>1. PICK S : path \in Seq(S) BY <1>10 DEF ObjectInvariant, IsPath
  <2> DEFINE longer == <<Span(object[z])>> \o path
  <2>2. longer \in SynthesizeSpan(object[z]) BY DEF SynthesizeSpan
  <2>3. Len(longer) <= n BY <1>3, <1>11, <2>2
  <2>4. Len(longer) = Len(path) + 1 BY <2>1, ConsPath
  <2>5. Len(path) \in Nat BY <2>1
  <2> HIDE DEF longer
  <2> QED BY <1>13, <2>3, <2>4, <2>5
<1>15. n - 1 \in Lengths BY <1>9, <1>13, <1>14
<1>16. n <= n - 1
  <2> HIDE DEF Lengths
  <2> QED BY <1>2, <1>15
<1> QED BY <1>13, <1>16

\* What each reference leads to is Ready.
Good(x) ==
    /\ Ready(x) /\ object[x].observed /\ object[x].image # NoImage
    /\ object[x].trace = UNION {SynthesizeSpan(object[y]) : y \in References(x)}

\* Who refers to nothing but such chains is on none of them.
LEMMA NoCycleFound ==
    ASSUME AtRest, NEW K \in SUBSET Nodes,
           \A z \in K : Good(z) /\ References(z) \subseteq K,
           NEW x \in Nodes, Exists(x), x \notin K, NEW c \in K
    PROVE  ~DetectTraceCycle(SynthesizeSpan(object[c]), object[x].uid)
<1> DEFINE uid == object[x].uid
           Meets(n) == \E z \in K : \E path \in SynthesizeSpan(object[z]) :
                          n \in DOMAIN path /\ path[n].uid = uid
           Places == {n \in Nat : Meets(n)}
<1> SUFFICES ASSUME DetectTraceCycle(SynthesizeSpan(object[c]), uid) PROVE FALSE OBVIOUS
<1>1. ReferencesInvariant BY DEF AtRest
<1>2. ASSUME NEW z \in K
      PROVE  z \in Nodes /\ Exists(z) /\ ObjectInvariant(z, object[z]) /\ object[z].uid # uid
  <2>1. z \in Nodes /\ Exists(z) BY DEF Good, Ready
  <2>2. ObjectInvariant(z, object[z]) /\ object[z].uid[1] = z BY <1>1, <2>1, ReferencesAreNodes
  <2>3. uid[1] = x BY <1>1, ReferencesAreNodes
  <2> QED BY <2>1, <2>2, <2>3
<1>3. ASSUME NEW z \in K, NEW path \in SynthesizeSpan(object[z])
      PROVE  /\ DOMAIN path = 1..Len(path) /\ Len(path) \in Nat \ {0}
             /\ path[1] = Span(object[z])
             /\ \/ path = <<Span(object[z])>>
                \/ \E rest \in object[z].trace :
                      /\ Len(path) = Len(rest) + 1
                      /\ \A k \in 1..Len(rest) : path[k + 1] = rest[k]
  BY <1>2, SynthesizedPath, PathLength
<1>4. Places # {}
  <2>1. PICK path \in SynthesizeSpan(object[c]) : \E k \in DOMAIN path : path[k].uid = uid
    BY DEF DetectTraceCycle
  <2>2. PICK k \in DOMAIN path : path[k].uid = uid BY <2>1
  <2>3. k \in Nat BY <1>3, <2>1
  <2>4. Meets(k) BY <2>1, <2>2
  <2> QED BY <2>3, <2>4
<1>5. PICK n \in Places : \A m \in Places : n <= m
  <2>1. Places \in SUBSET Nat OBVIOUS
  <2> HIDE DEF Places
  <2> QED BY <1>4, <2>1, LeastNumber
<1>6. PICK z \in K : \E path \in SynthesizeSpan(object[z]) :
         n \in DOMAIN path /\ path[n].uid = uid
  OBVIOUS
<1>7. PICK path \in SynthesizeSpan(object[z]) : n \in DOMAIN path /\ path[n].uid = uid
  BY <1>6
<1>8. n \in 1..Len(path) /\ Len(path) \in Nat \ {0} /\ path[1] = Span(object[z])
  BY <1>3, <1>7
<1>9. n # 1
  <2>1. Span(object[z]).uid = object[z].uid BY DEF Span
  <2> QED BY <1>2, <1>7, <1>8, <2>1
<1>10. PICK rest \in object[z].trace :
          /\ Len(path) = Len(rest) + 1
          /\ \A k \in 1..Len(rest) : path[k + 1] = rest[k]
  <2>1. path # <<Span(object[z])>>
    <3>1. Len(<<Span(object[z])>>) = 1 OBVIOUS
    <3>2. PICK m \in Nat : m = Len(path) /\ n \in 1..m BY <1>8
    <3>3. m # 1 BY <3>2, <1>9
    <3> QED BY <3>1, <3>2, <3>3
  <2> QED BY <1>3, <1>7, <2>1
<1>11. PICK y \in References(z) : rest \in SynthesizeSpan(object[y])
  BY <1>10 DEF Good
<1>12. y \in K OBVIOUS
<1>13. DOMAIN rest = 1..Len(rest) /\ Len(rest) \in Nat BY <1>3, <1>11, <1>12
<1>14. n - 1 \in 1..Len(rest) /\ n - 1 \in Nat BY <1>8, <1>9, <1>10, <1>13
<1>15. rest[n - 1].uid = uid
  <2>1. path[(n - 1) + 1] = rest[n - 1] BY <1>10, <1>14
  <2>2. (n - 1) + 1 = n BY <1>14
  <2> QED BY <1>7, <2>1, <2>2
<1>16. Meets(n - 1) BY <1>11, <1>12, <1>13, <1>14, <1>15
<1>17. n - 1 \in Places BY <1>14, <1>16
<1>18. n <= n - 1
  <2> HIDE DEF Places
  <2> QED BY <1>5, <1>17
<1> QED BY <1>14, <1>18

\* What can be resolved is Ready, as are all it leads to.
LEMMA ResolvableIsReady ==
    ASSUME AtRest, NEW x \in Resolvable
    PROVE  Ready(x)
<1> DEFINE Led(H) == \A z \in H : Good(z) /\ References(z) \subseteq H
           K == {y \in Nodes : \E H \in SUBSET Nodes : y \in H /\ Led(H)}
<1>1. Led(K)
  <2> SUFFICES ASSUME NEW z \in K PROVE Good(z) /\ References(z) \subseteq K OBVIOUS
  <2>1. PICK H \in SUBSET Nodes : z \in H /\ Led(H) OBVIOUS
  <2>2. \A y \in H : y \in K BY <2>1
  <2> QED BY <2>1, <2>2
<1>2. Closed(K, {})
  <2> SUFFICES ASSUME NEW y \in Nodes, Exists(y), References(y) \subseteq K, y \notin K
               PROVE  FALSE
    BY DEF Closed
  <2>1. ASSUME NEW c \in References(y)
        PROVE  /\ Ready(c) /\ object[c].observed /\ object[c].image # NoImage
               /\ ~DetectTraceCycle(SynthesizeSpan(object[c]), object[y].uid)
    <3>1. c \in K /\ Good(c) BY <1>1, <2>1
    <3>2. K \in SUBSET Nodes OBVIOUS
    <3> HIDE DEF K
    <3>3. ~DetectTraceCycle(SynthesizeSpan(object[c]), object[y].uid)
      BY <1>1, <3>1, <3>2, NoCycleFound
    <3> QED BY <3>1, <3>3 DEF Good
  <2>2. Ready(y) BY <2>1, NodeAtRest
  <2>3. y \notin Waiting BY <2>1 DEF Waiting
  <2>4. Good(y) BY <2>2, <2>3, NodeAtRest DEF Good, IsCurrent
  <2>5. Led(K \union {y}) BY <1>1, <2>4
  <2>6. K \union {y} \in SUBSET Nodes OBVIOUS
  <2>7. \E H \in SUBSET Nodes : y \in H /\ Led(H) BY <2>5, <2>6
  <2> QED BY <2>7
<1>3. x \in K
  <2>1. K \in SUBSET Nodes OBVIOUS
  <2> HIDE DEF K
  <2> QED BY <1>2, <2>1 DEF Resolvable, Least
<1> QED BY <1>1, <1>3 DEF Good

\* All of it.
LEMMA RestIsResolved ==
    ASSUME ReferencesInvariant, RestInvariant, NoImageIsNone
    PROVE  QuietIsResolved
<1> SUFFICES ASSUME Quiet, repository = "ready", NEW x \in Nodes, Exists(x)
             PROVE  /\ x \in Resolvable => Ready(x)
                    /\ Ready(x) => x \in Least(Waiting)
                    /\ x \notin Waiting => object[x].observed /\ (Ready(x) => IsCurrent(x))
  BY DEF QuietIsResolved
<1>1. AtRest BY DEF AtRest
<1>2. x \in Resolvable => Ready(x) BY <1>1, ResolvableIsReady
<1>3. Ready(x) => x \in Least(Waiting) BY <1>1, ReadyIsFounded
<1>4. x \notin Waiting => object[x].observed /\ (Ready(x) => IsCurrent(x)) BY <1>1, NodeAtRest
<1> QED BY <1>2, <1>3, <1>4


-----------------------------------------------------------------------------
(* Steps to rest                                                           *)

\* An answer holds as long as what it was made of.
LEMMA AnswerStays ==
    ASSUME ReferencesInvariant, NEW x \in Nodes, Exists(x), Answer(x),
           object'[x] = object[x], repository' = repository,
           \A y \in References(x) : cached'[y] = cached[y]
    PROVE  Answer(x)'
<1> DEFINE o == object[x]
           refs == o.spec.refs
<1>1. ObjectInvariant(x, o) /\ o.exists BY DEF ReferencesInvariant, Exists
<1>2. \A i \in DOMAIN refs : cached'[refs[i]] = cached[refs[i]] BY DEF References
<1>3. CASE x \in Components
  <2>1. CASE refs = << >>
    BY <1>3, <2>1 DEF Answer, ComponentAnswered, CopyComponent
  <2>2. ASSUME NEW y \in Nodes, refs = <<y>> PROVE Answer(x)'
    <3>1. refs # << >> /\ refs[1] = y /\ 1 \in DOMAIN refs BY <2>2
    <3>2. cached'[y] = cached[y] BY <1>2, <3>1
    <3> QED BY <1>3, <3>1, <3>2 DEF Answer, ComponentAnswered, CopyComponent
  <2> QED BY <1>1, <1>3, <2>1, <2>2, ReferencesOfComponent
<1>4. CASE x \in Compositions
  <2>1. x \notin Components BY <1>4, NodesAssumption
  <2>2. DOMAIN refs = 1..Len(refs) /\ Len(refs) \in Nat \ {0}
    BY <1>1, <1>4, ReferencesOfComposition
  <2>3. \A i \in DOMAIN refs : Dependency(o, i)' = Dependency(o, i)
    BY <1>2 DEF Dependency
  <2>4. \A i \in DOMAIN refs : TraceUpTo(o, i)' = TraceUpTo(o, i)
    <3> SUFFICES ASSUME NEW i \in DOMAIN refs PROVE TraceUpTo(o, i)' = TraceUpTo(o, i)
      OBVIOUS
    <3>1. \A j \in 1..i : j \in DOMAIN refs BY <2>2
    <3>2. \A j \in 1..i : SynthesizeSpan(Dependency(o, j))' = SynthesizeSpan(Dependency(o, j))
      BY <2>3, <3>1
    <3> QED BY <3>2 DEF TraceUpTo
  <2>5. Halting(o)' = Halting(o)
    BY <2>3 DEF Halting
  <2>6. ASSUME NEW i \in Halting(o), \A j \in Halting(o) : i <= j,
               o = ResolveDependency(o, Dependency(o, i), TraceUpTo(o, i))
        PROVE  Answer(x)'
    <3>1. i \in DOMAIN refs BY DEF Halting
    <3>2. ResolveDependency(o, Dependency(o, i), TraceUpTo(o, i))'
            = ResolveDependency(o, Dependency(o, i), TraceUpTo(o, i))
      BY <2>3, <2>4, <3>1 DEF ResolveDependency, ResolveRepository
    <3>3. CompositionAnswered(o)' BY <2>5, <2>6, <3>2 DEF CompositionAnswered
    <3> QED BY <2>1, <3>3 DEF Answer
  <2>7. CASE Halting(o) = {} /\ o = ComposeComponents(o)
    <3>1. ComposeComponents(o)' = ComposeComponents(o)
      <4>1. [i \in DOMAIN refs |-> Dependency(o, i).image]'
              = [i \in DOMAIN refs |-> Dependency(o, i).image]
        BY <2>3
      <4>2. TraceUpTo(o, Len(refs))' = TraceUpTo(o, Len(refs)) BY <2>2, <2>4
      <4> QED BY <4>1, <4>2 DEF ComposeComponents
    <3>2. CompositionAnswered(o)' BY <2>5, <2>7, <3>1 DEF CompositionAnswered
    <3> QED BY <2>1, <3>2 DEF Answer
  <2>8. CompositionAnswered(o) BY <2>1 DEF Answer
  <2> QED BY <2>6, <2>7, <2>8 DEF CompositionAnswered
<1> QED BY <1>3, <1>4 DEF Nodes


\* A path is at most one span longer than what it was made of.
Near(path) ==
    \/ Len(path) = 1
    \/ \E y \in Nodes : \E old \in object[y].trace \union cached[y].trace :
          Len(path) \in {Len(old), Len(old) + 1}

LEMMA SynthesizedNear ==
    ASSUME ReferencesInvariant, NEW y \in Nodes, NEW path \in SynthesizeSpan(cached[y])
    PROVE  Near(path)
<1>1. ObjectInvariant(y, cached[y]) BY DEF ReferencesInvariant
<1>2. \/ path = <<Span(cached[y])>>
      \/ \E rest \in cached[y].trace : Len(path) = Len(rest) + 1
  BY <1>1, SynthesizedPath
<1>3. Len(<<Span(cached[y])>>) = 1 OBVIOUS
<1> QED BY <1>2, <1>3 DEF Near

LEMMA SanitizedNear ==
    ASSUME NEW trace, NEW uid, \A path \in trace : IsPath(path) /\ Near(path),
           NEW path \in Sanitized(trace, uid)
    PROVE  Near(path)
<1>1. CASE path \in trace BY <1>1
<1>2. ASSUME NEW cut \in trace, path = MarkOmitted(cut)
      PROVE  Near(path)
  <2>1. PICK S : cut \in Seq(S) BY DEF IsPath
  <2>2. cut # << >> BY DEF IsPath
  <2> DEFINE last == [cut[Len(cut)] EXCEPT !.omitted = TRUE]
  <2>3. path = [cut EXCEPT ![Len(cut)] = last] BY <1>2 DEF MarkOmitted
  <2> HIDE DEF last
  <2>4. cut \in Seq(S \union {last}) BY <2>1
  <2>5. Len(path) = Len(cut) BY <2>2, <2>3, <2>4
  <2>6. Near(cut) OBVIOUS
  <2> QED BY <2>5, <2>6 DEF Near
<1> QED BY <1>1, <1>2 DEF Sanitized

\* What a request writes: a status, of paths that are not much longer.
NearStatus(o, new) ==
    /\ new.uid = o.uid /\ new.generation = o.generation
    /\ \A path \in new.trace : Near(path)

LEMMA KeptNear ==
    ASSUME NEW x \in Nodes, NEW path \in object[x].trace PROVE Near(path)
BY DEF Near

LEMMA NotReadyNear ==
    ASSUME ReferencesInvariant, NEW x \in Nodes, NEW o, o = object[x]
    PROVE  NearStatus(o, NotReady(o)) /\ NearStatus(o, RepositoryNotReady(o)) /\ NearStatus(o, o)
<1>1. ObjectShape(o) BY DEF ReferencesInvariant, ObjectInvariant
<1>2. \A path \in o.trace : Near(path) BY KeptNear
<1>3. NearStatus(o, NotReady(o)) BY <1>1, <1>2, NotReadyFields DEF NearStatus
<1>4. NearStatus(o, RepositoryNotReady(o)) BY <1>1, <1>2, RepositoryNotReadyFields DEF NearStatus
<1>5. NearStatus(o, o) BY <1>2 DEF NearStatus
<1> QED BY <1>3, <1>4, <1>5

LEMMA CycleDetectedNear ==
    ASSUME NEW o, ObjectShape(o), NEW trace, \A path \in trace : IsPath(path) /\ Near(path)
    PROVE  NearStatus(o, CycleDetected(o, trace))
<1>1. \A path \in Sanitized(trace, o.uid) : Near(path) BY SanitizedNear
<1> QED BY <1>1, CycleDetectedFields DEF NearStatus

LEMMA ReflectedNear ==
    ASSUME NEW o, ObjectShape(o), NEW image, NEW trace, \A path \in trace : Near(path)
    PROVE  NearStatus(o, ReflectComponentableStatus(o, image, trace))
BY ReflectedFields DEF NearStatus

LEMMA CopyComponentNear ==
    ASSUME ReferencesInvariant, NEW x \in Components, object[x].exists
    PROVE  NearStatus(object[x], CopyComponent(object[x]))
<1> DEFINE o == object[x]
<1>1. x \in Nodes /\ ObjectInvariant(x, o) /\ ObjectShape(o)
  BY DEF Nodes, ReferencesInvariant, ObjectInvariant
<1>2. CASE o.spec.refs = << >>
  <2>1. NearStatus(o, ReflectComponentableStatus(o, o.spec.oci, {})) BY <1>1, ReflectedNear
  <2> QED BY <1>2, <2>1 DEF CopyComponent
<1>3. ASSUME NEW y \in Nodes, o.spec.refs = <<y>>
      PROVE  NearStatus(o, CopyComponent(o))
  <2> DEFINE c == cached[y]
             trace == SynthesizeSpan(c)
  <2>1. ObjectInvariant(y, c) BY DEF ReferencesInvariant
  <2>2. \A path \in trace : IsPath(path) /\ Near(path)
    BY <2>1, SynthesizedPath, SynthesizedNear
  <2>3. o.spec.refs # << >> /\ o.spec.refs[1] = y BY <1>3
  <2>4. CopyComponent(o) = CopyReference(o, c) BY <2>3 DEF CopyComponent
  <2> HIDE DEF c, o
  <2>5. NearStatus(o, NotReady(o)) BY <1>1, NotReadyNear DEF o
  <2>6. NearStatus(o, CycleDetected(o, trace)) BY <1>1, <2>2, CycleDetectedNear
  <2>7. NearStatus(o, ReflectComponentableStatus(o, c.image, trace)) BY <1>1, <2>2, ReflectedNear
  <2> QED BY <2>4, <2>5, <2>6, <2>7 DEF CopyReference
<1> QED BY <1>1, <1>2, <1>3, ReferencesOfComponent

\* The paths of the dependencies.
LEMMA DependenciesNear ==
    ASSUME ReferencesInvariant, NEW x \in Compositions, object[x].exists,
           NEW i \in DOMAIN object[x].spec.refs
    PROVE  \A path \in TraceUpTo(object[x], i) : IsPath(path) /\ Near(path)
<1> DEFINE o == object[x]
<1>1. ObjectInvariant(x, o) BY DEF Nodes, ReferencesInvariant
<1>2. DOMAIN o.spec.refs = 1..Len(o.spec.refs) /\ Len(o.spec.refs) \in Nat
  BY <1>1, ReferencesOfComposition
<1> SUFFICES ASSUME NEW path \in TraceUpTo(o, i) PROVE IsPath(path) /\ Near(path) OBVIOUS
<1>3. PICK j \in 1..i : path \in SynthesizeSpan(Dependency(o, j)) BY DEF TraceUpTo
<1>4. j \in DOMAIN o.spec.refs BY <1>2
<1>5. o.spec.refs[j] \in Nodes /\ Dependency(o, j) = cached[o.spec.refs[j]]
  BY <1>1, <1>4, ReferencesOfComposition DEF Dependency
<1>6. PICK y \in Nodes : path \in SynthesizeSpan(cached[y]) BY <1>3, <1>5
<1>7. ObjectInvariant(y, cached[y]) BY DEF ReferencesInvariant
<1> QED BY <1>6, <1>7, SynthesizedPath, SynthesizedNear

LEMMA ResolveDependencyNear ==
    ASSUME ReferencesInvariant, NEW x \in Compositions, object[x].exists,
           NEW i \in DOMAIN object[x].spec.refs
    PROVE  LET o == object[x]
           IN NearStatus(o, ResolveDependency(o, Dependency(o, i), TraceUpTo(o, i)))
<1> DEFINE o == object[x]
           trace == TraceUpTo(o, i)
           c == Dependency(o, i)
<1>1. x \in Nodes /\ ObjectShape(o) BY DEF Nodes, ReferencesInvariant, ObjectInvariant
<1>2. \A path \in trace : IsPath(path) /\ Near(path) BY DependenciesNear
<1>3. NearStatus(o, NotReady(o)) /\ NearStatus(o, RepositoryNotReady(o)) /\ NearStatus(o, o)
  BY <1>1, NotReadyNear
<1> HIDE DEF o, trace, c
<1>4. NearStatus(o, CycleDetected(o, trace)) BY <1>1, <1>2, CycleDetectedNear
<1>5. NearStatus(o, ResolveDependency(o, c, trace))
  BY <1>3, <1>4 DEF ResolveDependency, ResolveRepository, Skipped
<1> QED BY <1>5 DEF o, trace, c

LEMMA ComposeComponentsNear ==
    ASSUME ReferencesInvariant, NEW x \in Compositions, object[x].exists
    PROVE  NearStatus(object[x], ComposeComponents(object[x]))
<1> DEFINE o == object[x]
           trace == TraceUpTo(o, Len(o.spec.refs))
           image == Composed(o.uid[1], [i \in DOMAIN o.spec.refs |-> Dependency(o, i).image])
<1>1. ObjectInvariant(x, o) /\ ObjectShape(o)
  BY DEF Nodes, ReferencesInvariant, ObjectInvariant
<1>2. Len(o.spec.refs) \in DOMAIN o.spec.refs BY <1>1, ReferencesOfComposition
<1>3. \A path \in trace : Near(path) BY <1>2, DependenciesNear
<1> HIDE DEF trace, image
<1>4. NearStatus(o, ReflectComponentableStatus(o, image, trace)) BY <1>1, <1>3, ReflectedNear
<1> QED BY <1>4 DEF ComposeComponents, trace, image

\* Bounded paths stay bounded.
LEMMA BoundStays ==
    ASSUME ReferencesInvariant, TracesBounded,
           \A x \in Nodes : \A path \in (object[x].trace \union cached[x].trace)' : Near(path)
    PROVE  TracesBounded'
<1>1. PICK n \in Nat : \A x \in Nodes :
         \A path \in object[x].trace \union cached[x].trace : Len(path) <= n
  BY DEF TracesBounded
<1>2. ASSUME NEW x \in Nodes, NEW path \in (object[x].trace \union cached[x].trace)'
      PROVE  Len(path) <= n + 1
  <2>1. Near(path) BY <1>2
  <2>2. CASE Len(path) = 1 BY <2>2
  <2>3. ASSUME NEW y \in Nodes, NEW old \in object[y].trace \union cached[y].trace,
               Len(path) \in {Len(old), Len(old) + 1}
        PROVE  Len(path) <= n + 1
    <3>1. Len(old) <= n BY <1>1
    <3>2. IsPath(old) BY DEF ReferencesInvariant, ObjectInvariant
    <3>3. Len(old) \in Nat BY <3>2, PathLength
    <3> QED BY <2>3, <3>1, <3>3
  <2> QED BY <2>1, <2>2, <2>3 DEF Near
<1>3. n + 1 \in Nat OBVIOUS
<1> QED BY <1>2, <1>3 DEF TracesBounded


\* A request that writes its answer leaves it, or changes its object.
LEMMA WriteKeepsRest ==
    ASSUME ReferencesInvariant, RestInvariant, NEW x \in Nodes, Request(x),
           NEW new, WritesStatus(x, new), NearStatus(object[x], new),
           repository = "ready" /\ new = object[x] => Answer(x)
    PROVE  RestInvariant'
<1>1. /\ object' = [object EXCEPT ![x] = new] /\ object'[x] = new
      /\ \A y \in Nodes \ {x} : object'[y] = object[y]
      /\ cached' = cached /\ repository' = repository /\ queued' = queued \ {x}
      /\ object[x] = cached[x]
  BY DEF ReferencesInvariant, WritesStatus, Request
<1>2. ASSUME NEW y \in Nodes, y # x PROVE Answered(y)' /\ NodePast(y)'
  <2>1. object'[y] = object[y] /\ (y \in queued' <=> y \in queued) BY <1>1, <1>2
  <2>2. Answered(y) /\ NodePast(y) BY DEF RestInvariant
  <2>3. Exists(y) /\ Answer(y) => Answer(y)' BY <1>1, <2>1, AnswerStays
  <2>4. Answered(y)' BY <1>1, <2>1, <2>2, <2>3 DEF Answered, Exists
  <2> QED BY <1>1, <2>1, <2>2, <2>4 DEF NodePast
<1>3. Answered(x)'
  <2>1. CASE new = object[x]
    <3>1. object'[x] = object[x] BY <1>1, <2>1
    <3>2. Exists(x) BY DEF Request, Exists
    <3>3. repository = "ready" => Answer(x)' BY <1>1, <2>1, <3>1, <3>2, AnswerStays
    <3> QED BY <1>1, <3>3 DEF Answered
  <2>2. CASE new # object[x]
    <3>1. cached'[x] # object'[x] BY <1>1, <2>2
    <3> QED BY <3>1 DEF Answered
  <2> QED BY <2>1, <2>2
<1>4. NodePast(x)'
  <2>1. ObjectInvariant(x, object[x]) BY DEF ReferencesInvariant
  <2>2. object[x].uid[2] \in Nat /\ object[x].generation \in Nat
    BY <2>1 DEF ObjectInvariant, ObjectOK
  <2>3. new.uid = object[x].uid /\ new.generation = object[x].generation BY DEF NearStatus
  <2> QED BY <1>1, <2>2, <2>3 DEF NodePast
<1>5. TracesBounded'
  <2> SUFFICES ASSUME NEW y \in Nodes, NEW path \in (object[y].trace \union cached[y].trace)'
               PROVE  Near(path)
    BY BoundStays DEF RestInvariant
  <2>1. CASE path \in object[y].trace \union cached[y].trace BY <2>1 DEF Near
  <2>2. CASE path \in new.trace BY <2>2 DEF NearStatus
  <2>3. path \in object'[y].trace \/ path \in cached[y].trace BY <1>1
  <2>4. y = x \/ object'[y] = object[y] BY <1>1
  <2> QED BY <1>1, <2>1, <2>2, <2>3, <2>4
<1> QED BY <1>2, <1>3, <1>4, <1>5 DEF RestInvariant

LEMMA ReconcileComponentRests ==
    ASSUME ReferencesInvariant, RestInvariant, NEW x \in Components, ReconcileComponent(x)
    PROVE  RestInvariant'
<1> DEFINE o == object[x]
<1>1. x \in Nodes /\ Request(x) /\ o.exists BY DEF Nodes, ReconcileComponent, Request
<1>2. CASE repository = "ready"
  <2> DEFINE new == CopyComponent(o)
  <2>1. WritesStatus(x, new) BY <1>2 DEF ReconcileComponent
  <2>2. NearStatus(o, new) BY <1>1, CopyComponentNear
  <2>3. new = o => Answer(x) BY DEF Answer, ComponentAnswered
  <2> HIDE DEF new
  <2> QED BY <1>1, <2>1, <2>2, <2>3, WriteKeepsRest
<1>3. CASE repository # "ready"
  <2> DEFINE new == ResolveRepository(o)
  <2>1. WritesStatus(x, new) BY <1>3 DEF ReconcileComponent
  <2>2. NearStatus(o, new) BY <1>1, NotReadyNear DEF ResolveRepository, Skipped
  <2> HIDE DEF new
  <2> QED BY <1>1, <1>3, <2>1, <2>2, WriteKeepsRest
<1> QED BY <1>2, <1>3

LEMMA ReconcileCompositionRests ==
    ASSUME ReferencesInvariant, RestInvariant, NEW x \in Compositions, ReconcileComposition(x)
    PROVE  RestInvariant'
<1> DEFINE o == object[x]
<1>1. x \in Nodes /\ x \notin Components /\ Request(x) /\ o.exists
  BY NodesAssumption DEF Nodes, ReconcileComposition, Request
<1>2. CASE repository = "reconciling" /\ WritesStatus(x, Skipped(o))
  <2>1. NearStatus(o, o) /\ WritesStatus(x, o) BY <1>1, <1>2, NotReadyNear DEF Skipped
  <2> QED BY <1>1, <1>2, <2>1, WriteKeepsRest
<1>3. ASSUME NEW i \in Halting(o), \A j \in Halting(o) : i <= j,
             WritesStatus(x, ResolveDependency(o, Dependency(o, i), TraceUpTo(o, i)))
      PROVE  RestInvariant'
  <2> DEFINE new == ResolveDependency(o, Dependency(o, i), TraceUpTo(o, i))
  <2>1. i \in DOMAIN o.spec.refs BY DEF Halting
  <2>2. NearStatus(o, new) BY <1>1, <2>1, ResolveDependencyNear
  <2>3. new = o => Answer(x) BY <1>1, <1>3 DEF Answer, CompositionAnswered
  <2>4. WritesStatus(x, new) BY <1>3
  <2> HIDE DEF new
  <2> QED BY <1>1, <2>2, <2>3, <2>4, WriteKeepsRest
<1>4. CASE Halting(o) = {} /\ WritesStatus(x, ComposeComponents(o))
  <2> DEFINE new == ComposeComponents(o)
  <2>1. NearStatus(o, new) BY <1>1, ComposeComponentsNear
  <2>2. new = o => Answer(x) BY <1>1, <1>4 DEF Answer, CompositionAnswered
  <2>3. WritesStatus(x, new) BY <1>4
  <2> HIDE DEF new
  <2> QED BY <1>1, <2>1, <2>2, <2>3, WriteKeepsRest
<1> QED BY <1>2, <1>3, <1>4 DEF ReconcileComposition

\* Its object stays queued, or is repeated as it was.
LEMMA UploadFailsRests ==
    ASSUME ReferencesInvariant, RestInvariant, NEW x \in Nodes, UploadFails(x)
    PROVE  RestInvariant'
<1> DEFINE new == [object[x] EXCEPT !.ready = FALSE, !.cycle = FALSE]
<1>1. /\ cached' = cached /\ repository' = repository /\ queued' = queued
      /\ x \in queued /\ object[x].exists
      /\ \A y \in Nodes \ {x} : object'[y] = object[y]
      /\ object'[x] \in {object[x], new}
  BY DEF ReferencesInvariant, UploadFails, Request
<1>2. ASSUME NEW y \in Nodes, y # x PROVE Answered(y)'
  <2>1. object'[y] = object[y] BY <1>1, <1>2
  <2>2. Answered(y) BY DEF RestInvariant
  <2>3. Exists(y) /\ Answer(y) => Answer(y)' BY <1>1, <2>1, AnswerStays
  <2> QED BY <1>1, <2>1, <2>2, <2>3 DEF Answered, Exists
<1>3. Answered(x)' BY <1>1 DEF Answered
<1>4. ObjectShape(object[x]) BY DEF ReferencesInvariant, ObjectInvariant
<1>5. /\ new.exists = object[x].exists /\ new.uid = object[x].uid
      /\ new.generation = object[x].generation /\ new.trace = object[x].trace
  <2>1. PICK U, S, I, T :
          object[x] \in [exists : BOOLEAN, uid : U, generation : Nat, spec : S,
                         observed : BOOLEAN, ready : BOOLEAN, cycle : BOOLEAN,
                         image : I, trace : T]
    BY <1>4 DEF ObjectShape
  <2> QED BY <2>1
<1> HIDE DEF new
<1>6. \A y \in Nodes :
        /\ object'[y].uid = object[y].uid /\ object'[y].exists = object[y].exists
        /\ object'[y].generation = object[y].generation
        /\ object'[y].trace = object[y].trace
  BY <1>1, <1>5
<1>7. \A y \in Nodes : NodePast(y)' BY <1>1, <1>6 DEF RestInvariant, NodePast
<1>8. TracesBounded' BY <1>1, <1>6 DEF RestInvariant, TracesBounded
<1> QED BY <1>2, <1>3, <1>7, <1>8 DEF RestInvariant


\* The informers: who tracks the object is queued, for the others nothing changed.
LEMMA SyncCacheRests ==
    ASSUME ReferencesInvariant, RestInvariant, NEW x \in Nodes, SyncCache(x)
    PROVE  RestInvariant'
<1>1. /\ object' = object /\ repository' = repository
      /\ cached'[x] = object[x] /\ \A y \in Nodes \ {x} : cached'[y] = cached[y]
      /\ \A y \in Nodes :
            y \notin queued' /\ object[y].exists => y \notin queued /\ y # x /\ ~Tracks(y, x)
  BY DEF ReferencesInvariant, SyncCache
<1>2. ASSUME NEW y \in Nodes PROVE Answered(y)'
  <2> SUFFICES ASSUME object[y].exists, y \notin queued', repository = "ready"
               PROVE  cached'[y] # object[y] \/ Answer(y)'
    BY <1>1 DEF Answered
  <2>1. y \notin queued /\ y # x /\ ~Tracks(y, x) BY <1>1
  <2>2. cached[y] # object[y] \/ Answer(y) BY <2>1 DEF RestInvariant, Answered
  <2>3. x \notin References(y) BY <2>1 DEF Tracks, References
  <2>4. References(y) \subseteq Nodes BY ReferencesAreNodes DEF Exists
  <2>5. \A z \in References(y) : cached'[z] = cached[z] BY <1>1, <2>3, <2>4
  <2>6. Answer(y) => Answer(y)' BY <1>1, <2>5, AnswerStays DEF Exists
  <2> QED BY <1>1, <2>1, <2>2, <2>6
<1>3. ASSUME NEW y \in Nodes PROVE NodePast(y)'
  <2>1. CASE y # x BY <1>1, <2>1 DEF RestInvariant, NodePast
  <2>2. CASE y = x
    <3>1. ObjectInvariant(x, object[x]) BY DEF ReferencesInvariant
    <3>2. object[x].uid[2] \in Nat /\ object[x].generation \in Nat
      BY <3>1 DEF ObjectInvariant, ObjectOK
    <3> QED BY <1>1, <2>2, <3>2 DEF NodePast
  <2> QED BY <2>1, <2>2
<1>4. TracesBounded'
  <2>1. \A y \in Nodes : cached'[y] \in {cached[y], object[y]} BY <1>1
  <2> QED BY <1>1, <2>1 DEF RestInvariant, TracesBounded
<1> QED BY <1>2, <1>3, <1>4 DEF RestInvariant

\* Everything is queued.
LEMMA ResyncRests ==
    ASSUME ReferencesInvariant, RestInvariant, RepositoryChanges \/ Restart
    PROVE  RestInvariant'
<1>1. /\ object' = object /\ queued' = {x \in Nodes : object[x].exists}
      /\ \A y \in Nodes : cached'[y] \in {cached[y], object[y]}
  BY DEF RepositoryChanges, Restart
<1>2. ASSUME NEW y \in Nodes PROVE Answered(y)' /\ NodePast(y)'
  <2>1. Answered(y)' BY <1>1 DEF Answered
  <2>2. ObjectInvariant(y, object[y]) BY DEF ReferencesInvariant
  <2>3. object[y].uid[2] \in Nat /\ object[y].generation \in Nat
    BY <2>2 DEF ObjectInvariant, ObjectOK
  <2>4. NodePast(y)' BY <1>1, <2>3 DEF RestInvariant, NodePast
  <2> QED BY <2>1, <2>4
<1>3. TracesBounded' BY <1>1 DEF RestInvariant, TracesBounded
<1> QED BY <1>2, <1>3 DEF RestInvariant

\* Users: what they leave is newer than every copy.
LEMMA EditRests ==
    ASSUME ReferencesInvariant, RestInvariant, NEW x \in Nodes,
           ChangeSpec(x) \/ Delete(x) \/ Create(x)
    PROVE  RestInvariant'
<1> DEFINE o == object[x]
<1>1. /\ cached' = cached /\ repository' = repository
      /\ \A y \in Nodes \ {x} : object'[y] = object[y] /\ (y \in queued' <=> y \in queued)
  BY DEF ReferencesInvariant, ChangeSpec, Delete, Create, Edit
<1>2. ASSUME NEW y \in Nodes, y # x PROVE Answered(y)' /\ NodePast(y)'
  <2>1. object'[y] = object[y] /\ (y \in queued' <=> y \in queued) BY <1>1, <1>2
  <2>2. Answered(y) /\ NodePast(y) BY DEF RestInvariant
  <2>3. Exists(y) /\ Answer(y) => Answer(y)' BY <1>1, <2>1, AnswerStays
  <2>4. Answered(y)' BY <1>1, <2>1, <2>2, <2>3 DEF Answered, Exists
  <2> QED BY <1>1, <2>1, <2>2, <2>4 DEF NodePast
<1>3. /\ ObjectInvariant(x, o) /\ o.uid[2] \in Nat /\ o.generation \in Nat
      /\ cached[x].uid[2] \in Nat /\ cached[x].generation \in Nat
  BY DEF ReferencesInvariant, ObjectInvariant, ObjectOK
<1>4. NodePast(x) BY DEF RestInvariant
<1>5. CASE ChangeSpec(x)
  <2>1. PICK spec \in Specs(x) :
          object' = [object EXCEPT ![x] =
             [o EXCEPT !.spec = spec, !.observed = FALSE, !.generation = @ + 1]]
    BY <1>5 DEF ChangeSpec, Edit
  <2> DEFINE new == [o EXCEPT !.spec = spec, !.observed = FALSE, !.generation = @ + 1]
  <2>2. object'[x] = new BY <2>1 DEF ReferencesInvariant
  <2>3. /\ new.exists = o.exists /\ new.uid = o.uid /\ new.generation = o.generation + 1
        /\ new.trace = o.trace
    <3>1. PICK U, S, I, T :
            o \in [exists : BOOLEAN, uid : U, generation : Nat, spec : S, observed : BOOLEAN,
                   ready : BOOLEAN, cycle : BOOLEAN, image : I, trace : T]
      BY <1>3 DEF ObjectInvariant, ObjectShape
    <3> QED BY <3>1
  <2>4. o.exists BY <1>5 DEF ChangeSpec
  <2> HIDE DEF new
  <2>5. cached[x] # new
    <3> SUFFICES ASSUME cached[x] = new PROVE FALSE OBVIOUS
    <3>1. cached[x].uid = o.uid /\ cached[x].generation = o.generation + 1 BY <2>3
    <3>2. cached[x].generation <= o.generation BY <1>4, <2>4, <3>1 DEF NodePast
    <3> QED BY <1>3, <3>1, <3>2
  <2>6. Answered(x)' BY <1>1, <2>2, <2>5 DEF Answered
  <2>7. NodePast(x)' BY <1>1, <1>3, <1>4, <2>2, <2>3, <2>4 DEF NodePast
  <2>8. \A y \in Nodes : object'[y].trace = object[y].trace BY <1>1, <2>2, <2>3
  <2>9. TracesBounded' BY <1>1, <2>8 DEF RestInvariant, TracesBounded
  <2> QED BY <1>2, <2>6, <2>7, <2>9 DEF RestInvariant
<1>6. CASE Delete(x) \/ Create(x)
  <2>1. PICK n \in {o.uid[2], o.uid[2] + 1}, spec \in Specs(x) \union {NoSpec} :
          \/ object'[x] = Missing(x, n)
          \/ object'[x] = Created(x, n, spec) /\ n = o.uid[2] + 1
    <3>1. CASE Delete(x)
      <4>1. object'[x] = Missing(x, o.uid[2])
        BY <3>1 DEF Delete, Edit, ReferencesInvariant
      <4> QED BY <4>1
    <3>2. CASE Create(x)
      <4>1. PICK spec \in Specs(x) : Edit(x, Created(x, o.uid[2] + 1, spec))
        BY <3>2 DEF Create
      <4>2. object'[x] = Created(x, o.uid[2] + 1, spec)
        BY <4>1 DEF Edit, ReferencesInvariant
      <4> QED BY <4>2
    <3> QED BY <1>6, <3>1, <3>2
  <2>2. /\ object'[x].uid = Uid(x, n) /\ object'[x].generation = 1 /\ object'[x].trace = {}
        /\ object'[x].exists => n = o.uid[2] + 1
    BY <2>1 DEF Missing, Created
  <2>3. object'[x].uid[2] = n BY <2>2 DEF Uid
  <2>4. Answered(x)'
    <3>1. object'[x].exists => cached[x].uid[2] # object'[x].uid[2]
      BY <1>3, <1>4, <2>2, <2>3 DEF NodePast
    <3>2. object'[x].exists => cached'[x] # object'[x] BY <1>1, <3>1
    <3> QED BY <3>2 DEF Answered
  <2>5. NodePast(x)'
    <3>1. cached[x].uid[2] <= object'[x].uid[2] BY <1>3, <1>4, <2>3 DEF NodePast
    <3>2. object'[x].exists => cached[x].uid # object'[x].uid
      BY <1>3, <1>4, <2>2, <2>3 DEF NodePast
    <3> QED BY <1>1, <3>1, <3>2 DEF NodePast
  <2>6. TracesBounded'
    <3>1. \A y \in Nodes : object'[y].trace \subseteq object[y].trace BY <1>1, <2>2
    <3> QED BY <1>1, <3>1 DEF RestInvariant, TracesBounded
  <2> QED BY <1>2, <2>4, <2>5, <2>6 DEF RestInvariant
<1> QED BY <1>5, <1>6

\* At any time, what is not answered is still to come.
THEOREM RestInvariantHolds == Spec => []RestInvariant
<1>1. Init => RestInvariant
  <2> SUFFICES ASSUME Init PROVE RestInvariant OBVIOUS
  <2>1. /\ cached = object /\ queued = {x \in Nodes : object[x].exists}
        /\ \A x \in Nodes :
              \/ object[x] = Missing(x, 0)
              \/ \E spec : object[x] = Created(x, 1, spec)
    BY DEF Init
  <2>2. \A x \in Nodes : object[x].uid[2] \in Nat /\ object[x].generation = 1
                         /\ object[x].trace = {}
    <3>1. ASSUME NEW x \in Nodes, NEW n \in {0, 1}, NEW spec,
                 object[x] = Missing(x, n) \/ object[x] = Created(x, n, spec)
          PROVE  /\ object[x].uid = Uid(x, n) /\ object[x].generation = 1
                 /\ object[x].trace = {}
      BY <3>1 DEF Missing, Created
    <3>2. \A x, n : Uid(x, n)[2] = n BY DEF Uid
    <3>3. ASSUME NEW x \in Nodes
          PROVE  \E n \in {0, 1} : \E spec :
                    object[x] = Missing(x, n) \/ object[x] = Created(x, n, spec)
      BY <2>1
    <3> QED BY <3>1, <3>2, <3>3
  <2>3. \A x \in Nodes : Answered(x) /\ NodePast(x) BY <2>1, <2>2 DEF Answered, NodePast
  <2>4. TracesBounded BY <2>1, <2>2 DEF TracesBounded
  <2> QED BY <2>3, <2>4 DEF RestInvariant
<1>2. ReferencesInvariant /\ RestInvariant /\ [Next]_vars => RestInvariant'
  <2> SUFFICES ASSUME ReferencesInvariant, RestInvariant, [Next]_vars PROVE RestInvariant'
    OBVIOUS
  <2>1. CASE ControllerNext
    BY <2>1, ReconcileComponentRests, ReconcileCompositionRests, UploadFailsRests
    DEF ControllerNext
  <2>2. CASE EnvironmentNext
    BY <2>2, SyncCacheRests, ResyncRests, EditRests DEF EnvironmentNext
  <2>3. CASE UNCHANGED vars
    <3>1. /\ object' = object /\ cached' = cached /\ queued' = queued
          /\ repository' = repository
      BY <2>3 DEF vars
    <3>2. ASSUME NEW y \in Nodes PROVE Answered(y)' /\ NodePast(y)'
      <4>1. Exists(y) /\ Answer(y) => Answer(y)' BY <3>1, AnswerStays
      <4>2. Answered(y) /\ NodePast(y) BY DEF RestInvariant
      <4> QED BY <3>1, <4>1, <4>2 DEF Answered, NodePast, Exists
    <3>3. TracesBounded' BY <3>1 DEF RestInvariant, TracesBounded
    <3> QED BY <3>2, <3>3 DEF RestInvariant
  <2> QED BY <2>1, <2>2, <2>3 DEF Next
<1> QED BY <1>1, <1>2, ReferencesInvariantHolds, PTL DEF Spec

\* When the controllers come to rest, what can be resolved is Ready, with what
\* its references have now, and nothing else is but for those that wait for a
\* generation that is never observed.
THEOREM ReferencesAreResolved ==
    ASSUME NoImageIsNone PROVE Spec => []QuietIsResolved
<1>1. ReferencesInvariant /\ RestInvariant => QuietIsResolved BY NoImageIsNone, RestIsResolved
<1> QED BY <1>1, ReferencesInvariantHolds, RestInvariantHolds, PTL
=============================================================================
