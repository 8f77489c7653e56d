----------------------- MODULE MCComponentReferences -----------------------
(* Model values for the runs of component references. *)
EXTENDS ComponentReferencesProperties, TLC

CONSTANTS n1, n2, n3, d1, d2

\* Compositions of the Component alone, or of a Composition as well.
NestedCompositions == {<<n1>>, <<n2, n1>>, <<n3, n1>>}

NoDependencies == {}

\* The two Compositions may be exchanged.
CompositionSymmetry == Permutations({n2, n3})
=============================================================================
