--------------------------- MODULE MCTriggerChain ---------------------------
(* Model values for the runs of the trigger chain. *)
EXTENDS TriggerChainProperties, TLC

CONSTANTS a, b

\* The components are alike.
ComponentSymmetry == Permutations({a, b})
=============================================================================
