----------------------------- MODULE MCDispatch -----------------------------
(* Dispatch for TLC: two requests compete for the permits of a fail-closed  *)
(* detector and for the one of a fail-open detector that runs merged.       *)
EXTENDS Dispatch

MCPermits == [d \in Gated |-> IF d \in Merged THEN 1 ELSE 2]
\* Neither requests nor texts are told apart by the model.
MCSymmetry == Permutations(Request) \cup Permutations(Text)
=============================================================================
