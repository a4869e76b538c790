---------------------------- MODULE MCSharedState ----------------------------
(* SharedState for TLC: workers and keys of a kind are interchangeable.     *)
EXTENDS SharedState, TLC

Symmetry == Permutations(Workers) \cup Permutations(Keys \ (LongKeys \cup UpdateKeys))
=============================================================================
