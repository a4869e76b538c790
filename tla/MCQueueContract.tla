--------------------------- MODULE MCQueueContract ---------------------------
(* QueueContract for TLC: bots are interchangeable.                        *)
EXTENDS QueueContract, TLC

Symmetry == Permutations(Bots)
=============================================================================
