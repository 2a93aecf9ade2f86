---------------------------- MODULE MCConsolidation ----------------------------
(* Two processes that start cycles, beside the writers of one belief or two. *)
EXTENDS Consolidation, TLC

CONSTANTS r1, r2, c1

Symmetry == Permutations(Runner) \cup Permutations(Claim)
================================================================================
