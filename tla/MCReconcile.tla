------------------------------ MODULE MCReconcile ------------------------------
(* Three claims that meet: ta and tb are nearer to each other than to tc.      *)
EXTENDS Reconcile, TLC

CONSTANTS ta, tb, tc

MCSim == [t \in Text |-> [u \in Text |->
            CASE t = u -> 3 [] {t, u} = {ta, tb} -> 2 [] OTHER -> 1]]
Symmetry ==
    Permutations(Writer) \cup Permutations(Reviewer) \cup Permutations({ta, tb})
================================================================================
