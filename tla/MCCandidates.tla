----------------------------- MODULE MCCandidates -----------------------------
\* Instances of Candidates: interchangeable particles, sessions and contents.
EXTENDS Candidates, TLC

Symmetry == Permutations(Id) \cup Permutations(Session) \cup Permutations(Content)
================================================================================
