------------------------------- MODULE MCCorpus --------------------------------
(* Two addresses and two contents that share a claim.                          *)
EXTENDS Corpus

CONSTANTS b1, b2, c1, c2

MCSays == [b \in Body |-> IF b = b1 THEN {c1} ELSE {c1, c2}]
================================================================================
