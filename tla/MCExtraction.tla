----------------------------- MODULE MCExtraction -----------------------------
(* Two memory files.  e1 is rewritten once and then deleted: s1 states c and   *)
(* d, s2 keeps d.  e2 has one generation, t1, which states c too.              *)
EXTENDS Extraction, TLC

CONSTANTS e1, e2, s1, s2, t1, gone, c, d, r1, r2

MCEntryOf == (s1 :> e1) @@ (s2 :> e1) @@ (gone :> e1) @@ (t1 :> e2)
MCCaptured == (s1 :> 1) @@ (s2 :> 2) @@ (t1 :> 3) @@ (gone :> 4)
MCSays == (s1 :> {c, d}) @@ (s2 :> {d}) @@ (t1 :> {c}) @@ (gone :> {})
Runners == Permutations(Runner)
================================================================================
