------------------------------ MODULE MCWriteLock ------------------------------
(* Two processes, the engine with two tasks and a CLI verb with one. *)
EXTENDS WriteLock, TLC

CONSTANTS engine, cli, t1, t2, t3

MCProcOf == (t1 :> engine) @@ (t2 :> engine) @@ (t3 :> cli)
================================================================================
