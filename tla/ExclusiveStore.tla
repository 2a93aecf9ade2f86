----------------------------- MODULE ExclusiveStore ----------------------------
(***************************************************************************)
(* What db.write_transaction promises its callers: the write transactions   *)
(* of all tasks of all processes happen one after the other.  The           *)
(* transaction opens with the block and is over, one way or another, when   *)
(* the block is; nothing else may begin in between.                        *)
(***************************************************************************)
CONSTANT Task

VARIABLES
    writing,  \* the tasks inside a write block
    open      \* the tasks whose SQLite transaction is open

Init == writing = {} /\ open = {}

Begin(t) ==
    /\ writing = {} /\ open = {}
    /\ writing' = {t} /\ open' = {t}

\* Committed, rolled back, or lost with the process that ran it.
End == writing # {} /\ writing' = {} /\ open' = {}

Next == (\E t \in Task : Begin(t)) \/ End

Spec == Init /\ [][Next]_<<writing, open>>
================================================================================
