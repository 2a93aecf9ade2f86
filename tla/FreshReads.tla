------------------------------ MODULE FreshReads ------------------------------
(***************************************************************************)
(* What every reader of the ACTIVE claims is promised, whichever way the    *)
(* answer is produced: each claim in it is as the reader could have read it  *)
(* from the table at some moment between the question and the answer.       *)
(* Nothing is said of two claims at once.                                  *)
(***************************************************************************)
CONSTANTS
    Id,        \* particles
    Session,   \* database sessions
    Val        \* what a row holds, as far as a search tells rows apart

VARIABLES
    view,      \* what each session would read from the table now
    asking,    \* the sessions with an open question
    seen,      \* per session and row: the values since its question
    answer     \* the last answer of each session

freshVars == <<view, asking, seen, answer>>

Init ==
    /\ view \in [Session -> [Id -> Val]]
    /\ asking = {}
    /\ seen = [r \in Session |-> [i \in Id |-> {}]]
    /\ answer \in [Session -> [Id -> Val]]

\* Rows change under every reader; an open question remembers what it could see.
Change ==
    /\ view' \in [Session -> [Id -> Val]]
    /\ seen' = [r \in Session |-> [i \in Id |->
                  IF r \in asking THEN seen[r][i] \cup {view'[r][i]} ELSE {}]]
    /\ UNCHANGED <<asking, answer>>

Question(r) ==
    /\ r \notin asking
    /\ asking' = asking \cup {r}
    /\ seen' = [seen EXCEPT ![r] = [i \in Id |-> {view[r][i]}]]
    /\ UNCHANGED <<view, answer>>

Answer(r) ==
    /\ r \in asking
    /\ asking' = asking \ {r}
    /\ \A i \in Id : answer'[r][i] \in seen[r][i]
    /\ \A q \in Session \ {r} : answer'[q] = answer[q]
    /\ seen' = [seen EXCEPT ![r] = [i \in Id |-> {}]]
    /\ UNCHANGED view

\* A question is dropped with the process that asked it.
Lost ==
    /\ asking' = {}
    /\ view' \in [Session -> [Id -> Val]]
    /\ seen' = [r \in Session |-> [i \in Id |-> {}]]
    /\ UNCHANGED answer

Next == Change \/ Lost \/ \E r \in Session : Question(r) \/ Answer(r)

Spec == Init /\ [][Next]_freshVars
================================================================================
