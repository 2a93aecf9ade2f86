------------------------------ MODULE Candidates ------------------------------
(***************************************************************************)
(* The change journal (store/change_journal.py), the process-wide cache of  *)
(* the ACTIVE claims that is kept current from it (store/candidate_cache.py)*)
(* and the belief writer's second search under the writer lock              *)
(* (ingest/pipeline.py).                                                   *)
(*                                                                         *)
(* A session outside a write transaction runs each SELECT by itself: two of *)
(* its reads may see two different tables.  A session inside one reads its   *)
(* own uncommitted rows.  The sessions of one process share one cache; a     *)
(* session that only writes may as well be of another process.             *)
(***************************************************************************)
EXTENDS Naturals, FiniteSets

CONSTANTS
    Id,          \* particles
    Session,     \* database sessions
    Content,     \* what a cacheable row may hold
    Out,         \* a row that is not ACTIVE, has no embedding, or is absent
    Nobody,      \* no session has a write transaction open
    Retention,   \* JOURNAL_RETENTION
    Limit,       \* changed rows a cache re-reads before it rebuilds instead
    PruneRace,   \* may a commit prune what a reader is about to list?
    MaxChange    \* bound: row changes, committed or not

Val == Content \cup {Out}

ASSUME CandidatesAssumption ==
    /\ Out \notin Content
    /\ Nobody \notin Session
    /\ Retention \in Nat \ {0}
    /\ Limit \in Nat
    /\ PruneRace \in BOOLEAN
    /\ MaxChange \in Nat

VARIABLES
    db,       \* the committed store: rows, journal, newest journal seq
    txn,      \* the one open write transaction: its session and its store
    tokens,   \* random tokens drawn so far, each different
    cache,    \* _STATES: none, or the cached rows and the marker they are of
    pc,       \* where each session stands
    mark,     \* the marker a gather read before its candidates
    old,      \* the cache a query started from
    head,     \* the marker it read
    rows,     \* the rows it has put together
    todo,     \* the changed ids it has still to re-read
    seen,     \* history: the values each row had since the question
    answer,   \* the last answer
    weighed   \* what a belief writer found under the lock

query == <<mark, old, head, rows, todo>>
vars == <<db, txn, tokens, cache, pc, query, seen, answer, weighed>>

Marker == Nat \X Nat
NoMarker == <<0, 0>>
NoRows == [i \in Id |-> Out]
NoCache == [head |-> NoMarker, rows |-> NoRows]

\* The table and the journal as session r reads them now.
Store(r) == IF txn.owner = r THEN txn.db ELSE db

\* read_head: the newest entry.
HeadOf(d) == <<d.top, d.log[d.top].tok>>

\* mutant: trusts the sequence number alone
StillThereSeq(d, m) == m[1] \in DOMAIN d.log

\* token_at: is the entry of marker m still there, with its token?
StillThere(d, m) == m[1] \in DOMAIN d.log /\ d.log[m[1]].tok = m[2]

\* changed_since: the ids named after entry s.
ChangedSince(d, s) == {i \in Id : \E q \in DOMAIN d.log : q > s /\ d.log[q].id = i}

\* The prune trigger keeps the newest Retention entries.
Kept(n) == {s \in 1..n : s + Retention > n}

\* mutant: the prune trigger deletes one entry too few
LatePrune(d, i, v, t) ==
    LET keep == {s \in DOMAIN d.log \cup {d.top + 1} : s + Retention >= d.top + 1} IN
    [row |-> [d.row EXCEPT ![i] = v],
     top |-> d.top + 1,
     log |-> [s \in keep |-> IF s = d.top + 1 THEN [id |-> i, tok |-> t] ELSE d.log[s]]]

\* One INSERT, UPDATE or DELETE of row i and the triggers it fires.
RowWrite(d, i, v, t) ==
    [row |-> [d.row EXCEPT ![i] = v],
     top |-> d.top + 1,
     log |-> [s \in Kept(d.top + 1) |->
                IF s = d.top + 1 THEN [id |-> i, tok |-> t] ELSE d.log[s]]]

NoTxn(d) == [owner |-> Nobody, db |-> d]

\* An empty table whose journal has its installation entry.
Init ==
    /\ db = [row |-> NoRows, top |-> 1, log |-> [s \in {1} |-> [id |-> Nobody, tok |-> 1]]]
    /\ txn = NoTxn(db)
    /\ tokens = 1
    /\ cache = NoCache
    /\ pc = [r \in Session |-> "idle"]
    /\ mark = [r \in Session |-> NoMarker]
    /\ old = [r \in Session |-> NoCache]
    /\ head = [r \in Session |-> NoMarker]
    /\ rows = [r \in Session |-> NoRows]
    /\ todo = [r \in Session |-> {}]
    /\ seen = [r \in Session |-> [i \in Id |-> {}]]
    /\ answer = [r \in Session |-> NoRows]
    /\ weighed = [r \in Session |-> NoRows]

Querying == {"take", "head", "token", "since", "reread", "build", "publish"}
Asking == {r \in Session : pc[r] \in Querying}

\* What an open question could have read grows with every change of its view.
Watch ==
    seen' = [r \in Session |-> [i \in Id |->
               IF r \in Asking THEN seen[r][i] \cup {Store(r)'.row[i]} ELSE {}]]

--------------------------------------------------------------------------------
\* A write transaction opens under the writer lock, so there is only one.
Begin(r) ==
    /\ pc[r] = "idle" /\ txn.owner = Nobody
    /\ txn' = [owner |-> r, db |-> db]
    /\ UNCHANGED <<db, tokens, cache, pc, query, seen, answer, weighed>>

Write(r) ==
    /\ txn.owner = r /\ pc[r] \in {"idle", "judged"}
    /\ tokens < MaxChange
    /\ \E i \in Id, v \in Val :
          /\ v # txn.db.row[i]
          /\ txn' = [txn EXCEPT !.db = RowWrite(txn.db, i, v, tokens + 1)]
    /\ tokens' = tokens + 1
    /\ pc' = [pc EXCEPT ![r] = "idle"]
    /\ weighed' = [weighed EXCEPT ![r] = NoRows]
    /\ UNCHANGED <<db, cache, query, answer>>
    /\ Watch

\* Between token_at and changed_since a reader outside a transaction relies on
\* the entries after its marker: would this commit prune one of them?
PrunesUnderReader(d) ==
    \E q \in Session : pc[q] = "since" /\ d.top - Retention > old[q].head[1]

Commit(r) ==
    /\ txn.owner = r /\ pc[r] \in {"idle", "judged"}
    /\ PruneRace \/ ~PrunesUnderReader(txn.db)
    /\ db' = txn.db
    /\ txn' = NoTxn(txn.db)
    /\ pc' = [pc EXCEPT ![r] = "idle"]
    /\ weighed' = [weighed EXCEPT ![r] = NoRows]
    /\ UNCHANGED <<tokens, cache, query, answer>>
    /\ Watch

\* The rolled-back entries give their sequence numbers back.
Rollback(r) ==
    /\ txn.owner = r /\ pc[r] \in {"idle", "judged"}
    /\ txn' = NoTxn(db)
    /\ pc' = [pc EXCEPT ![r] = "idle"]
    /\ weighed' = [weighed EXCEPT ![r] = NoRows]
    /\ UNCHANGED <<db, tokens, cache, query, answer>>
    /\ Watch

--------------------------------------------------------------------------------
\* A gather reads its marker first (read_conflict_watermark), then loads the
\* candidates; a plain query is a gather whose marker is never used.
Ask(r) ==
    /\ pc[r] = "idle"
    /\ mark' = [mark EXCEPT ![r] = HeadOf(Store(r))]
    /\ pc' = [pc EXCEPT ![r] = "take"]
    /\ seen' = [seen EXCEPT ![r] = [i \in Id |-> {Store(r).row[i]}]]
    /\ UNCHANGED <<db, txn, tokens, cache, old, head, rows, todo, answer, weighed>>

\* load_active_candidates: the state the process has published so far.
Take(r) ==
    /\ pc[r] = "take"
    /\ old' = [old EXCEPT ![r] = cache]
    /\ pc' = [pc EXCEPT ![r] = "head"]
    /\ UNCHANGED <<db, txn, tokens, cache, mark, head, rows, todo, seen, answer, weighed>>

\* mutant: a published cache is served without asking the journal
ReadHeadUnasked(r) ==
    LET h == IF old[r].head = NoMarker THEN HeadOf(Store(r)) ELSE old[r].head IN
    /\ pc[r] = "head"
    /\ head' = [head EXCEPT ![r] = h]
    /\ rows' = [rows EXCEPT ![r] = old[r].rows]
    /\ pc' = [pc EXCEPT ![r] = IF old[r].head = NoMarker THEN "build" ELSE "publish"]
    /\ UNCHANGED <<db, txn, tokens, cache, mark, old, todo, seen, answer, weighed>>

\* _current_state: the head is read before any row.  The cache is of this very
\* head, or it is of another, or there is none.
ReadHead(r) ==
    LET h == HeadOf(Store(r)) IN
    /\ pc[r] = "head"
    /\ head' = [head EXCEPT ![r] = h]
    /\ \/ /\ old[r].head = h
          /\ rows' = [rows EXCEPT ![r] = old[r].rows]
          /\ pc' = [pc EXCEPT ![r] = "publish"]
       \/ /\ old[r].head \notin {h, NoMarker}
          /\ pc' = [pc EXCEPT ![r] = "token"]
          /\ UNCHANGED rows
       \/ /\ old[r].head = NoMarker
          /\ pc' = [pc EXCEPT ![r] = "build"]
          /\ UNCHANGED rows
    /\ UNCHANGED <<db, txn, tokens, cache, mark, old, todo, seen, answer, weighed>>

TokenAt(r) ==
    /\ pc[r] = "token"
    /\ pc' = [pc EXCEPT ![r] =
                IF StillThere(Store(r), old[r].head) THEN "since" ELSE "build"]
    /\ UNCHANGED <<db, txn, tokens, cache, query, seen, answer, weighed>>

\* Too many changed rows cost more than starting over.
Since(r) ==
    LET changed == ChangedSince(Store(r), old[r].head[1]) IN
    /\ pc[r] = "since"
    /\ \/ /\ Cardinality(changed) <= Limit
          /\ todo' = [todo EXCEPT ![r] = changed]
          /\ rows' = [rows EXCEPT ![r] = old[r].rows]
          /\ pc' = [pc EXCEPT ![r] = IF changed = {} THEN "publish" ELSE "reread"]
       \/ /\ Cardinality(changed) > Limit
          /\ pc' = [pc EXCEPT ![r] = "build"]
          /\ UNCHANGED <<todo, rows>>
    /\ UNCHANGED <<db, txn, tokens, cache, mark, old, head, seen, answer, weighed>>

\* _apply_changes, one chunk: the rows are read as they are by now.
Reread(r) ==
    /\ pc[r] = "reread"
    /\ \E i \in todo[r] :
          /\ rows' = [rows EXCEPT ![r][i] = Store(r).row[i]]
          /\ todo' = [todo EXCEPT ![r] = @ \ {i}]
          /\ pc' = [pc EXCEPT ![r] = IF todo[r] = {i} THEN "publish" ELSE "reread"]
    /\ UNCHANGED <<db, txn, tokens, cache, mark, old, head, seen, answer, weighed>>

\* _build: one streamed SELECT, so one moment of the table.
Build(r) ==
    /\ pc[r] = "build"
    /\ rows' = [rows EXCEPT ![r] = Store(r).row]
    /\ pc' = [pc EXCEPT ![r] = "publish"]
    /\ UNCHANGED <<db, txn, tokens, cache, mark, old, head, todo, seen, answer, weighed>>

\* The query is answered and forgets how.
Answered(r, result) ==
    /\ answer' = [answer EXCEPT ![r] = result]
    /\ pc' = [pc EXCEPT ![r] = "idle"]
    /\ old' = [old EXCEPT ![r] = NoCache]
    /\ head' = [head EXCEPT ![r] = NoMarker]
    /\ rows' = [rows EXCEPT ![r] = NoRows]
    /\ todo' = [todo EXCEPT ![r] = {}]
    /\ seen' = [seen EXCEPT ![r] = [i \in Id |-> {}]]
    /\ UNCHANGED <<db, txn, tokens, mark, weighed>>

\* get_active_particles_with_embeddings: a query filtered by subject never
\* builds the cache, it reads its rows directly.  Which queries are is free.
Direct(r) ==
    /\ pc[r] = "build"
    /\ Answered(r, Store(r).row)
    /\ UNCHANGED cache

Publish(r) ==
    /\ pc[r] = "publish"
    /\ cache' = [head |-> head[r], rows |-> rows[r]]
    /\ Answered(r, rows[r])

\* mutant: the journal is believed even when the marker is gone
JudgeTrusting(r) ==
    LET d == txn.db IN
    /\ txn.owner = r /\ pc[r] = "idle" /\ mark[r] # NoMarker
    /\ weighed' = [weighed EXCEPT ![r] =
          [i \in Id |-> IF i \in ChangedSince(d, mark[r][1]) THEN d.row[i] ELSE answer[r][i]]]
    /\ mark' = [mark EXCEPT ![r] = NoMarker]
    /\ pc' = [pc EXCEPT ![r] = "judged"]
    /\ UNCHANGED <<db, txn, tokens, cache, old, head, rows, todo, seen, answer>>

\* search_store_under_lock, first thing in a belief writer's transaction: what
\* the journal names after the marker is read again; when the journal cannot
\* say, the whole table is.
Judge(r) ==
    LET d == txn.db IN
    /\ txn.owner = r /\ pc[r] = "idle" /\ mark[r] # NoMarker
    /\ weighed' = [weighed EXCEPT ![r] =
          [i \in Id |-> IF ~StillThere(d, mark[r]) \/ i \in ChangedSince(d, mark[r][1])
                        THEN d.row[i] ELSE answer[r][i]]]
    /\ mark' = [mark EXCEPT ![r] = NoMarker]
    /\ pc' = [pc EXCEPT ![r] = "judged"]
    /\ UNCHANGED <<db, txn, tokens, cache, old, head, rows, todo, seen, answer>>

--------------------------------------------------------------------------------
\* The process ends: cache, questions and transaction are gone (clear is the
\* cache alone, which no query tells from a restart).
Restart ==
    /\ cache' = NoCache
    /\ txn' = NoTxn(db)
    /\ pc' = [r \in Session |-> "idle"]
    /\ mark' = [r \in Session |-> NoMarker]
    /\ old' = [r \in Session |-> NoCache]
    /\ head' = [r \in Session |-> NoMarker]
    /\ rows' = [r \in Session |-> NoRows]
    /\ todo' = [r \in Session |-> {}]
    /\ seen' = [r \in Session |-> [i \in Id |-> {}]]
    /\ weighed' = [r \in Session |-> NoRows]
    /\ UNCHANGED <<db, tokens, answer>>

Next ==
    \/ \E r \in Session :
          \/ Begin(r) \/ Write(r) \/ Commit(r) \/ Rollback(r)
          \/ Ask(r) \/ Take(r) \/ ReadHead(r) \/ TokenAt(r) \/ Since(r)
          \/ Reread(r) \/ Build(r) \/ Direct(r) \/ Publish(r) \/ Judge(r)
    \/ Restart

Spec == Init /\ [][Next]_vars

--------------------------------------------------------------------------------
TypeOK ==
    /\ db.row \in [Id -> Val] /\ db.top \in Nat \ {0}
    /\ db.log \in [Kept(db.top) -> [id : Id \cup {Nobody}, tok : 1..tokens]]
    /\ txn.owner \in Session \cup {Nobody}
    /\ txn.db.row \in [Id -> Val] /\ txn.db.top \in Nat \ {0}
    /\ txn.db.log \in [Kept(txn.db.top) -> [id : Id \cup {Nobody}, tok : 1..tokens]]
    /\ tokens \in Nat
    /\ cache \in [head : Marker, rows : [Id -> Val]]
    /\ pc \in [Session -> Querying \cup {"idle", "judged"}]
    /\ mark \in [Session -> Marker] /\ head \in [Session -> Marker]
    /\ old \in [Session -> [head : Marker, rows : [Id -> Val]]]
    /\ \A f \in {rows, answer, weighed} : f \in [Session -> [Id -> Val]]
    /\ todo \in [Session -> SUBSET Id]
    /\ seen \in [Session -> [Id -> SUBSET Val]]

\* Whoever still finds the cache's marker in the journal it reads, inside a
\* transaction or outside, finds every cached row that differs from its table
\* named after that marker: no change is missed, and rows that were rolled back
\* are never taken for committed ones (candidate_cache._current_state).
DifferencesAreJournaled ==
    \A d \in {db, txn.db} :
        StillThere(d, cache.head) =>
            \A i \in Id : cache.rows[i] # d.row[i] => i \in ChangedSince(d, cache.head[1])

\* What a belief write weighs its claim against under the writer lock is the
\* table of its own transaction, however old the candidates it gathered are
\* (pipeline.search_store_under_lock).
JudgedOnTheTable ==
    \A r \in Session : pc[r] = "judged" => weighed[r] = txn.db.row

\* Every answer is one the table could have given, row by row, during the
\* question: "the cache returns what the uncached loader would return at the
\* moment of the query" (store/candidate_cache.py).
Fresh == INSTANCE FreshReads WITH
    Val <- Val,
    view <- [r \in Session |-> Store(r).row],
    asking <- Asking

ImplementsFreshReads == Fresh!Spec
================================================================================
