--------------------------- MODULE CandidatesProofs ---------------------------
(***************************************************************************)
(* The candidate cache for any number of particles, sessions and changes,   *)
(* any retention and any re-read limit, as long as no commit prunes what a   *)
(* reader is about to list (PruneRace = FALSE): the cached rows differ from  *)
(* a table only where its journal says so, a belief write weighs its claim   *)
(* against the table of its own transaction, and every answer is one the     *)
(* table could have given.                                                 *)
(***************************************************************************)
EXTENDS Candidates, TLAPS

AfterHead == {"token", "since", "reread", "build", "publish"}
Entry(n) == [id : Id \cup {Nobody}, tok : 1..n]

\* A table with its journal, of which the newest entries are kept, when n tokens
\* have been drawn.
IsTable(d, n) ==
    /\ d = [row |-> d.row, top |-> d.top, log |-> d.log]
    /\ d.row \in [Id -> Val]
    /\ d.top \in Nat \ {0}
    /\ d.log \in [Kept(d.top) -> Entry(n)]

\* Both tables, and every marker anybody keeps holds a token drawn before now.
Shape ==
    /\ IsTable(db, tokens) /\ IsTable(txn.db, tokens)
    /\ txn = [owner |-> txn.owner, db |-> txn.db]
    /\ cache.head[2] <= tokens
    /\ \A r \in Session : old[r].head[2] <= tokens /\ head[r][2] <= tokens
                          /\ mark[r][2] <= tokens

\* The open transaction is ahead of the committed store, and its journal says by
\* what: nothing when no entry is new, else the rows the new entries name, as
\* long as none of the new ones is pruned.
Ahead ==
    /\ db.top <= txn.db.top
    /\ \A s \in Kept(txn.db.top) : s <= db.top => txn.db.log[s] = db.log[s]
    /\ txn.db.top = db.top => txn.db = db
    /\ txn.db.top <= db.top + Retention =>
          \A i \in Id : db.row[i] # txn.db.row[i] => i \in ChangedSince(txn.db, db.top)

\* Whoever finds marker h in the journal of d may hold v for row i: it is the
\* row, or the journal names the row after h.
CoversRow(d, h, v, i) ==
    StillThere(d, h) /\ v # d.row[i] => i \in ChangedSince(d, h[1])

Tables == {db, txn.db}
Covers(h, f) == \A d \in Tables, i \in Id : CoversRow(d, h, f[i], i)

\* The cache, every copy of it and every gather's answer are covered by their
\* markers; so are the rows a query has put together so far.
Covered ==
    /\ Covers(cache.head, cache.rows)
    /\ \A r \in Session :
          /\ Covers(old[r].head, old[r].rows)
          /\ pc[r] \notin Querying => Covers(mark[r], answer[r])
          /\ pc[r] = "publish" => Covers(head[r], rows[r])
          /\ pc[r] = "reread" =>
                \A d \in Tables, i \in Id \ todo[r] : CoversRow(d, head[r], rows[r][i], i)

\* A marker that was the head of the committed store once.
Committed(m) == m[1] <= db.top /\ (m[1] \in Kept(db.top) => db.log[m[1]].tok = m[2])

\* A query's markers are heads of what it reads, the gather's before its own.
MarkerOf(r, m) == IF txn.owner = r THEN m = HeadOf(txn.db) ELSE Committed(m)

Marked ==
    \A r \in Session :
        /\ pc[r] \in Querying => MarkerOf(r, mark[r])
        /\ pc[r] \in AfterHead => MarkerOf(r, head[r]) /\ mark[r][1] <= head[r][1]

\* Between token_at and changed_since the journal still says what the cache lacks.
Listed ==
    \A r \in Session : pc[r] = "since" =>
        /\ old[r].head[1] <= Store(r).top
        /\ \A i \in Id : old[r].rows[i] # Store(r).row[i] =>
                            i \in ChangedSince(Store(r), old[r].head[1])

\* A judgement is of the open transaction of its session.
Judged == \A r \in Session : pc[r] = "judged" => txn.owner = r /\ weighed[r] = txn.db.row

\* What a query holds, and what it would read now, it could have read since the question.
Seen ==
    \A r \in Session, i \in Id :
        /\ pc[r] \in Querying => Store(r).row[i] \in seen[r][i]
        /\ pc[r] = "publish" => rows[r][i] \in seen[r][i]
        /\ pc[r] = "reread" /\ i \notin todo[r] => rows[r][i] \in seen[r][i]

\* The inductive invariant.
CacheInv == TypeOK /\ Shape /\ Ahead /\ Covered /\ Marked /\ Listed /\ Judged /\ Seen

--------------------------------------------------------------------------------
\* The prune trigger keeps the newest entry, and what a longer journal keeps of
\* the older entries the shorter one keeps too.
LEMMA KeptFacts ==
    ASSUME NEW n \in Nat \ {0}, NEW k \in Nat, n <= k
    PROVE  /\ n \in Kept(n)
           /\ \A s \in Kept(k) : s \in Nat \ {0} /\ s <= k /\ (s <= n => s \in Kept(n))
           /\ \A s \in Kept(k), q \in Nat : s <= q /\ q <= k => q \in Kept(k)
           /\ \A m \in Marker : m = NoMarker => m[1] \notin Kept(n)
BY CandidatesAssumption DEF Kept, NoMarker, Marker

\* What one row change does to a table and its journal.
LEMMA RowWriteShape ==
    ASSUME NEW n \in Nat, NEW d, IsTable(d, n), NEW j \in Id, NEW v \in Val,
           NEW t \in Nat, t = n + 1, NEW e, e = RowWrite(d, j, v, t)
    PROVE  /\ IsTable(e, t)
           /\ e.row[j] = v
           /\ \A i \in Id \ {j} : e.row[i] = d.row[i]
           /\ e.top = d.top + 1
           /\ e.log[e.top] = [id |-> j, tok |-> t]
           /\ \A s \in Kept(e.top) \ {e.top} : s \in Kept(d.top) /\ e.log[s] = d.log[s]
<1>1. d.top + 1 \in Kept(d.top + 1)
    BY KeptFacts DEF IsTable
<1>2. \A s \in Kept(d.top + 1) \ {d.top + 1} : s \in Kept(d.top)
    BY CandidatesAssumption DEF IsTable, Kept
<1>3. /\ e.top = d.top + 1
      /\ e.row = [d.row EXCEPT ![j] = v]
      /\ e.log = [s \in Kept(d.top + 1) |->
                    IF s = d.top + 1 THEN [id |-> j, tok |-> t] ELSE d.log[s]]
      /\ e = [row |-> e.row, top |-> e.top, log |-> e.log]
    BY DEF RowWrite
<1>4. \A s \in Kept(d.top) : d.log[s] \in Entry(t)
  <2>1. 1..n \subseteq 1..t
    OBVIOUS
  <2> QED
    BY <2>1 DEF IsTable, Entry
<1>5. [id |-> j, tok |-> t] \in Entry(t)
    BY DEF Entry
<1>6. e.log \in [Kept(e.top) -> Entry(t)]
    BY <1>2, <1>3, <1>4, <1>5
<1>7. d.row \in [Id -> Val] /\ d.top \in Nat \ {0}
    BY DEF IsTable
<1>8. e.row \in [Id -> Val] /\ e.row[j] = v /\ \A i \in Id \ {j} : e.row[i] = d.row[i]
    BY <1>3, <1>7
<1>9. e.top \in Nat \ {0} /\ e.top = d.top + 1
    BY <1>3, <1>7
<1>10. IsTable(e, t)
    BY <1>3, <1>6, <1>8, <1>9 DEF IsTable
<1>11. e.log[e.top] = [id |-> j, tok |-> t]
    BY <1>1, <1>3
<1>12. \A s \in Kept(e.top) \ {e.top} : s \in Kept(d.top) /\ e.log[s] = d.log[s]
    BY <1>2, <1>3
<1> QED
    BY <1>8, <1>9, <1>10, <1>11, <1>12

\* A marker with a token drawn earlier covers a row value after a change when it
\* did before: the change gets an entry with a new token (the triggers).
LEMMA RowWriteCovers ==
    ASSUME NEW n \in Nat, NEW d, IsTable(d, n), NEW j \in Id, NEW w \in Val,
           NEW t \in Nat, t = n + 1, NEW e, e = RowWrite(d, j, w, t),
           NEW h \in Marker, h[2] <= n, NEW v, NEW i \in Id, CoversRow(d, h, v, i)
    PROVE  CoversRow(e, h, v, i)
<1>1. /\ e.row[j] = w /\ \A k \in Id \ {j} : e.row[k] = d.row[k]
      /\ e.top = d.top + 1
      /\ DOMAIN e.log = Kept(e.top) /\ DOMAIN d.log = Kept(d.top)
      /\ e.log[e.top] = [id |-> j, tok |-> t]
      /\ \A s \in Kept(e.top) \ {e.top} : s \in Kept(d.top) /\ e.log[s] = d.log[s]
    BY RowWriteShape DEF IsTable
<1> SUFFICES ASSUME StillThere(e, h), v # e.row[i] PROVE i \in ChangedSince(e, h[1])
    BY DEF CoversRow
<1>2. d.top \in Nat \ {0} /\ h[1] \in Nat /\ h[2] \in Nat
    BY DEF IsTable, Marker
<1>3. h[1] \in Kept(e.top) /\ h[1] # e.top
    BY <1>1, <1>2 DEF StillThere
<1>4. e.top \in Kept(e.top) /\ h[1] < e.top
    BY <1>1, <1>2, <1>3, KeptFacts
<1>5. CASE i = j
    BY <1>1, <1>4, <1>5 DEF ChangedSince
<1>6. CASE i # j
  <2>1. StillThere(d, h)
    BY <1>1, <1>3 DEF StillThere
  <2>2. i \in ChangedSince(d, h[1])
    BY <1>1, <1>6, <2>1 DEF CoversRow
  <2>3. PICK q \in Kept(d.top) : q > h[1] /\ d.log[q].id = i
    BY <1>1, <2>2 DEF ChangedSince
  <2>4. q \in Nat /\ q <= d.top
    BY <1>2, <2>3, KeptFacts
  <2>5. q \in Kept(e.top) /\ q # e.top
    BY <1>1, <1>2, <1>3, <2>3, <2>4, KeptFacts
  <2> QED
    BY <1>1, <2>3, <2>5 DEF ChangedSince
<1> QED
    BY <1>5, <1>6

\* A session that finds its own head in a journal it reads: it names nothing more.
LEMMA HeadFacts ==
    ASSUME NEW n \in Nat, NEW d, IsTable(d, n)
    PROVE  /\ HeadOf(d) \in Marker /\ HeadOf(d)[1] = d.top
           /\ HeadOf(d)[2] = d.log[d.top].tok /\ HeadOf(d)[2] <= n
           /\ StillThere(d, HeadOf(d)) /\ ChangedSince(d, d.top) = {}
           /\ HeadOf(d) # NoMarker
<1>1. d.top \in Kept(d.top) /\ DOMAIN d.log = Kept(d.top)
    BY KeptFacts DEF IsTable
<1>2. d.log[d.top].tok \in 1..n
    BY <1>1 DEF IsTable, Entry
<1>3. \A q \in Kept(d.top) : ~(q > d.top)
    BY KeptFacts DEF IsTable
<1> QED
    BY <1>1, <1>2, <1>3 DEF HeadOf, Marker, StillThere, ChangedSince, NoMarker, IsTable

\* What a query reads now is covered by a head it read before: inside a
\* transaction the head is still the newest entry, outside it the journal of the
\* open transaction names what it has changed since.
LEMMA FreshRow ==
    ASSUME CacheInv, NEW r \in Session, NEW m \in Marker, MarkerOf(r, m), NEW i \in Id,
           NEW d \in Tables
    PROVE  CoversRow(d, m, Store(r).row[i], i)
<1> SUFFICES ASSUME StillThere(d, m), Store(r).row[i] # d.row[i]
             PROVE  i \in ChangedSince(d, m[1])
    BY DEF CoversRow
<1>1. /\ IsTable(db, tokens) /\ IsTable(txn.db, tokens) /\ tokens \in Nat /\ Ahead
      /\ DOMAIN db.log = Kept(db.top) /\ DOMAIN txn.db.log = Kept(txn.db.top)
      /\ db.top \in Nat \ {0} /\ txn.db.top \in Nat \ {0} /\ m[1] \in Nat
    BY DEF CacheInv, TypeOK, Shape, IsTable, Marker
<1>2. CASE txn.owner = r
  <2>1. d = db /\ m[1] = txn.db.top
    BY <1>1, <1>2, HeadFacts DEF MarkerOf, Store, Tables
  <2>2. m[1] <= db.top
    BY <1>1, <2>1, KeptFacts DEF StillThere
  <2>3. txn.db = db
    BY <1>1, <2>1, <2>2 DEF Ahead
  <2> QED
    BY <1>2, <2>1, <2>3 DEF Store
<1>3. CASE txn.owner # r
  <2>1. d = txn.db /\ m[1] <= db.top /\ Store(r) = db
    BY <1>3 DEF MarkerOf, Store, Tables, Committed
  <2>2. m[1] \in Kept(txn.db.top)
    BY <1>1, <2>1 DEF StillThere
  <2>3. txn.db.top <= db.top + Retention
    BY <1>1, <2>1, <2>2, CandidatesAssumption DEF Kept
  <2>4. i \in ChangedSince(txn.db, db.top)
    BY <1>1, <2>1, <2>3 DEF Ahead
  <2>5. \A q \in Kept(txn.db.top) : q \in Nat /\ (q > db.top => q > m[1])
    BY <1>1, <2>1, KeptFacts
  <2> QED
    BY <1>1, <2>1, <2>4, <2>5 DEF ChangedSince
<1> QED
    BY <1>2, <1>3

\* What a step may do to the committed store and to the open transaction.
LEMMA TableStep ==
    ASSUME CacheInv, [Next]_vars
    PROVE  \/ db' = db /\ txn'.db = txn.db /\ tokens' = tokens
           \/ db' = db /\ txn'.db = db /\ tokens' = tokens
           \/ db' = txn.db /\ txn'.db = txn.db /\ tokens' = tokens
           \/ /\ db' = db /\ tokens' = tokens + 1
              /\ \E i \in Id, v \in Val : txn'.db = RowWrite(txn.db, i, v, tokens')
<1>1. ASSUME NEW r \in Session, Write(r)
      PROVE  \E i \in Id, v \in Val : txn'.db = RowWrite(txn.db, i, v, tokens')
    BY <1>1 DEF Write, CacheInv, Shape
<1>2. CASE \E r \in Session : Write(r)
    BY <1>1, <1>2 DEF Write
<1>3. CASE ~\E r \in Session : Write(r)
    BY <1>3 DEF Next, Begin, Commit, Rollback, Ask, Take, ReadHead, TokenAt, Since, Reread,
       Build, Direct, Publish, Answered, Judge, Restart, NoTxn, vars, query
<1> QED
    BY <1>2, <1>3

\* Tokens are only ever drawn.
LEMMA TokenStep == ASSUME CacheInv, [Next]_vars PROVE tokens' \in Nat /\ tokens <= tokens'
BY TableStep DEF CacheInv, TypeOK

\* A covered row stays covered.
LEMMA CoversStep ==
    ASSUME CacheInv, [Next]_vars, NEW h \in Marker, h[2] <= tokens, NEW v, NEW i \in Id,
           \A d \in Tables : CoversRow(d, h, v, i)
    PROVE  \A d \in {db', txn'.db} : CoversRow(d, h, v, i)
<1>1. IsTable(txn.db, tokens) /\ tokens \in Nat /\ tokens' \in Nat
    BY TokenStep DEF CacheInv, TypeOK, Shape
<1>2. CASE /\ db' = db /\ tokens' = tokens + 1
           /\ \E j \in Id, w \in Val : txn'.db = RowWrite(txn.db, j, w, tokens')
  <2>1. CoversRow(txn'.db, h, v, i)
    BY <1>1, <1>2, RowWriteCovers DEF Tables
  <2> QED
    BY <1>2, <2>1 DEF Tables
<1> QED
    BY <1>2, TableStep DEF Tables

\* The tables keep their shape.
LEMMA TablesStep ==
    ASSUME CacheInv, [Next]_vars
    PROVE  IsTable(db', tokens') /\ IsTable(txn'.db, tokens')
<1>1. /\ IsTable(db, tokens) /\ IsTable(txn.db, tokens)
      /\ tokens \in Nat /\ tokens' \in Nat
    BY TokenStep DEF CacheInv, TypeOK, Shape
<1>2. CASE tokens' = tokens /\ db' \in Tables /\ txn'.db \in Tables
    BY <1>1, <1>2 DEF Tables
<1>3. CASE /\ db' = db /\ tokens' = tokens + 1
           /\ \E i \in Id, v \in Val : txn'.db = RowWrite(txn.db, i, v, tokens')
  <2> DEFINE d == txn.db
             e == txn'.db
  <2>1. IsTable(d, tokens)
    BY <1>1
  <2>2. PICK j \in Id, v \in Val : e = RowWrite(d, j, v, tokens')
    BY <1>3
  <2> HIDE DEF d, e
  <2>3. IsTable(e, tokens')
    BY <1>1, <1>3, <2>1, <2>2, RowWriteShape
  <2>4. IsTable(txn'.db, tokens')
    BY <2>3 DEF e
  <2>5. 1..tokens \subseteq 1..tokens'
    BY <1>1, <1>3
  <2>6. IsTable(db, tokens')
    BY <1>1, <2>5 DEF IsTable, Entry
  <2> QED
    BY <1>3, <2>4, <2>6
<1> QED
    BY <1>2, <1>3, TableStep DEF Tables

\* The transaction stays ahead of the committed store by what its journal names.
LEMMA AheadStep == ASSUME CacheInv, [Next]_vars PROVE Ahead'
<1>1. /\ IsTable(db, tokens) /\ IsTable(txn.db, tokens) /\ tokens \in Nat /\ Ahead
      /\ DOMAIN db.log = Kept(db.top) /\ DOMAIN txn.db.log = Kept(txn.db.top)
      /\ db.top \in Nat \ {0} /\ txn.db.top \in Nat \ {0}
    BY DEF CacheInv, TypeOK, Shape, IsTable
<1>2. CASE db' = txn'.db /\ db' \in Tables
    BY <1>1, <1>2, CandidatesAssumption DEF Ahead, Tables
<1>3. CASE db' = db /\ txn'.db = txn.db
    BY <1>1, <1>3 DEF Ahead
<1>4. CASE /\ db' = db /\ tokens' = tokens + 1
           /\ \E i \in Id, v \in Val : txn'.db = RowWrite(txn.db, i, v, tokens')
  <2> DEFINE d == txn.db
             e == txn'.db
  <2>1. tokens' \in Nat /\ IsTable(d, tokens)
    BY <1>1, TokenStep
  <2>2. PICK j \in Id, v \in Val : e = RowWrite(d, j, v, tokens')
    BY <1>4
  <2> HIDE DEF d, e
  <2>3. /\ \A i \in Id \ {j} : e.row[i] = d.row[i]
        /\ e.top = d.top + 1
        /\ e.log[e.top] = [id |-> j, tok |-> tokens']
        /\ \A s \in Kept(e.top) \ {e.top} : s \in Kept(d.top) /\ e.log[s] = d.log[s]
        /\ IsTable(e, tokens')
    BY <1>1, <1>4, <2>1, <2>2, RowWriteShape
  <2>4. DOMAIN e.log = Kept(e.top) /\ e.log[e.top].id = j
    BY <2>3 DEF IsTable
  <2>5. db' = db /\ txn'.db = e
    BY <1>4 DEF e
  <2>6. db.top < e.top /\ e.top \in Kept(e.top)
    BY <1>1, <2>3, KeptFacts DEF Ahead, d
  <2>7. \A s \in Kept(e.top) : s <= db.top => e.log[s] = db.log[s]
    BY <1>1, <2>3, <2>6 DEF Ahead, d
  <2>8. ASSUME e.top <= db.top + Retention, NEW i \in Id, db.row[i] # e.row[i]
        PROVE  i \in ChangedSince(e, db.top)
    <3>1. CASE i = j
      BY <2>3, <2>6, <2>4, <3>1 DEF ChangedSince
    <3>2. CASE i # j
      <4>1. i \in ChangedSince(d, db.top)
        BY <1>1, <2>3, <2>8, <3>2, CandidatesAssumption DEF Ahead, d
      <4>2. PICK q \in Kept(d.top) : q > db.top /\ d.log[q].id = i
        BY <1>1, <4>1 DEF ChangedSince, d
      <4>3. q \in Nat /\ q <= d.top
        BY <1>1, <4>2, KeptFacts DEF d
      <4>4. q \in Kept(e.top) /\ q # e.top
        BY <1>1, <2>3, <2>8, <4>2, <4>3, CandidatesAssumption DEF Kept, d
      <4> QED
        BY <2>3, <2>4, <4>2, <4>4 DEF ChangedSince
    <3> QED
      BY <3>1, <3>2
  <2>9. db.top <= e.top /\ e.top # db.top
    BY <1>1, <2>3, <2>6 DEF d
  <2> QED
    BY <2>7, <2>8, <2>5, <2>9 DEF Ahead
<1> QED
    BY <1>2, <1>3, <1>4, TableStep DEF Tables

--------------------------------------------------------------------------------
\* What a session reads is one of the two tables.
LEMMA StoreFacts ==
    ASSUME CacheInv, NEW r \in Session
    PROVE  /\ Store(r) \in Tables /\ IsTable(Store(r), tokens) /\ tokens \in Nat
           /\ Store(r).row \in [Id -> Val] /\ Store(r).top \in Nat \ {0}
           /\ HeadOf(Store(r)) \in Marker
<1>1. Store(r) \in Tables /\ IsTable(Store(r), tokens) /\ tokens \in Nat
    BY DEF CacheInv, TypeOK, Shape, Store, Tables
<1>2. HeadOf(Store(r)) \in Marker
    BY <1>1, HeadFacts
<1> QED
    BY <1>1, <1>2 DEF IsTable

\* The empty table and its installation entry.
LEMMA InitCacheInv == Init => CacheInv
<1> SUFFICES ASSUME Init PROVE CacheInv
    OBVIOUS
<1>1. Kept(1) = {1}
    BY CandidatesAssumption DEF Kept
<1>2. NoRows \in [Id -> Val] /\ NoMarker \in Marker /\ NoMarker[1] = 0 /\ NoMarker[2] = 0
    BY DEF NoRows, Val, NoMarker, Marker
<1>3. /\ db.row = NoRows /\ db.top = 1 /\ txn.db = db /\ txn.owner = Nobody
      /\ db.log = [s \in {1} |-> [id |-> Nobody, tok |-> 1]] /\ tokens = 1
      /\ db = [row |-> db.row, top |-> db.top, log |-> db.log]
      /\ txn = [owner |-> txn.owner, db |-> txn.db]
    BY DEF Init, NoTxn
<1>4. db.log \in [Kept(db.top) -> Entry(tokens)]
    BY <1>1, <1>3 DEF Entry
<1>5. IsTable(db, tokens)
    BY <1>2, <1>3, <1>4 DEF IsTable
<1>6. /\ cache = NoCache /\ NoCache.head = NoMarker /\ NoCache.rows = NoRows
       /\ NoCache \in [head : Marker, rows : [Id -> Val]]
       /\ \A r \in Session : old[r] = NoCache /\ head[r] = NoMarker /\ mark[r] = NoMarker
                              /\ pc[r] = "idle" /\ answer[r] = NoRows
    BY <1>2 DEF Init, NoCache
<1>7. /\ pc \in [Session -> Querying \cup {"idle", "judged"}]
       /\ mark \in [Session -> Marker] /\ head \in [Session -> Marker]
       /\ old \in [Session -> [head : Marker, rows : [Id -> Val]]]
       /\ todo \in [Session -> SUBSET Id]
    BY <1>2, <1>6 DEF Init
<1>8. seen \in [Session -> [Id -> SUBSET Val]]
    BY DEF Init
<1>9. \A f \in {rows, answer, weighed} : f \in [Session -> [Id -> Val]]
    BY <1>2 DEF Init
<1>10. TypeOK
    BY <1>2, <1>3, <1>4, <1>6, <1>7, <1>8, <1>9 DEF TypeOK, Entry
<1>11. Shape
    BY <1>2, <1>3, <1>5 DEF Init, Shape, NoCache
<1>12. Ahead
    BY <1>3 DEF Ahead
<1>13. \A v : \A d \in Tables, i \in Id : CoversRow(d, NoMarker, v, i)
    BY <1>1, <1>2, <1>3 DEF CoversRow, StillThere, Tables
<1>14. Covered
  <2>1. Covers(NoMarker, NoRows)
    BY <1>13 DEF Covers
  <2> QED
    BY <1>6, <2>1 DEF Covered
<1>15. Marked /\ Listed /\ Judged /\ Seen
    BY DEF Init, Marked, Listed, Judged, Seen, AfterHead, Querying
<1> QED
    BY <1>10, <1>11, <1>12, <1>14, <1>15 DEF CacheInv

\* What is typed besides the tables.
Local ==
    /\ txn.owner \in Session \cup {Nobody}
    /\ cache \in [head : Marker, rows : [Id -> Val]]
    /\ pc \in [Session -> Querying \cup {"idle", "judged"}]
    /\ mark \in [Session -> Marker] /\ head \in [Session -> Marker]
    /\ old \in [Session -> [head : Marker, rows : [Id -> Val]]]
    /\ rows \in [Session -> [Id -> Val]]
    /\ answer \in [Session -> [Id -> Val]]
    /\ weighed \in [Session -> [Id -> Val]]
    /\ todo \in [Session -> SUBSET Id]
    /\ seen \in [Session -> [Id -> SUBSET Val]]

\* Every action keeps the state well typed.
LEMMA TypeStep == ASSUME CacheInv, [Next]_vars PROVE TypeOK'
<1>1. Local
    BY DEF CacheInv, TypeOK, Local
<1>2. NoRows \in [Id -> Val] /\ NoMarker \in Marker
      /\ NoCache \in [head : Marker, rows : [Id -> Val]]
    BY DEF NoRows, Val, NoMarker, Marker, NoCache
<1>3. /\ db'.row \in [Id -> Val] /\ txn'.db.row \in [Id -> Val]
      /\ db'.top \in Nat \ {0} /\ txn'.db.top \in Nat \ {0}
      /\ db'.log \in [Kept(db'.top) -> Entry(tokens')]
      /\ txn'.db.log \in [Kept(txn'.db.top) -> Entry(tokens')]
    BY TablesStep DEF IsTable
<1>4. ASSUME Watch PROVE seen' \in [Session -> [Id -> SUBSET Val]]
  <2>1. \A r \in Session : Store(r)'.row \in [Id -> Val]
    BY <1>3 DEF Store
  <2> QED
    BY <1>1, <1>4, <2>1 DEF Local, Watch
<1>5. ASSUME NEW r \in Session, Begin(r) \/ Write(r) \/ Commit(r) \/ Rollback(r) PROVE Local'
  <2>1. CASE Begin(r)
    BY <1>1, <2>1 DEF Local, Begin, query
  <2>2. CASE Write(r)
    BY <1>1, <1>2, <1>4, <2>2 DEF Local, Write, query, CacheInv, Shape
  <2>3. CASE Commit(r)
    BY <1>1, <1>2, <1>4, <2>3 DEF Local, Commit, query, NoTxn
  <2>4. CASE Rollback(r)
    BY <1>1, <1>2, <1>4, <2>4 DEF Local, Rollback, query, NoTxn
  <2> QED
    BY <1>5, <2>1, <2>2, <2>3, <2>4
<1>6. ASSUME NEW r \in Session, Ask(r) PROVE Local'
    BY <1>1, <1>6, StoreFacts DEF Local, Ask, Querying
<1>7. ASSUME NEW r \in Session, Take(r) PROVE Local'
    BY <1>1, <1>7 DEF Local, Take, Querying
<1>8. ASSUME NEW r \in Session, ReadHead(r) PROVE Local'
    BY <1>1, <1>8, StoreFacts DEF Local, ReadHead, Querying
<1>9. ASSUME NEW r \in Session, TokenAt(r) PROVE Local'
    BY <1>1, <1>9 DEF Local, TokenAt, Querying, query
<1>10. ASSUME NEW r \in Session, Since(r) PROVE Local'
  <2>1. ChangedSince(Store(r), old[r].head[1]) \in SUBSET Id
    BY DEF ChangedSince
  <2>2. pc' \in [Session -> Querying \cup {"idle", "judged"}]
    BY <1>1, <1>10 DEF Local, Since, Querying
  <2>3. rows' \in [Session -> [Id -> Val]]
    BY <1>1, <1>10 DEF Local, Since
  <2>4. todo' \in [Session -> SUBSET Id]
    BY <1>1, <1>10, <2>1 DEF Local, Since
  <2> QED
    BY <1>1, <1>10, <2>2, <2>3, <2>4 DEF Local, Since
<1>11. ASSUME NEW r \in Session, Reread(r) PROVE Local'
    BY <1>1, <1>11, StoreFacts DEF Local, Reread, Querying
<1>12. ASSUME NEW r \in Session, Build(r) PROVE Local'
    BY <1>1, <1>12, StoreFacts DEF Local, Build, Querying
<1>13. ASSUME NEW r \in Session, Direct(r) PROVE Local'
    BY <1>1, <1>2, <1>13, StoreFacts DEF Local, Direct, Answered
<1>14. ASSUME NEW r \in Session, Publish(r) PROVE Local'
    BY <1>1, <1>2, <1>14 DEF Local, Publish, Answered
<1>15. ASSUME NEW r \in Session, Judge(r) PROVE Local'
    BY <1>1, <1>2, <1>15 DEF Local, Judge, CacheInv, Shape, IsTable
<1>16. ASSUME Restart PROVE Local'
  <2>1. seen' \in [Session -> [Id -> SUBSET Val]]
    BY <1>16 DEF Restart
  <2>2. pc' \in [Session -> Querying \cup {"idle", "judged"}]
    BY <1>16 DEF Restart
  <2> QED
    BY <1>1, <1>2, <1>16, <2>1, <2>2 DEF Local, Restart, NoTxn
<1>17. ASSUME UNCHANGED vars PROVE Local'
    BY <1>1, <1>17 DEF Local, vars, query
<1>18. Local'
    BY <1>5, <1>6, <1>7, <1>8, <1>9, <1>10, <1>11, <1>12, <1>13, <1>14, <1>15, <1>16, <1>17
       DEF Next
<1> QED
    BY <1>3, <1>18, TokenStep DEF TypeOK, Entry, Local

\* Every marker is of a token already drawn.
LEMMA ShapeStep == ASSUME CacheInv, [Next]_vars PROVE Shape'
<1>1. /\ cache.head[2] <= tokens /\ tokens \in Nat /\ tokens' \in Nat /\ tokens <= tokens'
      /\ \A r \in Session : old[r].head[2] <= tokens /\ head[r][2] <= tokens
                            /\ mark[r][2] <= tokens
    BY TokenStep DEF CacheInv, TypeOK, Shape
<1>2. /\ cache.head[2] \in Nat
      /\ \A r \in Session : old[r].head[2] \in Nat /\ head[r][2] \in Nat /\ mark[r][2] \in Nat
    BY DEF CacheInv, TypeOK, Marker
<1>3. \A r \in Session : HeadOf(Store(r))[2] <= tokens /\ HeadOf(Store(r))[2] \in Nat
    BY StoreFacts, HeadFacts DEF Marker
<1>4. NoMarker[2] = 0 /\ NoCache.head = NoMarker
    BY DEF NoMarker, NoCache
<1>5. /\ cache'.head[2] <= tokens
      /\ \A r \in Session : old'[r].head[2] <= tokens /\ head'[r][2] <= tokens
                            /\ mark'[r][2] <= tokens
  <2> USE DEF CacheInv, TypeOK
  <2>1. ASSUME NEW r \in Session, Begin(r) \/ Write(r) \/ Commit(r) \/ Rollback(r) PROVE <1>5!:
    BY <1>1, <2>1 DEF Begin, Write, Commit, Rollback, query
  <2>2. ASSUME NEW r \in Session, Ask(r) \/ Take(r) \/ ReadHead(r) PROVE <1>5!:
    BY <1>1, <1>3, <2>2 DEF Ask, Take, ReadHead
  <2>3. ASSUME NEW r \in Session, TokenAt(r) \/ Since(r) \/ Reread(r) \/ Build(r) PROVE <1>5!:
    BY <1>1, <2>3 DEF TokenAt, Since, Reread, Build, query
  <2>4. ASSUME NEW r \in Session, Direct(r) \/ Publish(r) \/ Judge(r) PROVE <1>5!:
    <3>1. CASE Judge(r)
      BY <1>1, <1>4, <3>1 DEF Judge
    <3>2. CASE Direct(r) \/ Publish(r)
      <4>1. /\ old' = [old EXCEPT ![r] = NoCache] /\ head' = [head EXCEPT ![r] = NoMarker]
            /\ mark' = mark
        BY <3>2 DEF Direct, Publish, Answered
      <4>2. cache'.head[2] <= tokens
        BY <1>1, <3>2 DEF Direct, Publish
      <4> QED
        BY <1>1, <1>4, <4>1, <4>2
    <3> QED
      BY <2>4, <3>1, <3>2
  <2>5. ASSUME Restart PROVE <1>5!:
    BY <1>1, <1>4, <2>5 DEF Restart
  <2>6. ASSUME UNCHANGED vars PROVE <1>5!:
    BY <1>1, <2>6 DEF vars, query
  <2> QED
    BY <2>1, <2>2, <2>3, <2>4, <2>5, <2>6 DEF Next
<1>6. txn' = [owner |-> txn'.owner, db |-> txn'.db]
    BY DEF Next, Begin, Write, Commit, Rollback, Ask, Take, ReadHead, TokenAt, Since, Reread,
       Build, Direct, Publish, Answered, Judge, Restart, NoTxn, vars, query, CacheInv, Shape
<1>7. /\ cache'.head[2] \in Nat
      /\ \A r \in Session : old'[r].head[2] \in Nat /\ head'[r][2] \in Nat /\ mark'[r][2] \in Nat
    BY TypeStep DEF TypeOK, Marker
<1> QED
    BY <1>1, <1>5, <1>6, <1>7, TablesStep DEF Shape

\* What a query's head covers, the marker its gather read before covers too.
LEMMA MarkBeforeHead ==
    ASSUME CacheInv, NEW r \in Session, pc[r] \in AfterHead, NEW d \in Tables, NEW v,
           NEW i \in Id, CoversRow(d, head[r], v, i)
    PROVE  CoversRow(d, mark[r], v, i)
<1> SUFFICES ASSUME StillThere(d, mark[r]), v # d.row[i]
             PROVE  i \in ChangedSince(d, mark[r][1])
    BY DEF CoversRow
<1>1. /\ Ahead /\ tokens \in Nat /\ mark[r] \in Marker /\ head[r] \in Marker
      /\ IsTable(txn.db, tokens) /\ IsTable(d, tokens)
      /\ DOMAIN db.log = Kept(db.top) /\ DOMAIN txn.db.log = Kept(txn.db.top)
      /\ DOMAIN d.log = Kept(d.top)
      /\ db.top \in Nat \ {0} /\ txn.db.top \in Nat \ {0} /\ d.top \in Nat \ {0}
      /\ mark[r][1] \in Nat /\ head[r][1] \in Nat
    BY DEF CacheInv, TypeOK, Shape, IsTable, Marker, Tables
<1>2. MarkerOf(r, mark[r]) /\ MarkerOf(r, head[r]) /\ mark[r][1] <= head[r][1]
    BY DEF CacheInv, Marked, AfterHead, Querying
<1>3. CASE txn.owner = r
    BY <1>2, <1>3 DEF MarkerOf, CoversRow
<1>4. CASE txn.owner # r
  <2>1. head[r][1] <= db.top /\ (head[r][1] \in Kept(db.top) => db.log[head[r][1]].tok = head[r][2])
    BY <1>2, <1>4 DEF MarkerOf, Committed
  <2>2. mark[r][1] \in Kept(d.top)
    BY <1>1 DEF StillThere
  <2>3. db.top <= d.top
    BY <1>1 DEF Ahead, Tables
  <2>4. head[r][1] \in Kept(d.top)
    BY <1>1, <1>2, <2>1, <2>2, <2>3, KeptFacts
  <2>5. head[r][1] \in Kept(db.top)
    BY <1>1, <2>1, <2>3, <2>4, KeptFacts
  <2>6. d.log[head[r][1]] = db.log[head[r][1]]
    BY <2>1, <2>4, <1>1 DEF Ahead, Tables
  <2>7. StillThere(d, head[r])
    BY <1>1, <2>1, <2>4, <2>5, <2>6 DEF StillThere
  <2>8. i \in ChangedSince(d, head[r][1])
    BY <2>7 DEF CoversRow
  <2>9. \A q \in Kept(d.top) : q \in Nat /\ (q > head[r][1] => q > mark[r][1])
    BY <1>1, <1>2, KeptFacts
  <2> QED
    BY <1>1, <2>8, <2>9 DEF ChangedSince
<1> QED
    BY <1>3, <1>4

\* Covered by the two tables after the step.
CoversAfter(h, f) == \A d \in {db', txn'.db}, i \in Id : CoversRow(d, h, f[i], i)

\* The cache, its copies, the answers and what queries hold stay covered.
LEMMA CoveredStep == ASSUME CacheInv, [Next]_vars PROVE Covered'
<1>1. /\ cache.head \in Marker /\ cache.head[2] <= tokens
      /\ \A s \in Session : /\ old[s].head \in Marker /\ old[s].head[2] <= tokens
                            /\ head[s] \in Marker /\ head[s][2] <= tokens
                            /\ mark[s] \in Marker /\ mark[s][2] <= tokens
      /\ old \in [Session -> [head : Marker, rows : [Id -> Val]]]
      /\ pc \in [Session -> Querying \cup {"idle", "judged"}]
      /\ mark \in [Session -> Marker] /\ head \in [Session -> Marker]
      /\ rows \in [Session -> [Id -> Val]] /\ answer \in [Session -> [Id -> Val]]
      /\ todo \in [Session -> SUBSET Id]
    BY DEF CacheInv, TypeOK, Shape
<1>2. CoversAfter(cache.head, cache.rows)
    BY <1>1, CoversStep DEF CacheInv, Covered, Covers, CoversAfter
<1>3. ASSUME NEW s \in Session PROVE CoversAfter(old[s].head, old[s].rows)
    BY <1>1, CoversStep DEF CacheInv, Covered, Covers, CoversAfter
<1>4. ASSUME NEW s \in Session, pc[s] \notin Querying PROVE CoversAfter(mark[s], answer[s])
    BY <1>1, <1>4, CoversStep DEF CacheInv, Covered, Covers, CoversAfter
<1>5. ASSUME NEW s \in Session, pc[s] = "publish" PROVE CoversAfter(head[s], rows[s])
    BY <1>1, <1>5, CoversStep DEF CacheInv, Covered, Covers, CoversAfter
<1>6. ASSUME NEW s \in Session, pc[s] = "reread", NEW i \in Id \ todo[s], NEW d \in {db', txn'.db}
      PROVE  CoversRow(d, head[s], rows[s][i], i)
  <2>1. \A e \in Tables : CoversRow(e, head[s], rows[s][i], i)
    BY <1>6 DEF CacheInv, Covered
  <2> QED
    BY <1>1, <1>6, <2>1, CoversStep
<1>7. ASSUME NEW f PROVE CoversAfter(NoMarker, f)
  <2>1. db'.top \in Nat \ {0} /\ DOMAIN db'.log = Kept(db'.top)
        /\ txn'.db.top \in Nat \ {0} /\ DOMAIN txn'.db.log = Kept(txn'.db.top)
    BY TablesStep DEF IsTable
  <2>2. NoMarker[1] \notin Kept(db'.top) /\ NoMarker[1] \notin Kept(txn'.db.top)
    BY <2>1 DEF NoMarker, Kept
  <2> QED
    BY <2>1, <2>2 DEF CoversAfter, CoversRow, StillThere
<1>8. ASSUME NEW s \in Session, pc[s] \in AfterHead PROVE CoversAfter(head[s], Store(s).row)
  <2>1. \A d \in Tables, i \in Id : CoversRow(d, head[s], Store(s).row[i], i)
    BY <1>1, <1>8, FreshRow DEF CacheInv, Marked
  <2> QED
    BY <1>1, <2>1, CoversStep DEF CoversAfter
<1>9. ASSUME NEW s \in Session, pc[s] \in AfterHead PROVE CoversAfter(mark[s], Store(s).row)
  <2>1. \A d \in Tables, i \in Id : CoversRow(d, mark[s], Store(s).row[i], i)
    BY <1>1, <1>9, FreshRow DEF CacheInv, Marked, AfterHead, Querying
  <2> QED
    BY <1>1, <2>1, CoversStep DEF CoversAfter
<1>10. ASSUME NEW s \in Session, pc[s] = "publish" PROVE CoversAfter(mark[s], rows[s])
  <2>1. \A d \in Tables, i \in Id : CoversRow(d, head[s], rows[s][i], i)
    BY <1>10 DEF CacheInv, Covered, Covers
  <2>2. \A d \in Tables, i \in Id : CoversRow(d, mark[s], rows[s][i], i)
    BY <1>10, <2>1, MarkBeforeHead DEF AfterHead
  <2> QED
    BY <1>1, <2>2, CoversStep DEF CoversAfter
<1> DEFINE Goal ==
      /\ CoversAfter(cache'.head, cache'.rows)
      /\ \A s \in Session :
            /\ CoversAfter(old'[s].head, old'[s].rows)
            /\ pc'[s] \notin Querying => CoversAfter(mark'[s], answer'[s])
            /\ pc'[s] = "publish" => CoversAfter(head'[s], rows'[s])
            /\ pc'[s] = "reread" =>
                  \A d \in {db', txn'.db}, i \in Id \ todo'[s] :
                      CoversRow(d, head'[s], rows'[s][i], i)
<1>11. ASSUME NEW r \in Session, Begin(r) \/ Write(r) \/ Commit(r) \/ Rollback(r) PROVE Goal
  <2>1. UNCHANGED <<cache, old, mark, answer, head, rows, todo>>
    BY <1>11 DEF Begin, Write, Commit, Rollback, query
  <2>2. \A s \in Session : pc'[s] = pc[s] \/ (pc'[s] = "idle" /\ pc[s] \in {"idle", "judged"})
    BY <1>1, <1>11 DEF Begin, Write, Commit, Rollback
  <2>3. \A s \in Session : /\ pc'[s] \notin Querying => pc[s] \notin Querying
                           /\ pc'[s] = "publish" => pc[s] = "publish"
                           /\ pc'[s] = "reread" => pc[s] = "reread"
    BY <2>2 DEF Querying
  <2> QED
    BY <1>2, <1>3, <1>4, <1>5, <1>6, <2>1, <2>3
<1>12. ASSUME NEW r \in Session, Ask(r) PROVE Goal
    BY <1>1, <1>2, <1>3, <1>4, <1>5, <1>6, <1>12 DEF Ask, Querying
<1>13. ASSUME NEW r \in Session, Take(r) PROVE Goal
    BY <1>1, <1>2, <1>3, <1>4, <1>5, <1>6, <1>13 DEF Take, Querying
<1>14. ASSUME NEW r \in Session, ReadHead(r) PROVE Goal
    BY <1>1, <1>2, <1>3, <1>4, <1>5, <1>6, <1>14 DEF ReadHead, Querying
<1>15. ASSUME NEW r \in Session, TokenAt(r) PROVE Goal
    BY <1>1, <1>2, <1>3, <1>4, <1>5, <1>6, <1>15 DEF TokenAt, Querying, query
<1>16. ASSUME NEW r \in Session, Since(r) PROVE Goal
  <2> DEFINE changed == ChangedSince(Store(r), old[r].head[1])
  <2>1. \A i \in Id \ changed : old[r].rows[i] = Store(r).row[i]
    BY <1>16 DEF Since, CacheInv, Listed
  <2>2. \A d \in {db', txn'.db}, i \in Id \ changed : CoversRow(d, head[r], old[r].rows[i], i)
    BY <1>8, <1>16, <2>1 DEF Since, AfterHead, CoversAfter
  <2> HIDE DEF changed
  <2>3. /\ UNCHANGED <<cache, old, mark, answer, head>>
        /\ \A s \in Session \ {r} : pc'[s] = pc[s] /\ rows'[s] = rows[s] /\ todo'[s] = todo[s]
    BY <1>1, <1>16 DEF Since
  <2>4. \/ pc'[r] = "build"
        \/ pc'[r] = "publish" /\ changed = {} /\ rows'[r] = old[r].rows
        \/ pc'[r] = "reread" /\ todo'[r] = changed /\ rows'[r] = old[r].rows
    BY <1>1, <1>16 DEF Since, changed
  <2>5. /\ pc'[r] = "publish" => CoversAfter(head'[r], rows'[r])
        /\ pc'[r] = "reread" => \A d \in {db', txn'.db}, i \in Id \ todo'[r] :
                                    CoversRow(d, head'[r], rows'[r][i], i)
        /\ pc'[r] \in Querying
    BY <2>2, <2>3, <2>4 DEF CoversAfter, Querying
  <2> QED
    BY <1>2, <1>3, <1>4, <1>5, <1>6, <2>3, <2>5
<1>17. ASSUME NEW r \in Session, Reread(r) PROVE Goal
  <2>1. PICK j \in todo[r] : /\ rows' = [rows EXCEPT ![r][j] = Store(r).row[j]]
                             /\ todo' = [todo EXCEPT ![r] = @ \ {j}]
                             /\ pc' = [pc EXCEPT ![r] = IF todo[r] = {j} THEN "publish" ELSE "reread"]
    BY <1>17 DEF Reread
  <2>2. /\ UNCHANGED <<cache, old, mark, answer, head>> /\ pc[r] = "reread"
        /\ \A s \in Session \ {r} : pc'[s] = pc[s] /\ rows'[s] = rows[s] /\ todo'[s] = todo[s]
    BY <1>1, <1>17, <2>1 DEF Reread
  <2>3. /\ rows'[r][j] = Store(r).row[j] /\ todo'[r] = todo[r] \ {j}
        /\ \A i \in Id \ {j} : rows'[r][i] = rows[r][i]
        /\ pc'[r] = IF todo[r] = {j} THEN "publish" ELSE "reread"
        /\ j \in Id
    BY <1>1, <2>1
  <2>4. \A d \in {db', txn'.db}, i \in Id \ todo'[r] : CoversRow(d, head[r], rows'[r][i], i)
    BY <1>6, <1>8, <2>2, <2>3 DEF CoversAfter, AfterHead
  <2>5. /\ pc'[r] = "publish" => CoversAfter(head'[r], rows'[r])
        /\ pc'[r] \in Querying
    BY <2>2, <2>3, <2>4 DEF CoversAfter, Querying
  <2> QED
    BY <1>2, <1>3, <1>4, <1>5, <1>6, <2>2, <2>4, <2>5
<1>18. ASSUME NEW r \in Session, Build(r) PROVE Goal
  <2>1. CoversAfter(head[r], Store(r).row)
    BY <1>8, <1>18 DEF Build, AfterHead
  <2> QED
    BY <1>1, <1>2, <1>3, <1>4, <1>5, <1>6, <1>18, <2>1 DEF Build, Querying
<1>19. ASSUME NEW r \in Session, Direct(r) \/ Publish(r) PROVE Goal
  <2>1. PICK f : Answered(r, f) /\ CoversAfter(mark[r], f) /\ CoversAfter(cache'.head, cache'.rows)
    BY <1>2, <1>5, <1>9, <1>10, <1>19 DEF Direct, Publish, AfterHead
  <2>2. /\ mark' = mark /\ answer'[r] = f /\ pc'[r] = "idle" /\ old'[r] = NoCache
        /\ \A s \in Session \ {r} : /\ pc'[s] = pc[s] /\ old'[s] = old[s] /\ head'[s] = head[s]
                                    /\ rows'[s] = rows[s] /\ todo'[s] = todo[s]
                                    /\ answer'[s] = answer[s]
    BY <1>1, <2>1 DEF Answered
  <2>3. NoCache.head = NoMarker
    BY DEF NoCache
  <2> QED
    BY <1>3, <1>4, <1>5, <1>6, <1>7, <2>1, <2>2, <2>3
<1>20. ASSUME NEW r \in Session, Judge(r) PROVE Goal
  <2>1. /\ UNCHANGED <<cache, old, answer, head, rows, todo>>
        /\ mark'[r] = NoMarker /\ pc'[r] = "judged"
        /\ \A s \in Session \ {r} : mark'[s] = mark[s] /\ pc'[s] = pc[s]
    BY <1>1, <1>20 DEF Judge
  <2> QED
    BY <1>2, <1>3, <1>4, <1>5, <1>6, <1>7, <2>1
<1>21. ASSUME Restart PROVE Goal
  <2>1. /\ cache' = NoCache /\ NoCache.head = NoMarker
        /\ \A s \in Session : old'[s] = NoCache /\ mark'[s] = NoMarker /\ pc'[s] = "idle"
    BY <1>21 DEF Restart, NoCache
  <2> QED
    BY <1>7, <2>1
<1>22. ASSUME UNCHANGED vars PROVE Goal
    BY <1>2, <1>3, <1>4, <1>5, <1>6, <1>22 DEF vars, query
<1> HIDE DEF Goal
<1>23. Goal
    BY <1>11, <1>12, <1>13, <1>14, <1>15, <1>16, <1>17, <1>18, <1>19, <1>20, <1>21, <1>22
       DEF Next
<1> QED
    BY <1>23 DEF Goal, Covered, Covers, Tables, CoversAfter

--------------------------------------------------------------------------------
\* During a query nobody else opens, changes or ends the transaction it is in.
LEMMA OwnerStep ==
    ASSUME CacheInv, [Next]_vars, NEW s \in Session, pc[s] \in Querying, pc'[s] \in Querying
    PROVE  IF txn.owner = s THEN txn' = txn ELSE txn'.owner # s
<1>1. pc \in [Session -> Querying \cup {"idle", "judged"}] /\ s # Nobody
      /\ txn = [owner |-> txn.owner, db |-> txn.db]
    BY CandidatesAssumption DEF CacheInv, TypeOK, Shape
<1>2. ASSUME NEW r \in Session, Begin(r) \/ Write(r) \/ Commit(r) \/ Rollback(r)
      PROVE  IF txn.owner = s THEN txn' = txn ELSE txn'.owner # s
  <2>1. r # s
    BY <1>2 DEF Begin, Write, Commit, Rollback, Querying
  <2> QED
    BY <1>1, <1>2, <2>1 DEF Begin, Write, Commit, Rollback, NoTxn
<1>3. CASE Restart
    BY <1>3 DEF Restart, Querying
<1>4. CASE txn' = txn
    BY <1>4
<1> QED
    BY <1>2, <1>3, <1>4 DEF Next, Ask, Take, ReadHead, TokenAt, Since, Reread,
       Build, Direct, Publish, Answered, Judge, vars

CommittedAfter(m) == m[1] <= db'.top /\ (m[1] \in Kept(db'.top) => db'.log[m[1]].tok = m[2])

MarkerAfter(r, m) == IF txn'.owner = r THEN m = HeadOf(txn'.db) ELSE CommittedAfter(m)

\* A marker of the committed store stays one: what a commit keeps of the older
\* entries it keeps unchanged.
LEMMA MarkerStep ==
    ASSUME CacheInv, [Next]_vars, NEW s \in Session, pc[s] \in Querying, pc'[s] \in Querying,
           NEW m \in Marker, MarkerOf(s, m)
    PROVE  MarkerAfter(s, m)
<1>1. /\ db.top \in Nat \ {0} /\ txn.db.top \in Nat \ {0} /\ m[1] \in Nat /\ Ahead
    BY DEF CacheInv, TypeOK, Marker
<1>2. CASE txn.owner = s
    BY <1>2, OwnerStep DEF MarkerOf, MarkerAfter
<1>3. CASE txn.owner # s
  <2>1. Committed(m) /\ txn'.owner # s
    BY <1>3, OwnerStep DEF MarkerOf
  <2>2. CASE db' = db
    BY <2>1, <2>2 DEF Committed, MarkerAfter, CommittedAfter
  <2>3. CASE db' = txn.db
    <3>1. m[1] <= txn.db.top
      BY <1>1, <2>1 DEF Ahead, Committed
    <3>2. ASSUME m[1] \in Kept(txn.db.top) PROVE txn.db.log[m[1]].tok = m[2]
      <4>1. m[1] \in Kept(db.top)
        BY <1>1, <2>1, <3>2, KeptFacts DEF Ahead, Committed
      <4>2. txn.db.log[m[1]] = db.log[m[1]]
        BY <1>1, <2>1, <3>2 DEF Ahead, Committed
      <4> QED
        BY <2>1, <4>1, <4>2 DEF Committed
    <3> QED
      BY <2>1, <2>3, <3>1, <3>2 DEF MarkerAfter, CommittedAfter
  <2> QED
    BY <2>2, <2>3, TableStep
<1> QED
    BY <1>2, <1>3

\* The newest entry is a marker of what the session reads.
LEMMA HeadMarker ==
    ASSUME CacheInv, NEW r \in Session
    PROVE  /\ MarkerOf(r, HeadOf(Store(r)))
           /\ \A m \in Marker : MarkerOf(r, m) => m[1] <= HeadOf(Store(r))[1]
<1>1. /\ IsTable(db, tokens) /\ IsTable(txn.db, tokens) /\ tokens \in Nat
      /\ db.top \in Nat /\ txn.db.top \in Nat
    BY DEF CacheInv, TypeOK, Shape
<1>2. CASE txn.owner = r
    BY <1>1, <1>2, HeadFacts DEF MarkerOf, Store
<1>3. CASE txn.owner # r
    BY <1>1, <1>3, HeadFacts DEF MarkerOf, Store, Committed
<1> QED
    BY <1>2, <1>3

\* A query's markers stay heads of what it reads, in the order it read them.
LEMMA MarkedStep == ASSUME CacheInv, [Next]_vars PROVE Marked'
<1>1. /\ pc \in [Session -> Querying \cup {"idle", "judged"}]
      /\ mark \in [Session -> Marker] /\ head \in [Session -> Marker]
    BY DEF CacheInv, TypeOK
<1>2. ASSUME NEW s \in Session, pc[s] \in Querying, pc'[s] \in Querying
      PROVE  MarkerAfter(s, mark[s])
    BY <1>1, <1>2, MarkerStep DEF CacheInv, Marked
<1>3. ASSUME NEW s \in Session, pc[s] \in AfterHead, pc'[s] \in Querying
      PROVE  MarkerAfter(s, head[s]) /\ mark[s][1] <= head[s][1]
    BY <1>1, <1>3, MarkerStep DEF CacheInv, Marked, AfterHead, Querying
<1> DEFINE Goal == \A s \in Session :
        /\ pc'[s] \in Querying => MarkerAfter(s, mark'[s])
        /\ pc'[s] \in AfterHead => MarkerAfter(s, head'[s]) /\ mark'[s][1] <= head'[s][1]
<1>4. AfterHead \subseteq Querying
    BY DEF AfterHead, Querying
<1>5. ASSUME NEW r \in Session, Ask(r) PROVE Goal
  <2>1. /\ db' = db /\ txn' = txn /\ mark'[r] = HeadOf(Store(r)) /\ head' = head
        /\ pc'[r] = "take"
        /\ \A s \in Session \ {r} : pc'[s] = pc[s] /\ mark'[s] = mark[s]
    BY <1>1, <1>5 DEF Ask
  <2>2. MarkerAfter(r, mark'[r])
    BY <2>1, HeadMarker DEF MarkerAfter, MarkerOf, CommittedAfter, Committed
  <2>3. pc'[r] \notin AfterHead
    BY <2>1 DEF AfterHead
  <2> QED
    BY <1>2, <1>3, <1>4, <2>1, <2>2, <2>3
<1>6. ASSUME NEW r \in Session, ReadHead(r) PROVE Goal
  <2>1. /\ db' = db /\ txn' = txn /\ mark' = mark /\ head'[r] = HeadOf(Store(r))
        /\ \A s \in Session \ {r} : pc'[s] = pc[s] /\ head'[s] = head[s]
        /\ pc[r] = "head" /\ pc[r] \in Querying /\ pc'[r] \in Querying
    BY <1>1, <1>6 DEF ReadHead, Querying
  <2>2. MarkerAfter(r, head'[r])
    BY <2>1, HeadMarker DEF MarkerAfter, MarkerOf, CommittedAfter, Committed
  <2>3. mark[r][1] <= head'[r][1]
    BY <1>1, <2>1, HeadMarker DEF CacheInv, Marked
  <2> QED
    BY <1>2, <1>3, <1>4, <2>1, <2>2, <2>3
<1>7. ASSUME NEW r \in Session,
             Begin(r) \/ Write(r) \/ Commit(r) \/ Rollback(r) \/ Take(r) \/ TokenAt(r)
                \/ Since(r) \/ Reread(r) \/ Build(r) \/ Direct(r) \/ Publish(r) \/ Judge(r)
      PROVE  Goal
  <2>1. \A s \in Session :
           /\ pc'[s] \in Querying =>
                pc[s] \in Querying /\ mark'[s] = mark[s] /\ head'[s] = head[s]
           /\ pc'[s] \in AfterHead => pc[s] \in AfterHead
    <3>1. CASE Begin(r) \/ Write(r) \/ Commit(r) \/ Rollback(r)
      BY <1>1, <3>1 DEF Begin, Write, Commit, Rollback, query, Querying, AfterHead
    <3>2. CASE Take(r) \/ TokenAt(r)
      BY <1>1, <3>2 DEF Take, TokenAt, query, Querying, AfterHead
    <3>3. CASE Since(r)
      <4>1. /\ mark' = mark /\ head' = head /\ pc[r] = "since"
            /\ pc'[r] \in {"publish", "reread", "build"}
            /\ \A s \in Session \ {r} : pc'[s] = pc[s]
        BY <1>1, <3>3 DEF Since
      <4> QED
        BY <4>1 DEF Querying, AfterHead
    <3>4. CASE Reread(r) \/ Build(r)
      BY <1>1, <3>4 DEF Reread, Build, Querying, AfterHead
    <3>5. CASE Direct(r) \/ Publish(r)
      BY <1>1, <3>5 DEF Direct, Publish, Answered, Querying, AfterHead
    <3>6. CASE Judge(r)
      BY <1>1, <3>6 DEF Judge, Querying, AfterHead
    <3> QED
      BY <1>7, <3>1, <3>2, <3>3, <3>4, <3>5, <3>6
  <2> QED
    BY <1>2, <1>3, <1>4, <2>1
<1>8. ASSUME Restart PROVE Goal
    BY <1>8 DEF Restart, Querying, AfterHead
<1>9. ASSUME UNCHANGED vars PROVE Goal
    BY <1>2, <1>3, <1>4, <1>9 DEF vars, query
<1> HIDE DEF Goal
<1>10. Goal
    BY <1>5, <1>6, <1>7, <1>8, <1>9 DEF Next
<1> QED
    BY <1>10 DEF Goal, Marked, MarkerAfter, MarkerOf, CommittedAfter, Committed

\* No commit prunes what a reader is about to list, so the journal goes on
\* saying what its cache lacks (token_at, then changed_since).
LEMMA ListedStep == ASSUME CacheInv, ~PruneRace, [Next]_vars PROVE Listed'
<1>1. /\ pc \in [Session -> Querying \cup {"idle", "judged"}]
      /\ \A s \in Session : old[s].head \in Marker /\ old[s].head[1] \in Nat
      /\ old \in [Session -> [head : Marker, rows : [Id -> Val]]]
      /\ db.top \in Nat \ {0} /\ txn.db.top \in Nat \ {0} /\ Ahead
      /\ DOMAIN db.log = Kept(db.top) /\ DOMAIN txn.db.log = Kept(txn.db.top)
    BY DEF CacheInv, TypeOK, Marker
<1> SUFFICES ASSUME NEW s \in Session, pc'[s] = "since"
             PROVE  /\ old'[s].head[1] <= Store(s)'.top
                    /\ \A i \in Id : old'[s].rows[i] # Store(s)'.row[i] =>
                                        i \in ChangedSince(Store(s)', old'[s].head[1])
    BY DEF Listed, ChangedSince
<1>2. CASE TokenAt(s)
  <2>1. StillThere(Store(s), old[s].head) /\ old' = old /\ Store(s)' = Store(s)
    BY <1>1, <1>2 DEF TokenAt, query, Store
  <2>2. Store(s) \in Tables /\ Store(s).top \in Nat \ {0} /\ DOMAIN Store(s).log = Kept(Store(s).top)
    BY <1>1 DEF Store, Tables
  <2>3. \A i \in Id : old[s].rows[i] # Store(s).row[i] =>
                        i \in ChangedSince(Store(s), old[s].head[1])
    BY <2>1, <2>2 DEF CacheInv, Covered, Covers, CoversRow
  <2>4. old[s].head[1] <= Store(s).top
    BY <2>1, <2>2, KeptFacts DEF StillThere
  <2> QED
    BY <2>1, <2>3, <2>4
<1>3. CASE ~TokenAt(s)
  <2>1. pc[s] = "since" /\ old'[s] = old[s]
    BY <1>1, <1>3 DEF Next, Begin, Write, Commit, Rollback, Ask, Take, ReadHead, TokenAt, Since,
       Reread, Build, Direct, Publish, Answered, Judge, Restart, vars, query
  <2>2. /\ old[s].head[1] <= Store(s).top
        /\ \A i \in Id : old[s].rows[i] # Store(s).row[i] =>
                            i \in ChangedSince(Store(s), old[s].head[1])
    BY <2>1 DEF CacheInv, Listed
  <2>3. IF txn.owner = s THEN txn' = txn ELSE txn'.owner # s
    BY <2>1, OwnerStep DEF Querying
  <2>4. CASE txn.owner = s
    BY <2>1, <2>2, <2>3, <2>4 DEF Store
  <2>5. CASE txn.owner # s /\ db' = db
    BY <2>1, <2>2, <2>3, <2>5 DEF Store
  <2>6. CASE txn.owner # s /\ db' # db
    <3> DEFINE k == old[s].head[1]
    <3>1. PICK r \in Session : Commit(r)
      BY <2>6 DEF Next, Begin, Write, Rollback, Ask, Take, ReadHead, TokenAt, Since,
         Reread, Build, Direct, Publish, Answered, Judge, Restart, vars
    <3>2. db' = txn.db /\ txn.db.top <= k + Retention
      BY <1>1, <2>1, <3>1, CandidatesAssumption DEF Commit, PrunesUnderReader
    <3>3. Store(s) = db /\ Store(s)' = txn.db
      BY <2>3, <2>6, <3>2 DEF Store
    <3>4. k <= db.top /\ k \in Nat /\ k <= txn.db.top
      BY <1>1, <2>2, <3>3 DEF Ahead
    <3>5. ASSUME NEW i \in Id, old[s].rows[i] # txn.db.row[i]
          PROVE  i \in ChangedSince(txn.db, k)
      <4>1. CASE old[s].rows[i] # db.row[i]
        <5>1. PICK q \in Kept(db.top) : q > k /\ db.log[q].id = i
          BY <1>1, <2>2, <3>3, <4>1 DEF ChangedSince
        <5>2. q \in Nat \ {0} /\ q <= db.top
          BY <1>1, <5>1 DEF Kept
        <5>3. q \in Kept(txn.db.top)
          BY <1>1, <3>2, <3>4, <5>1, <5>2, CandidatesAssumption DEF Kept, Ahead
        <5> QED
          BY <1>1, <5>1, <5>2, <5>3 DEF ChangedSince, Ahead
      <4>2. CASE old[s].rows[i] = db.row[i]
        <5>1. txn.db.top <= db.top + Retention
          BY <1>1, <3>2, <3>4, CandidatesAssumption
        <5>2. i \in ChangedSince(txn.db, db.top)
          BY <1>1, <3>5, <4>2, <5>1 DEF Ahead
        <5>3. \A q \in Kept(txn.db.top) : q \in Nat /\ (q > db.top => q > k)
          <6>1. \A q \in Kept(txn.db.top) : q \in Nat
            BY DEF Kept
          <6> HIDE DEF k
          <6> QED
            BY <1>1, <3>4, <6>1
        <5> QED
          BY <1>1, <5>2, <5>3 DEF ChangedSince
      <4> QED
        BY <4>1, <4>2
    <3> QED
      BY <2>1, <3>3, <3>4, <3>5
  <2> QED
    BY <2>4, <2>5, <2>6
<1> QED
    BY <1>2, <1>3

\* A judgement stays of the transaction it was made in: only its session could
\* change the transaction, and forgets the judgement when it does.
LEMMA JudgedStep == ASSUME CacheInv, [Next]_vars PROVE Judged'
<1>1. /\ pc \in [Session -> Querying \cup {"idle", "judged"}]
      /\ weighed \in [Session -> [Id -> Val]] /\ answer \in [Session -> [Id -> Val]]
      /\ txn = [owner |-> txn.owner, db |-> txn.db]
      /\ txn.db \in Tables /\ txn.db.row \in [Id -> Val]
    BY DEF CacheInv, TypeOK, Shape, Tables
<1> SUFFICES ASSUME NEW s \in Session, pc'[s] = "judged"
             PROVE  txn'.owner = s /\ weighed'[s] = txn'.db.row
    BY DEF Judged
<1>2. CASE Judge(s)
  <2>1. pc[s] = "idle" /\ txn' = txn /\ txn.owner = s
    BY <1>2 DEF Judge
  <2>2. \A i \in Id : CoversRow(txn.db, mark[s], answer[s][i], i)
    BY <1>1, <2>1 DEF CacheInv, Covered, Covers, Querying
  <2>3. \A i \in Id : ~(~StillThere(txn.db, mark[s]) \/ i \in ChangedSince(txn.db, mark[s][1]))
                        => answer[s][i] = txn.db.row[i]
    BY <2>2 DEF CoversRow
  <2>4. weighed'[s] = [i \in Id |->
            IF ~StillThere(txn.db, mark[s]) \/ i \in ChangedSince(txn.db, mark[s][1])
            THEN txn.db.row[i] ELSE answer[s][i]]
    BY <1>1, <1>2 DEF Judge
  <2>5. \A i \in Id : weighed'[s][i] = txn.db.row[i]
    BY <2>3, <2>4
  <2> QED
    BY <1>1, <2>1, <2>4, <2>5
<1>3. CASE ~Judge(s)
  <2>1. pc[s] = "judged" /\ weighed'[s] = weighed[s]
    BY <1>1, <1>3 DEF Next, Begin, Write, Commit, Rollback, Ask, Take, ReadHead, TokenAt, Since,
       Reread, Build, Direct, Publish, Answered, Judge, Restart, vars
  <2>2. txn.owner = s /\ weighed[s] = txn.db.row
    BY <2>1 DEF CacheInv, Judged
  <2>3. s # Nobody
    BY CandidatesAssumption
  <2>4. ASSUME NEW r \in Session, Begin(r) \/ Write(r) \/ Commit(r) \/ Rollback(r) PROVE FALSE
    BY <1>1, <2>2, <2>3, <2>4 DEF Begin, Write, Commit, Rollback
  <2>5. ASSUME Restart PROVE FALSE
    BY <2>5 DEF Restart
  <2>6. txn' = txn
    BY <2>4, <2>5 DEF Next, Ask, Take, ReadHead, TokenAt, Since,
       Reread, Build, Direct, Publish, Answered, Judge, vars
  <2> QED
    BY <2>1, <2>2, <2>6
<1> QED
    BY <1>2, <1>3

\* A cache of the very head a session reads has that session's rows.
LEMMA SameHead ==
    ASSUME CacheInv, NEW r \in Session, old[r].head = HeadOf(Store(r)), NEW i \in Id
    PROVE  old[r].rows[i] = Store(r).row[i]
<1>1. Store(r) \in Tables /\ IsTable(Store(r), tokens) /\ tokens \in Nat
    BY StoreFacts
<1>2. StillThere(Store(r), old[r].head) /\ ChangedSince(Store(r), old[r].head[1]) = {}
    BY <1>1, HeadFacts
<1>3. CoversRow(Store(r), old[r].head, old[r].rows[i], i)
    BY <1>1 DEF CacheInv, Covered, Covers
<1> QED
    BY <1>2, <1>3 DEF CoversRow

\* Between token_at and changed_since a row the journal does not name is the table's.
LEMMA Unlisted ==
    ASSUME CacheInv, NEW r \in Session, pc[r] = "since",
           NEW i \in Id \ ChangedSince(Store(r), old[r].head[1])
    PROVE  old[r].rows[i] = Store(r).row[i]
BY DEF CacheInv, Listed

\* What a query holds it could have read since its question.
LEMMA SeenStep == ASSUME CacheInv, [Next]_vars PROVE Seen'
<1>1. /\ pc \in [Session -> Querying \cup {"idle", "judged"}]
      /\ seen \in [Session -> [Id -> SUBSET Val]] /\ rows \in [Session -> [Id -> Val]]
      /\ todo \in [Session -> SUBSET Id]
    BY DEF CacheInv, TypeOK
<1>2. ASSUME NEW s \in Session, NEW i \in Id, pc[s] \in Querying
      PROVE  Store(s).row[i] \in seen[s][i]
    BY <1>2 DEF CacheInv, Seen
<1>3. ASSUME NEW s \in Session, NEW i \in Id,
             pc[s] = "publish" \/ (pc[s] = "reread" /\ i \notin todo[s])
      PROVE  rows[s][i] \in seen[s][i]
    BY <1>3 DEF CacheInv, Seen
<1> DEFINE Goal == \A s \in Session, i \in Id :
        /\ pc'[s] \in Querying => Store(s)'.row[i] \in seen'[s][i]
        /\ pc'[s] = "publish" => rows'[s][i] \in seen'[s][i]
        /\ pc'[s] = "reread" /\ i \notin todo'[s] => rows'[s][i] \in seen'[s][i]
<1>4. ASSUME NEW r \in Session, Begin(r) PROVE Goal
  <2>1. \A s \in Session : pc[s] \in Querying => Store(s)' = Store(s)
    BY <1>4, CandidatesAssumption DEF Begin, Store, Querying
  <2> QED
    BY <1>2, <1>3, <1>4, <2>1 DEF Begin, query
<1>5. ASSUME NEW r \in Session, Write(r) \/ Commit(r) \/ Rollback(r) PROVE Goal
  <2>1. /\ rows' = rows /\ todo' = todo /\ Watch
        /\ \A s \in Session : pc'[s] \in Querying => pc[s] \in Querying /\ pc'[s] = pc[s]
    BY <1>1, <1>5 DEF Write, Commit, Rollback, query, Querying
  <2>2. \A s \in Session, i \in Id :
            pc[s] \in Querying => seen'[s][i] = seen[s][i] \cup {Store(s)'.row[i]}
    BY <2>1 DEF Watch, Asking
  <2>3. "publish" \in Querying /\ "reread" \in Querying
    BY DEF Querying
  <2> QED
    BY <1>2, <1>3, <2>1, <2>2, <2>3
<1>6. ASSUME NEW r \in Session, Ask(r) PROVE Goal
  <2>1. /\ db' = db /\ txn' = txn /\ rows' = rows /\ todo' = todo
        /\ pc'[r] = "take" /\ \A i \in Id : Store(r).row[i] \in seen'[r][i]
        /\ \A s \in Session \ {r} : pc'[s] = pc[s] /\ seen'[s] = seen[s]
    BY <1>1, <1>6 DEF Ask
  <2> QED
    BY <1>2, <1>3, <2>1 DEF Store
<1>7. ASSUME NEW r \in Session, Take(r) \/ TokenAt(r) PROVE Goal
  <2>1. /\ db' = db /\ txn' = txn /\ rows' = rows /\ todo' = todo /\ seen' = seen
        /\ pc[r] \in Querying /\ pc'[r] \notin {"publish", "reread"}
        /\ \A s \in Session \ {r} : pc'[s] = pc[s]
    BY <1>1, <1>7 DEF Take, TokenAt, Querying, query
  <2> QED
    BY <1>2, <1>3, <2>1 DEF Store
<1>8. ASSUME NEW r \in Session, ReadHead(r) PROVE Goal
  <2>1. /\ db' = db /\ txn' = txn /\ todo' = todo /\ seen' = seen
        /\ pc[r] \in Querying /\ pc'[r] # "reread"
        /\ pc'[r] = "publish" => old[r].head = HeadOf(Store(r)) /\ rows'[r] = old[r].rows
        /\ \A s \in Session \ {r} : pc'[s] = pc[s] /\ rows'[s] = rows[s]
    BY <1>1, <1>8 DEF ReadHead, Querying
  <2>2. pc'[r] = "publish" => \A i \in Id : rows'[r][i] = Store(r).row[i]
    BY <2>1, SameHead
  <2> QED
    BY <1>2, <1>3, <2>1, <2>2 DEF Store
<1>9. ASSUME NEW r \in Session, Since(r) PROVE Goal
  <2> DEFINE changed == ChangedSince(Store(r), old[r].head[1])
  <2>1. \A i \in Id \ changed : old[r].rows[i] = Store(r).row[i]
    BY <1>9, Unlisted DEF Since
  <2> HIDE DEF changed
  <2>2. /\ db' = db /\ txn' = txn /\ seen' = seen /\ pc[r] \in Querying
        /\ \A s \in Session \ {r} : pc'[s] = pc[s] /\ rows'[s] = rows[s] /\ todo'[s] = todo[s]
        /\ \/ pc'[r] = "build"
           \/ pc'[r] = "publish" /\ changed = {} /\ rows'[r] = old[r].rows
           \/ pc'[r] = "reread" /\ todo'[r] = changed /\ rows'[r] = old[r].rows
    BY <1>1, <1>9 DEF Since, Querying, changed
  <2> QED
    BY <1>2, <1>3, <2>1, <2>2 DEF Store
<1>10. ASSUME NEW r \in Session, Reread(r) PROVE Goal
  <2>1. PICK j \in todo[r] : /\ rows' = [rows EXCEPT ![r][j] = Store(r).row[j]]
                             /\ todo' = [todo EXCEPT ![r] = @ \ {j}]
                             /\ pc' = [pc EXCEPT ![r] = IF todo[r] = {j} THEN "publish" ELSE "reread"]
    BY <1>10 DEF Reread
  <2>2. /\ rows'[r][j] = Store(r).row[j] /\ todo'[r] = todo[r] \ {j}
        /\ \A i \in Id \ {j} : rows'[r][i] = rows[r][i]
        /\ pc'[r] = IF todo[r] = {j} THEN "publish" ELSE "reread"
        /\ \A s \in Session \ {r} : pc'[s] = pc[s] /\ rows'[s] = rows[s] /\ todo'[s] = todo[s]
    BY <1>1, <2>1
  <2>3. db' = db /\ txn' = txn /\ seen' = seen /\ pc[r] = "reread" /\ "reread" \in Querying
    BY <1>10 DEF Reread, Querying
  <2> QED
    BY <1>2, <1>3, <2>2, <2>3 DEF Store
<1>11. ASSUME NEW r \in Session, Build(r) PROVE Goal
  <2>1. /\ db' = db /\ txn' = txn /\ seen' = seen /\ todo' = todo /\ pc[r] \in Querying
        /\ pc'[r] = "publish" /\ rows'[r] = Store(r).row
        /\ \A s \in Session \ {r} : pc'[s] = pc[s] /\ rows'[s] = rows[s]
    BY <1>1, <1>11 DEF Build, Querying
  <2> QED
    BY <1>2, <1>3, <2>1 DEF Store
<1>12. ASSUME NEW r \in Session, Direct(r) \/ Publish(r) PROVE Goal
  <2>1. /\ db' = db /\ txn' = txn /\ pc'[r] \notin Querying
        /\ pc'[r] \notin {"publish", "reread"}
        /\ \A s \in Session \ {r} : /\ pc'[s] = pc[s] /\ rows'[s] = rows[s]
                                    /\ todo'[s] = todo[s] /\ seen'[s] = seen[s]
    BY <1>1, <1>12 DEF Direct, Publish, Answered, Querying
  <2> QED
    BY <1>2, <1>3, <2>1 DEF Store
<1>13. ASSUME NEW r \in Session, Judge(r) PROVE Goal
  <2>1. /\ db' = db /\ txn' = txn /\ pc'[r] \notin Querying
        /\ pc'[r] \notin {"publish", "reread"} /\ UNCHANGED <<rows, todo, seen>>
        /\ \A s \in Session \ {r} : pc'[s] = pc[s]
    BY <1>1, <1>13 DEF Judge, Querying
  <2> QED
    BY <1>2, <1>3, <2>1 DEF Store
<1>14. ASSUME Restart PROVE Goal
    BY <1>14 DEF Restart, Querying
<1>15. ASSUME UNCHANGED vars PROVE Goal
    BY <1>2, <1>3, <1>15 DEF vars, query, Store
<1> HIDE DEF Goal
<1>16. Goal
    BY <1>4, <1>5, <1>6, <1>7, <1>8, <1>9, <1>10, <1>11, <1>12, <1>13, <1>14, <1>15 DEF Next
<1> QED
    BY <1>16 DEF Goal, Seen

--------------------------------------------------------------------------------
\* The inductive invariant holds throughout.
LEMMA CacheInvariant == ~PruneRace /\ Spec => []CacheInv
<1> SUFFICES ASSUME ~PruneRace PROVE Spec => []CacheInv
    OBVIOUS
<1>1. Init => CacheInv
    BY InitCacheInv
<1>2. ASSUME CacheInv, [Next]_vars PROVE CacheInv'
    BY <1>2, TypeStep, ShapeStep, AheadStep, CoveredStep, MarkedStep, ListedStep, JudgedStep,
       SeenStep DEF CacheInv
<1> QED
    BY <1>1, <1>2, PTL DEF Spec

\* The tables, journals, markers, cache and queries stay well typed
\* (change_journal.py, candidate_cache.py).
\* No commit prunes past a marker between two SELECTs of one read (~PruneRace).
THEOREM CandidatesTyped == ~PruneRace /\ Spec => []TypeOK
<1>1. CacheInv => TypeOK
    BY DEF CacheInv
<1> QED
    BY <1>1, CacheInvariant, PTL

\* Whatever the cache holds and whoever reads it, inside a transaction or
\* outside: a cached row differs from the reader's table only when the journal
\* no longer has the cache's marker or names the row after it
\* (candidate_cache._current_state).
\* No commit prunes past a marker between two SELECTs of one read (~PruneRace).
THEOREM CacheIsJournaled == ~PruneRace /\ Spec => []DifferencesAreJournaled
<1>1. CacheInv => DifferencesAreJournaled
    BY DEF CacheInv, Covered, Covers, CoversRow, Tables, DifferencesAreJournaled
<1> QED
    BY <1>1, CacheInvariant, PTL

\* A belief write weighs its claim against the table of its own transaction,
\* however old its candidates are (pipeline.search_store_under_lock).
\* No commit prunes past a marker between two SELECTs of one read (~PruneRace).
THEOREM JudgedOnTheTransaction == ~PruneRace /\ Spec => []JudgedOnTheTable
<1>1. CacheInv => JudgedOnTheTable
    BY DEF CacheInv, Judged, JudgedOnTheTable
<1> QED
    BY <1>1, CacheInvariant, PTL

--------------------------------------------------------------------------------
\* The refinement mapping of Candidates into FreshReads.
View == [r \in Session |-> Store(r).row]

\* Every step of the journal, the cache and the queries is a step FreshReads
\* allows or one it does not see.
LEMMA FreshStep == ASSUME CacheInv, CacheInv', [Next]_vars PROVE [Fresh!Next]_(Fresh!freshVars)
<1>1. /\ pc \in [Session -> Querying \cup {"idle", "judged"}]
      /\ seen \in [Session -> [Id -> SUBSET Val]] /\ answer \in [Session -> [Id -> Val]]
    BY DEF CacheInv, TypeOK
<1>2. View' \in [Session -> [Id -> Val]]
  <2>1. \A r \in Session : Store(r)'.row \in [Id -> Val]
    BY DEF CacheInv, TypeOK, Store
  <2> QED
    BY <2>1 DEF View
<1>3. ASSUME db' = db, txn' = txn PROVE View' = View
    BY <1>3 DEF View, Store
<1>4. ASSUME NEW r \in Session, Begin(r) PROVE UNCHANGED <<View, Asking, seen, answer>>
  <2>1. \A s \in Session : Store(s)' = Store(s)
    BY <1>4, CandidatesAssumption DEF Begin, Store
  <2> QED
    BY <1>4, <2>1 DEF Begin, View, Asking
<1>5. ASSUME NEW r \in Session, Write(r) \/ Commit(r) \/ Rollback(r) PROVE Fresh!Change
  <2>1. Asking' = Asking /\ answer' = answer /\ Watch
    BY <1>1, <1>5 DEF Write, Commit, Rollback, Asking, Querying
  <2>2. seen' = [s \in Session |-> [i \in Id |->
                   IF s \in Asking THEN seen[s][i] \cup {View'[s][i]} ELSE {}]]
    BY <2>1 DEF Watch, View
  <2> QED
    BY <1>2, <2>1, <2>2 DEF Fresh!Change, View
<1>6. ASSUME NEW r \in Session, Ask(r) PROVE Fresh!Question(r)
  <2>1. r \notin Asking /\ Asking' = Asking \cup {r}
    BY <1>1, <1>6 DEF Ask, Asking, Querying
  <2>2. View' = View /\ answer' = answer
    BY <1>3, <1>6 DEF Ask
  <2>3. seen' = [seen EXCEPT ![r] = [i \in Id |-> {View[r][i]}]]
    BY <1>6 DEF Ask, View
  <2> QED
    BY <2>1, <2>2, <2>3 DEF Fresh!Question, View
<1>7. ASSUME NEW r \in Session,
             Take(r) \/ ReadHead(r) \/ TokenAt(r) \/ Since(r) \/ Reread(r) \/ Build(r) \/ Judge(r)
      PROVE  UNCHANGED <<View, Asking, seen, answer>>
  <2>1. db' = db /\ txn' = txn /\ seen' = seen /\ answer' = answer
    BY <1>7 DEF Take, ReadHead, TokenAt, Since, Reread, Build, Judge
  <2>2. \A s \in Session : pc'[s] \in Querying <=> pc[s] \in Querying
    <3>1. CASE Take(r) \/ ReadHead(r) \/ TokenAt(r)
      BY <1>1, <3>1 DEF Take, ReadHead, TokenAt, Querying
    <3>2. CASE Since(r)
      <4>1. /\ pc[r] = "since" /\ pc'[r] \in {"publish", "reread", "build"}
            /\ \A s \in Session \ {r} : pc'[s] = pc[s]
        BY <1>1, <3>2 DEF Since
      <4> QED
        BY <4>1 DEF Querying
    <3>3. CASE Reread(r) \/ Build(r) \/ Judge(r)
      BY <1>1, <3>3 DEF Reread, Build, Judge, Querying
    <3> QED
      BY <1>7, <3>1, <3>2, <3>3
  <2> QED
    BY <1>3, <2>1, <2>2 DEF Asking
<1>8. ASSUME NEW r \in Session, Direct(r) \/ Publish(r) PROVE Fresh!Answer(r)
  <2>1. PICK f : Answered(r, f) /\ \A i \in Id : f[i] \in seen[r][i]
    BY <1>8 DEF Direct, Publish, CacheInv, Seen, Querying
  <2>2. r \in Asking /\ Asking' = Asking \ {r}
    BY <1>1, <1>8 DEF Direct, Publish, Answered, Asking, Querying
  <2>3. View' = View
    BY <1>3, <2>1 DEF Answered
  <2>4. /\ answer'[r] = f /\ \A q \in Session \ {r} : answer'[q] = answer[q]
        /\ seen' = [seen EXCEPT ![r] = [i \in Id |-> {}]]
    BY <1>1, <2>1 DEF Answered
  <2> QED
    BY <2>1, <2>2, <2>3, <2>4 DEF Fresh!Answer, View
<1>9. ASSUME Restart PROVE Fresh!Lost
  <2>1. Asking' = {}
    BY <1>9 DEF Restart, Asking, Querying
  <2> QED
    BY <1>2, <1>9, <2>1 DEF Restart, Fresh!Lost, View
<1>10. ASSUME UNCHANGED vars PROVE UNCHANGED <<View, Asking, seen, answer>>
    BY <1>10 DEF vars, View, Asking, Store
<1> QED
    BY <1>4, <1>5, <1>6, <1>7, <1>8, <1>9, <1>10 DEF Next, Fresh!Next, Fresh!freshVars, View

\* Every answer is one the table could have given, row by row, during the
\* question: the cache "returns what the uncached loader would return at the
\* moment of the query" (store/candidate_cache.py), for every reader inside and
\* outside transactions, with commits, rollbacks, pruning and restarts between.
\* No commit prunes past a marker between two SELECTs of one read (~PruneRace).
THEOREM AnswersAreFresh == ~PruneRace /\ Spec => ImplementsFreshReads
<1> SUFFICES ASSUME ~PruneRace PROVE Spec => ImplementsFreshReads
    OBVIOUS
<1>1. Init => Fresh!Init
  <2> SUFFICES ASSUME Init PROVE Fresh!Init
    OBVIOUS
  <2>1. CacheInv
    BY InitCacheInv
  <2>2. \A r \in Session : Store(r).row \in [Id -> Val]
    BY <2>1, StoreFacts
  <2>3. Asking = {} /\ answer \in [Session -> [Id -> Val]]
    BY <2>1 DEF Init, Asking, Querying, CacheInv, TypeOK
  <2> QED
    BY <2>2, <2>3 DEF Init, Fresh!Init
<1>2. CacheInv /\ CacheInv' /\ [Next]_vars => [Fresh!Next]_(Fresh!freshVars)
    BY FreshStep
<1>3. Spec => []CacheInv
    BY CacheInvariant
<1> QED
    BY <1>1, <1>2, <1>3, PTL DEF Spec, ImplementsFreshReads, Fresh!Spec
================================================================================
