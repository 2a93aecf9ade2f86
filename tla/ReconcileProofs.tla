---------------------------- MODULE ReconcileProofs -----------------------------
(***************************************************************************)
(* What holds of the particles table whatever claims, reviewers and passes   *)
(* there are, and however stale what a reviewer at a local CLI has read is:  *)
(* the table is well formed, a text stands once, a held claim is minted      *)
(* once, and history is append-only.  Where no corpus entry is retracted,    *)
(* holds and open records match one to one.                                 *)
(*                                                                         *)
(* The operations on the table are described by two relations.  Kept says    *)
(* what a rewrite of rows in place may do; appending a claim or a record is  *)
(* the only other thing that happens.  Each operation of the model is a      *)
(* composition of these, and the lemmas about them are proved once.          *)
(***************************************************************************)
EXTENDS Reconcile, SequenceTheorems, NaturalsInduction, WellFoundedInduction, TLAPS

Marked(p, status, reason) == [p EXCEPT !.status = status, !.reason = reason]

Standing(p) == IsActive(p) \/ IsHeld(p)

\* A record names two claims of the table, the first not held.
Named(rows) ==
    \A r \in DOMAIN rows : rows[r].kind = "record" =>
        /\ rows[r].a \in DOMAIN rows /\ rows[rows[r].a].kind = "claim"
        /\ ~IsHeld(rows[rows[r].a])
        /\ rows[r].b \in DOMAIN rows /\ rows[rows[r].b].kind = "claim"

\* An open record holds its claim B, and is the only one that does.
Holds(rows) ==
    /\ \A r \in DOMAIN rows : IsOpen(rows[r]) => IsHeld(rows[rows[r].b])
    /\ \A r, q \in DOMAIN rows :
          IsOpen(rows[r]) /\ IsOpen(rows[q]) /\ rows[r].b = rows[q].b => r = q

\* A text stands at most once.
Single(rows) ==
    \A i, j \in DOMAIN rows :
        /\ Standing(rows[i]) /\ Standing(rows[j]) /\ rows[i].text = rows[j].text
        => i = j

\* A row minted from a hold, or written by an update, names a row that no longer
\* stands, each its own.
Minted(rows) ==
    /\ \A i \in DOMAIN rows : rows[i].sup # 0 =>
          rows[i].sup \in DOMAIN rows /\ ~Standing(rows[rows[i].sup])
    /\ \A i, j \in DOMAIN rows : rows[i].sup # 0 /\ rows[i].sup = rows[j].sup => i = j

Table(rows) ==
    rows \in Seq(Particle) /\ Named(rows) /\ Holds(rows) /\ Single(rows) /\ Minted(rows)

\* Every held claim but e has an open record.
Reached(rows, e) ==
    \A i \in DOMAIN rows : IsHeld(rows[i]) /\ i # e =>
        \E r \in DOMAIN rows : IsOpen(rows[r]) /\ rows[r].b = i

\* What one write may do to the rows there were.
Grows(rows, new) ==
    \A i \in DOMAIN rows :
        /\ i \in DOMAIN new
        /\ new[i].kind = rows[i].kind /\ new[i].text = rows[i].text
        /\ new[i].sup = rows[i].sup /\ new[i].a = rows[i].a /\ new[i].b = rows[i].b
        /\ Terminal(rows[i]) => new[i].status = rows[i].status
        /\ IsActive(new[i]) => IsActive(rows[i])
        /\ IsHeld(new[i]) => IsHeld(rows[i])
        /\ IsOpen(new[i]) => IsOpen(rows[i])

\* A row is ACTIVE that was not only as the successor of a held claim.
Earned(rows, new) ==
    \A i \in DOMAIN new :
        IsActive(new[i]) /\ ~(i \in DOMAIN rows /\ IsActive(rows[i])) => new[i].sup # 0

\* No open record holds i.
Free(rows, i) == \A r \in DOMAIN rows : IsOpen(rows[r]) => rows[r].b # i

\* Rows rewritten in place; the holds of the records left open stay.
Kept(rows, new) ==
    /\ new \in Seq(Particle) /\ DOMAIN new = DOMAIN rows
    /\ Grows(rows, new)
    /\ \A r \in DOMAIN rows : IsOpen(new[r]) => IsHeld(new[rows[r].b])

\* What a search may have found, and what a reviewer may hold in hand.
Found(rows, f) == f = 0 \/ (f \in DOMAIN rows /\ rows[f].kind = "claim" /\ ~IsHeld(rows[f]))

InHand(rows, v) ==
    /\ v \in Reviewed
    /\ v.rec \in DOMAIN rows /\ rows[v.rec].kind = "record"
    /\ ~IsHeld(v.a) /\ IsHeld(v.b) /\ Found(rows, v.found)

Processes ==
    /\ \A w \in Writer : pc[w] # "idle" => wr[w] \in Gathered
    /\ \A q \in Reviewer : pc[q] # "idle" => InHand(row, rv[q])
    /\ \A x \in Releaser : pc[x] # "idle" =>
          rl[x].rec \in DOMAIN row /\ row[rl[x].rec].kind = "record"

TableInv == TypeOK /\ Table(row) /\ Processes
ReachInv == MaxWithdrawn = 0 => Reached(row, 0)
--------------------------------------------------------------------------------
(* Rows rewritten in place, and rows appended *)

\* A row rewritten in place in a table of particles.
LEMMA SetRow ==
    ASSUME NEW rows \in Seq(Particle), NEW i \in DOMAIN rows,
           NEW st \in Status, NEW re \in Reason
    PROVE  /\ Set(rows, i, st, re) \in Seq(Particle)
           /\ DOMAIN Set(rows, i, st, re) = DOMAIN rows
           /\ \A j \in DOMAIN rows : j # i => Set(rows, i, st, re)[j] = rows[j]
           /\ Set(rows, i, st, re)[i] = Marked(rows[i], st, re)
<1> DEFINE p == Marked(rows[i], st, re)
           new == [rows EXCEPT ![i] = p]
<1>1. rows[i] \in Particle
  OBVIOUS
<1>2. p \in Particle
  BY <1>1 DEF Particle, Marked
<1>3. Set(rows, i, st, re) = new
  BY <1>1 DEF Set, Particle, Marked
<1>4. /\ new \in Seq(Particle) /\ DOMAIN new = DOMAIN rows
      /\ new[i] = p
      /\ \A j \in DOMAIN rows : j # i => new[j] = rows[j]
  <2> HIDE DEF p
  <2> QED BY <1>2
<1> QED
  BY <1>3, <1>4

\* A table of particles with one more row.
LEMMA OneMoreRow ==
    ASSUME NEW rows \in Seq(Particle), NEW p \in Particle
    PROVE  /\ Append(rows, p) \in Seq(Particle)
           /\ Len(Append(rows, p)) = Len(rows) + 1
           /\ DOMAIN rows = 1..Len(rows)
           /\ DOMAIN Append(rows, p) = DOMAIN rows \cup {Len(rows) + 1}
           /\ Len(rows) + 1 \notin DOMAIN rows
           /\ \A i \in DOMAIN rows : Append(rows, p)[i] = rows[i]
           /\ Append(rows, p)[Len(rows) + 1] = p
<1>1. /\ Append(rows, p) \in Seq(Particle)
      /\ Len(Append(rows, p)) = Len(rows) + 1
      /\ \A i \in 1..Len(rows) : Append(rows, p)[i] = rows[i]
      /\ Append(rows, p)[Len(rows) + 1] = p
  BY AppendProperties
<1>2. DOMAIN Append(rows, p) = 1..(Len(rows) + 1) /\ DOMAIN rows = 1..Len(rows) /\ Len(rows) \in Nat
  BY <1>1
<1> QED
  BY <1>1, <1>2

\* Two tables of the same rows are one table.
LEMMA SameRows ==
    ASSUME NEW left \in Seq(Particle), NEW right \in Seq(Particle),
           DOMAIN left = DOMAIN right, \A j \in DOMAIN left : left[j] = right[j]
    PROVE  left = right
<1>1. DOMAIN left = 1..Len(left) /\ Len(left) \in Nat
  OBVIOUS
<1>2. DOMAIN right = 1..Len(right) /\ Len(right) \in Nat
  OBVIOUS
<1>3. Len(left) <= Len(right)
  <2> SUFFICES ASSUME Len(left) > Len(right) PROVE FALSE
    BY <1>1, <1>2
  <2>1. Len(left) \in 1..Len(left) /\ Len(left) \notin 1..Len(right)
    BY <1>1, <1>2
  <2> QED BY <2>1, <1>1, <1>2
<1>4. Len(right) <= Len(left)
  <2> SUFFICES ASSUME Len(right) > Len(left) PROVE FALSE
    BY <1>1, <1>2
  <2>1. Len(right) \in 1..Len(right) /\ Len(right) \notin 1..Len(left)
    BY <1>1, <1>2
  <2> QED BY <2>1, <1>1, <1>2
<1>5. Len(left) = Len(right)
  <2>1. \A m, n \in Nat : m <= n /\ n <= m => m = n
    OBVIOUS
  <2> QED BY <2>1, <1>1, <1>2, <1>3, <1>4, Zenon
<1> QED
  BY <1>1, <1>5, SeqEqual

\* A row appended before another is rewritten is appended after.
LEMMA SetThenAppend ==
    ASSUME NEW rows \in Seq(Particle), NEW p \in Particle, NEW i \in DOMAIN rows,
           NEW st \in Status, NEW re \in Reason
    PROVE  Set(Append(rows, p), i, st, re) = Append(Set(rows, i, st, re), p)
<1> DEFINE more == Append(rows, p)
           left == Set(more, i, st, re)
           set == Set(rows, i, st, re)
           right == Append(set, p)
<1>1. /\ more \in Seq(Particle) /\ Len(rows) + 1 \notin DOMAIN rows
      /\ DOMAIN more = DOMAIN rows \cup {Len(rows) + 1}
      /\ \A j \in DOMAIN rows : more[j] = rows[j]
      /\ more[Len(rows) + 1] = p
  BY OneMoreRow
<1>2. /\ set \in Seq(Particle) /\ DOMAIN set = DOMAIN rows /\ Len(set) = Len(rows)
      /\ \A j \in DOMAIN rows : j # i => set[j] = rows[j]
      /\ set[i] = Marked(rows[i], st, re)
  <2>1. /\ set \in Seq(Particle) /\ DOMAIN set = DOMAIN rows
        /\ \A j \in DOMAIN rows : j # i => set[j] = rows[j]
        /\ set[i] = Marked(rows[i], st, re)
    BY SetRow
  <2>2. Len(set) = Len(rows)
    <3> HIDE DEF set
    <3> QED BY <2>1
  <2> QED BY <2>1, <2>2
<1>3. /\ left \in Seq(Particle) /\ DOMAIN left = DOMAIN more
      /\ \A j \in DOMAIN more : j # i => left[j] = more[j]
      /\ left[i] = Marked(more[i], st, re)
  <2> HIDE DEF more
  <2> QED BY <1>1, SetRow
<1>4. /\ right \in Seq(Particle)
      /\ DOMAIN right = DOMAIN set \cup {Len(set) + 1}
      /\ \A j \in DOMAIN set : right[j] = set[j]
      /\ right[Len(set) + 1] = p
  <2> HIDE DEF set
  <2> QED BY <1>2, OneMoreRow
<1> HIDE DEF more, left, set, right
<1>5. DOMAIN left = DOMAIN right /\ \A j \in DOMAIN left : left[j] = right[j]
  BY <1>1, <1>2, <1>3, <1>4
<1>6. left \in Seq(Particle) /\ right \in Seq(Particle)
  BY <1>3, <1>4
<1>7. left = right
  BY <1>5, <1>6, SameRows
<1> QED
  BY <1>7 DEF left, right, more, set

\* Rewriting in place keeps the table well formed.
LEMMA KeptTable ==
    ASSUME NEW rows, NEW new, Table(rows), Kept(rows, new)
    PROVE  Table(new)
<1>1. new \in Seq(Particle) /\ DOMAIN new = DOMAIN rows
  BY DEF Kept
<1>2. \A i \in DOMAIN rows :
        /\ new[i].kind = rows[i].kind /\ new[i].text = rows[i].text
        /\ new[i].sup = rows[i].sup /\ new[i].a = rows[i].a /\ new[i].b = rows[i].b
        /\ Terminal(rows[i]) => new[i].status = rows[i].status
        /\ IsActive(new[i]) => IsActive(rows[i])
        /\ IsHeld(new[i]) => IsHeld(rows[i])
        /\ IsOpen(new[i]) => IsOpen(rows[i])
  BY DEF Kept, Grows
<1>3. Named(new)
  BY <1>1, <1>2 DEF Table, Named
<1>4. Holds(new)
  BY <1>1, <1>2 DEF Table, Holds, Kept
<1>5. Single(new)
  BY <1>1, <1>2 DEF Table, Single, Standing
<1>6. Minted(new)
  BY <1>1, <1>2 DEF Table, Minted, Standing
<1> QED
  BY <1>1, <1>3, <1>4, <1>5, <1>6 DEF Table

\* A write that changes nothing.
LEMMA GrowsSelf ==
    ASSUME NEW rows
    PROVE  Grows(rows, rows) /\ Earned(rows, rows)
BY DEF Grows, Earned

\* Writes compose.
LEMMA GrowsTrans ==
    ASSUME NEW rows, NEW mid, NEW new, Grows(rows, mid), Grows(mid, new)
    PROVE  /\ Grows(rows, new)
           /\ Earned(rows, mid) /\ Earned(mid, new) => Earned(rows, new)
<1>1. Grows(rows, new)
  BY DEF Grows, Terminal
<1>2. ASSUME Earned(rows, mid), Earned(mid, new) PROVE Earned(rows, new)
  BY <1>2 DEF Grows, Earned
<1> QED
  BY <1>1, <1>2

\* A claim no open record holds may leave the read surface.
LEMMA Retire ==
    ASSUME NEW rows, Table(rows), NEW i \in DOMAIN rows, rows[i].kind = "claim",
           ~Terminal(rows[i]), Free(rows, i),
           NEW st \in {"PROVENANCE_STALE", "RETRACTED", "SUPERSEDED"},
           NEW re \in Reason, re # "CONFLICT_PENDING"
    PROVE  LET new == Set(rows, i, st, re) IN
           /\ Table(new) /\ Grows(rows, new) /\ Earned(rows, new)
           /\ \A e : Reached(rows, e) => Reached(new, e)
           /\ Reached(rows, i) => Reached(new, 0)
<1> DEFINE new == Set(rows, i, st, re)
<1>1. rows \in Seq(Particle) /\ st \in Status
  BY DEF Table, Status
<1>2. /\ new \in Seq(Particle) /\ DOMAIN new = DOMAIN rows
      /\ \A j \in DOMAIN rows : j # i => new[j] = rows[j]
      /\ new[i] = Marked(rows[i], st, re)
  BY <1>1, SetRow
<1>3. /\ new[i].kind = rows[i].kind /\ new[i].text = rows[i].text
      /\ new[i].sup = rows[i].sup /\ new[i].a = rows[i].a /\ new[i].b = rows[i].b
      /\ new[i].status = st /\ new[i].reason = re
  <2> HIDE DEF new
  <2>1. rows[i] \in Particle
    BY <1>1
  <2> QED BY <1>2, <2>1 DEF Marked, Particle
<1> HIDE DEF new
<1>4. Grows(rows, new)
  <2> SUFFICES ASSUME NEW j \in DOMAIN rows
               PROVE  /\ j \in DOMAIN new
                      /\ new[j].kind = rows[j].kind /\ new[j].text = rows[j].text
                      /\ new[j].sup = rows[j].sup /\ new[j].a = rows[j].a /\ new[j].b = rows[j].b
                      /\ Terminal(rows[j]) => new[j].status = rows[j].status
                      /\ IsActive(new[j]) => IsActive(rows[j])
                      /\ IsHeld(new[j]) => IsHeld(rows[j])
                      /\ IsOpen(new[j]) => IsOpen(rows[j])
    BY DEF Grows
  <2>1. CASE j = i
    BY <1>2, <1>3, <2>1 DEF IsActive, IsHeld, IsOpen
  <2>2. CASE j # i
    BY <1>2, <2>2
  <2> QED BY <2>1, <2>2
<1>5. \A r \in DOMAIN rows : IsOpen(new[r]) <=> IsOpen(rows[r])
  BY <1>2, <1>3 DEF IsOpen
<1>6. Kept(rows, new)
  BY <1>2, <1>4, <1>5 DEF Kept, Free, Table, Holds, Named, IsOpen
<1>7. Table(new)
  BY <1>6, KeptTable
<1>8. Earned(rows, new)
  BY <1>2, <1>3 DEF Earned, IsActive
<1>9. ~IsHeld(new[i])
  BY <1>3 DEF IsHeld
<1>10. ASSUME NEW e, Reached(rows, e) PROVE Reached(new, e)
  <2> SUFFICES ASSUME NEW j \in DOMAIN new, IsHeld(new[j]), j # e
               PROVE  \E r \in DOMAIN new : IsOpen(new[r]) /\ new[r].b = j
    BY DEF Reached
  <2>1. PICK r \in DOMAIN rows : IsOpen(rows[r]) /\ rows[r].b = j
    BY <1>2, <1>4, <1>10 DEF Reached, Grows
  <2> QED BY <2>1, <1>2, <1>4, <1>5 DEF Grows
<1>11. ASSUME Reached(rows, i) PROVE Reached(new, 0)
  BY <1>10, <1>11, <1>9, <1>2 DEF Reached
<1>12. QED
  BY <1>4, <1>7, <1>8, <1>10, <1>11 DEF new

\* A claim is appended: one that stands, to a table where its text does not.
LEMMA AppendClaim ==
    ASSUME NEW rows, Table(rows), NEW p \in Particle, p.kind = "claim",
           Standing(p) => \A j \in DOMAIN rows : Standing(rows[j]) => rows[j].text # p.text,
           p.sup # 0 => /\ p.sup \in DOMAIN rows /\ ~Standing(rows[p.sup])
                        /\ \A j \in DOMAIN rows : rows[j].sup # p.sup
    PROVE  LET new == Append(rows, p) IN
           /\ Table(new) /\ Grows(rows, new)
           /\ (IsActive(p) => p.sup # 0) => Earned(rows, new)
           /\ ~IsHeld(p) => \A e : Reached(rows, e) => Reached(new, e)
           /\ Reached(rows, 0) => Reached(new, Len(rows) + 1)
<1> DEFINE new == Append(rows, p)
           n == Len(rows) + 1
<1>1. /\ new \in Seq(Particle) /\ DOMAIN new = DOMAIN rows \cup {n}
      /\ n \notin DOMAIN rows
      /\ \A i \in DOMAIN rows : new[i] = rows[i]
      /\ new[n] = p
  BY OneMoreRow DEF Table
<1> HIDE DEF new, n
<1>2. Grows(rows, new)
  BY <1>1 DEF Grows
<1>3. ~IsOpen(p)
  BY DEF IsOpen
<1>4. Named(new)
  BY <1>1 DEF Table, Named
<1>5. Holds(new)
  <2>1. \A r \in DOMAIN new : IsOpen(new[r]) => r \in DOMAIN rows /\ rows[r].b \in DOMAIN rows
    BY <1>1, <1>3 DEF Table, Named, IsOpen
  <2> QED BY <1>1, <2>1 DEF Table, Holds
<1>6. Single(new)
  BY <1>1 DEF Table, Single
<1>7. Minted(new)
  BY <1>1 DEF Table, Minted
<1>8. (IsActive(p) => p.sup # 0) => Earned(rows, new)
  BY <1>1 DEF Earned
<1>9. ~IsHeld(p) => \A e : Reached(rows, e) => Reached(new, e)
  BY <1>1 DEF Reached
<1>10. Reached(rows, 0) => Reached(new, n)
  <2> SUFFICES ASSUME Reached(rows, 0), NEW i \in DOMAIN new, IsHeld(new[i]), i # n
               PROVE  \E r \in DOMAIN new : IsOpen(new[r]) /\ new[r].b = i
    BY DEF Reached
  <2>1. i \in DOMAIN rows /\ IsHeld(rows[i])
    BY <1>1
  <2>2. i # 0
    BY <2>1 DEF Table
  <2> QED BY <1>1, <2>1, <2>2 DEF Reached
<1>11. QED
  BY <1>1, <1>2, <1>4, <1>5, <1>6, <1>7, <1>8, <1>9, <1>10 DEF Table, new, n

\* A record is appended on a held claim that no open record holds.
LEMMA AppendRecord ==
    ASSUME NEW rows, Table(rows), NEW a \in DOMAIN rows, NEW b \in DOMAIN rows,
           rows[a].kind = "claim", ~IsHeld(rows[a]), IsHeld(rows[b]), Free(rows, b),
           NEW twin \in BOOLEAN
    PROVE  LET new == Append(rows, NewRecord(rows, a, b, twin)) IN
           /\ NewRecord(rows, a, b, twin) \in Particle
           /\ Table(new) /\ Grows(rows, new) /\ Earned(rows, new)
           /\ Reached(rows, b) => Reached(new, 0)
<1> DEFINE p == NewRecord(rows, a, b, twin)
           new == Append(rows, p)
           n == Len(rows) + 1
<1>1. p \in Particle
  <2>1. rows[b] \in Particle /\ a \in Nat /\ b \in Nat
    BY DEF Table
  <2> QED BY <2>1 DEF NewRecord, Particle, Refs, Sole, Status, Reason
<1>2. p.kind = "record" /\ p.status = "INCONSISTENCY" /\ p.a = a /\ p.b = b /\ p.sup = 0
  BY DEF NewRecord
<1>3. IsOpen(p) /\ ~Standing(p) /\ ~IsActive(p) /\ ~IsHeld(p)
  BY <1>2 DEF IsOpen, Standing, IsActive, IsHeld
<1> HIDE DEF p
<1>4. /\ new \in Seq(Particle) /\ DOMAIN new = DOMAIN rows \cup {n}
      /\ n \notin DOMAIN rows
      /\ \A i \in DOMAIN rows : new[i] = rows[i]
      /\ new[n] = p
  BY <1>1, OneMoreRow DEF Table
<1> HIDE DEF new, n
<1>5. Grows(rows, new)
  BY <1>4 DEF Grows
<1>6. Named(new)
  <2> SUFFICES ASSUME NEW r \in DOMAIN new, new[r].kind = "record"
               PROVE  /\ new[r].a \in DOMAIN new /\ new[new[r].a].kind = "claim"
                      /\ ~IsHeld(new[new[r].a])
                      /\ new[r].b \in DOMAIN new /\ new[new[r].b].kind = "claim"
    BY DEF Named
  <2>1. CASE r = n
    BY <1>2, <1>4, <2>1 DEF IsHeld
  <2>2. CASE r \in DOMAIN rows
    BY <1>4, <2>2 DEF Table, Named
  <2> QED BY <2>1, <2>2, <1>4
<1>7. Holds(new)
  <2>1. \A r \in DOMAIN rows : IsOpen(new[r]) =>
          /\ IsOpen(rows[r]) /\ new[r].b = rows[r].b /\ rows[r].b \in DOMAIN rows
          /\ rows[r].b # b
    BY <1>4 DEF Table, Named, IsOpen, Free
  <2>2. new[n].b = b /\ IsHeld(new[b])
    BY <1>2, <1>4
  <2>3. \A r \in DOMAIN new : IsOpen(new[r]) => IsHeld(new[new[r].b])
    BY <2>1, <2>2, <1>4 DEF Table, Holds
  <2>4. \A r, q \in DOMAIN new :
          IsOpen(new[r]) /\ IsOpen(new[q]) /\ new[r].b = new[q].b => r = q
    BY <2>1, <2>2, <1>4 DEF Table, Holds
  <2> QED BY <2>3, <2>4 DEF Holds
<1>8. Single(new)
  BY <1>3, <1>4 DEF Table, Single
<1>9. Minted(new)
  BY <1>2, <1>4 DEF Table, Minted
<1>10. Earned(rows, new)
  BY <1>3, <1>4 DEF Earned
<1>11. Reached(rows, b) => Reached(new, 0)
  <2> SUFFICES ASSUME Reached(rows, b), NEW i \in DOMAIN new, IsHeld(new[i])
               PROVE  \E r \in DOMAIN new : IsOpen(new[r]) /\ new[r].b = i
    BY DEF Reached
  <2>1. CASE i = b
    BY <2>1, <1>2, <1>3, <1>4
  <2>2. CASE i # b
    BY <2>2, <1>3, <1>4 DEF Reached
  <2> QED BY <2>1, <2>2
<1>12. QED
  BY <1>1, <1>4, <1>5, <1>6, <1>7, <1>8, <1>9, <1>10, <1>11 DEF Table, new, p

--------------------------------------------------------------------------------
(* Closing a record *)

\* Two rows rewritten in place, in either order.
LEMMA SetThenSet ==
    ASSUME NEW rows \in Seq(Particle), NEW i \in DOMAIN rows, NEW j \in DOMAIN rows, i # j,
           NEW st \in Status, NEW re \in Reason, NEW st2 \in Status, NEW re2 \in Reason
    PROVE  Set(Set(rows, i, st, re), j, st2, re2) = Set(Set(rows, j, st2, re2), i, st, re)
<1> DEFINE one == Set(rows, i, st, re)
           two == Set(rows, j, st2, re2)
           left == Set(one, j, st2, re2)
           right == Set(two, i, st, re)
<1>1. /\ one \in Seq(Particle) /\ DOMAIN one = DOMAIN rows
      /\ \A k \in DOMAIN rows : k # i => one[k] = rows[k]
      /\ one[i] = Marked(rows[i], st, re)
  BY SetRow
<1>2. /\ two \in Seq(Particle) /\ DOMAIN two = DOMAIN rows
      /\ \A k \in DOMAIN rows : k # j => two[k] = rows[k]
      /\ two[j] = Marked(rows[j], st2, re2)
  BY SetRow
<1> HIDE DEF one, two
<1>3. /\ left \in Seq(Particle) /\ DOMAIN left = DOMAIN one
      /\ \A k \in DOMAIN one : k # j => left[k] = one[k]
      /\ left[j] = Marked(one[j], st2, re2)
  BY <1>1, SetRow
<1>4. /\ right \in Seq(Particle) /\ DOMAIN right = DOMAIN two
      /\ \A k \in DOMAIN two : k # i => right[k] = two[k]
      /\ right[i] = Marked(two[i], st, re)
  BY <1>2, SetRow
<1> HIDE DEF left, right
<1>5. left \in Seq(Particle) /\ right \in Seq(Particle) /\ DOMAIN left = DOMAIN right
  BY <1>1, <1>2, <1>3, <1>4
<1>6. \A k \in DOMAIN left : left[k] = right[k]
  BY <1>1, <1>2, <1>3, <1>4
<1>7. left = right
  BY <1>5, <1>6, SameRows
<1> QED
  BY <1>7 DEF left, right, one, two

Closed(rows, r) == Set(rows, r, "RETRACTED", "CONFLICT_RESOLVED")

\* An open record is closed: its claim B is left held, with no open record.
LEMMA Close ==
    ASSUME NEW rows, Table(rows), NEW r \in DOMAIN rows, IsOpen(rows[r])
    PROVE  LET new == Closed(rows, r)
               b == rows[r].b
           IN
           /\ Table(new) /\ Grows(rows, new) /\ Earned(rows, new)
           /\ DOMAIN new = DOMAIN rows /\ \A j \in DOMAIN rows : j # r => new[j] = rows[j]
           /\ b \in DOMAIN rows /\ b # r
           /\ new[b] = rows[b] /\ IsHeld(new[b]) /\ Free(new, b)
           /\ Reached(rows, 0) => Reached(new, b)
<1> DEFINE new == Closed(rows, r)
           b == rows[r].b
<1>1. rows \in Seq(Particle) /\ "RETRACTED" \in Status /\ "CONFLICT_RESOLVED" \in Reason
  BY DEF Table, Status, Reason
<1>2. /\ new \in Seq(Particle) /\ DOMAIN new = DOMAIN rows
      /\ \A j \in DOMAIN rows : j # r => new[j] = rows[j]
      /\ new[r] = Marked(rows[r], "RETRACTED", "CONFLICT_RESOLVED")
  BY <1>1, SetRow DEF Closed
<1>3. /\ new[r].kind = rows[r].kind /\ new[r].text = rows[r].text
      /\ new[r].sup = rows[r].sup /\ new[r].a = rows[r].a /\ new[r].b = rows[r].b
      /\ new[r].status = "RETRACTED"
  <2> HIDE DEF new
  <2>1. rows[r] \in Particle
    BY <1>1
  <2> QED BY <1>2, <2>1 DEF Marked, Particle
<1> HIDE DEF new
<1>4. rows[r].kind = "record" /\ rows[r].status = "INCONSISTENCY"
  BY DEF IsOpen
<1>5. Grows(rows, new)
  <2> SUFFICES ASSUME NEW j \in DOMAIN rows
               PROVE  /\ j \in DOMAIN new
                      /\ new[j].kind = rows[j].kind /\ new[j].text = rows[j].text
                      /\ new[j].sup = rows[j].sup /\ new[j].a = rows[j].a /\ new[j].b = rows[j].b
                      /\ Terminal(rows[j]) => new[j].status = rows[j].status
                      /\ IsActive(new[j]) => IsActive(rows[j])
                      /\ IsHeld(new[j]) => IsHeld(rows[j])
                      /\ IsOpen(new[j]) => IsOpen(rows[j])
    BY DEF Grows
  <2>1. CASE j = r
    BY <1>2, <1>3, <1>4, <2>1 DEF IsActive, IsHeld, IsOpen, Terminal
  <2>2. CASE j # r
    BY <1>2, <2>2
  <2> QED BY <2>1, <2>2
<1>6. \A q \in DOMAIN rows : IsOpen(new[q]) <=> IsOpen(rows[q]) /\ q # r
  BY <1>2, <1>3 DEF IsOpen
<1>7. \A q \in DOMAIN rows : IsHeld(rows[q]) => q # r /\ new[q] = rows[q]
  BY <1>2, <1>4 DEF IsHeld
<1>8. /\ b \in DOMAIN rows /\ IsHeld(rows[b])
  BY <1>4 DEF Table, Named, Holds
<1>9. Kept(rows, new)
  <2>1. ASSUME NEW q \in DOMAIN rows, IsOpen(new[q]) PROVE IsHeld(new[rows[q].b])
    <3>1. IsHeld(rows[rows[q].b]) /\ rows[q].b \in DOMAIN rows
      BY <2>1, <1>6 DEF Table, Holds, Named, IsOpen
    <3> QED BY <3>1, <1>7
  <2> QED BY <2>1, <1>2, <1>5 DEF Kept
<1>10. Table(new)
  BY <1>9, KeptTable
<1>11. Earned(rows, new)
  BY <1>2, <1>3, <1>4 DEF Earned, IsActive
<1>12. Free(new, b)
  BY <1>2, <1>5, <1>6 DEF Free, Table, Holds, Grows
<1>13. ASSUME Reached(rows, 0) PROVE Reached(new, b)
  <2> SUFFICES ASSUME NEW i \in DOMAIN new, IsHeld(new[i]), i # b
               PROVE  \E q \in DOMAIN new : IsOpen(new[q]) /\ new[q].b = i
    BY DEF Reached
  <2>1. i \in DOMAIN rows /\ IsHeld(rows[i]) /\ i # 0
    BY <1>1, <1>2, <1>5 DEF Grows
  <2>2. PICK q \in DOMAIN rows : IsOpen(rows[q]) /\ rows[q].b = i
    BY <2>1, <1>13 DEF Reached
  <2> QED BY <2>2, <1>2, <1>5, <1>6 DEF Grows
<1>14. QED
  BY <1>2, <1>5, <1>7, <1>8, <1>10, <1>11, <1>12, <1>13 DEF new

\* What a write under an open record leads to.
Sound(rows, new) ==
    /\ Table(new) /\ Grows(rows, new) /\ Earned(rows, new)
    /\ Reached(rows, 0) => Reached(new, 0)

\* Sound writes compose.
LEMMA SoundTrans ==
    ASSUME NEW rows, NEW mid, NEW new, Sound(rows, mid), Sound(mid, new)
    PROVE  Sound(rows, new)
BY GrowsTrans DEF Sound

\* A record is closed and its held claim leaves the quarantine without a successor.
LEMMA CloseSettled ==
    ASSUME NEW rows, Table(rows), NEW r \in DOMAIN rows, IsOpen(rows[r]),
           NEW st \in {"PROVENANCE_STALE", "RETRACTED", "SUPERSEDED"}
    PROVE  LET b == rows[r].b
               new == Set(Closed(rows, r), b, st, "CONFLICT_RESOLVED")
           IN
           /\ Closed(Set(rows, b, st, "CONFLICT_RESOLVED"), r) = new
           /\ Sound(rows, new) /\ DOMAIN new = DOMAIN rows /\ new[b].status = st
           /\ \A i \in DOMAIN rows \ {b, r} : new[i] = rows[i]
<1> DEFINE b == rows[r].b
           closed == Closed(rows, r)
           new == Set(closed, b, st, "CONFLICT_RESOLVED")
<1>1. /\ Table(closed) /\ Grows(rows, closed) /\ Earned(rows, closed)
      /\ DOMAIN closed = DOMAIN rows /\ \A j \in DOMAIN rows : j # r => closed[j] = rows[j]
      /\ b \in DOMAIN rows /\ b # r
      /\ IsHeld(closed[b]) /\ Free(closed, b)
      /\ Reached(rows, 0) => Reached(closed, b)
  BY Close
<1>2. Closed(Set(rows, b, st, "CONFLICT_RESOLVED"), r) = new
  BY <1>1, SetThenSet DEF Closed, Table, Status, Reason
<1> HIDE DEF closed
<1>3. closed[b].kind = "claim" /\ ~Terminal(closed[b]) /\ "CONFLICT_RESOLVED" \in Reason
  BY <1>1 DEF IsHeld, Terminal, Reason
<1>4. /\ Table(new) /\ Grows(closed, new) /\ Earned(closed, new)
      /\ Reached(closed, b) => Reached(new, 0)
  BY <1>1, <1>3, Retire
<1>5. /\ DOMAIN new = DOMAIN closed
      /\ \A i \in DOMAIN closed : i # b => new[i] = closed[i]
      /\ new[b].status = st
  <2>1. closed \in Seq(Particle) /\ closed[b] \in Particle /\ b \in DOMAIN closed
    BY <1>1 DEF Table
  <2>2. st \in Status /\ "CONFLICT_RESOLVED" \in Reason
    BY DEF Status, Reason
  <2>3. /\ DOMAIN new = DOMAIN closed
        /\ \A i \in DOMAIN closed : i # b => new[i] = closed[i]
        /\ new[b] = Marked(closed[b], st, "CONFLICT_RESOLVED")
    BY <2>1, <2>2, SetRow
  <2> HIDE DEF new
  <2> QED BY <2>1, <2>3 DEF Marked, Particle
<1> HIDE DEF new
<1>6. Sound(rows, new)
  BY <1>1, <1>4, GrowsTrans DEF Sound
<1> QED
  BY <1>1, <1>2, <1>6, <1>5 DEF closed, new

Successor(rows, b) == NewClaim(rows[b].text, rows[b].src, "ACTIVE", "NONE", b)

\* A record is closed and its held claim promoted: superseded by a minted row.
LEMMA ClosePromoted ==
    ASSUME NEW rows, Table(rows), NEW r \in DOMAIN rows, IsOpen(rows[r])
    PROVE  LET b == rows[r].b
               new == Append(Set(Closed(rows, r), b, "SUPERSEDED", "CONFLICT_RESOLVED"),
                             Successor(rows, b))
           IN
           /\ Closed(PromoteOrHold(rows, b, 0), r) = new
           /\ PromoteOrHold(Closed(rows, r), b, 0) = new
           /\ Sound(rows, new)
<1> DEFINE b == rows[r].b
           mid == Set(Closed(rows, r), b, "SUPERSEDED", "CONFLICT_RESOLVED")
           p == Successor(rows, b)
           new == Append(mid, p)
<1>1. /\ Closed(Set(rows, b, "SUPERSEDED", "CONFLICT_RESOLVED"), r) = mid
      /\ Sound(rows, mid) /\ DOMAIN mid = DOMAIN rows /\ mid[b].status = "SUPERSEDED"
  BY CloseSettled
<1>2. b \in DOMAIN rows /\ b # r /\ IsHeld(rows[b]) /\ Closed(rows, r)[b] = rows[b]
  BY Close
<1>3. /\ p \in Particle /\ p.kind = "claim" /\ p.text = rows[b].text /\ p.sup = b
      /\ b # 0 /\ ~IsHeld(p)
  <2>1. rows[b] \in Particle /\ b \in Nat \ {0}
    BY <1>2 DEF Table
  <2> QED BY <2>1 DEF Successor, NewClaim, Particle, Status, Reason, IsHeld
<1>4. Closed(PromoteOrHold(rows, b, 0), r) = new
  <2> DEFINE set == Set(rows, b, "SUPERSEDED", "CONFLICT_RESOLVED")
  <2>1. PromoteOrHold(rows, b, 0) = Append(set, p)
    BY DEF PromoteOrHold, Successor
  <2>2. set \in Seq(Particle) /\ r \in DOMAIN set
    BY <1>2, SetRow DEF Table, Status, Reason
  <2>3. Closed(set, r) = mid
    BY <1>1
  <2> HIDE DEF set, p, mid
  <2>4. Closed(Append(set, p), r) = Append(Closed(set, r), p)
    BY <2>2, <1>3, SetThenAppend DEF Closed, Status, Reason
  <2> QED BY <2>1, <2>3, <2>4
<1>5. PromoteOrHold(Closed(rows, r), b, 0) = new
  BY <1>2 DEF PromoteOrHold, Successor
<1> HIDE DEF mid, p
<1>6. Table(mid) /\ Grows(rows, mid)
  BY <1>1 DEF Sound
<1>7. \A j \in DOMAIN mid : Standing(mid[j]) => mid[j].text # p.text
  <2> SUFFICES ASSUME NEW j \in DOMAIN mid, Standing(mid[j]), mid[j].text = p.text
               PROVE  FALSE
    OBVIOUS
  <2>1. j \in DOMAIN rows /\ Standing(rows[j]) /\ rows[j].text = rows[b].text
    BY <1>1, <1>3, <1>6 DEF Grows, Standing
  <2>2. j = b
    BY <2>1, <1>2 DEF Table, Single, Standing
  <2> QED BY <2>2, <1>1 DEF Standing, IsActive, IsHeld
<1>8. \A j \in DOMAIN mid : mid[j].sup # p.sup
  <2>1. Standing(rows[b])
    BY <1>2 DEF Standing
  <2> QED BY <2>1, <1>1, <1>3, <1>6 DEF Grows, Table, Minted
<1>9. /\ Table(new) /\ Grows(mid, new)
      /\ (IsActive(p) => p.sup # 0) => Earned(mid, new)
      /\ ~IsHeld(p) => \A e : Reached(mid, e) => Reached(new, e)
  <2>1. b \in DOMAIN mid /\ ~Standing(mid[b])
    BY <1>1, <1>2 DEF Standing, IsActive, IsHeld
  <2> QED BY <2>1, <1>3, <1>6, <1>7, <1>8, AppendClaim
<1> HIDE DEF new
<1>10. Sound(mid, new)
  BY <1>3, <1>9 DEF Sound
<1>11. Sound(rows, new)
  BY <1>1, <1>10, SoundTrans
<1> QED
  BY <1>4, <1>5, <1>11 DEF new, mid, p

\* A record is closed and its claim held again behind the claim a search found.
LEMMA CloseHeld ==
    ASSUME NEW rows, Table(rows), NEW r \in DOMAIN rows, IsOpen(rows[r]),
           NEW f \in DOMAIN rows, rows[f].kind = "claim", ~IsHeld(rows[f]), f # 0
    PROVE  LET b == rows[r].b
               new == Append(Closed(rows, r), NewRecord(rows, f, b, FALSE))
           IN
           /\ Closed(PromoteOrHold(rows, b, f), r) = new
           /\ Sound(rows, new)
<1> DEFINE b == rows[r].b
           mid == Closed(rows, r)
           p == NewRecord(rows, f, b, FALSE)
           new == Append(mid, p)
<1>1. /\ Table(mid) /\ Grows(rows, mid) /\ Earned(rows, mid)
      /\ DOMAIN mid = DOMAIN rows /\ \A j \in DOMAIN rows : j # r => mid[j] = rows[j]
      /\ b \in DOMAIN rows /\ b # r
      /\ mid[b] = rows[b] /\ IsHeld(mid[b]) /\ Free(mid, b)
      /\ Reached(rows, 0) => Reached(mid, b)
  BY Close
<1>2. mid[f] = rows[f]
  BY <1>1 DEF IsOpen
<1>3. p = NewRecord(mid, f, b, FALSE)
  BY <1>1 DEF NewRecord
<1> HIDE DEF mid
<1>4. /\ NewRecord(mid, f, b, FALSE) \in Particle
      /\ Table(new) /\ Grows(mid, new) /\ Earned(mid, new)
      /\ Reached(mid, b) => Reached(new, 0)
  <2> HIDE DEF p
  <2> QED BY <1>1, <1>2, <1>3, AppendRecord
<1>5. Closed(PromoteOrHold(rows, b, f), r) = new
  <2>1. PromoteOrHold(rows, b, f) = Append(rows, p)
    BY DEF PromoteOrHold
  <2>2. p \in Particle
    BY <1>3, <1>4
  <2> HIDE DEF p
  <2> QED BY <2>1, <2>2, SetThenAppend DEF Closed, Status, Reason, mid, Table
<1> HIDE DEF new, p
<1>6. Sound(rows, new)
  BY <1>1, <1>4, GrowsTrans DEF Sound
<1> QED
  BY <1>5, <1>6 DEF new, mid, p

\* A claim observed from one more source.
LEMMA Observed ==
    ASSUME NEW rows, Table(rows), NEW i \in DOMAIN rows, NEW refs \in Refs
    PROVE  LET new == Observe(rows, i, refs) IN
           /\ Sound(rows, new) /\ DOMAIN new = DOMAIN rows
           /\ \A j \in DOMAIN rows : j # i => new[j] = rows[j]
           /\ \A e : Reached(rows, e) => Reached(new, e)
           /\ \A e : Free(rows, e) => Free(new, e)
<1> DEFINE p == [rows[i] EXCEPT !.src.all = @ \cup refs.all]
           new == [rows EXCEPT ![i] = p]
<1>1. rows[i] \in Particle /\ rows \in Seq(Particle)
  BY DEF Table
<1>2. /\ p \in Particle
      /\ p.kind = rows[i].kind /\ p.text = rows[i].text /\ p.status = rows[i].status
      /\ p.reason = rows[i].reason /\ p.sup = rows[i].sup /\ p.a = rows[i].a /\ p.b = rows[i].b
  BY <1>1 DEF Particle, Refs
<1>3. Observe(rows, i, refs) = new
  BY <1>1 DEF Observe, Particle, Refs
<1> HIDE DEF p
<1>4. /\ new \in Seq(Particle) /\ DOMAIN new = DOMAIN rows
      /\ new[i] = p
      /\ \A j \in DOMAIN rows : j # i => new[j] = rows[j]
  BY <1>1, <1>2
<1> HIDE DEF new
<1>5. \A j \in DOMAIN rows :
        /\ new[j].kind = rows[j].kind /\ new[j].text = rows[j].text
        /\ new[j].status = rows[j].status /\ new[j].reason = rows[j].reason
        /\ new[j].sup = rows[j].sup /\ new[j].a = rows[j].a /\ new[j].b = rows[j].b
  BY <1>2, <1>4
<1>6. \A j \in DOMAIN rows :
        /\ IsActive(new[j]) <=> IsActive(rows[j])
        /\ IsHeld(new[j]) <=> IsHeld(rows[j])
        /\ IsOpen(new[j]) <=> IsOpen(rows[j])
  BY <1>5 DEF IsActive, IsHeld, IsOpen
<1>7. Grows(rows, new)
  BY <1>4, <1>5, <1>6 DEF Grows
<1>8. Kept(rows, new)
  <2>1. ASSUME NEW q \in DOMAIN rows, IsOpen(new[q]) PROVE IsHeld(new[rows[q].b])
    BY <2>1, <1>6 DEF Table, Holds, Named, IsOpen
  <2> QED BY <2>1, <1>4, <1>7 DEF Kept
<1>9. Table(new)
  BY <1>8, KeptTable
<1>10. Earned(rows, new)
  BY <1>4, <1>6 DEF Earned
<1>11. \A e : Reached(rows, e) => Reached(new, e)
  BY <1>4, <1>5, <1>6 DEF Reached
<1>12. \A e : Free(rows, e) => Free(new, e)
  BY <1>4, <1>5, <1>6 DEF Free
<1> QED
  BY <1>3, <1>4, <1>7, <1>9, <1>10, <1>11, <1>12 DEF Sound

--------------------------------------------------------------------------------
(* The searches *)

\* The first of some positions is the least of them.
LEMMA FirstLeast ==
    ASSUME NEW S, S \subseteq Nat \ {0}, S # {}
    PROVE  First(S) \in S /\ \A j \in S : First(S) <= j
<1> DEFINE Less == {x \in Nat \X Nat : x[1] < x[2]}
<1>1. IsWellFoundedOn(Less, Nat)
  BY NatLessThanWellFounded, Zenon DEF OpToRel
<1>2. \E i \in S : \A j \in S : i <= j
  <2> HIDE DEF Less
  <2>1. PICK m \in S : \A k \in S : ~(<<k, m>> \in Less)
    BY <1>1, WFMin
  <2>2. ASSUME NEW k \in S PROVE m <= k
    <3>1. k \in Nat /\ m \in Nat
      OBVIOUS
    <3>2. ~(k < m)
      BY <2>1, <3>1, Zenon DEF Less
    <3> QED BY <3>1, <3>2
  <2> QED BY <2>2
<1> QED
  BY <1>2 DEF First

\* So the first of some positions is one of them, and 0 where there is none.
LEMMA FirstIn ==
    ASSUME NEW S, S \subseteq Nat \ {0}
    PROVE  (S = {} => First(S) = 0) /\ (S # {} => First(S) \in S /\ First(S) # 0)
<1>1. S # {} => First(S) \in S
  BY FirstLeast
<1> QED
  BY <1>1 DEF First

\* The rungs: a twin of 0 says that no such claim is stored.
LEMMA Twins ==
    ASSUME NEW rows \in Seq(Particle), NEW t
    PROVE  /\ ActiveTwin(rows, t) # 0 =>
                ActiveTwin(rows, t) \in DOMAIN rows /\ IsActive(rows[ActiveTwin(rows, t)])
           /\ ActiveTwin(rows, t) = 0 =>
                \A i \in DOMAIN rows : rows[i].text = t => ~IsActive(rows[i])
           /\ HeldTwin(rows, t) # 0 =>
                HeldTwin(rows, t) \in DOMAIN rows /\ IsHeld(rows[HeldTwin(rows, t)])
           /\ HeldTwin(rows, t) = 0 =>
                \A i \in DOMAIN rows : rows[i].text = t => ~IsHeld(rows[i])
           /\ JudgedTwin(rows, t) # 0 =>
                /\ JudgedTwin(rows, t) \in DOMAIN rows /\ IsJudged(rows[JudgedTwin(rows, t)])
                /\ rows[JudgedTwin(rows, t)].kind = "claim"
<1> DEFINE A == {i \in Restated(rows, t) : IsActive(rows[i])}
           H == {i \in Restated(rows, t) : IsHeld(rows[i])}
           J == {i \in Restated(rows, t) : IsJudged(rows[i])}
<1>1. DOMAIN rows \subseteq Nat \ {0}
  OBVIOUS
<1>2. Restated(rows, t) \subseteq DOMAIN rows
  BY DEF Restated
<1>3. /\ (A = {} => First(A) = 0) /\ (A # {} => First(A) \in A /\ First(A) # 0)
  <2>1. A \subseteq Nat \ {0}
    BY <1>1, <1>2
  <2> HIDE DEF A
  <2> QED BY <2>1, FirstIn
<1>4. /\ (H = {} => First(H) = 0) /\ (H # {} => First(H) \in H /\ First(H) # 0)
  <2>1. H \subseteq Nat \ {0}
    BY <1>1, <1>2
  <2> HIDE DEF H
  <2> QED BY <2>1, FirstIn
<1>5. /\ (J = {} => First(J) = 0) /\ (J # {} => First(J) \in J /\ First(J) # 0)
  <2>1. J \subseteq Nat \ {0}
    BY <1>1, <1>2
  <2> HIDE DEF J
  <2> QED BY <2>1, FirstIn
<1>6. ActiveTwin(rows, t) = First(A) /\ HeldTwin(rows, t) = First(H) /\ JudgedTwin(rows, t) = First(J)
  BY DEF ActiveTwin, HeldTwin, JudgedTwin
<1>7. \A i \in DOMAIN rows : rows[i].text = t /\ IsActive(rows[i]) => i \in A
  BY DEF Restated, IsActive
<1>8. \A i \in DOMAIN rows : rows[i].text = t /\ IsHeld(rows[i]) => i \in H
  BY DEF Restated, IsHeld
<1>9. \A i \in A : i \in DOMAIN rows /\ IsActive(rows[i])
  BY <1>2
<1>10. \A i \in H : i \in DOMAIN rows /\ IsHeld(rows[i])
  BY <1>2
<1>11. \A i \in J : i \in DOMAIN rows /\ IsJudged(rows[i]) /\ rows[i].kind = "claim"
  BY DEF Restated
<1> HIDE DEF A, H, J
<1> QED
  BY <1>3, <1>4, <1>5, <1>6, <1>7, <1>8, <1>9, <1>10, <1>11

\* A search finds nothing, or an ACTIVE claim near the text.
LEMMA NearestIn ==
    ASSUME NEW rows \in Seq(Particle), NEW t, NEW ids
    PROVE  \/ Nearest(rows, t, ids) = 0
           \/ /\ Nearest(rows, t, ids) \in Near(rows, t, ids)
              /\ Nearest(rows, t, ids) \in DOMAIN rows /\ Nearest(rows, t, ids) # 0
              /\ IsActive(rows[Nearest(rows, t, ids)])
              /\ Nearest(rows, t, ids) \in ids
<1> DEFINE near == Near(rows, t, ids)
           best == {i \in near : \A j \in near : Sim[t][rows[j].text] <= Sim[t][rows[i].text]}
<1>1. DOMAIN rows \subseteq Nat \ {0}
  OBVIOUS
<1>2. \A i \in near : i \in DOMAIN rows /\ IsActive(rows[i]) /\ i \in ids
  BY DEF Near
<1>3. best \subseteq near
  OBVIOUS
<1>4. Nearest(rows, t, ids) = First(best)
  BY DEF Nearest
<1> HIDE DEF best
<1>5. (best = {} => First(best) = 0) /\ (best # {} => First(best) \in best /\ First(best) # 0)
  BY <1>1, <1>2, <1>3, FirstIn
<1> QED
  BY <1>2, <1>3, <1>4, <1>5

\* What a search for a held claim finds may hold it again.
LEMMA HeldSearchFinds ==
    ASSUME NEW rows \in Seq(Particle), NEW r
    PROVE  Found(rows, HeldSearch(rows, r)) /\ HeldSearch(rows, r) \in {0} \cup DOMAIN rows
<1> DEFINE ids == Id \ {rows[r].a, rows[r].b, r, ActiveTwin(rows, rows[rows[r].b].text)}
           f == Nearest(rows, rows[rows[r].b].text, ids)
<1>1. HeldSearch(rows, r) = f
  BY DEF HeldSearch
<1>2. f = 0 \/ (f \in DOMAIN rows /\ IsActive(rows[f]))
  <2> HIDE DEF ids
  <2> QED BY NearestIn
<1> HIDE DEF f
<1> QED
  BY <1>1, <1>2 DEF Found, IsActive, IsHeld

--------------------------------------------------------------------------------
(* Resolutions *)

\* A table is a sound rewrite of itself.
LEMMA SoundSelf ==
    ASSUME NEW rows, Table(rows)
    PROVE  Sound(rows, rows)
BY GrowsSelf DEF Sound

\* A claim that is not held is held by no open record.
LEMMA NotHeldFree ==
    ASSUME NEW rows, Table(rows), NEW i, ~IsHeld(rows[i])
    PROVE  Free(rows, i)
BY DEF Table, Holds, Free

\* A claim that is not held leaves the read surface.
LEMMA RetireSound ==
    ASSUME NEW rows, Table(rows), NEW i \in DOMAIN rows, rows[i].kind = "claim",
           ~IsHeld(rows[i]), ~Terminal(rows[i]),
           NEW st \in {"PROVENANCE_STALE", "RETRACTED"},
           NEW re \in Reason, re # "CONFLICT_PENDING"
    PROVE  LET new == Set(rows, i, st, re) IN
           /\ Sound(rows, new) /\ DOMAIN new = DOMAIN rows
           /\ \A j \in DOMAIN rows : j # i => new[j] = rows[j]
<1> DEFINE new == Set(rows, i, st, re)
<1>1. Free(rows, i)
  BY NotHeldFree
<1>2. /\ Table(new) /\ Grows(rows, new) /\ Earned(rows, new)
      /\ Reached(rows, 0) => Reached(new, 0)
  BY <1>1, Retire
<1>3. DOMAIN new = DOMAIN rows /\ \A j \in DOMAIN rows : j # i => new[j] = rows[j]
  <2>1. rows \in Seq(Particle) /\ st \in Status
    BY DEF Table, Status
  <2> QED BY <2>1, SetRow
<1> QED
  BY <1>2, <1>3 DEF Sound

\* Claim A of an open record is demoted, on a reading that is current for an
\* ACTIVE claim.
LEMMA DemoteFirst ==
    ASSUME NEW rows, Table(rows), NEW i \in DOMAIN rows, rows[i].kind = "claim",
           ~IsHeld(rows[i]), NEW p, ~IsHeld(p), p.status = "ACTIVE" => rows[i].status = "ACTIVE"
    PROVE  LET new == Demote(rows, i, p) IN
           /\ Sound(rows, new) /\ DOMAIN new = DOMAIN rows
           /\ \A j \in DOMAIN rows : j # i => new[j] = rows[j]
<1>1. CASE p.status = "ACTIVE"
  <2>1. Demote(rows, i, p) = Set(rows, i, "PROVENANCE_STALE", "CONFLICT_RESOLVED")
    BY <1>1 DEF Demote
  <2>2. ~Terminal(rows[i]) /\ "CONFLICT_RESOLVED" \in Reason
    BY <1>1 DEF Terminal, Reason
  <2> QED BY <2>1, <2>2, RetireSound
<1>2. CASE p.status # "ACTIVE"
  <2>1. Demote(rows, i, p) = rows
    BY <1>2 DEF Demote
  <2> QED BY <2>1, SoundSelf
<1> QED
  BY <1>1, <1>2

\* A held claim B is demoted: its hold is marked resolved.
LEMMA DemoteHeld ==
    ASSUME NEW rows \in Seq(Particle), NEW i \in DOMAIN rows, IsHeld(rows[i]),
           NEW p, IsHeld(p)
    PROVE  Demote(rows, i, p) = Set(rows, i, "PROVENANCE_STALE", "CONFLICT_RESOLVED")
<1>1. Demote(rows, i, p) = [rows EXCEPT ![i].reason = "CONFLICT_RESOLVED"]
  BY DEF Demote, IsHeld
<1>2. rows[i] \in Particle /\ rows[i].status = "PROVENANCE_STALE"
  BY DEF IsHeld
<1>3. [rows[i] EXCEPT !.reason = "CONFLICT_RESOLVED"]
        = [rows[i] EXCEPT !.status = "PROVENANCE_STALE", !.reason = "CONFLICT_RESOLVED"]
  BY <1>2 DEF Particle
<1>4. Set(rows, i, "PROVENANCE_STALE", "CONFLICT_RESOLVED")
        = [rows EXCEPT ![i] = Marked(rows[i], "PROVENANCE_STALE", "CONFLICT_RESOLVED")]
  BY <1>2 DEF Set, Marked, Particle
<1>5. [rows EXCEPT ![i].reason = "CONFLICT_RESOLVED"]
        = [rows EXCEPT ![i] = [rows[i] EXCEPT !.reason = "CONFLICT_RESOLVED"]]
  OBVIOUS
<1> QED
  BY <1>1, <1>3, <1>4, <1>5 DEF Marked

\* A record is closed by promoting its claim, or by holding it again.
LEMMA CloseMoved ==
    ASSUME NEW rows, Table(rows), NEW r \in DOMAIN rows, IsOpen(rows[r]),
           NEW f, Found(rows, f)
    PROVE  Sound(rows, Closed(PromoteOrHold(rows, rows[r].b, f), r))
<1>1. CASE f = 0
  BY <1>1, ClosePromoted
<1>2. CASE f # 0
  <2>1. f \in DOMAIN rows /\ rows[f].kind = "claim" /\ ~IsHeld(rows[f])
    BY <1>2 DEF Found
  <2> QED BY <1>2, <2>1, CloseHeld
<1> QED
  BY <1>1, <1>2

\* What an open record names.
LEMMA OpenNames ==
    ASSUME NEW rows, Table(rows), NEW r \in DOMAIN rows, IsOpen(rows[r])
    PROVE  /\ rows[r].a \in DOMAIN rows /\ rows[rows[r].a].kind = "claim"
           /\ ~IsHeld(rows[rows[r].a])
           /\ rows[r].b \in DOMAIN rows /\ IsHeld(rows[rows[r].b])
           /\ rows[r].a # r /\ rows[r].b # r /\ rows[r].a # rows[r].b
<1>1. rows[r].kind = "record"
  BY DEF IsOpen
<1>2. /\ rows[r].a \in DOMAIN rows /\ rows[rows[r].a].kind = "claim"
      /\ ~IsHeld(rows[rows[r].a])
      /\ rows[r].b \in DOMAIN rows /\ IsHeld(rows[rows[r].b])
  BY <1>1 DEF Table, Named, Holds
<1> QED
  BY <1>1, <1>2 DEF IsHeld

\* What a search found stays something to hold a claim behind.
LEMMA FoundStays ==
    ASSUME NEW rows, NEW new, Grows(rows, new), NEW f, Found(rows, f)
    PROVE  Found(new, f)
BY DEF Grows, Found

\* One step of the trust cascade.
LEMMA CascadedSound ==
    ASSUME NEW rows, Table(rows), NEW x \in DOMAIN rows, NEW winner \in {"A", "B"},
           Cascadable(rows, x, winner)
    PROVE  Sound(rows, Cascaded(rows, x, winner))
<1> DEFINE a == rows[x].a
           b == rows[x].b
           demoted == Demote(rows, a, rows[a])
           f == HeldSearch(demoted, x)
<1>1. IsOpen(rows[x])
  BY DEF Cascadable
<1>2. /\ a \in DOMAIN rows /\ rows[a].kind = "claim" /\ ~IsHeld(rows[a])
      /\ b \in DOMAIN rows /\ IsHeld(rows[b]) /\ a # x /\ b # x /\ a # b
  BY <1>1, OpenNames
<1>3. CASE winner = "A"
  <2>1. Cascaded(rows, x, winner) = Closed(Demote(rows, b, rows[b]), x)
    BY <1>3 DEF Cascaded, Closed
  <2>2. Demote(rows, b, rows[b]) = Set(rows, b, "PROVENANCE_STALE", "CONFLICT_RESOLVED")
    BY <1>2, DemoteHeld DEF Table
  <2>3. LET new == Set(Closed(rows, x), b, "PROVENANCE_STALE", "CONFLICT_RESOLVED") IN
        /\ Closed(Set(rows, b, "PROVENANCE_STALE", "CONFLICT_RESOLVED"), x) = new
        /\ Sound(rows, new)
    BY <1>1, CloseSettled
  <2> QED BY <2>1, <2>2, <2>3
<1>4. CASE winner = "B"
  <2>1. Cascaded(rows, x, winner) = Closed(PromoteOrHold(demoted, b, f), x)
    BY <1>2, <1>4 DEF Cascaded, Closed
  <2>2. /\ Sound(rows, demoted) /\ DOMAIN demoted = DOMAIN rows
        /\ \A j \in DOMAIN rows : j # a => demoted[j] = rows[j]
    BY <1>2, DemoteFirst
  <2> HIDE DEF demoted
  <2>3. Table(demoted) /\ x \in DOMAIN demoted /\ IsOpen(demoted[x]) /\ demoted[x].b = b
    BY <1>1, <1>2, <2>2 DEF Sound
  <2>4. Found(demoted, f)
    BY <2>3, HeldSearchFinds DEF Table
  <2> HIDE DEF f
  <2>5. Sound(demoted, Closed(PromoteOrHold(demoted, b, f), x))
    BY <2>3, <2>4, CloseMoved
  <2> QED BY <2>1, <2>2, <2>5, SoundTrans
<1> QED
  BY <1>3, <1>4

\* A resolution the transition table permits, on claims a reviewer read earlier:
\* B was held and A was not.
LEMMA ResolutionSound ==
    ASSUME Table(row), NEW r \in DOMAIN row, NEW act \in Action,
           NEW a, ~IsHeld(a), NEW b, IsHeld(b), NEW found, Found(row, found),
           Permitted(r, act, a, b, found)
    PROVE  Sound(row, Resolution(r, act, a, b, found))
<1> DEFINE ia == row[r].a
           ib == row[r].b
           demoted == Demote(row, ia, a)
<1>1. IsOpen(row[r])
  BY DEF Permitted
<1>2. /\ ia \in DOMAIN row /\ row[ia].kind = "claim" /\ ~IsHeld(row[ia])
      /\ ib \in DOMAIN row /\ IsHeld(row[ib]) /\ ia # r /\ ib # r /\ ia # ib
  BY <1>1, OpenNames
<1>3. CASE act = "DEFER"
  <2>1. Resolution(r, act, a, b, found) = row
    BY <1>3 DEF Resolution
  <2> QED BY <2>1, SoundSelf
<1>4. CASE act = "PREFER_A"
  <2>1. Resolution(r, act, a, b, found) = Closed(Demote(row, ib, b), r)
    BY <1>4 DEF Resolution, Closed
  <2>2. Demote(row, ib, b) = Set(row, ib, "PROVENANCE_STALE", "CONFLICT_RESOLVED")
    BY <1>2, DemoteHeld DEF Table
  <2>3. LET new == Set(Closed(row, r), ib, "PROVENANCE_STALE", "CONFLICT_RESOLVED") IN
        /\ Closed(Set(row, ib, "PROVENANCE_STALE", "CONFLICT_RESOLVED"), r) = new
        /\ Sound(row, new)
    BY <1>1, CloseSettled
  <2> QED BY <2>1, <2>2, <2>3
<1>5. CASE act = "PREFER_B"
  <2>1. Resolution(r, act, a, b, found) = Closed(PromoteOrHold(demoted, ib, found), r)
    BY <1>5 DEF Resolution, Closed
  <2>2. a.status = "ACTIVE" => row[ia].status = "ACTIVE"
    BY <1>5 DEF Permitted
  <2>3. /\ Sound(row, demoted) /\ DOMAIN demoted = DOMAIN row
        /\ \A j \in DOMAIN row : j # ia => demoted[j] = row[j]
    BY <1>2, <2>2, DemoteFirst
  <2> HIDE DEF demoted
  <2>4. Table(demoted) /\ r \in DOMAIN demoted /\ IsOpen(demoted[r]) /\ demoted[r].b = ib
    BY <1>1, <1>2, <2>3 DEF Sound
  <2>5. Found(demoted, found)
    BY <2>3, FoundStays DEF Sound
  <2>6. Sound(demoted, Closed(PromoteOrHold(demoted, ib, found), r))
    BY <2>4, <2>5, CloseMoved
  <2> QED BY <2>1, <2>3, <2>6, SoundTrans
<1>6. CASE act = "BOTH_VALID"
  <2>1. Resolution(r, act, a, b, found) = Closed(PromoteOrHold(row, ib, found), r)
    BY <1>6 DEF Resolution, Closed
  <2> QED BY <2>1, <1>1, CloseMoved
<1>7. CASE act = "DISCARD"
  <2> DEFINE kept == IF row[r].twin THEN row ELSE Discard(row, ia, a)
  <2>1. Resolution(r, act, a, b, found) = Closed(Discard(kept, ib, b), r)
    BY <1>7 DEF Resolution, Closed
  <2>2. ~Terminal(b)
    BY DEF IsHeld, Terminal
  <2>3. Discard(kept, ib, b) = Set(kept, ib, "RETRACTED", "CONFLICT_RESOLVED")
    BY <2>2 DEF Discard
  <2>4. /\ Sound(row, kept) /\ DOMAIN kept = DOMAIN row
        /\ \A j \in DOMAIN row : j # ia => kept[j] = row[j]
    <3>1. CASE row[r].twin \/ Terminal(a)
      <4>1. kept = row
        BY <3>1 DEF Discard
      <4> QED BY <4>1, SoundSelf
    <3>2. CASE ~row[r].twin /\ ~Terminal(a)
      <4>1. kept = Set(row, ia, "RETRACTED", "CONFLICT_RESOLVED")
        BY <3>2 DEF Discard
      <4>2. ~Terminal(row[ia])
        BY <3>2, <1>7 DEF Permitted
      <4> QED BY <4>1, <4>2, <1>2, RetireSound DEF Reason
    <3> QED BY <3>1, <3>2
  <2> HIDE DEF kept
  <2>5. Table(kept) /\ r \in DOMAIN kept /\ IsOpen(kept[r]) /\ kept[r].b = ib
    BY <1>1, <1>2, <2>4 DEF Sound
  <2>6. LET new == Set(Closed(kept, r), ib, "RETRACTED", "CONFLICT_RESOLVED") IN
        /\ Closed(Set(kept, ib, "RETRACTED", "CONFLICT_RESOLVED"), r) = new
        /\ Sound(kept, new)
    BY <2>5, CloseSettled
  <2> QED BY <2>1, <2>3, <2>4, <2>6, SoundTrans
<1> QED
  BY <1>3, <1>4, <1>5, <1>6, <1>7 DEF Action

--------------------------------------------------------------------------------
(* Assertions and retractions *)

\* A sound write, but for what it lets in.
Safe(rows, new) ==
    /\ Table(new) /\ Grows(rows, new)
    /\ Reached(rows, 0) => Reached(new, 0)

\* Only claims of text t become ACTIVE.
Admits(rows, new, t) ==
    \A i \in DOMAIN new :
        IsActive(new[i]) /\ ~(i \in DOMAIN rows /\ IsActive(rows[i])) =>
            new[i].text = t

\* No claim becomes ACTIVE.
Quiet(rows, new) ==
    \A i \in DOMAIN new : IsActive(new[i]) => i \in DOMAIN rows /\ IsActive(rows[i])

\* Rows rewritten in place let nothing in.
LEMMA InPlaceQuiet ==
    ASSUME NEW rows, NEW new, Grows(rows, new), DOMAIN new = DOMAIN rows
    PROVE  Quiet(rows, new)
BY DEF Grows, Quiet

\* The text does not stand.
Unheard(rows, t) == \A j \in DOMAIN rows : Standing(rows[j]) => rows[j].text # t

\* An asserted claim of a text that does not stand enters; as an update it names a
\* row that no longer stands, which nothing named.
LEMMA AssertedSafe ==
    ASSUME NEW rows, Table(rows), NEW t \in Text, NEW s \in Refs, Unheard(rows, t),
           NEW sup \in Nat,
           sup # 0 => /\ sup \in DOMAIN rows /\ ~Standing(rows[sup])
                      /\ \A j \in DOMAIN rows : rows[j].sup # sup
    PROVE  LET new == Append(rows, NewClaim(t, s, "ACTIVE", "NONE", sup)) IN
           /\ Safe(rows, new) /\ Admits(rows, new, t)
           /\ DOMAIN new = DOMAIN rows \cup {Len(rows) + 1} /\ Len(new) = Len(rows) + 1
           /\ Len(rows) + 1 \notin DOMAIN rows
           /\ \A j \in DOMAIN rows : new[j] = rows[j]
           /\ IsActive(new[Len(rows) + 1])
<1> DEFINE p == NewClaim(t, s, "ACTIVE", "NONE", sup)
           new == Append(rows, p)
<1>1. /\ p \in Particle /\ p.kind = "claim" /\ p.text = t /\ p.sup = sup
      /\ IsActive(p) /\ ~IsHeld(p)
  BY DEF NewClaim, Particle, Status, Reason, IsActive, IsHeld
<1> HIDE DEF p
<1>2. /\ Table(new) /\ Grows(rows, new)
      /\ ~IsHeld(p) => \A e : Reached(rows, e) => Reached(new, e)
  BY <1>1, AppendClaim DEF Unheard
<1>3. /\ DOMAIN new = DOMAIN rows \cup {Len(rows) + 1} /\ Len(new) = Len(rows) + 1
      /\ Len(rows) + 1 \notin DOMAIN rows
      /\ \A j \in DOMAIN rows : new[j] = rows[j]
      /\ new[Len(rows) + 1] = p
  BY <1>1, OneMoreRow DEF Table
<1> HIDE DEF new
<1>4. Admits(rows, new, t)
  BY <1>1, <1>3 DEF Admits
<1>5. Safe(rows, new)
  BY <1>1, <1>2 DEF Safe
<1> QED
  BY <1>1, <1>3, <1>4, <1>5 DEF new, p

\* An asserted claim is held behind e, with its record.
LEMMA QuarantineSound ==
    ASSUME Table(row), NEW t \in Text, NEW s \in Refs, NEW e \in DOMAIN row,
           row[e].kind = "claim", ~IsHeld(row[e]), NEW twin \in BOOLEAN, Unheard(row, t)
    PROVE  Sound(row, Quarantine(t, s, e, twin)) /\ Quiet(row, Quarantine(t, s, e, twin))
<1> DEFINE p == NewClaim(t, s, "PROVENANCE_STALE", "CONFLICT_PENDING", 0)
           held == Append(row, p)
           n == Len(row) + 1
           new == Append(held, NewRecord(held, e, n, twin))
<1>1. /\ p \in Particle /\ p.kind = "claim" /\ p.text = t /\ p.sup = 0
      /\ ~IsActive(p) /\ IsHeld(p) /\ ~IsOpen(p)
  BY DEF NewClaim, Particle, Status, Reason, IsActive, IsHeld, IsOpen
<1> HIDE DEF p
<1>2. /\ Table(held) /\ Grows(row, held) /\ Earned(row, held)
      /\ Reached(row, 0) => Reached(held, n)
  BY <1>1, AppendClaim DEF Unheard
<1>3. /\ DOMAIN held = DOMAIN row \cup {n} /\ Len(held) = n /\ n \notin DOMAIN row
      /\ \A j \in DOMAIN row : held[j] = row[j]
      /\ held[n] = p
  BY <1>1, OneMoreRow DEF Table
<1>4. Quarantine(t, s, e, twin) = new
  BY <1>3 DEF Quarantine, p
<1> HIDE DEF held, n
<1>5. Free(held, n)
  BY <1>1, <1>3 DEF Free, Table, Named, IsOpen
<1>6. /\ Table(new) /\ Grows(held, new) /\ Earned(held, new)
      /\ Reached(held, n) => Reached(new, 0)
  BY <1>1, <1>2, <1>3, <1>5, AppendRecord
<1>7. Sound(row, new)
  <2> HIDE DEF new
  <2> QED BY <1>2, <1>6, GrowsTrans DEF Sound
<1>8. Quiet(row, new)
  <2> DEFINE q == NewRecord(held, e, n, twin)
  <2>1. q \in Particle /\ ~IsActive(q)
    <3>1. q \in Particle
      BY <1>1, <1>2, <1>3, <1>5, AppendRecord
    <3> QED BY <3>1 DEF NewRecord, IsActive
  <2> HIDE DEF q
  <2>2. /\ DOMAIN new = DOMAIN held \cup {Len(held) + 1}
        /\ \A j \in DOMAIN held : new[j] = held[j]
        /\ new[Len(held) + 1] = q
    BY <2>1, <1>2, OneMoreRow DEF Table, q
  <2> HIDE DEF new
  <2> QED BY <2>1, <2>2, <1>1, <1>3 DEF Quiet
<1> QED
  BY <1>4, <1>7, <1>8

\* What the verdict on the nearest ACTIVE claim writes.
LEMMA ResolvedSafe ==
    ASSUME Table(row), NEW t \in Text, NEW s \in Refs, NEW e \in DOMAIN row,
           IsActive(row[e]), Unheard(row, t), NEW verdict \in AllVerdicts \cup {"CORROBORATES"}
    PROVE  /\ Safe(row, Resolved(t, s, e, verdict))
           /\ Admits(row, Resolved(t, s, e, verdict), t)
           /\ verdict = "INCONSISTENT" => Quiet(row, Resolved(t, s, e, verdict))
<1> DEFINE n == Len(row) + 1
           new == Append(row, NewClaim(t, s, "ACTIVE", "NONE", 0))
<1>1. /\ Safe(row, new) /\ Admits(row, new, t)
      /\ DOMAIN new = DOMAIN row \cup {n} /\ Len(new) = n /\ n \notin DOMAIN row
      /\ \A j \in DOMAIN row : new[j] = row[j]
      /\ IsActive(new[n])
  BY AssertedSafe
<1>2. CASE verdict = "CORROBORATES"
  <2>1. Resolved(t, s, e, verdict) = new
    BY <1>2 DEF Resolved
  <2> QED BY <1>2, <2>1, <1>1
<1>3. ASSUME NEW i \in DOMAIN new, IsActive(new[i]), verdict # "INCONSISTENT",
             verdict \in AllVerdicts
      PROVE  LET set == Set(new, i, "PROVENANCE_STALE", Demoted[verdict]) IN
             Safe(row, set) /\ Admits(row, set, t)
  <2> DEFINE set == Set(new, i, "PROVENANCE_STALE", Demoted[verdict])
  <2>1. Demoted[verdict] \in Reason /\ Demoted[verdict] # "CONFLICT_PENDING"
    BY <1>3 DEF Demoted, AllVerdicts, Reason
  <2>2. new[i].kind = "claim" /\ ~IsHeld(new[i]) /\ ~Terminal(new[i])
    BY <1>3 DEF IsActive, IsHeld, Terminal
  <2>3. Table(new) /\ Grows(row, new) /\ (Reached(row, 0) => Reached(new, 0))
    BY <1>1 DEF Safe
  <2> HIDE DEF new
  <2>4. Sound(new, set) /\ DOMAIN set = DOMAIN new
    BY <2>1, <2>2, <2>3, <1>3, RetireSound
  <2> HIDE DEF set
  <2>5. Safe(row, set)
    BY <2>3, <2>4, GrowsTrans DEF Safe, Sound
  <2>6. Admits(row, set, t)
    BY <1>1, <2>4 DEF Admits, Sound, Grows
  <2> QED BY <2>5, <2>6 DEF set
<1>4. CASE verdict \in {"SUPERSEDES", "DOCUMENT_SUPERSEDES", "UPDATE_SUPERSEDES"}
  <2> DEFINE sup == IF verdict = "UPDATE_SUPERSEDES" THEN e ELSE 0
             mid == Set(row, e, "PROVENANCE_STALE", Demoted[verdict])
             set == Append(mid, NewClaim(t, s, "ACTIVE", "NONE", sup))
  <2>1. Resolved(t, s, e, verdict) = set
    BY <1>4 DEF Resolved
  <2>2. Demoted[verdict] \in Reason /\ Demoted[verdict] # "CONFLICT_PENDING"
    BY <1>4 DEF Demoted, AllVerdicts, Reason
  <2>3. row[e].kind = "claim" /\ ~IsHeld(row[e]) /\ ~Terminal(row[e]) /\ Standing(row[e])
    BY DEF IsActive, IsHeld, Terminal, Standing
  <2>4. Sound(row, mid) /\ DOMAIN mid = DOMAIN row
    BY <2>2, <2>3, RetireSound
  <2>5. mid[e].status = "PROVENANCE_STALE" /\ mid[e].reason # "CONFLICT_PENDING"
    <3>1. row \in Seq(Particle) /\ row[e] \in Particle /\ "PROVENANCE_STALE" \in Status
      BY DEF Table, Status
    <3>2. mid[e] = Marked(row[e], "PROVENANCE_STALE", Demoted[verdict])
      BY <3>1, <2>2, SetRow
    <3> QED BY <3>1, <3>2, <2>2 DEF Marked, Particle
  <2>6. e \in Nat /\ e # 0 /\ sup \in Nat
    BY DEF Table
  <2> HIDE DEF mid
  <2>7. ~Standing(mid[e])
    BY <2>5 DEF Standing, IsActive, IsHeld
  <2>8. \A j \in DOMAIN mid : mid[j].sup # e
    BY <2>3, <2>4, <2>6 DEF Table, Minted, Sound, Grows
  <2>9. Table(mid) /\ Grows(row, mid) /\ (Reached(row, 0) => Reached(mid, 0)) /\ Unheard(mid, t)
    BY <2>4 DEF Sound, Unheard, Grows, Standing
  <2>10. Safe(mid, set) /\ Admits(mid, set, t)
    BY <2>4, <2>6, <2>7, <2>8, <2>9, AssertedSafe
  <2> HIDE DEF set
  <2>11. Safe(row, set)
    BY <2>9, <2>10, GrowsTrans DEF Safe
  <2>12. Admits(row, set, t)
    BY <2>4, <2>9, <2>10 DEF Admits, Grows
  <2> QED BY <1>4, <2>1, <2>11, <2>12
<1>5. CASE verdict \in {"DOCUMENT_SUPERSEDED_BY_EXISTING", "UPDATE_SUPERSEDED_BY_EXISTING"}
  <2>1. Resolved(t, s, e, verdict) = Set(new, n, "PROVENANCE_STALE", Demoted[verdict])
    BY <1>1, <1>5 DEF Resolved
  <2>2. n \in DOMAIN new /\ IsActive(new[n])
    BY <1>1
  <2>3. verdict \in AllVerdicts /\ verdict # "INCONSISTENT"
    BY <1>5 DEF AllVerdicts
  <2> HIDE DEF new, n
  <2> QED BY <2>1, <2>2, <2>3, <1>3
<1>6. CASE verdict = "SUPERSEDED_BY_EXISTING"
  <2>1. Resolved(t, s, e, verdict) = row
    BY <1>6 DEF Resolved
  <2>2. Admits(row, row, t)
    BY DEF Admits
  <2> QED BY <1>6, <2>1, <2>2, SoundSelf DEF Sound, Safe
<1>7. CASE verdict = "INCONSISTENT"
  <2>1. Resolved(t, s, e, verdict) = Quarantine(t, s, e, FALSE)
    BY <1>7 DEF Resolved
  <2>2. row[e].kind = "claim" /\ ~IsHeld(row[e])
    BY DEF IsActive, IsHeld
  <2>3. Sound(row, Quarantine(t, s, e, FALSE)) /\ Quiet(row, Quarantine(t, s, e, FALSE))
    BY <2>2, QuarantineSound
  <2> QED BY <2>1, <2>3 DEF Sound, Safe, Quiet, Admits
<1> QED
  BY <1>2, <1>4, <1>5, <1>6, <1>7 DEF AllVerdicts

\* An entry is retracted: its ACTIVE claims and its open records.
LEMMA EntryRetracted ==
    ASSUME Table(row), NEW L,
           \A i \in L : i \in DOMAIN row /\ row[i].status \in {"ACTIVE", "INCONSISTENCY"},
           NEW new, new \in [DOMAIN row -> {new[i] : i \in DOMAIN row}],
           \A i \in DOMAIN row :
              new[i] = IF i \in L THEN Marked(row[i], "RETRACTED", "SOURCE_RETRACTED")
                       ELSE row[i]
    PROVE  Table(new) /\ Grows(row, new) /\ Earned(row, new)
<1>1. row \in Seq(Particle)
  BY DEF Table
<1>2. DOMAIN new = DOMAIN row
  OBVIOUS
<1>3. \A i \in DOMAIN row : i \notin L => new[i] = row[i]
  OBVIOUS
<1>4. ASSUME NEW i \in L
      PROVE  /\ new[i] \in Particle
             /\ new[i].kind = row[i].kind /\ new[i].text = row[i].text
             /\ new[i].sup = row[i].sup /\ new[i].a = row[i].a /\ new[i].b = row[i].b
             /\ new[i].status = "RETRACTED"
             /\ row[i].status \in {"ACTIVE", "INCONSISTENCY"}
  <2>1. row[i] \in Particle /\ i \in DOMAIN row
    BY <1>1
  <2>2. new[i] = Marked(row[i], "RETRACTED", "SOURCE_RETRACTED")
    BY <2>1
  <2>3. row[i].status \in {"ACTIVE", "INCONSISTENCY"}
    OBVIOUS
  <2> QED BY <2>1, <2>2, <2>3 DEF Particle, Status, Reason, Marked
<1>5. new \in Seq(Particle)
  <2>1. Len(row) \in Nat /\ DOMAIN row = 1..Len(row)
    BY <1>1
  <2>2. \A i \in DOMAIN row : row[i] \in Particle
    BY <1>1
  <2>3. \A i \in DOMAIN row : new[i] \in Particle
    BY <1>3, <1>4, <2>2
  <2>4. new \in [DOMAIN row -> Particle]
    BY <2>3
  <2> QED BY <2>1, <2>4
<1>6. Grows(row, new)
  <2> SUFFICES ASSUME NEW j \in DOMAIN row
               PROVE  /\ j \in DOMAIN new
                      /\ new[j].kind = row[j].kind /\ new[j].text = row[j].text
                      /\ new[j].sup = row[j].sup /\ new[j].a = row[j].a /\ new[j].b = row[j].b
                      /\ Terminal(row[j]) => new[j].status = row[j].status
                      /\ IsActive(new[j]) => IsActive(row[j])
                      /\ IsHeld(new[j]) => IsHeld(row[j])
                      /\ IsOpen(new[j]) => IsOpen(row[j])
    BY DEF Grows
  <2>1. CASE j \in L
    BY <1>2, <1>4, <2>1 DEF IsActive, IsHeld, IsOpen, Terminal
  <2>2. CASE j \notin L
    BY <1>2, <1>3, <2>2
  <2> QED BY <2>1, <2>2
<1>7. \A i \in DOMAIN row : IsHeld(row[i]) => new[i] = row[i]
  BY <1>3, <1>4 DEF IsHeld
<1>8. Kept(row, new)
  <2>1. ASSUME NEW q \in DOMAIN row, IsOpen(new[q]) PROVE IsHeld(new[row[q].b])
    BY <2>1, <1>6, <1>7 DEF Table, Holds, Named, IsOpen, Grows
  <2> QED BY <2>1, <1>2, <1>5, <1>6 DEF Kept
<1>9. Table(new)
  BY <1>8, KeptTable
<1>10. Earned(row, new)
  BY <1>2, <1>6 DEF Earned, Grows
<1> QED
  BY <1>6, <1>9, <1>10

--------------------------------------------------------------------------------
(* The actions on the table *)

\* What one step may do to the table.
RowsMove ==
    /\ Table(row') /\ Grows(row, row')
    /\ MaxWithdrawn = 0 /\ Reached(row, 0) => Reached(row', 0)

\* A row that becomes ACTIVE succeeds a held claim, or its text was never judged.
Vouched(i) ==
    \/ row'[i].sup # 0 /\ \A w \in Writer : ~Ended(w)
    \/ JudgedTwin(row, row'[i].text) = 0

RowsEnter == \A i \in Id : Enters(i) => Vouched(i)

\* A sound write is a step of both kinds, if no writer makes it or nothing enters.
LEMMA SoundMoves ==
    ASSUME Sound(row, row'), (\A w \in Writer : ~Ended(w)) \/ Quiet(row, row')
    PROVE  RowsMove /\ RowsEnter
<1>1. RowsMove
  BY DEF Sound, RowsMove
<1>2. RowsEnter
  BY DEF Sound, RowsEnter, Vouched, Earned, Enters, Quiet
<1> QED
  BY <1>1, <1>2

\* A step that leaves the table alone.
LEMMA StillMoves ==
    ASSUME Table(row), row' = row
    PROVE  RowsMove /\ RowsEnter
<1>1. Sound(row, row') /\ Quiet(row, row')
  BY SoundSelf DEF Quiet
<1> QED
  BY <1>1, SoundMoves

\* A step of a process that is no writer ends no writer.
LEMMA NoWriterEnds ==
    ASSUME TypeOK, NEW p \in Reviewer \cup Releaser, pc' = [pc EXCEPT ![p] = "idle"] \/ pc' = pc
    PROVE  \A w \in Writer : ~Ended(w)
<1>1. p \notin Writer /\ Writer \subseteq Proc
  BY ReconcileAssumption DEF Proc
<1>2. \A w \in Writer : pc'[w] = pc[w]
  BY <1>1 DEF TypeOK
<1> QED
  BY <1>2 DEF Ended

\* Neither rung is settled: the text does not stand and was never judged.
LEMMA Unsettled ==
    ASSUME Table(row), NEW w \in Writer, ~SettledNow(w)
    PROVE  Unheard(row, wr[w].text) /\ JudgedTwin(row, wr[w].text) = 0
<1> DEFINE t == wr[w].text
<1>1. ActiveTwin(row, t) = 0 /\ HeldTwin(row, t) = 0 /\ JudgedTwin(row, t) = 0
  BY DEF SettledNow, RetiredTwin
<1>2. row \in Seq(Particle)
  BY DEF Table
<1>3. /\ \A i \in DOMAIN row : row[i].text = t => ~IsActive(row[i])
      /\ \A i \in DOMAIN row : row[i].text = t => ~IsHeld(row[i])
  <2> HIDE DEF t
  <2> QED BY <1>1, <1>2, Twins
<1> QED
  BY <1>1, <1>3 DEF Unheard, Standing

\* The cheap rungs: an observation, or a hold behind the judged claim.
LEMMA ApplySettledRows ==
    ASSUME TableInv, NEW w \in Writer, ApplySettled(w)
    PROVE  Sound(row, row') /\ Quiet(row, row')
<1> DEFINE t == wr[w].text
           dup == ActiveTwin(row, t)
           old == RetiredTwin(row, t)
           i == IF dup # 0 THEN dup ELSE old
           refs == Sole(wr[w].src)
<1>1. Table(row) /\ row \in Seq(Particle)
  BY DEF TableInv, Table
<1>2. wr[w] \in Gathered
  BY DEF TableInv, Processes, ApplySettled
<1>3. t \in Text /\ refs \in Refs
  BY <1>2 DEF Gathered, Refs, Sole
<1>4. /\ i # 0
      /\ row' = IF dup # 0 \/ IsHeld(row[i]) THEN Observe(row, i, refs)
                ELSE Quarantine(t, refs, i, TRUE)
  BY DEF ApplySettled, Commit
<1> HIDE DEF t, refs
<1>5. /\ dup # 0 => dup \in DOMAIN row
      /\ dup = 0 => \A j \in DOMAIN row : row[j].text = t => ~IsActive(row[j])
      /\ HeldTwin(row, t) # 0 => HeldTwin(row, t) \in DOMAIN row /\ IsHeld(row[HeldTwin(row, t)])
      /\ HeldTwin(row, t) = 0 => \A j \in DOMAIN row : row[j].text = t => ~IsHeld(row[j])
      /\ JudgedTwin(row, t) # 0 =>
           /\ JudgedTwin(row, t) \in DOMAIN row /\ row[JudgedTwin(row, t)].kind = "claim"
  BY <1>1, Twins
<1>6. CASE dup # 0 \/ IsHeld(row[i])
  <2>1. i \in DOMAIN row
    BY <1>4, <1>5 DEF RetiredTwin
  <2>2. row' = Observe(row, i, refs)
    BY <1>4, <1>6
  <2> HIDE DEF i
  <2>3. Sound(row, row') /\ DOMAIN row' = DOMAIN row
    BY <1>1, <1>3, <2>1, <2>2, Observed
  <2> QED BY <2>3, InPlaceQuiet DEF Sound
<1>7. CASE ~(dup # 0 \/ IsHeld(row[i]))
  <2>1. dup = 0 /\ i = old
    BY <1>7
  <2>2. HeldTwin(row, t) = 0
    BY <2>1, <1>5, <1>7 DEF RetiredTwin
  <2>3. i = JudgedTwin(row, t)
    BY <2>1, <2>2 DEF RetiredTwin
  <2>4. i \in DOMAIN row /\ row[i].kind = "claim" /\ ~IsHeld(row[i])
    BY <2>3, <1>4, <1>5, <1>7
  <2>5. Unheard(row, t)
    BY <2>1, <2>2, <1>5 DEF Unheard, Standing
  <2>6. row' = Quarantine(t, refs, i, TRUE)
    BY <1>4, <1>7
  <2> HIDE DEF i
  <2> QED BY <2>4, <2>5, <2>6, <1>1, <1>3, QuarantineSound
<1> QED
  BY <1>6, <1>7

\* The search again: the claim enters, or what the verdict writes.
LEMMA ApplySearchedRows ==
    ASSUME TableInv, NEW w \in Writer, NEW whole \in BOOLEAN, ApplySearched(w, whole)
    PROVE  /\ Safe(row, row')
           /\ Admits(row, row', wr[w].text)
           /\ JudgedTwin(row, wr[w].text) = 0
           /\ LET found == Nearest(row, wr[w].text,
                             UnderLock(w, wr[w].hood \cup {wr[w].conflict}, whole)) IN
              \/ found = 0 \/ (wr[w].searched /\ found = wr[w].conflict)
              \/ Quiet(row, row')
<1> DEFINE t == wr[w].text
           ids == UnderLock(w, wr[w].hood \cup {wr[w].conflict}, whole)
           found == Nearest(row, t, ids)
           probed == wr[w].searched /\ found = wr[w].conflict
           refs == Sole(wr[w].src)
<1>1. Table(row) /\ row \in Seq(Particle)
  BY DEF TableInv, Table
<1>2. wr[w] \in Gathered
  BY DEF TableInv, Processes, ApplySearched
<1>3. t \in Text /\ refs \in Refs
  BY <1>2 DEF Gathered, Refs, Sole
<1>4. Unheard(row, t) /\ JudgedTwin(row, t) = 0
  BY <1>1, Unsettled DEF ApplySearched
<1>5. IF found = 0 THEN row' = Append(row, NewClaim(t, refs, "ACTIVE", "NONE", 0))
      ELSE \E verdict \in Ladder(probed, wr[w].answer) : row' = Resolved(t, refs, found, verdict)
  BY DEF ApplySearched, Commit
<1>6. found = 0 \/ (found \in DOMAIN row /\ IsActive(row[found]))
  <2> HIDE DEF ids, t
  <2> QED BY <1>1, NearestIn
<1> HIDE DEF found, refs, t
<1>7. CASE found = 0
  <2>1. row' = Append(row, NewClaim(t, refs, "ACTIVE", "NONE", 0))
    BY <1>5, <1>7
  <2>2. Safe(row, row') /\ Admits(row, row', t)
    BY <2>1, <1>1, <1>3, <1>4, AssertedSafe
  <2> QED BY <2>2, <1>4, <1>7 DEF t, found
<1>8. CASE found # 0
  <2>1. PICK verdict \in Ladder(probed, wr[w].answer) : row' = Resolved(t, refs, found, verdict)
    BY <1>5, <1>8
  <2>2. verdict \in AllVerdicts \cup {"CORROBORATES"}
    <3>1. Ladder(probed, wr[w].answer) \subseteq AllVerdicts \cup {"CORROBORATES"}
      BY ReconcileAssumption DEF Ladder, AllVerdicts
    <3> QED BY <3>1
  <2>3. /\ Safe(row, row') /\ Admits(row, row', t)
        /\ verdict = "INCONSISTENT" => Quiet(row, row')
    BY <2>1, <2>2, <1>1, <1>3, <1>4, <1>6, <1>8, ResolvedSafe
  <2>4. probed \/ verdict = "INCONSISTENT"
    BY <2>1 DEF Ladder
  <2> QED BY <2>3, <2>4, <1>4 DEF t, found
<1> QED
  BY <1>7, <1>8

\* A resolution and the cascade it may start.
LEMMA CommittedResolution ==
    ASSUME Table(row), NEW r \in DOMAIN row, NEW act \in Action,
           NEW a, ~IsHeld(a), NEW b, IsHeld(b), NEW found, Found(row, found),
           Permitted(r, act, a, b, found), CommitResolution(r, act, a, b, found)
    PROVE  Sound(row, row')
<1> DEFINE rows == Resolution(r, act, a, b, found)
<1>1. Sound(row, rows)
  BY ResolutionSound
<1>2. \/ row' = rows
      \/ \E x \in DOMAIN rows, winner \in {"A", "B"} :
            Cascadable(rows, x, winner) /\ row' = Cascaded(rows, x, winner)
  BY DEF CommitResolution, Commit
<1> HIDE DEF rows
<1>3. ASSUME NEW x \in DOMAIN rows, NEW winner \in {"A", "B"},
             Cascadable(rows, x, winner), row' = Cascaded(rows, x, winner)
      PROVE  Sound(row, row')
  <2>1. Sound(rows, row')
    BY <1>1, <1>3, CascadedSound DEF Sound
  <2> QED BY <1>1, <2>1, SoundTrans
<1> QED
  BY <1>1, <1>2, <1>3

\* What a resolution's own search finds may hold the claim again.
LEMMA SearchInFinds ==
    ASSUME Table(row), NEW r \in DOMAIN row, IsOpen(row[r]), NEW act,
           NEW a, ~IsHeld(a), act = "PREFER_B" /\ a.status = "ACTIVE" => row[row[r].a].status = "ACTIVE"
    PROVE  Found(row, SearchIn(r, act, a))
<1> DEFINE demoted == Demote(row, row[r].a, a)
           f == SearchIn(r, act, a)
<1>1. /\ row[r].a \in DOMAIN row /\ row[row[r].a].kind = "claim" /\ ~IsHeld(row[row[r].a])
  BY OpenNames
<1>2. CASE act = "PREFER_B"
  <2>1. Sound(row, demoted) /\ DOMAIN demoted = DOMAIN row
    BY <1>1, <1>2, DemoteFirst
  <2>2. f = HeldSearch(demoted, r)
    BY <1>2 DEF SearchIn
  <2> HIDE DEF demoted
  <2>3. f = 0 \/ (f \in DOMAIN demoted /\ IsActive(demoted[f]))
    <3> DEFINE ids == Id \ {demoted[r].a, demoted[r].b, r,
                            ActiveTwin(demoted, demoted[demoted[r].b].text)}
               g == Nearest(demoted, demoted[demoted[r].b].text, ids)
    <3>1. f = g
      BY <2>2 DEF HeldSearch
    <3>2. demoted \in Seq(Particle)
      BY <2>1 DEF Sound, Table
    <3>3. g = 0 \/ (g \in DOMAIN demoted /\ IsActive(demoted[g]))
      <4> HIDE DEF ids
      <4> QED BY <3>2, NearestIn
    <3> HIDE DEF g
    <3> QED BY <3>1, <3>3
  <2> HIDE DEF f
  <2>4. Found(row, f)
    BY <2>1, <2>3 DEF Found, Sound, Grows, IsActive, IsHeld
  <2> QED BY <2>4 DEF f
<1>3. CASE act # "PREFER_B"
  <2>1. f = HeldSearch(row, r)
    BY <1>3 DEF SearchIn
  <2> QED BY <2>1, HeldSearchFinds DEF Table
<1> QED
  BY <1>2, <1>3

\* The engine's review: what it read is what it writes on.
LEMMA EngineResolveRows ==
    ASSUME TableInv, NEW r \in DOMAIN row, NEW act \in Action, EngineResolve(r, act)
    PROVE  Sound(row, row')
<1> DEFINE a == row[row[r].a]
           b == row[row[r].b]
           found == SearchIn(r, act, a)
<1>1. Table(row) /\ IsOpen(row[r])
  BY DEF TableInv, EngineResolve
<1>2. ~IsHeld(a) /\ IsHeld(b)
  BY <1>1, OpenNames
<1>3. Found(row, found)
  BY <1>1, <1>2, SearchInFinds
<1>4. CommitResolution(r, act, a, b, found)
  BY DEF EngineResolve
<1>5. Permitted(r, act, a, b, found)
  BY <1>1, <1>2 DEF Permitted, IsHeld
<1> HIDE DEF a, b, found
<1> QED
  BY <1>1, <1>2, <1>3, <1>4, <1>5, CommittedResolution

\* The local reviewer: what it read may be stale, the transition table decides.
LEMMA LocalWriteRows ==
    ASSUME TableInv, NEW q \in Reviewer, LocalWrite(q)
    PROVE  Sound(row, row')
<1> DEFINE r == rv[q].rec
           act == rv[q].act
           a == rv[q].a
           b == rv[q].b
           found == IF Early(act, a) THEN rv[q].found ELSE SearchIn(r, act, a)
<1>1. Table(row)
  BY DEF TableInv
<1>2. InHand(row, rv[q])
  BY DEF TableInv, Processes, LocalWrite
<1>3. r \in DOMAIN row /\ act \in Action /\ ~IsHeld(a) /\ IsHeld(b) /\ Found(row, rv[q].found)
  BY <1>2 DEF InHand, Reviewed
<1>4. \/ Permitted(r, act, a, b, found) /\ CommitResolution(r, act, a, b, found)
      \/ row' = row
  BY DEF LocalWrite, Commit
<1>5. ASSUME Permitted(r, act, a, b, found) PROVE Found(row, found)
  <2>1. IsOpen(row[r]) /\ (act = "PREFER_B" /\ a.status = "ACTIVE" => row[row[r].a].status = "ACTIVE")
    BY <1>5 DEF Permitted
  <2> HIDE DEF r, act, a
  <2>2. Found(row, SearchIn(r, act, a))
    BY <1>1, <1>3, <2>1, SearchInFinds
  <2> QED BY <1>3, <2>2
<1> HIDE DEF r, act, a, b, found
<1>6. CASE row' = row
  BY <1>1, <1>6, SoundSelf
<1>7. CASE Permitted(r, act, a, b, found) /\ CommitResolution(r, act, a, b, found)
  BY <1>1, <1>3, <1>5, <1>7, CommittedResolution
<1> QED
  BY <1>4, <1>6, <1>7

\* The release pass: nothing, a promotion, or a fold into the twin.
LEMMA ReleaseRows ==
    ASSUME TableInv, NEW x \in Releaser, NEW whole \in BOOLEAN, Release(x, whole)
    PROVE  Sound(row, row')
<1> DEFINE r == rl[x].rec
           b == row[r].b
           closed == Closed(row, r)
           twin == ActiveTwin(row, row[b].text)
           src == row[b].src
<1>1. Table(row) /\ row \in Seq(Particle)
  BY DEF TableInv, Table
<1>2. r \in DOMAIN row
  BY DEF TableInv, Processes, Release
<1>3. \/ row' = row
      \/ /\ StillOpen(r)
         /\ \/ twin = 0 /\ row' = PromoteOrHold(closed, b, 0)
            \/ /\ twin # 0
               /\ row' = Set(Observe(closed, twin, src), b, "SUPERSEDED", "CONFLICT_RESOLVED")
  BY DEF Release, Commit, Closed
<1>4. CASE row' = row
  BY <1>1, <1>4, SoundSelf
<1> SUFFICES ASSUME IsOpen(row[r]),
                    \/ twin = 0 /\ row' = PromoteOrHold(closed, b, 0)
                    \/ /\ twin # 0
                       /\ row' = Set(Observe(closed, twin, src), b, "SUPERSEDED", "CONFLICT_RESOLVED")
             PROVE  Sound(row, row')
  BY <1>3, <1>4 DEF StillOpen
<1> HIDE DEF r, twin
<1>5. CASE twin = 0 /\ row' = PromoteOrHold(closed, b, 0)
  BY <1>1, <1>2, <1>5, ClosePromoted
<1>6. CASE twin # 0 /\ row' = Set(Observe(closed, twin, src), b, "SUPERSEDED", "CONFLICT_RESOLVED")
  <2> DEFINE seen == Observe(closed, twin, src)
             new == Set(seen, b, "SUPERSEDED", "CONFLICT_RESOLVED")
  <2>1. /\ Table(closed) /\ Grows(row, closed) /\ Earned(row, closed)
        /\ DOMAIN closed = DOMAIN row
        /\ b \in DOMAIN row
        /\ closed[b] = row[b] /\ IsHeld(closed[b]) /\ Free(closed, b)
        /\ Reached(row, 0) => Reached(closed, b)
    BY <1>1, <1>2, Close
  <2>2. twin \in DOMAIN row /\ IsActive(row[twin])
    <3>1. twin = ActiveTwin(row, row[b].text)
      BY DEF twin
    <3> QED BY <3>1, <1>1, <1>6, Twins
  <2>3. twin # b /\ src \in Refs
    <3>1. row[b] \in Particle
      BY <2>1, <1>1
    <3> QED BY <3>1, <2>1, <2>2 DEF IsActive, IsHeld, Particle
  <2> HIDE DEF closed, src, b
  <2>4. /\ Sound(closed, seen) /\ DOMAIN seen = DOMAIN closed
        /\ \A j \in DOMAIN closed : j # twin => seen[j] = closed[j]
        /\ \A e : Reached(closed, e) => Reached(seen, e)
        /\ \A e : Free(closed, e) => Free(seen, e)
    BY <2>1, <2>2, <2>3, Observed
  <2> HIDE DEF seen
  <2>5. /\ Table(seen) /\ b \in DOMAIN seen /\ seen[b].kind = "claim" /\ ~Terminal(seen[b])
        /\ Free(seen, b) /\ "CONFLICT_RESOLVED" \in Reason
    BY <2>1, <2>3, <2>4 DEF Sound, IsHeld, Terminal, Reason
  <2>6. /\ Table(new) /\ Grows(seen, new) /\ Earned(seen, new)
        /\ Reached(seen, b) => Reached(new, 0)
    BY <2>5, Retire
  <2> HIDE DEF new
  <2>7. Grows(row, seen) /\ Earned(row, seen)
    BY <2>1, <2>4, GrowsTrans DEF Sound
  <2>8. Sound(row, new)
    BY <2>1, <2>4, <2>6, <2>7, GrowsTrans DEF Sound
  <2> QED BY <2>8, <1>6 DEF new, seen
<1> QED
  BY <1>5, <1>6

\* An operator retracts a claim.
LEMMA RetractClaimRows ==
    ASSUME TableInv, NEW i \in DOMAIN row, RetractClaim(i)
    PROVE  Sound(row, row')
<1>1. Table(row)
  BY DEF TableInv
<1>2. row' = Set(row, i, "RETRACTED", "EXPLICIT_RETRACTION") /\ IsActive(row[i])
  BY DEF RetractClaim, Commit
<1>3. row[i].kind = "claim" /\ ~IsHeld(row[i]) /\ ~Terminal(row[i]) /\ "EXPLICIT_RETRACTION" \in Reason
  BY <1>2 DEF IsActive, IsHeld, Terminal, Reason
<1> QED
  BY <1>1, <1>2, <1>3, RetireSound

\* An operator retracts an entry: the records that go with it may strand a hold.
LEMMA RetractEntryRows ==
    ASSUME TableInv, NEW s \in Source, RetractEntry(s)
    PROVE  RowsMove /\ RowsEnter
<1> DEFINE L == {i \in DOMAIN row : row[i].status \in {"ACTIVE", "INCONSISTENCY"} /\ From(row[i], s)}
<1>1. Table(row) /\ MaxWithdrawn # 0
  <2>1. withdrawn \in 0..MaxWithdrawn /\ withdrawn < MaxWithdrawn /\ MaxWithdrawn \in Nat
    BY ReconcileAssumption DEF TableInv, TypeOK, RetractEntry
  <2> QED BY <2>1 DEF TableInv
<1>2. row' = [i \in DOMAIN row |->
                IF i \in L
                THEN [row[i] EXCEPT !.status = "RETRACTED", !.reason = "SOURCE_RETRACTED"]
                ELSE row[i]]
  BY DEF RetractEntry, Commit
<1>3. \A i \in L : i \in DOMAIN row /\ row[i].status \in {"ACTIVE", "INCONSISTENCY"}
  OBVIOUS
<1> HIDE DEF L
<1>4. /\ row' \in [DOMAIN row -> {row'[i] : i \in DOMAIN row}]
      /\ \A i \in DOMAIN row :
            row'[i] = IF i \in L THEN Marked(row[i], "RETRACTED", "SOURCE_RETRACTED") ELSE row[i]
  BY <1>2 DEF Marked
<1>5. Table(row') /\ Grows(row, row') /\ Earned(row, row')
  BY <1>1, <1>3, <1>4, EntryRetracted
<1>6. \A w \in Writer : ~Ended(w)
  BY DEF RetractEntry, Ended
<1> QED
  BY <1>1, <1>5, <1>6 DEF RowsMove, RowsEnter, Vouched, Earned, Enters

\* Every step of the model, on the table.
LEMMA RowStep ==
    ASSUME TableInv, [Next]_vars
    PROVE  RowsMove /\ RowsEnter
<1>1. Table(row)
  BY DEF TableInv
<1>2. CASE UNCHANGED vars
  BY <1>1, <1>2, StillMoves DEF vars
<1>3. ASSUME NEW w \in Writer, NEW t \in Text, NEW s \in Source, Ask(w, t, s)
      PROVE  RowsMove /\ RowsEnter
  BY <1>1, <1>3, StillMoves DEF Ask
<1>4. ASSUME NEW w \in Writer, Load(w) \/ Probe(w) PROVE RowsMove /\ RowsEnter
  BY <1>1, <1>4, StillMoves DEF Load, Probe
<1>5. ASSUME NEW w \in Writer, ApplySettled(w) PROVE RowsMove /\ RowsEnter
  BY <1>5, ApplySettledRows, SoundMoves
<1>6. ASSUME NEW w \in Writer, NEW whole \in BOOLEAN, ApplySearched(w, whole)
      PROVE  RowsMove /\ RowsEnter
  <2>1. /\ Safe(row, row')
        /\ Admits(row, row', wr[w].text)
        /\ JudgedTwin(row, wr[w].text) = 0
    BY <1>6, ApplySearchedRows
  <2>2. RowsMove
    BY <2>1 DEF Safe, RowsMove
  <2>3. RowsEnter
    BY <2>1 DEF RowsEnter, Vouched, Admits, Enters
  <2> QED BY <2>2, <2>3
<1>7. ASSUME NEW r \in DOMAIN row, NEW act \in Action, EngineResolve(r, act)
      PROVE  RowsMove /\ RowsEnter
  <2>1. \A w \in Writer : ~Ended(w)
    BY <1>7 DEF EngineResolve, Ended
  <2> QED BY <1>7, <2>1, EngineResolveRows, SoundMoves
<1>8. ASSUME NEW r \in DOMAIN row, NEW act \in Action, NEW q \in Reviewer, LocalOpen(q, r, act)
      PROVE  RowsMove /\ RowsEnter
  BY <1>1, <1>8, StillMoves DEF LocalOpen
<1>9. ASSUME NEW q \in Reviewer, LocalSearch(q) PROVE RowsMove /\ RowsEnter
  BY <1>1, <1>9, StillMoves DEF LocalSearch
<1>10. ASSUME NEW q \in Reviewer, LocalWrite(q) PROVE RowsMove /\ RowsEnter
  <2>1. \A w \in Writer : ~Ended(w)
    BY <1>10, NoWriterEnds DEF LocalWrite, TableInv
  <2> QED BY <1>10, <2>1, LocalWriteRows, SoundMoves
<1>11. ASSUME NEW x \in Releaser, NEW r \in DOMAIN row, ReleaseTake(x, r)
       PROVE  RowsMove /\ RowsEnter
  BY <1>1, <1>11, StillMoves DEF ReleaseTake
<1>12. ASSUME NEW x \in Releaser, ReleaseLoad(x) \/ ReleaseBlocked(x)
       PROVE  RowsMove /\ RowsEnter
  BY <1>1, <1>12, StillMoves DEF ReleaseLoad, ReleaseBlocked, Commit
<1>13. ASSUME NEW x \in Releaser, NEW whole \in BOOLEAN, Release(x, whole)
       PROVE  RowsMove /\ RowsEnter
  <2>1. \A w \in Writer : ~Ended(w)
    BY <1>13, NoWriterEnds DEF Release, TableInv
  <2> QED BY <1>13, <2>1, ReleaseRows, SoundMoves
<1>14. ASSUME NEW i \in DOMAIN row, RetractClaim(i) PROVE RowsMove /\ RowsEnter
  <2>1. \A w \in Writer : ~Ended(w)
    BY <1>14 DEF RetractClaim, Ended
  <2> QED BY <1>14, <2>1, RetractClaimRows, SoundMoves
<1>15. ASSUME NEW s \in Source, RetractEntry(s) PROVE RowsMove /\ RowsEnter
  BY <1>15, RetractEntryRows
<1> QED
  BY <1>2, <1>3, <1>4, <1>5, <1>6, <1>7, <1>8, <1>9, <1>10, <1>11, <1>12, <1>13,
     <1>14, <1>15 DEF Next

--------------------------------------------------------------------------------
(* The processes *)

\* What a reviewer holds in hand outlasts every write.
LEMMA InHandStays ==
    ASSUME NEW rows, NEW new, Grows(rows, new), NEW v, InHand(rows, v)
    PROVE  InHand(new, v)
BY FoundStays DEF InHand, Grows

\* The processes a step does not start, or ends, keep their invariant.
LEMMA ProcsStay ==
    ASSUME TableInv, Grows(row, row'),
           \A w \in Writer : pc'[w] # "idle" => pc[w] # "idle" /\ wr'[w] = wr[w],
           \A q \in Reviewer : pc'[q] # "idle" => pc[q] # "idle" /\ rv'[q] = rv[q],
           \A x \in Releaser : pc'[x] # "idle" => pc[x] # "idle" /\ rl'[x] = rl[x]
    PROVE  Processes'
<1>1. \A w \in Writer : pc'[w] # "idle" => wr'[w] \in Gathered
  BY DEF TableInv, Processes
<1>2. \A q \in Reviewer : pc'[q] # "idle" => InHand(row', rv'[q])
  BY InHandStays DEF TableInv, Processes
<1>3. \A x \in Releaser : pc'[x] # "idle" =>
        rl'[x].rec \in DOMAIN row' /\ row'[rl'[x].rec].kind = "record"
  BY DEF TableInv, Processes, Grows
<1> QED
  BY <1>1, <1>2, <1>3 DEF Processes

Places == {"idle", "load", "probe", "apply", "search", "write", "check"}

\* The bounds of the table, and the journal, after a commit.
LEMMA CommitTyped ==
    ASSUME TypeOK, RowsMove, NEW rows, Commit(rows)
    PROVE  /\ row' \in Seq(Particle) /\ Len(row') <= MaxRows
           /\ changed' \in [Writer \cup Releaser -> SUBSET Id]
<1>1. row' \in Seq(Particle) /\ row' = rows
  BY DEF RowsMove, Table, Commit
<1> DEFINE touched == {i \in DOMAIN rows : i \notin DOMAIN row \/ rows[i] # row[i]}
<1>2. /\ Len(rows) <= MaxRows /\ row' = rows
      /\ changed' = [p \in Writer \cup Releaser |->
                       IF pc'[p] = "idle" THEN {} ELSE changed[p] \cup touched]
  BY DEF Commit
<1>3. touched \subseteq Id
  <2>1. MaxRows \in Nat /\ Len(rows) \in Nat /\ DOMAIN rows = 1..Len(rows)
    BY <1>1, ReconcileAssumption
  <2>2. DOMAIN rows \subseteq Id
    BY <2>1, <1>2 DEF Id
  <2> QED BY <2>2
<1> HIDE DEF touched
<1>4. \A p \in Writer \cup Releaser : changed[p] \in SUBSET Id
  BY DEF TypeOK
<1> QED
  BY <1>2, <1>3, <1>4, <1>1

\* Positions of the table are ids.
LEMMA RowsAreIds ==
    ASSUME TypeOK
    PROVE  DOMAIN row \subseteq Id /\ row \in Seq(Particle) /\ 0 \notin DOMAIN row
<1>1. MaxRows \in Nat /\ Len(row) \in Nat /\ DOMAIN row = 1..Len(row) /\ Len(row) <= MaxRows
  BY ReconcileAssumption DEF TypeOK
<1> QED
  BY <1>1 DEF Id, TypeOK

\* A search finds 0 or an id.
LEMMA NearestTyped ==
    ASSUME TypeOK, NEW t, NEW ids
    PROVE  Nearest(row, t, ids) \in {0} \cup Id /\ Near(row, t, ids) \subseteq Id
<1>1. DOMAIN row \subseteq Id /\ row \in Seq(Particle)
  BY RowsAreIds
<1>2. Nearest(row, t, ids) = 0 \/ Nearest(row, t, ids) \in DOMAIN row
  BY <1>1, NearestIn
<1>3. Near(row, t, ids) \subseteq DOMAIN row
  BY DEF Near
<1> QED
  BY <1>1, <1>2, <1>3

\* A writer's gather.
LEMMA WriterGathers ==
    ASSUME TableInv, NEW w \in Writer, RowsMove,
           (\E t \in Text, s \in Source : Ask(w, t, s)) \/ Load(w) \/ Probe(w)
    PROVE  TypeOK' /\ Processes'
<1>1. TypeOK /\ Grows(row, row')
  BY DEF TableInv, RowsMove
<1>2. UNCHANGED <<row, rv, rl, changed, retracts, withdrawn>>
  BY DEF Ask, Load, Probe
<1>3. PICK g, z : /\ wr' = [wr EXCEPT ![w] = g] /\ pc' = [pc EXCEPT ![w] = z]
                  /\ g \in Gathered /\ z \in Places
  <2>1. ASSUME NEW t \in Text, NEW s \in Source, Ask(w, t, s)
        PROVE  \E g, z : /\ wr' = [wr EXCEPT ![w] = g] /\ pc' = [pc EXCEPT ![w] = z]
                         /\ g \in Gathered /\ z \in Places
    <3> DEFINE settled == ActiveTwin(row, t) # 0 \/ RetiredTwin(row, t) # 0
               no == ~settled
               g == [text |-> t, src |-> s, searched |-> no,
                     hood |-> {}, conflict |-> 0, answer |-> "none"]
               z == IF settled THEN "apply" ELSE "load"
    <3>1. wr' = [wr EXCEPT ![w] = g] /\ pc' = [pc EXCEPT ![w] = z]
      BY <2>1 DEF Ask
    <3>2. no \in BOOLEAN
      OBVIOUS
    <3>3. z \in Places
      BY DEF Places
    <3> HIDE DEF no, z
    <3>4. g \in Gathered
      BY <3>2 DEF Gathered
    <3> HIDE DEF g
    <3> QED BY <3>1, <3>3, <3>4
  <2>2. ASSUME Load(w)
        PROVE  \E g, z : /\ wr' = [wr EXCEPT ![w] = g] /\ pc' = [pc EXCEPT ![w] = z]
                         /\ g \in Gathered /\ z \in Places
    <3> DEFINE t == wr[w].text
               near == Near(row, t, Id)
               nearest == Nearest(row, t, Id)
               g == [wr[w] EXCEPT !.hood = near, !.conflict = nearest]
               z == IF nearest = 0 THEN "apply" ELSE "probe"
    <3>1. wr[w] \in Gathered
      BY <2>2 DEF TableInv, Processes, Load
    <3>2. nearest \in {0} \cup Id /\ near \in SUBSET Id
      BY <1>1, NearestTyped
    <3>3. z \in Places
      BY DEF Places
    <3>4. wr' = [wr EXCEPT ![w] = g] /\ pc' = [pc EXCEPT ![w] = z]
      BY <2>2, <1>1 DEF Load, TypeOK
    <3> HIDE DEF near, nearest, z
    <3>5. g \in Gathered
      BY <3>1, <3>2 DEF Gathered
    <3> HIDE DEF g
    <3> QED BY <3>3, <3>4, <3>5
  <2>3. ASSUME Probe(w)
        PROVE  \E g, z : /\ wr' = [wr EXCEPT ![w] = g] /\ pc' = [pc EXCEPT ![w] = z]
                         /\ g \in Gathered /\ z \in Places
    <3>1. wr[w] \in Gathered
      BY <2>3 DEF TableInv, Processes, Probe
    <3>2. PICK answer \in {"yes", "no", "none", "update"} : wr' = [wr EXCEPT ![w].answer = answer]
      BY <2>3 DEF Probe
    <3> DEFINE g == [wr[w] EXCEPT !.answer = answer]
    <3>3. wr' = [wr EXCEPT ![w] = g] /\ pc' = [pc EXCEPT ![w] = "apply"]
      BY <2>3, <3>2 DEF Probe
    <3>4. g \in Gathered /\ "apply" \in Places
      BY <3>1 DEF Gathered, Places
    <3> HIDE DEF g
    <3> QED BY <3>3, <3>4
  <2> QED BY <2>1, <2>2, <2>3
<1>4. pc \in [Proc -> Places] /\ wr \in [Writer -> Gathered \cup {NoGather}] /\ w \in Proc
  BY <1>1 DEF TypeOK, Places, Proc
<1>5. pc' \in [Proc -> Places] /\ wr' \in [Writer -> Gathered \cup {NoGather}]
  BY <1>3, <1>4
<1>6. TypeOK'
  BY <1>1, <1>2, <1>5 DEF TypeOK, Places
<1>7. \A v \in Writer : pc'[v] # "idle" => wr'[v] \in Gathered
  BY <1>3, <1>4 DEF TableInv, Processes
<1>8. /\ \A q \in Reviewer : pc'[q] = pc[q]
      /\ \A x \in Releaser : pc'[x] = pc[x]
  BY <1>3, <1>4, ReconcileAssumption
<1>9. Processes'
  BY <1>2, <1>7, <1>8 DEF TableInv, Processes
<1> QED
  BY <1>6, <1>9

\* A writer applies and is done.
LEMMA WriterDone ==
    ASSUME TableInv, NEW w \in Writer, RowsMove,
           ApplySettled(w) \/ \E whole \in BOOLEAN : ApplySearched(w, whole)
    PROVE  TypeOK' /\ Processes'
<1>1. TypeOK /\ Grows(row, row')
  BY DEF TableInv, RowsMove
<1>2. /\ UNCHANGED <<rv, rl, retracts, withdrawn>>
      /\ pc' = [pc EXCEPT ![w] = "idle"] /\ wr' = [wr EXCEPT ![w] = NoGather]
  BY DEF ApplySettled, ApplySearched, Done
<1>3. \E rows : Commit(rows)
  BY DEF ApplySettled, ApplySearched
<1>4. /\ row' \in Seq(Particle) /\ Len(row') <= MaxRows
      /\ changed' \in [Writer \cup Releaser -> SUBSET Id]
  BY <1>1, <1>3, CommitTyped
<1>5. pc \in [Proc -> Places] /\ wr \in [Writer -> Gathered \cup {NoGather}] /\ w \in Proc
  BY <1>1 DEF TypeOK, Places, Proc
<1>6. pc' \in [Proc -> Places] /\ wr' \in [Writer -> Gathered \cup {NoGather}]
  BY <1>2, <1>5 DEF Places
<1>7. TypeOK'
  BY <1>1, <1>2, <1>4, <1>6 DEF TypeOK, Places
<1>8. Processes'
  <2>1. \A v \in Writer : pc'[v] # "idle" => pc[v] # "idle" /\ wr'[v] = wr[v]
    BY <1>2, <1>5 DEF Proc
  <2>2. \A q \in Reviewer : pc'[q] # "idle" => pc[q] # "idle" /\ rv'[q] = rv[q]
    BY <1>2, <1>5 DEF Proc
  <2>3. \A x \in Releaser : pc'[x] # "idle" => pc[x] # "idle" /\ rl'[x] = rl[x]
    BY <1>2, <1>5 DEF Proc
  <2> QED BY <1>1, <2>1, <2>2, <2>3, ProcsStay
<1> QED
  BY <1>7, <1>8

\* A local reviewer reads a record and its claims, and searches.
LEMMA ReviewerReads ==
    ASSUME TableInv, NEW q \in Reviewer, RowsMove,
           (\E r \in DOMAIN row, act \in Action : LocalOpen(q, r, act)) \/ LocalSearch(q)
    PROVE  TypeOK' /\ Processes'
<1>1. TypeOK /\ Table(row) /\ DOMAIN row \subseteq Id /\ row \in Seq(Particle)
  BY RowsAreIds DEF TableInv
<1>2. UNCHANGED <<row, wr, rl, changed, retracts, withdrawn>>
  BY DEF LocalOpen, LocalSearch
<1>3. PICK v, z : /\ rv' = [rv EXCEPT ![q] = v] /\ pc' = [pc EXCEPT ![q] = z]
                  /\ InHand(row, v) /\ z \in Places
  <2>1. ASSUME NEW r \in DOMAIN row, NEW act \in Action, LocalOpen(q, r, act)
        PROVE  \E v, z : /\ rv' = [rv EXCEPT ![q] = v] /\ pc' = [pc EXCEPT ![q] = z]
                         /\ InHand(row, v) /\ z \in Places
    <3> DEFINE a == row[row[r].a]
               b == row[row[r].b]
               v == [rec |-> r, act |-> act, a |-> a, b |-> b, found |-> 0]
               z == IF Early(act, a) THEN "search" ELSE "write"
    <3>1. IsOpen(row[r]) /\ rv' = [rv EXCEPT ![q] = v] /\ pc' = [pc EXCEPT ![q] = z]
      BY <2>1 DEF LocalOpen
    <3>2. /\ row[r].a \in DOMAIN row /\ ~IsHeld(a)
          /\ row[r].b \in DOMAIN row /\ IsHeld(b)
      BY <1>1, <3>1, OpenNames
    <3>3. a \in Particle /\ b \in Particle /\ r \in Id
      BY <1>1, <3>2
    <3>4. z \in Places
      BY DEF Places
    <3>5. row[r].kind = "record"
      BY <3>1 DEF IsOpen
    <3> HIDE DEF a, b, z
    <3>6. InHand(row, v)
      BY <3>2, <3>3, <3>5 DEF InHand, Reviewed, Found
    <3> HIDE DEF v
    <3> QED BY <3>1, <3>4, <3>6
  <2>2. ASSUME LocalSearch(q)
        PROVE  \E v, z : /\ rv' = [rv EXCEPT ![q] = v] /\ pc' = [pc EXCEPT ![q] = z]
                         /\ InHand(row, v) /\ z \in Places
    <3> DEFINE f == HeldSearch(row, rv[q].rec)
               v == [rv[q] EXCEPT !.found = f]
    <3>1. InHand(row, rv[q])
      BY <2>2 DEF TableInv, Processes, LocalSearch
    <3>2. Found(row, f) /\ f \in {0} \cup Id
      BY <1>1, HeldSearchFinds
    <3>3. rv' = [rv EXCEPT ![q] = v] /\ pc' = [pc EXCEPT ![q] = "write"]
      BY <2>2 DEF LocalSearch
    <3> HIDE DEF f
    <3>4. InHand(row, v)
      BY <3>1, <3>2 DEF InHand, Reviewed
    <3> HIDE DEF v
    <3> QED BY <3>3, <3>4 DEF Places
  <2> QED BY <2>1, <2>2
<1>4. pc \in [Proc -> Places] /\ rv \in [Reviewer -> Reviewed \cup {NoReview}] /\ q \in Proc
  BY <1>1 DEF TypeOK, Places, Proc
<1>5. pc' \in [Proc -> Places] /\ rv' \in [Reviewer -> Reviewed \cup {NoReview}]
  BY <1>3, <1>4 DEF InHand
<1>6. TypeOK'
  BY <1>1, <1>2, <1>5 DEF TypeOK, Places
<1>7. \A p \in Reviewer : pc'[p] # "idle" => InHand(row, rv'[p])
  BY <1>3, <1>4 DEF TableInv, Processes
<1>8. /\ \A w \in Writer : pc'[w] = pc[w]
      /\ \A x \in Releaser : pc'[x] = pc[x]
  BY <1>3, <1>4, ReconcileAssumption
<1>9. Processes'
  BY <1>2, <1>7, <1>8 DEF TableInv, Processes
<1> QED
  BY <1>6, <1>9

\* A local reviewer writes and is done.
LEMMA ReviewerDone ==
    ASSUME TableInv, NEW q \in Reviewer, RowsMove, LocalWrite(q)
    PROVE  TypeOK' /\ Processes'
<1>1. TypeOK /\ Grows(row, row')
  BY DEF TableInv, RowsMove
<1>2. /\ UNCHANGED <<wr, rl, retracts, withdrawn>>
      /\ pc' = [pc EXCEPT ![q] = "idle"] /\ rv' = [rv EXCEPT ![q] = NoReview]
  BY DEF LocalWrite
<1>3. \E rows : Commit(rows)
  BY DEF LocalWrite, CommitResolution
<1>4. /\ row' \in Seq(Particle) /\ Len(row') <= MaxRows
      /\ changed' \in [Writer \cup Releaser -> SUBSET Id]
  BY <1>1, <1>3, CommitTyped
<1>5. pc \in [Proc -> Places] /\ rv \in [Reviewer -> Reviewed \cup {NoReview}] /\ q \in Proc
  BY <1>1 DEF TypeOK, Places, Proc
<1>6. pc' \in [Proc -> Places] /\ rv' \in [Reviewer -> Reviewed \cup {NoReview}]
  BY <1>2, <1>5 DEF Places
<1>7. TypeOK'
  BY <1>1, <1>2, <1>4, <1>6 DEF TypeOK, Places
<1>8. Processes'
  <2>1. \A v \in Writer : pc'[v] # "idle" => pc[v] # "idle" /\ wr'[v] = wr[v]
    BY <1>2, <1>5 DEF Proc
  <2>2. \A p \in Reviewer : pc'[p] # "idle" => pc[p] # "idle" /\ rv'[p] = rv[p]
    BY <1>2, <1>5 DEF Proc
  <2>3. \A x \in Releaser : pc'[x] # "idle" => pc[x] # "idle" /\ rl'[x] = rl[x]
    BY <1>2, <1>5 DEF Proc
  <2> QED BY <1>1, <2>1, <2>2, <2>3, ProcsStay
<1> QED
  BY <1>7, <1>8

\* A release pass takes a record and loads the pairs to ask about.
LEMMA ReleaserLoads ==
    ASSUME TableInv, NEW x \in Releaser, RowsMove,
           (\E r \in DOMAIN row : ReleaseTake(x, r)) \/ ReleaseLoad(x)
    PROVE  TypeOK' /\ Processes'
<1>1. TypeOK /\ Table(row) /\ DOMAIN row \subseteq Id
  BY RowsAreIds DEF TableInv
<1>2. UNCHANGED <<row, wr, rv, changed, retracts, withdrawn>>
  BY DEF ReleaseTake, ReleaseLoad
<1>3. PICK v, z : /\ rl' = [rl EXCEPT ![x] = v] /\ pc' = [pc EXCEPT ![x] = z]
                  /\ v \in Selection
                  /\ v.rec \in DOMAIN row /\ row[v.rec].kind = "record" /\ z \in Places
  <2>1. ASSUME NEW r \in DOMAIN row, ReleaseTake(x, r)
        PROVE  \E v, z : /\ rl' = [rl EXCEPT ![x] = v] /\ pc' = [pc EXCEPT ![x] = z]
                         /\ v \in Selection
                         /\ v.rec \in DOMAIN row /\ row[v.rec].kind = "record" /\ z \in Places
    <3> DEFINE v == [NoPass EXCEPT !.rec = r]
    <3>1. row[r].kind = "record" /\ rl' = [rl EXCEPT ![x] = v] /\ pc' = [pc EXCEPT ![x] = "load"]
      BY <2>1 DEF ReleaseTake, Qualifies, IsOpen
    <3>2. v \in Selection /\ v.rec = r /\ "load" \in Places
      BY <1>1 DEF Places, Selection, NoPass
    <3> HIDE DEF v
    <3> QED BY <3>1, <3>2
  <2>2. ASSUME ReleaseLoad(x)
        PROVE  \E v, z : /\ rl' = [rl EXCEPT ![x] = v] /\ pc' = [pc EXCEPT ![x] = z]
                         /\ v \in Selection
                         /\ v.rec \in DOMAIN row /\ row[v.rec].kind = "record" /\ z \in Places
    <3> DEFINE r == rl[x].rec
               t == row[row[r].b].text
               out == {row[r].a, row[r].b, r, ActiveTwin(row, t)}
    <3>1. r \in DOMAIN row /\ row[r].kind = "record"
      BY <2>2 DEF TableInv, Processes, ReleaseLoad
    <3>2. PICK S \in Selections(t, Id \ out) :
             rl' = [rl EXCEPT ![x] = [rec |-> r, out |-> out, asked |-> S,
                                      known |-> {i \in DOMAIN row : IsActive(row[i])}]]
      BY <2>2 DEF ReleaseLoad
    <3> DEFINE v == [rec |-> r, out |-> out, asked |-> S,
                     known |-> {i \in DOMAIN row : IsActive(row[i])}]
    <3>3. rl' = [rl EXCEPT ![x] = v] /\ pc' = [pc EXCEPT ![x] = "check"]
      BY <2>2, <3>2 DEF ReleaseLoad
    <3>4. S \subseteq Id
      BY DEF Selections
    <3>5. out \subseteq {0} \cup Id
      <4>1. row[r].a \in DOMAIN row /\ row[r].b \in DOMAIN row
        BY <1>1, <3>1 DEF Table, Named
      <4>2. ActiveTwin(row, t) \in {0} \cup DOMAIN row
        <5> HIDE DEF t
        <5> QED BY <1>1, Twins DEF Table
      <4> QED BY <1>1, <3>1, <4>1, <4>2
    <3> HIDE DEF out
    <3>6. v \in Selection /\ v.rec = r /\ "check" \in Places
      BY <1>1, <3>1, <3>4, <3>5 DEF Places, Selection
    <3> HIDE DEF v
    <3> QED BY <3>1, <3>3, <3>6
  <2> QED BY <2>1, <2>2
<1>4. pc \in [Proc -> Places] /\ rl \in [Releaser -> Selection] /\ x \in Proc
  BY <1>1 DEF TypeOK, Places, Proc
<1>5. pc' \in [Proc -> Places] /\ rl' \in [Releaser -> Selection]
  BY <1>3, <1>4
<1>6. TypeOK'
  BY <1>1, <1>2, <1>5 DEF TypeOK, Places
<1>7. \A y \in Releaser : pc'[y] # "idle" =>
        rl'[y].rec \in DOMAIN row /\ row[rl'[y].rec].kind = "record"
  BY <1>3, <1>4 DEF TableInv, Processes
<1>8. /\ \A w \in Writer : pc'[w] = pc[w]
      /\ \A q \in Reviewer : pc'[q] = pc[q]
  BY <1>3, <1>4, ReconcileAssumption
<1>9. Processes'
  BY <1>2, <1>7, <1>8 DEF TableInv, Processes
<1> QED
  BY <1>6, <1>9

\* A release pass ends.
LEMMA ReleaserDone ==
    ASSUME TableInv, NEW x \in Releaser, RowsMove,
           ReleaseBlocked(x) \/ \E whole \in BOOLEAN : Release(x, whole)
    PROVE  TypeOK' /\ Processes'
<1>1. TypeOK /\ Grows(row, row')
  BY DEF TableInv, RowsMove
<1>2. /\ UNCHANGED <<wr, rv, retracts, withdrawn>>
      /\ pc' = [pc EXCEPT ![x] = "idle"] /\ rl' = [rl EXCEPT ![x] = NoPass]
  BY DEF ReleaseBlocked, Release
<1>3. \E rows : Commit(rows)
  BY DEF ReleaseBlocked, Release
<1>4. /\ row' \in Seq(Particle) /\ Len(row') <= MaxRows
      /\ changed' \in [Writer \cup Releaser -> SUBSET Id]
  BY <1>1, <1>3, CommitTyped
<1>5. pc \in [Proc -> Places] /\ rl \in [Releaser -> Selection] /\ x \in Proc
  BY <1>1 DEF TypeOK, Places, Proc
<1>6. pc' \in [Proc -> Places] /\ rl' \in [Releaser -> Selection]
  BY <1>2, <1>5 DEF Places, NoPass, Selection
<1>7. TypeOK'
  BY <1>1, <1>2, <1>4, <1>6 DEF TypeOK, Places
<1>8. Processes'
  <2>1. \A v \in Writer : pc'[v] # "idle" => pc[v] # "idle" /\ wr'[v] = wr[v]
    BY <1>2, <1>5 DEF Proc
  <2>2. \A q \in Reviewer : pc'[q] # "idle" => pc[q] # "idle" /\ rv'[q] = rv[q]
    BY <1>2, <1>5 DEF Proc
  <2>3. \A y \in Releaser : pc'[y] # "idle" => pc[y] # "idle" /\ rl'[y] = rl[y]
    BY <1>2, <1>5 DEF Proc
  <2> QED BY <1>1, <2>1, <2>2, <2>3, ProcsStay
<1> QED
  BY <1>7, <1>8

\* The engine's review and the operators leave the processes alone.
LEMMA NoProcess ==
    ASSUME TableInv, RowsMove,
           \/ \E r \in DOMAIN row, act \in Action : EngineResolve(r, act)
           \/ \E i \in DOMAIN row : RetractClaim(i)
           \/ \E s \in Source : RetractEntry(s)
    PROVE  TypeOK' /\ Processes'
<1>1. TypeOK /\ Grows(row, row')
  BY DEF TableInv, RowsMove
<1>2. UNCHANGED <<pc, wr, rv, rl>>
  BY DEF EngineResolve, RetractClaim, RetractEntry
<1>3. \E rows : Commit(rows)
  BY DEF EngineResolve, CommitResolution, RetractClaim, RetractEntry
<1>4. /\ row' \in Seq(Particle) /\ Len(row') <= MaxRows
      /\ changed' \in [Writer \cup Releaser -> SUBSET Id]
  BY <1>1, <1>3, CommitTyped
<1>5. retracts' \in 0..MaxRetracts /\ withdrawn' \in 0..MaxWithdrawn
  <2>1. /\ retracts \in 0..MaxRetracts /\ withdrawn \in 0..MaxWithdrawn
        /\ MaxRetracts \in Nat /\ MaxWithdrawn \in Nat
    BY <1>1, ReconcileAssumption DEF TypeOK
  <2>2. /\ retracts' = retracts \/ (retracts < MaxRetracts /\ retracts' = retracts + 1)
        /\ withdrawn' = withdrawn \/ (withdrawn < MaxWithdrawn /\ withdrawn' = withdrawn + 1)
    BY DEF EngineResolve, RetractClaim, RetractEntry
  <2> QED BY <2>1, <2>2
<1>6. TypeOK'
  BY <1>1, <1>2, <1>4, <1>5 DEF TypeOK
<1>7. Processes'
  BY <1>1, <1>2, ProcsStay
<1> QED
  BY <1>6, <1>7

--------------------------------------------------------------------------------
(* The theorems *)

\* The invariant holds of the empty store.
LEMMA InitTable ==
    ASSUME Init
    PROVE  TableInv /\ Reached(row, 0)
<1>1. row = <<>> /\ row \in Seq(Particle) /\ DOMAIN row = {} /\ Len(row) = 0
  BY DEF Init
<1>2. Table(row) /\ Reached(row, 0)
  BY <1>1 DEF Table, Named, Holds, Single, Minted, Reached
<1>3. TypeOK
  <2>1. /\ {MaxRows, MaxRetracts, MaxWithdrawn} \subseteq Nat
    BY ReconcileAssumption
  <2>2. row \in Seq(Particle) /\ Len(row) <= MaxRows
    BY <1>1, <2>1
  <2>3. /\ pc \in [Proc -> {"idle", "load", "probe", "apply", "search", "write", "check"}]
        /\ wr \in [Writer -> Gathered \cup {NoGather}]
        /\ rv \in [Reviewer -> Reviewed \cup {NoReview}]
        /\ changed \in [Writer \cup Releaser -> SUBSET Id]
    BY DEF Init
  <2>4. rl \in [Releaser -> Selection]
    BY DEF Init, NoPass, Selection
  <2>5. retracts \in 0..MaxRetracts /\ withdrawn \in 0..MaxWithdrawn
    BY <2>1 DEF Init
  <2> QED BY <2>2, <2>3, <2>4, <2>5 DEF TypeOK
<1>4. Processes
  BY DEF Init, Processes, Proc
<1> QED
  BY <1>2, <1>3, <1>4 DEF TableInv

\* Every step preserves the invariant.
LEMMA TableStep ==
    ASSUME TableInv, [Next]_vars
    PROVE  TableInv' /\ RowsMove /\ RowsEnter
<1>1. RowsMove /\ RowsEnter
  BY RowStep
<1>2. CASE UNCHANGED vars
  <2>1. TypeOK'
    BY <1>2 DEF TableInv, TypeOK, vars
  <2>2. Processes'
    BY <1>2 DEF TableInv, Processes, vars
  <2> QED BY <2>1, <2>2, <1>1 DEF TableInv, RowsMove
<1>3. CASE Next
  <2>1. TypeOK' /\ Processes'
    BY <1>1, <1>3, WriterGathers, WriterDone, ReviewerReads, ReviewerDone, ReleaserLoads,
       ReleaserDone, NoProcess DEF Next
  <2> QED BY <2>1, <1>1 DEF TableInv, RowsMove
<1> QED
  BY <1>1, <1>2, <1>3

\* The inductive invariant of the table.
THEOREM TableHolds == Spec => []TableInv
<1>1. Init => TableInv
  BY InitTable
<1>2. TableInv /\ [Next]_vars => TableInv'
  BY TableStep
<1> QED
  BY <1>1, <1>2, PTL DEF Spec

\* Every row, gather, review in hand and journal entry is what the model says it
\* is, however the writers, the reviewers and the passes interleave.
THEOREM ReconcileTyped == Spec => []TypeOK
<1>1. TableInv => TypeOK
  BY DEF TableInv
<1> QED
  BY <1>1, TableHolds, PTL

\* A claim stands at most once, ACTIVE or held, for any number of racing
\* assertions, reviews and releases (apply_reconcile reads the rungs again).
THEOREM ClaimsStandOnce == Spec => []OneStanding
<1>1. TableInv => OneStanding
  BY DEF TableInv, Table, Single, Standing, OneStanding
<1> QED
  BY <1>1, TableHolds, PTL

\* A held claim has at most one successor, for any number of reviewers at a local
\* CLI and release passes (promote_quarantined, validate_transition).
THEOREM MintedOnce == Spec => []OneSuccessor
<1>1. TableInv => OneSuccessor
  BY DEF TableInv, Table, Minted, OneSuccessor
<1> QED
  BY <1>1, TableHolds, PTL

\* History is append-only, whatever a stale reviewer believed of the rows it
\* writes (validate_transition).
THEOREM HistoryIsKept == Spec => HistoryStands
<1>1. TableInv /\ [Next]_vars =>
        [\A i \in DOMAIN row :
            /\ i \in DOMAIN row' /\ row'[i].text = row[i].text
            /\ Terminal(row[i]) => row'[i].status = row[i].status
            /\ IsActive(row'[i]) => IsActive(row[i])]_vars
  BY TableStep DEF RowsMove, Grows
<1> QED
  BY <1>1, TableHolds, PTL DEF Spec, HistoryStands

\* A claim that was judged becomes ACTIVE again only out of a hold that was
\* released, for any number of racing writers (_hold_retired_reassertion).
THEOREM JudgmentsHold == Spec => ReassertionIsReviewed
<1>1. TableInv /\ [Next]_vars =>
        [\A i \in Id : Enters(i) /\ JudgedTwin(row, row'[i].text) # 0
            /\ ActiveTwin(row, row'[i].text) = 0 =>
               row'[i].sup # 0 /\ \A w \in Writer : ~Ended(w)]_vars
  BY TableStep DEF RowsEnter, Vouched
<1> QED
  BY <1>1, TableHolds, PTL DEF Spec, ReassertionIsReviewed

\* Where no corpus entry is retracted, the held claims and the open records match
\* one to one, for any number of local reviewers with stale readings, release
\* passes and cascades (plan_quarantine, hold_behind, resolve, _release).
THEOREM HoldsMatchRecords == MaxWithdrawn = 0 => (Spec => []RecordMatchesHold)
<1> SUFFICES ASSUME MaxWithdrawn = 0 PROVE Spec => []RecordMatchesHold
  OBVIOUS
<1> DEFINE Inv == TableInv /\ Reached(row, 0)
<1>1. Init => Inv
  BY InitTable
<1>2. Inv /\ [Next]_vars => Inv'
  BY TableStep DEF RowsMove
<1>3. Inv => RecordMatchesHold
  <2> SUFFICES ASSUME Inv PROVE RecordMatchesHold
    OBVIOUS
  <2>1. 0 \notin DOMAIN row
    BY RowsAreIds DEF TableInv
  <2> QED BY <2>1 DEF TableInv, Table, Holds, Reached, RecordMatchesHold
<1> QED
  BY <1>1, <1>2, <1>3, PTL DEF Spec

--------------------------------------------------------------------------------
(* What the journal promises the searches under the lock *)

\* The ACTIVE claims near the held claim of record r, its members left out.
Rivals(rows, r) ==
    Near(rows, rows[rows[r].b].text, Id \ {rows[r].a, rows[r].b, r})

\* Of two claims near t, m is the one a search finds before n.
Beats(rows, t, m, n) ==
    \/ Sim[t][rows[n].text] < Sim[t][rows[m].text]
    \/ Sim[t][rows[n].text] = Sim[t][rows[m].text] /\ m <= n

\* What the selection v of a release pass still says, and the journal since: every
\* rival was loaded or is journaled, and of the loaded claims a nearest was asked.
Selected(rows, v, since) ==
    LET t == rows[rows[v.rec].b].text
        members == {rows[v.rec].a, rows[v.rec].b, v.rec}
    IN
    /\ v.out = members \cup {0} /\ v.known \cup v.asked \subseteq DOMAIN rows
    /\ Rivals(rows, v.rec) \subseteq v.known \cup since
    /\ \A n \in v.known \ members : Sim[t][rows[n].text] > 0 =>
          \E m \in v.asked \ members : rows[m].kind = "claim" /\ Beats(rows, t, m, n)

\* Whatever is near now was near when the process looked, or the journal names it.
Journaled ==
    /\ \A w \in Writer : pc[w] \in {"probe", "apply"} /\ wr[w].searched =>
          Near(row, wr[w].text, Id) \subseteq wr[w].hood \cup changed[w]
    /\ \A x \in Releaser : pc[x] = "check" /\ StillOpen(rl[x].rec) =>
          Selected(row, rl[x], changed[x])

\* Finitely many values have a bound.
LEMMA Bounded ==
    ASSUME NEW n \in Nat, NEW v \in [1..n -> Nat]
    PROVE  \E m \in Nat : \A i \in 1..n : v[i] <= m
<1> DEFINE Less == {x \in Nat \X Nat : x[1] < x[2]}
           P(k) == \E m \in Nat : \A i \in 1..k : v[i] <= m
           B == {k \in Nat : k <= n /\ ~P(k)}
<1>1. IsWellFoundedOn(Less, Nat)
  BY NatLessThanWellFounded, Zenon DEF OpToRel
<1>2. P(0)
  <2>1. \A i \in 1..0 : v[i] <= 0
    OBVIOUS
  <2> QED BY <2>1
<1>3. ASSUME NEW k \in Nat, k < n, P(k) PROVE P(k + 1)
  <2>1. PICK m \in Nat : \A i \in 1..k : v[i] <= m
    BY <1>3
  <2>2. v[k + 1] \in Nat
    BY <1>3
  <2>3. \A i \in 1..(k + 1) : v[i] \in Nat /\ (i \in 1..k \/ i = k + 1)
    BY <1>3
  <2>4. \A i \in 1..(k + 1) : v[i] <= m + v[k + 1]
    BY <2>1, <2>2, <2>3
  <2>5. m + v[k + 1] \in Nat
    BY <2>2
  <2> QED BY <2>4, <2>5
<1> HIDE DEF P
<1>4. B = {}
  <2> SUFFICES ASSUME B # {} PROVE FALSE
    OBVIOUS
  <2>1. B \subseteq Nat
    OBVIOUS
  <2>2. PICK k \in B : \A j \in B : ~(<<j, k>> \in Less)
    <3> HIDE DEF Less, B
    <3> QED BY <1>1, <2>1, WFMin
  <2>3. k \in Nat /\ k <= n /\ ~P(k)
    OBVIOUS
  <2>4. k # 0
    BY <2>3, <1>2
  <2>5. k - 1 \in Nat /\ k - 1 < n /\ k - 1 < k /\ (k - 1) + 1 = k
    BY <2>3, <2>4
  <2>6. ~P(k - 1)
    BY <2>3, <2>5, <1>3
  <2>7. k - 1 \in B
    BY <2>5, <2>6
  <2>8. <<k - 1, k>> \in Less
    BY <2>3, <2>5
  <2> QED BY <2>2, <2>7, <2>8
<1>5. P(n)
  BY <1>4
<1> QED
  BY <1>5 DEF P

\* Of some of finitely many values one is the greatest.
LEMMA Greatest ==
    ASSUME NEW n \in Nat, NEW v \in [1..n -> Nat], NEW S \in SUBSET (1..n), S # {}
    PROVE  \E i \in S : \A j \in S : v[j] <= v[i]
<1> DEFINE Less == {x \in Nat \X Nat : x[1] < x[2]}
           U == {m \in Nat : \A j \in S : v[j] <= m}
<1>1. IsWellFoundedOn(Less, Nat)
  BY NatLessThanWellFounded, Zenon DEF OpToRel
<1>2. PICK top \in Nat : \A i \in 1..n : v[i] <= top
  BY Bounded
<1>3. U \subseteq Nat /\ U # {}
  <2>1. top \in U
    BY <1>2
  <2> QED BY <2>1
<1>4. PICK m \in U : \A k \in U : ~(<<k, m>> \in Less)
  <2> HIDE DEF Less, U
  <2> QED BY <1>1, <1>3, WFMin
<1>5. m \in Nat /\ \A j \in S : v[j] \in Nat /\ v[j] <= m
  OBVIOUS
<1>6. \E i \in S : v[i] = m
  <2> SUFFICES ASSUME \A i \in S : v[i] # m PROVE FALSE
    OBVIOUS
  <2>1. \A i \in S : v[i] < m
    BY <1>5
  <2>2. PICK some \in S : v[some] \in Nat /\ v[some] < m
    BY <1>5, <2>1
  <2>3. m # 0
    BY <1>5, <2>2
  <2>4. m - 1 \in Nat /\ m - 1 < m
    BY <1>5, <2>3
  <2>5. \A i \in S : v[i] <= m - 1
    BY <1>5, <2>1
  <2>6. m - 1 \in U
    BY <2>4, <2>5
  <2>7. <<m - 1, m>> \in Less
    BY <1>5, <2>4
  <2> QED BY <1>4, <2>6, <2>7
<1> QED
  BY <1>5, <1>6

\* A search that finds nothing leaves nothing near.
LEMMA NothingNear ==
    ASSUME NEW rows \in Seq(Particle), NEW t \in Text, NEW ids, Nearest(rows, t, ids) = 0
    PROVE  Near(rows, t, ids) = {}
<1> DEFINE near == Near(rows, t, ids)
           n == Len(rows)
           v == [i \in 1..n |-> Sim[t][rows[i].text]]
           best == {i \in near : \A j \in near : Sim[t][rows[j].text] <= Sim[t][rows[i].text]}
<1> SUFFICES ASSUME near # {} PROVE FALSE
  OBVIOUS
<1>1. n \in Nat /\ DOMAIN rows = 1..n /\ \A i \in 1..n : rows[i] \in Particle
  OBVIOUS
<1>2. \A i \in 1..n : rows[i].text \in Text
  BY <1>1 DEF Particle
<1>3. \A u \in Text : Sim[t][u] \in Nat
  BY ReconcileAssumption
<1>4. v \in [1..n -> Nat]
  BY <1>2, <1>3
<1>5. near \in SUBSET (1..n)
  BY <1>1 DEF Near
<1>6. \A i \in 1..n : v[i] = Sim[t][rows[i].text]
  OBVIOUS
<1>7. Nearest(rows, t, ids) = First(best)
  BY DEF Nearest
<1> HIDE DEF v, near, n
<1>8. PICK i \in near : \A j \in near : v[j] <= v[i]
  BY <1>1, <1>4, <1>5, Greatest
<1>9. i \in best
  BY <1>5, <1>6, <1>8
<1>10. best \subseteq Nat \ {0}
  <2>1. best \subseteq near
    OBVIOUS
  <2> HIDE DEF best
  <2> QED BY <2>1, <1>1, <1>5
<1> HIDE DEF best
<1>11. First(best) # 0
  BY <1>9, <1>10, FirstIn
<1> QED
  BY <1>7, <1>11

\* A stored row is a claim on some text.
LEMMA TextsTyped ==
    ASSUME NEW rows \in Seq(Particle)
    PROVE  \A j \in DOMAIN rows : rows[j].text \in Text
<1>1. \A j \in DOMAIN rows : rows[j] \in Particle
  OBVIOUS
<1> QED
  BY <1>1 DEF Particle

\* What a search finds comes before everything else near.
LEMMA NearestBeats ==
    ASSUME NEW rows \in Seq(Particle), NEW t \in Text, NEW ids, Nearest(rows, t, ids) # 0
    PROVE  /\ Nearest(rows, t, ids) \in Near(rows, t, ids)
           /\ \A j \in Near(rows, t, ids) : Beats(rows, t, Nearest(rows, t, ids), j)
<1> DEFINE near == Near(rows, t, ids)
           best == {i \in near : \A j \in near : Sim[t][rows[j].text] <= Sim[t][rows[i].text]}
           n == First(best)
<1>1. near \subseteq DOMAIN rows /\ DOMAIN rows \subseteq Nat \ {0}
  BY DEF Near
<1>2. Nearest(rows, t, ids) = n
  BY DEF Nearest
<1>3. \A j \in DOMAIN rows : Sim[t][rows[j].text] \in Nat
  <2>1. \A j \in DOMAIN rows : rows[j].text \in Text
    BY TextsTyped
  <2> QED BY <2>1, ReconcileAssumption
<1> HIDE DEF near
<1>4. best \subseteq Nat \ {0}
  BY <1>1
<1>5. best # {}
  <2> HIDE DEF best
  <2> QED BY <1>2, <1>4, FirstIn
<1>6. n \in best /\ \A j \in best : n <= j
  <2> HIDE DEF best
  <2> QED BY <1>4, <1>5, FirstLeast
<1> HIDE DEF n
<1>7. ASSUME NEW j \in near PROVE Beats(rows, t, n, j)
  <2>1. n \in near /\ Sim[t][rows[j].text] <= Sim[t][rows[n].text]
    BY <1>6
  <2>2. Sim[t][rows[j].text] \in Nat /\ Sim[t][rows[n].text] \in Nat
    BY <1>1, <1>3, <2>1
  <2>3. CASE Sim[t][rows[j].text] = Sim[t][rows[n].text]
    <3>1. j \in best
      BY <1>6, <2>3
    <3> QED BY <3>1, <1>6, <2>3 DEF Beats
  <2>4. CASE Sim[t][rows[j].text] # Sim[t][rows[n].text]
    BY <2>1, <2>2, <2>4 DEF Beats
  <2> QED BY <2>3, <2>4
<1> QED
  BY <1>2, <1>6, <1>7 DEF near

\* And what comes before everything else near is what a search finds.
LEMMA BeatsAll ==
    ASSUME NEW rows \in Seq(Particle), NEW t \in Text, NEW ids, NEW n \in Near(rows, t, ids),
           \A j \in Near(rows, t, ids) : Beats(rows, t, n, j)
    PROVE  Nearest(rows, t, ids) = n
<1> DEFINE m == Nearest(rows, t, ids)
<1>1. m # 0
  BY NothingNear
<1>2. m \in Near(rows, t, ids) /\ Beats(rows, t, m, n) /\ Beats(rows, t, n, m)
  BY <1>1, NearestBeats
<1>3. m \in DOMAIN rows /\ n \in DOMAIN rows
  BY <1>2 DEF Near
<1>4. Sim[t][rows[m].text] \in Nat /\ Sim[t][rows[n].text] \in Nat
  <2>1. rows[m].text \in Text /\ rows[n].text \in Text
    BY <1>3, TextsTyped
  <2> QED BY <2>1, ReconcileAssumption
<1> HIDE DEF m
<1>5. m \in Nat /\ n \in Nat
  BY <1>3
<1> QED
  BY <1>2, <1>4, <1>5 DEF Beats, m

\* A search of the ids that hold everything near is a search of the table.
LEMMA SameSearch ==
    ASSUME NEW rows, NEW t, NEW ids, NEW all,
           Near(rows, t, all) \subseteq ids, ids \cap DOMAIN rows \subseteq all
    PROVE  Nearest(rows, t, ids) = Nearest(rows, t, all)
<1>1. Near(rows, t, ids) = Near(rows, t, all)
  BY DEF Near
<1> QED
  BY <1>1 DEF Nearest

\* A write moves what is near into the journal.
LEMMA NearThenOrTouched ==
    ASSUME NEW rows, Commit(rows), NEW p \in Writer \cup Releaser, pc'[p] # "idle",
           NEW t, NEW ids, NEW j \in Near(row', t, ids)
    PROVE  j \in Near(row, t, ids) \/ j \in changed'[p]
<1>1. row' = rows
  BY DEF Commit
<1>2. j \in ids /\ j \in DOMAIN row' /\ IsActive(row'[j]) /\ Sim[t][row'[j].text] > 0
  BY DEF Near
<1>3. CASE j \in DOMAIN row /\ row'[j] = row[j]
  BY <1>2, <1>3 DEF Near
<1>4. CASE ~(j \in DOMAIN row /\ row'[j] = row[j])
  <2> DEFINE touched == {i \in DOMAIN rows : i \notin DOMAIN row \/ rows[i] # row[i]}
  <2>1. changed'[p] = changed[p] \cup touched
    BY DEF Commit
  <2>2. j \in touched
    BY <1>1, <1>2, <1>4
  <2> QED BY <2>1, <2>2
<1> QED
  BY <1>3, <1>4

\* A journal entry is forgotten only when its process ends.
LEMMA JournalGrows ==
    ASSUME NEW rows, Commit(rows), NEW p \in Writer \cup Releaser, pc'[p] # "idle"
    PROVE  changed[p] \subseteq changed'[p]
BY DEF Commit

\* A record in hand names the same claims after every write.
LEMMA SameRivals ==
    ASSUME Table(row), Grows(row, row'), NEW r \in DOMAIN row, row[r].kind = "record"
    PROVE  /\ row'[r].a = row[r].a /\ row'[r].b = row[r].b
           /\ row'[row'[r].b].text = row[row[r].b].text
           /\ IsOpen(row'[r]) => IsOpen(row[r])
           /\ IsHeld(row'[row'[r].b]) => IsHeld(row[row[r].b])
BY DEF Grows, Table, Named

\* A selection and the journal still say what they said after a write.
LEMMA SelectionStays ==
    ASSUME Table(row), Grows(row, row'), NEW v, v.rec \in DOMAIN row, row[v.rec].kind = "record",
           NEW since, Selected(row, v, since), NEW later, since \subseteq later,
           Rivals(row', v.rec) \subseteq Rivals(row, v.rec) \cup later
    PROVE  Selected(row', v, later)
<1> DEFINE r == v.rec
           t == row[row[r].b].text
           members == {row[r].a, row[r].b, r}
<1>1. /\ row'[r].a = row[r].a /\ row'[r].b = row[r].b
      /\ row'[row'[r].b].text = t
  BY SameRivals
<1>2. \A i \in DOMAIN row : i \in DOMAIN row' /\ row'[i].kind = row[i].kind /\ row'[i].text = row[i].text
  BY DEF Grows
<1>3. v.out = members \cup {0} /\ v.known \cup v.asked \subseteq DOMAIN row'
  BY <1>2 DEF Selected
<1>4. Rivals(row', r) \subseteq v.known \cup later
  BY DEF Selected
<1>5. ASSUME NEW n \in v.known \ members, Sim[t][row'[n].text] > 0
      PROVE  \E m \in v.asked \ members : row'[m].kind = "claim" /\ Beats(row', t, m, n)
  <2>1. n \in DOMAIN row /\ row'[n].text = row[n].text
    BY <1>2 DEF Selected
  <2>2. PICK m \in v.asked \ members : row[m].kind = "claim" /\ Beats(row, t, m, n)
    BY <1>5, <2>1 DEF Selected
  <2>3. m \in DOMAIN row
    BY <2>2 DEF Selected
  <2>4. row'[m].kind = "claim" /\ Beats(row', t, m, n)
    BY <1>2, <2>1, <2>2, <2>3 DEF Beats
  <2> QED BY <2>4
<1> HIDE DEF t
<1> QED
  BY <1>1, <1>3, <1>4, <1>5 DEF Selected

\* A process a commit does not start keeps what the journal promises.
LEMMA JournalKeeps ==
    ASSUME TableInv, RowsMove, Journaled, NEW rows, Commit(rows),
           \A w \in Writer : pc'[w] # "idle" => pc'[w] = pc[w] /\ wr'[w] = wr[w],
           \A x \in Releaser : pc'[x] # "idle" => pc'[x] = pc[x] /\ rl'[x] = rl[x]
    PROVE  Journaled'
<1>1. ASSUME NEW w \in Writer, pc'[w] \in {"probe", "apply"}, wr'[w].searched
      PROVE  Near(row', wr'[w].text, Id) \subseteq wr'[w].hood \cup changed'[w]
  <2>1. pc'[w] # "idle" /\ pc'[w] = pc[w] /\ wr'[w] = wr[w]
    BY <1>1
  <2>2. Near(row, wr[w].text, Id) \subseteq wr[w].hood \cup changed[w]
    BY <1>1, <2>1 DEF Journaled
  <2>3. changed[w] \subseteq changed'[w]
    BY <2>1, JournalGrows
  <2> SUFFICES ASSUME NEW j \in Near(row', wr[w].text, Id)
               PROVE  j \in wr[w].hood \cup changed'[w]
    BY <2>1
  <2>4. j \in Near(row, wr[w].text, Id) \/ j \in changed'[w]
    BY <2>1, NearThenOrTouched
  <2> QED BY <2>2, <2>3, <2>4
<1>2. ASSUME NEW x \in Releaser, pc'[x] = "check",
             IsOpen(row'[rl'[x].rec]), IsHeld(row'[row'[rl'[x].rec].b])
      PROVE  Selected(row', rl'[x], changed'[x])
  <2> DEFINE r == rl[x].rec
             t == row[row[r].b].text
             ids == Id \ {row[r].a, row[r].b, r}
  <2>1. pc'[x] # "idle" /\ pc[x] = "check" /\ rl'[x] = rl[x]
    BY <1>2
  <2>2. r \in DOMAIN row /\ row[r].kind = "record" /\ Table(row) /\ Grows(row, row')
    BY <2>1 DEF TableInv, Processes, RowsMove
  <2>3. /\ row'[r].a = row[r].a /\ row'[r].b = row[r].b
        /\ row'[row'[r].b].text = row[row[r].b].text
        /\ IsOpen(row'[r]) => IsOpen(row[r])
        /\ IsHeld(row'[row'[r].b]) => IsHeld(row[row[r].b])
    BY <2>2, SameRivals
  <2>4. StillOpen(r)
    BY <1>2, <2>1, <2>3 DEF StillOpen
  <2>5. Selected(row, rl[x], changed[x])
    BY <2>1, <2>4 DEF Journaled
  <2>6. Rivals(row, r) = Near(row, t, ids) /\ Rivals(row', r) = Near(row', t, ids)
    BY <2>3 DEF Rivals
  <2>7. changed[x] \subseteq changed'[x]
    BY <2>1, JournalGrows
  <2>8. Rivals(row', r) \subseteq Rivals(row, r) \cup changed'[x]
    <3> HIDE DEF t, ids
    <3>1. ASSUME NEW j \in Near(row', t, ids) PROVE j \in Near(row, t, ids) \cup changed'[x]
      BY <2>1, NearThenOrTouched
    <3> QED BY <2>6, <3>1
  <2>9. Selected(row', rl[x], changed'[x])
    BY <2>2, <2>5, <2>7, <2>8, SelectionStays
  <2> QED BY <2>1, <2>9
<1> QED
  BY <1>1, <1>2 DEF Journaled, StillOpen

\* A read moves no row: only the process p that makes it has something to show.
LEMMA JournalReads ==
    ASSUME Journaled, row' = row, changed' = changed, NEW p,
           \A w \in Writer : w # p => pc'[w] = pc[w] /\ wr'[w] = wr[w],
           \A x \in Releaser : x # p => pc'[x] = pc[x] /\ rl'[x] = rl[x],
           p \in Writer /\ pc'[p] \in {"probe", "apply"} /\ wr'[p].searched =>
              Near(row, wr'[p].text, Id) \subseteq wr'[p].hood \cup changed[p],
           p \in Releaser /\ pc'[p] = "check" /\ StillOpen(rl'[p].rec) =>
              Selected(row, rl'[p], changed[p])
    PROVE  Journaled'
<1>1. ASSUME NEW w \in Writer, pc'[w] \in {"probe", "apply"}, wr'[w].searched
      PROVE  Near(row', wr'[w].text, Id) \subseteq wr'[w].hood \cup changed'[w]
  BY <1>1 DEF Journaled
<1>2. ASSUME NEW x \in Releaser, pc'[x] = "check",
             IsOpen(row'[rl'[x].rec]), IsHeld(row'[row'[rl'[x].rec].b])
      PROVE  Selected(row', rl'[x], changed'[x])
  BY <1>2 DEF Journaled, StillOpen
<1> QED
  BY <1>1, <1>2 DEF Journaled, StillOpen

\* A held claim has no ACTIVE twin.
LEMMA HeldHasNoTwin ==
    ASSUME NEW rows, Table(rows), NEW b \in DOMAIN rows, IsHeld(rows[b])
    PROVE  ActiveTwin(rows, rows[b].text) = 0
<1> DEFINE t == rows[b].text
           A == {i \in Restated(rows, t) : IsActive(rows[i])}
<1>1. A = {}
  BY DEF Table, Single, Standing, Restated, IsActive, IsHeld
<1> QED
  BY <1>1 DEF ActiveTwin, First

\* The gather and the load see everything that is near.
LEMMA GatherJournaled ==
    ASSUME TableInv, Journaled, NEW w \in Writer,
           (\E t \in Text, s \in Source : Ask(w, t, s)) \/ Load(w) \/ Probe(w)
    PROVE  Journaled'
<1>1. /\ pc \in [Proc -> Places] /\ wr \in [Writer -> Gathered \cup {NoGather}] /\ w \in Proc
      /\ Writer \subseteq Proc /\ Releaser \subseteq Proc /\ w \notin Releaser
  BY ReconcileAssumption DEF TableInv, TypeOK, Places, Proc
<1>2. row' = row /\ changed' = changed /\ rl' = rl
  BY DEF Ask, Load, Probe
<1>3. PICK g, z : wr' = [wr EXCEPT ![w] = g] /\ pc' = [pc EXCEPT ![w] = z]
  BY DEF Ask, Load, Probe
<1>4. /\ \A v \in Writer : v # w => pc'[v] = pc[v] /\ wr'[v] = wr[v]
      /\ \A x \in Releaser : x # w => pc'[x] = pc[x] /\ rl'[x] = rl[x]
  BY <1>1, <1>2, <1>3
<1>5. ASSUME pc'[w] \in {"probe", "apply"}, wr'[w].searched
      PROVE  Near(row, wr'[w].text, Id) \subseteq wr'[w].hood \cup changed[w]
  <2>1. ASSUME NEW t \in Text, NEW s \in Source, Ask(w, t, s) PROVE FALSE
    <3> DEFINE settled == ActiveTwin(row, t) # 0 \/ RetiredTwin(row, t) # 0
    <3>1. wr'[w].searched = ~settled
      BY <1>1, <2>1 DEF Ask
    <3>2. pc'[w] = IF settled THEN "apply" ELSE "load"
      BY <1>1, <2>1 DEF Ask
    <3> HIDE DEF settled
    <3> QED BY <1>5, <3>1, <3>2
  <2>2. ASSUME Load(w)
        PROVE  Near(row, wr'[w].text, Id) \subseteq wr'[w].hood \cup changed[w]
    <3>1. wr[w] \in Gathered
      BY <2>2 DEF TableInv, Processes, Load
    <3>2. wr'[w].text = wr[w].text /\ wr'[w].hood = Near(row, wr[w].text, Id)
      BY <1>1, <2>2, <3>1 DEF Load, Gathered
    <3> QED BY <3>2
  <2>3. ASSUME Probe(w)
        PROVE  Near(row, wr'[w].text, Id) \subseteq wr'[w].hood \cup changed[w]
    <3>1. wr[w] \in Gathered /\ pc[w] = "probe"
      BY <2>3 DEF TableInv, Processes, Probe
    <3>2. wr'[w].text = wr[w].text /\ wr'[w].hood = wr[w].hood /\ wr'[w].searched = wr[w].searched
      BY <1>1, <2>3, <3>1 DEF Probe, Gathered
    <3> QED BY <1>5, <3>1, <3>2 DEF Journaled
  <2> QED BY <2>1, <2>2, <2>3
<1> QED
  BY <1>1, <1>2, <1>4, <1>5, JournalReads

\* So does the release pass when it loads the pairs to ask about.
LEMMA LoadJournaled ==
    ASSUME TableInv, Journaled, NEW x \in Releaser,
           (\E r \in DOMAIN row : ReleaseTake(x, r)) \/ ReleaseLoad(x)
    PROVE  Journaled'
<1>1. /\ pc \in [Proc -> Places] /\ rl \in [Releaser -> Selection]
      /\ x \in Proc /\ Writer \subseteq Proc /\ Releaser \subseteq Proc /\ x \notin Writer
      /\ Table(row)
  BY ReconcileAssumption DEF TableInv, TypeOK, Places, Proc
<1>2. row' = row /\ changed' = changed /\ wr' = wr
  BY DEF ReleaseTake, ReleaseLoad
<1>3. PICK v, z : rl' = [rl EXCEPT ![x] = v] /\ pc' = [pc EXCEPT ![x] = z]
  BY DEF ReleaseTake, ReleaseLoad
<1>4. /\ \A w \in Writer : w # x => pc'[w] = pc[w] /\ wr'[w] = wr[w]
      /\ \A y \in Releaser : y # x => pc'[y] = pc[y] /\ rl'[y] = rl[y]
  BY <1>1, <1>2, <1>3
<1>5. ASSUME pc'[x] = "check", StillOpen(rl'[x].rec)
      PROVE  Selected(row, rl'[x], changed[x])
  <2>1. ReleaseLoad(x)
    BY <1>1, <1>5 DEF ReleaseTake
  <2> DEFINE r == rl[x].rec
             b == row[r].b
             t == row[b].text
             members == {row[r].a, b, r}
             out == {row[r].a, b, r, ActiveTwin(row, t)}
             known == {i \in DOMAIN row : IsActive(row[i])}
  <2>2. PICK S \in Selections(t, Id \ out) :
           rl' = [rl EXCEPT ![x] = [rec |-> r, out |-> out, asked |-> S, known |-> known]]
    BY <2>1 DEF ReleaseLoad
  <2>3. rl'[x] = [rec |-> r, out |-> out, asked |-> S, known |-> known]
    BY <1>1, <2>2
  <2>4. r \in DOMAIN row /\ row[r].kind = "record"
    BY <2>1 DEF TableInv, Processes, ReleaseLoad
  <2>5. b \in DOMAIN row /\ IsHeld(row[b])
    BY <1>1, <1>5, <2>3, <2>4 DEF Table, Named, StillOpen
  <2>6. ActiveTwin(row, t) = 0
    BY <1>1, <2>5, HeldHasNoTwin
  <2>7. 0 \notin Id /\ row \in Seq(Particle) /\ DOMAIN row \subseteq Id
    BY RowsAreIds DEF TableInv, Id
  <2>8. out = members \cup {0} /\ Id \ out = Id \ members
    BY <2>6, <2>7
  <2>9. t \in Text
    BY <2>5, <2>7, TextsTyped
  <2>10. /\ S \subseteq DOMAIN row /\ \A i \in S : IsActive(row[i]) /\ i \notin members
         /\ Nearest(row, t, Id \ members) \in {0} \cup S
    BY <2>8 DEF Selections
  <2>11. Rivals(row, r) \subseteq known
    BY DEF Rivals, Near
  <2> HIDE DEF t
  <2>12. ASSUME NEW n \in known \ members, Sim[t][row[n].text] > 0
         PROVE  \E m \in S \ members : row[m].kind = "claim" /\ Beats(row, t, m, n)
    <3> DEFINE m == Nearest(row, t, Id \ members)
    <3> HIDE DEF members
    <3>1. n \in Near(row, t, Id \ members)
      BY <2>7, <2>12 DEF Near
    <3>2. m # 0
      BY <2>7, <2>9, <3>1, NothingNear
    <3>3. Beats(row, t, m, n)
      BY <2>7, <2>9, <3>1, <3>2, NearestBeats
    <3>4. m \in S \ members
      BY <2>10, <3>2
    <3>5. row[m].kind = "claim"
      BY <2>10, <3>4 DEF IsActive
    <3> QED BY <3>3, <3>4, <3>5
  <2>13. known \cup S \subseteq DOMAIN row
    BY <2>10
  <2>14. /\ rl'[x].rec = r /\ rl'[x].out = out /\ rl'[x].asked = S /\ rl'[x].known = known
    BY <2>3
  <2> DEFINE sel == rl'[x]
  <2> HIDE DEF known, out, sel
  <2>15. Selected(row, sel, changed[x])
    BY <2>14, <2>8, <2>11, <2>12, <2>13 DEF Selected, t, sel
  <2> QED BY <2>15 DEF sel
<1> QED
  BY <1>1, <1>2, <1>4, <1>5, JournalReads

\* Every step keeps what the journal promises.
LEMMA JournalStep ==
    ASSUME TableInv, Journaled, [Next]_vars
    PROVE  Journaled'
<1>1. RowsMove
  BY TableStep
<1>2. /\ pc \in [Proc -> Places] /\ wr \in [Writer -> Gathered \cup {NoGather}]
      /\ rl \in [Releaser -> Selection]
      /\ Writer \subseteq Proc /\ Releaser \subseteq Proc /\ Reviewer \subseteq Proc
      /\ Writer \cap Reviewer = {} /\ Writer \cap Releaser = {} /\ Reviewer \cap Releaser = {}
  BY ReconcileAssumption DEF TableInv, TypeOK, Places, Proc
<1>3. CASE UNCHANGED vars
  <2>1. row' = row /\ changed' = changed /\ pc' = pc /\ wr' = wr /\ rl' = rl
    BY <1>3 DEF vars
  <2> QED BY <2>1 DEF Journaled, StillOpen
<1>4. ASSUME NEW w \in Writer,
             (\E t \in Text, s \in Source : Ask(w, t, s)) \/ Load(w) \/ Probe(w)
      PROVE  Journaled'
  BY <1>4, GatherJournaled
<1>5. ASSUME NEW w \in Writer,
             ApplySettled(w) \/ \E whole \in BOOLEAN : ApplySearched(w, whole)
      PROVE  Journaled'
  <2>1. /\ rl' = rl /\ pc' = [pc EXCEPT ![w] = "idle"] /\ wr' = [wr EXCEPT ![w] = NoGather]
        /\ \E rows : Commit(rows)
    BY <1>5 DEF ApplySettled, ApplySearched, Done
  <2>2. \A v \in Writer : pc'[v] # "idle" => pc'[v] = pc[v] /\ wr'[v] = wr[v]
    BY <1>2, <2>1
  <2>3. \A x \in Releaser : pc'[x] # "idle" => pc'[x] = pc[x] /\ rl'[x] = rl[x]
    BY <1>2, <2>1
  <2> QED BY <1>1, <2>1, <2>2, <2>3, JournalKeeps
<1>6. ASSUME \/ \E r \in DOMAIN row, act \in Action : EngineResolve(r, act)
             \/ \E i \in DOMAIN row : RetractClaim(i)
             \/ \E s \in Source : RetractEntry(s)
      PROVE  Journaled'
  <2>1. rl' = rl /\ pc' = pc /\ wr' = wr
    BY <1>6 DEF EngineResolve, RetractClaim, RetractEntry
  <2>2. \E rows : Commit(rows)
    BY <1>6 DEF EngineResolve, CommitResolution, RetractClaim, RetractEntry
  <2> QED BY <1>1, <2>1, <2>2, JournalKeeps
<1>7. ASSUME NEW q \in Reviewer,
             (\E r \in DOMAIN row, act \in Action : LocalOpen(q, r, act)) \/ LocalSearch(q)
      PROVE  Journaled'
  <2>1. row' = row /\ changed' = changed /\ wr' = wr /\ rl' = rl /\ \E z : pc' = [pc EXCEPT ![q] = z]
    BY <1>7 DEF LocalOpen, LocalSearch
  <2>2. /\ \A w \in Writer : w # q => pc'[w] = pc[w] /\ wr'[w] = wr[w]
        /\ \A x \in Releaser : x # q => pc'[x] = pc[x] /\ rl'[x] = rl[x]
        /\ q \notin Writer /\ q \notin Releaser
    BY <1>2, <2>1
  <2> QED BY <2>1, <2>2, JournalReads
<1>8. ASSUME NEW q \in Reviewer, LocalWrite(q) PROVE Journaled'
  <2>1. wr' = wr /\ rl' = rl /\ pc' = [pc EXCEPT ![q] = "idle"]
    BY <1>8 DEF LocalWrite
  <2>2. \E rows : Commit(rows)
    BY <1>8 DEF LocalWrite, CommitResolution
  <2>3. /\ \A w \in Writer : pc'[w] # "idle" => pc'[w] = pc[w] /\ wr'[w] = wr[w]
        /\ \A x \in Releaser : pc'[x] # "idle" => pc'[x] = pc[x] /\ rl'[x] = rl[x]
    BY <1>2, <2>1
  <2> QED BY <1>1, <2>2, <2>3, JournalKeeps
<1>9. ASSUME NEW x \in Releaser, (\E r \in DOMAIN row : ReleaseTake(x, r)) \/ ReleaseLoad(x)
      PROVE  Journaled'
  BY <1>9, LoadJournaled
<1>10. ASSUME NEW x \in Releaser,
              ReleaseBlocked(x) \/ \E whole \in BOOLEAN : Release(x, whole)
       PROVE  Journaled'
  <2>1. /\ wr' = wr /\ pc' = [pc EXCEPT ![x] = "idle"] /\ rl' = [rl EXCEPT ![x] = NoPass]
        /\ \E rows : Commit(rows)
    BY <1>10 DEF ReleaseBlocked, Release
  <2>2. /\ \A w \in Writer : pc'[w] # "idle" => pc'[w] = pc[w] /\ wr'[w] = wr[w]
        /\ \A y \in Releaser : pc'[y] # "idle" => pc'[y] = pc[y] /\ rl'[y] = rl[y]
    BY <1>2, <2>1
  <2> QED BY <1>1, <2>1, <2>2, JournalKeeps
<1> QED
  BY <1>3, <1>4, <1>5, <1>6, <1>7, <1>8, <1>9, <1>10 DEF Next

--------------------------------------------------------------------------------
(* What a released claim meets *)

Entering(rows, new, i) ==
    i \in DOMAIN new /\ IsActive(new[i]) /\ ~(i \in DOMAIN rows /\ IsActive(rows[i]))

\* The other ACTIVE claims near row i.
Beside(rows, i) == Near(rows, rows[i].text, Id \ {i})

\* A promoted claim has beside it only the rivals its hold had, and claim A.
LEMMA PromotedBeside ==
    ASSUME NEW rows, Table(rows), NEW r \in DOMAIN rows, IsOpen(rows[r]),
           NEW M, Rivals(rows, r) \subseteq M, NEW i,
           Entering(rows, Append(Set(Closed(rows, r), rows[r].b, "SUPERSEDED", "CONFLICT_RESOLVED"),
                                 Successor(rows, rows[r].b)), i)
    PROVE  LET b == rows[r].b
               new == Append(Set(Closed(rows, r), b, "SUPERSEDED", "CONFLICT_RESOLVED"),
                             Successor(rows, b))
           IN
           /\ new[i].sup = b
           /\ \A j \in Beside(new, i) : j \in M \/ (j = rows[r].a /\ IsActive(rows[j]))
<1> DEFINE b == rows[r].b
           mid == Set(Closed(rows, r), b, "SUPERSEDED", "CONFLICT_RESOLVED")
           p == Successor(rows, b)
           new == Append(mid, p)
           n == Len(mid) + 1
<1>1. /\ Sound(rows, mid) /\ DOMAIN mid = DOMAIN rows /\ mid[b].status = "SUPERSEDED"
      /\ \A k \in DOMAIN rows \ {b, r} : mid[k] = rows[k]
  BY CloseSettled
<1>2. b \in DOMAIN rows /\ IsHeld(rows[b])
  BY OpenNames
<1>3. p \in Particle /\ p.text = rows[b].text /\ p.sup = b
  <2>1. rows[b] \in Particle /\ b \in Nat
    BY <1>2 DEF Table
  <2> QED BY <2>1 DEF Successor, NewClaim, Particle, Status, Reason
<1>4. Entering(rows, new, i)
  OBVIOUS
<1> HIDE DEF mid, p
<1>5. /\ DOMAIN new = DOMAIN mid \cup {n} /\ n \notin DOMAIN mid
      /\ \A k \in DOMAIN mid : new[k] = mid[k]
      /\ new[n] = p
  BY <1>1, <1>3, OneMoreRow DEF Sound, Table
<1> HIDE DEF new, n
<1>6. i = n
  BY <1>1, <1>4, <1>5 DEF Entering, Sound, Grows
<1>7. new[i].sup = b /\ new[i].text = rows[b].text
  BY <1>3, <1>5, <1>6
<1>8. ASSUME NEW j \in Beside(new, i) PROVE j \in M \/ (j = rows[r].a /\ IsActive(rows[j]))
  <2>1. j \in Id /\ j # n /\ j \in DOMAIN new /\ IsActive(new[j]) /\ Sim[rows[b].text][new[j].text] > 0
    BY <1>6, <1>7 DEF Beside, Near
  <2>2. j \in DOMAIN rows /\ IsActive(mid[j]) /\ new[j] = mid[j]
    BY <2>1, <1>1, <1>5
  <2>3. j # b
    BY <2>2, <1>1 DEF IsActive
  <2>4. j # r
    BY <2>2, <1>1 DEF Sound, Grows, IsActive, IsOpen
  <2>5. new[j] = rows[j]
    BY <2>2, <2>3, <2>4, <1>1
  <2>6. CASE j = rows[r].a
    BY <2>6, <2>1, <2>5
  <2>7. CASE j # rows[r].a
    BY <2>1, <2>2, <2>3, <2>4, <2>5, <2>7 DEF Rivals, Near
  <2> QED BY <2>6, <2>7
<1> QED
  BY <1>7, <1>8 DEF new, mid, p

\* A search for the held claim that finds nothing leaves it no rival.
LEMMA NoRivals ==
    ASSUME NEW rows, Table(rows), NEW r \in DOMAIN rows, IsOpen(rows[r]),
           HeldSearch(rows, r) = 0
    PROVE  Rivals(rows, r) = {}
<1> DEFINE b == rows[r].b
           ids == Id \ {rows[r].a, b, r}
<1>1. b \in DOMAIN rows /\ IsHeld(rows[b])
  BY OpenNames
<1>2. ActiveTwin(rows, rows[b].text) = 0
  BY <1>1, HeldHasNoTwin
<1>3. Id \ {rows[r].a, b, r, 0} = ids
  BY DEF Id
<1>4. HeldSearch(rows, r) = Nearest(rows, rows[b].text, ids)
  BY <1>2, <1>3 DEF HeldSearch
<1>5. rows[b].text \in Text /\ rows \in Seq(Particle)
  <2>1. rows[b] \in Particle /\ rows \in Seq(Particle)
    BY <1>1 DEF Table
  <2> QED BY <2>1 DEF Particle
<1>6. Near(rows, rows[b].text, ids) = {}
  <2> HIDE DEF ids
  <2> QED BY <1>4, <1>5, NothingNear
<1> QED
  BY <1>6 DEF Rivals

\* What a promotion after its own search lets in.
LEMMA MovedBeside ==
    ASSUME NEW rows, Table(rows), NEW r \in DOMAIN rows, IsOpen(rows[r]),
           NEW i, Entering(rows, Closed(PromoteOrHold(rows, rows[r].b, HeldSearch(rows, r)), r), i)
    PROVE  LET new == Closed(PromoteOrHold(rows, rows[r].b, HeldSearch(rows, r)), r) IN
           /\ new[i].sup = rows[r].b
           /\ \A j \in Beside(new, i) : j = rows[r].a /\ IsActive(rows[j])
<1> DEFINE b == rows[r].b
           f == HeldSearch(rows, r)
<1>1. Found(rows, f)
  BY HeldSearchFinds DEF Table
<1>2. CASE f = 0
  <2> DEFINE new == Append(Set(Closed(rows, r), b, "SUPERSEDED", "CONFLICT_RESOLVED"),
                           Successor(rows, b))
  <2>1. Closed(PromoteOrHold(rows, b, f), r) = new
    BY <1>2, ClosePromoted
  <2>2. Rivals(rows, r) \subseteq {}
    BY <1>2, NoRivals
  <2>3. Entering(rows, new, i)
    BY <2>1
  <2>4. /\ new[i].sup = b
        /\ \A j \in Beside(new, i) : j \in {} \/ (j = rows[r].a /\ IsActive(rows[j]))
    BY <2>2, <2>3, PromotedBeside, Zenon
  <2> HIDE DEF new
  <2> QED BY <2>1, <2>4
<1>3. CASE f # 0
  <2> DEFINE mid == Closed(rows, r)
             p == NewRecord(rows, f, b, FALSE)
             new == Append(mid, p)
  <2>1. f \in DOMAIN rows /\ rows[f].kind = "claim" /\ ~IsHeld(rows[f])
    BY <1>1, <1>3 DEF Found
  <2>2. Closed(PromoteOrHold(rows, b, f), r) = new
    BY <1>3, <2>1, CloseHeld
  <2>3. Table(mid) /\ Grows(rows, mid) /\ DOMAIN mid = DOMAIN rows
    BY Close
  <2>4. p \in Particle /\ ~IsActive(p)
    <3>1. b \in DOMAIN rows /\ rows \in Seq(Particle)
      BY OpenNames DEF Table
    <3>2. rows[b] \in Particle /\ b \in Nat /\ f \in Nat
      BY <2>1, <3>1
    <3> QED BY <3>2 DEF NewRecord, Particle, Refs, Sole, Status, Reason, IsActive
  <2> HIDE DEF mid, p
  <2>5. /\ DOMAIN new = DOMAIN mid \cup {Len(mid) + 1}
        /\ \A k \in DOMAIN mid : new[k] = mid[k]
        /\ new[Len(mid) + 1] = p
    BY <2>3, <2>4, OneMoreRow DEF Table
  <2> HIDE DEF new
  <2>6. ~Entering(rows, new, i)
    BY <2>3, <2>4, <2>5 DEF Entering, Grows
  <2> QED BY <2>2, <2>6
<1> QED
  BY <1>2, <1>3

\* A step of the cascade lets a claim in only where nothing is beside it.
LEMMA CascadedBeside ==
    ASSUME NEW rows, Table(rows), NEW x \in DOMAIN rows, NEW winner \in {"A", "B"},
           Cascadable(rows, x, winner), NEW i, Entering(rows, Cascaded(rows, x, winner), i)
    PROVE  Beside(Cascaded(rows, x, winner), i) = {}
<1> DEFINE a == rows[x].a
           b == rows[x].b
           demoted == Demote(rows, a, rows[a])
<1>1. IsOpen(rows[x])
  BY DEF Cascadable
<1>2. /\ a \in DOMAIN rows /\ rows[a].kind = "claim" /\ ~IsHeld(rows[a])
      /\ b \in DOMAIN rows /\ IsHeld(rows[b]) /\ a # x /\ b # x /\ a # b
  BY <1>1, OpenNames
<1>3. CASE winner = "A"
  <2> DEFINE new == Set(Closed(rows, x), b, "PROVENANCE_STALE", "CONFLICT_RESOLVED")
  <2>1. Cascaded(rows, x, winner) = Closed(Demote(rows, b, rows[b]), x)
    BY <1>3 DEF Cascaded, Closed
  <2>2. Demote(rows, b, rows[b]) = Set(rows, b, "PROVENANCE_STALE", "CONFLICT_RESOLVED")
    BY <1>2, DemoteHeld DEF Table
  <2>3. /\ Closed(Set(rows, b, "PROVENANCE_STALE", "CONFLICT_RESOLVED"), x) = new
        /\ Sound(rows, new) /\ DOMAIN new = DOMAIN rows
    BY <1>1, CloseSettled
  <2> HIDE DEF new
  <2>4. ~Entering(rows, new, i)
    BY <2>3 DEF Entering, Sound, Grows
  <2> QED BY <2>1, <2>2, <2>3, <2>4
<1>4. CASE winner = "B"
  <2> DEFINE new == Closed(PromoteOrHold(demoted, b, HeldSearch(demoted, x)), x)
  <2>1. Cascaded(rows, x, winner) = new
    BY <1>2, <1>4 DEF Cascaded, Closed
  <2>2. /\ Sound(rows, demoted) /\ DOMAIN demoted = DOMAIN rows
        /\ \A j \in DOMAIN rows : j # a => demoted[j] = rows[j]
    BY <1>2, DemoteFirst
  <2>3. ~IsActive(demoted[a])
    <3>1. CASE rows[a].status = "ACTIVE"
      <4>1. demoted = Set(rows, a, "PROVENANCE_STALE", "CONFLICT_RESOLVED")
        BY <1>2, <3>1 DEF Demote
      <4>2. rows \in Seq(Particle) /\ rows[a] \in Particle
        BY <1>2 DEF Table
      <4>3. "PROVENANCE_STALE" \in Status /\ "CONFLICT_RESOLVED" \in Reason
        BY DEF Status, Reason
      <4> HIDE DEF demoted
      <4>4. demoted[a] = Marked(rows[a], "PROVENANCE_STALE", "CONFLICT_RESOLVED")
        BY <4>1, <4>2, <4>3, <1>2, SetRow
      <4> QED BY <4>2, <4>4 DEF Marked, Particle, IsActive
    <3>2. CASE rows[a].status # "ACTIVE"
      BY <2>2, <1>2, <3>2 DEF Sound, Grows, IsActive
    <3> QED BY <3>1, <3>2
  <2> HIDE DEF demoted
  <2>4. Table(demoted) /\ x \in DOMAIN demoted /\ demoted[x] = rows[x]
    BY <1>2, <2>2 DEF Sound
  <2>5. Entering(demoted, new, i)
    BY <2>1, <2>2 DEF Entering, Sound, Grows
  <2>6. \A j \in Beside(new, i) : j = a /\ IsActive(demoted[j])
    BY <2>4, <2>5, <1>1, MovedBeside
  <2> HIDE DEF new
  <2>7. Beside(new, i) = {}
    BY <2>3, <2>6
  <2> QED BY <2>1, <2>7
<1> QED
  BY <1>3, <1>4

\* The engine's resolution lets a claim in beside its record's claim A only.
LEMMA ResolutionBeside ==
    ASSUME Table(row), NEW r \in DOMAIN row, IsOpen(row[r]), NEW act \in Action, act # "DEFER",
           NEW i,
           Entering(row, Resolution(r, act, row[row[r].a], row[row[r].b],
                                    SearchIn(r, act, row[row[r].a])), i)
    PROVE  LET new == Resolution(r, act, row[row[r].a], row[row[r].b],
                                 SearchIn(r, act, row[row[r].a])) IN
           Beside(new, i) \subseteq Firsts(new[i].sup)
<1> DEFINE ia == row[r].a
           ib == row[r].b
           a == row[ia]
           b == row[ib]
           found == SearchIn(r, act, a)
           new == Resolution(r, act, a, b, found)
           demoted == Demote(row, ia, a)
<1>1. /\ ia \in DOMAIN row /\ a.kind = "claim" /\ ~IsHeld(a)
      /\ ib \in DOMAIN row /\ IsHeld(b) /\ ia # r /\ ib # r /\ ia # ib
  BY OpenNames
<1>2. Entering(row, new, i)
  OBVIOUS
<1>3. ia \in Firsts(ib)
  BY DEF Firsts
<1>4. Found(row, found)
  BY <1>1, SearchInFinds
<1>5. Permitted(r, act, a, b, found)
  BY <1>1 DEF Permitted, IsHeld
<1>6. Sound(row, new)
  <2> HIDE DEF a, b, found
  <2> QED BY <1>1, <1>4, <1>5, ResolutionSound
<1>7. CASE act \in {"PREFER_A", "DISCARD"}
  <2>1. DOMAIN new = DOMAIN row
    <3>1. CASE act = "PREFER_A"
      <4>1. new = Closed(Demote(row, ib, b), r)
        BY <3>1 DEF Resolution, Closed
      <4>2. Demote(row, ib, b) = Set(row, ib, "PROVENANCE_STALE", "CONFLICT_RESOLVED")
        BY <1>1, DemoteHeld DEF Table
      <4> HIDE DEF new
      <4> QED BY <4>1, <4>2 DEF Closed, Set
    <3>2. CASE act = "DISCARD"
      <4> DEFINE kept == IF row[r].twin THEN row ELSE Discard(row, ia, a)
      <4>1. new = Closed(Discard(kept, ib, b), r)
        BY <3>2 DEF Resolution, Closed
      <4>2. DOMAIN kept = DOMAIN row
        BY DEF Discard, Set
      <4> HIDE DEF kept
      <4>3. DOMAIN Discard(kept, ib, b) = DOMAIN kept
        BY DEF Discard, Set
      <4> HIDE DEF new
      <4> QED BY <4>1, <4>2, <4>3 DEF Closed, Set
    <3> QED BY <1>7, <3>1, <3>2
  <2> HIDE DEF new
  <2> QED BY <2>1, <1>2, <1>6 DEF Entering, Sound, Grows
<1>8. CASE act = "BOTH_VALID"
  <2>1. found = HeldSearch(row, r)
    BY <1>8 DEF SearchIn
  <2>2. new = Closed(PromoteOrHold(row, ib, HeldSearch(row, r)), r)
    BY <1>1, <1>8, <2>1 DEF Resolution, Closed
  <2>3. /\ new[i].sup = ib
        /\ \A j \in Beside(new, i) : j = ia /\ IsActive(row[j])
    <3> DEFINE moved == Closed(PromoteOrHold(row, ib, HeldSearch(row, r)), r)
    <3>1. Entering(row, moved, i)
      BY <1>2, <2>2
    <3>2. /\ moved[i].sup = ib
          /\ \A j \in Beside(moved, i) : j = ia /\ IsActive(row[j])
      BY <3>1, MovedBeside
    <3> HIDE DEF moved, new
    <3> QED BY <3>2, <2>2 DEF moved
  <2>4. Beside(new, i) \subseteq Firsts(new[i].sup)
    <3> HIDE DEF new
    <3> QED BY <2>3, <1>3
  <2> QED BY <2>4
<1>9. CASE act = "PREFER_B"
  <2>1. found = HeldSearch(demoted, r)
    BY <1>9 DEF SearchIn
  <2>2. new = Closed(PromoteOrHold(demoted, ib, HeldSearch(demoted, r)), r)
    BY <1>1, <1>9, <2>1 DEF Resolution, Closed
  <2>3. /\ Sound(row, demoted) /\ DOMAIN demoted = DOMAIN row
        /\ \A j \in DOMAIN row : j # ia => demoted[j] = row[j]
    BY <1>1, DemoteFirst
  <2> HIDE DEF demoted
  <2>4. Table(demoted) /\ r \in DOMAIN demoted /\ demoted[r] = row[r]
    BY <1>1, <2>3 DEF Sound
  <2>5. /\ new[i].sup = ib
        /\ \A j \in Beside(new, i) : j = ia /\ IsActive(demoted[j])
    <3> DEFINE moved == Closed(PromoteOrHold(demoted, ib, HeldSearch(demoted, r)), r)
    <3>1. Entering(demoted, moved, i)
      <4> HIDE DEF moved, new
      <4>1. Entering(row, moved, i)
        BY <1>2, <2>2 DEF moved
      <4> QED BY <4>1, <2>3 DEF Entering, Sound, Grows
    <3>2. /\ moved[i].sup = ib
          /\ \A j \in Beside(moved, i) : j = ia /\ IsActive(demoted[j])
      BY <3>1, <2>4, MovedBeside
    <3> HIDE DEF moved, new
    <3> QED BY <3>2, <2>2 DEF moved
  <2>6. Beside(new, i) \subseteq Firsts(new[i].sup)
    <3> HIDE DEF new
    <3> QED BY <2>5, <1>3
  <2> QED BY <2>6
<1> QED
  BY <1>7, <1>8, <1>9 DEF Action

\* And so does the cascade that may follow: similarity is symmetric, so a claim
\* the cascade lets in is not near one the resolution let in.
LEMMA EngineBeside ==
    ASSUME TableInv, NEW r \in DOMAIN row, NEW act \in Action, EngineResolve(r, act),
           NEW i \in Id, Enters(i)
    PROVE  Beside(row', i) \subseteq Firsts(row'[i].sup)
<1> DEFINE a == row[row[r].a]
           b == row[row[r].b]
           found == SearchIn(r, act, a)
           rows == Resolution(r, act, a, b, found)
<1>1. Table(row) /\ IsOpen(row[r]) /\ act # "DEFER" /\ CommitResolution(r, act, a, b, found)
  BY DEF TableInv, EngineResolve
<1>2. Sound(row, row')
  BY EngineResolveRows
<1>4. Sound(row, rows)
  <2>1. ~IsHeld(a) /\ IsHeld(b)
    BY <1>1, OpenNames
  <2>2. Found(row, found)
    BY <1>1, <2>1, SearchInFinds
  <2>3. Permitted(r, act, a, b, found)
    BY <1>1, <2>1 DEF Permitted, IsHeld
  <2> HIDE DEF a, b, found
  <2> QED BY <1>1, <2>1, <2>2, <2>3, ResolutionSound
<1>5. \A k : Entering(row, rows, k) => Beside(rows, k) \subseteq Firsts(rows[k].sup)
  <2> SUFFICES ASSUME NEW k, Entering(row, rows, k)
               PROVE  Beside(rows, k) \subseteq Firsts(rows[k].sup)
    OBVIOUS
  <2> QED BY <1>1, ResolutionBeside
<1>6. \/ row' = rows
      \/ \E x \in DOMAIN rows, winner \in {"A", "B"} :
            Cascadable(rows, x, winner) /\ row' = Cascaded(rows, x, winner)
  BY <1>1 DEF CommitResolution, Commit
<1>7. Entering(row, row', i)
  BY DEF Entering, Enters
<1> HIDE DEF rows
<1>8. CASE row' = rows
  BY <1>5, <1>7, <1>8
<1>9. ASSUME NEW x \in DOMAIN rows, NEW winner \in {"A", "B"},
             Cascadable(rows, x, winner), row' = Cascaded(rows, x, winner)
      PROVE  Beside(row', i) \subseteq Firsts(row'[i].sup)
  <2>1. Sound(rows, row')
    BY <1>4, <1>9, CascadedSound DEF Sound
  <2>2. \A k : Entering(rows, row', k) => Beside(row', k) = {}
    BY <1>4, <1>9, CascadedBeside DEF Sound
  <2>3. CASE Entering(rows, row', i)
    BY <2>2, <2>3
  <2>4. CASE ~Entering(rows, row', i)
    <3>1. i \in DOMAIN rows /\ IsActive(rows[i]) /\ Entering(row, rows, i)
      BY <2>4, <1>7 DEF Entering
    <3>2. row'[i].text = rows[i].text /\ row'[i].sup = rows[i].sup
      BY <3>1, <2>1 DEF Sound, Grows
    <3>3. Beside(rows, i) \subseteq Firsts(row'[i].sup)
      BY <3>1, <3>2, <1>5
    <3>4. ASSUME NEW j \in Beside(row', i) PROVE j \in Beside(rows, i)
      <4>1. /\ j \in Id /\ j # i /\ j \in DOMAIN row' /\ IsActive(row'[j])
            /\ Sim[row'[i].text][row'[j].text] > 0
        BY <3>4 DEF Beside, Near
      <4>2. i \in DOMAIN row' /\ IsActive(row'[i])
        BY <1>7 DEF Entering
      <4>3. row'[i].text \in Text /\ row'[j].text \in Text
        <5>1. row' \in Seq(Particle)
          BY <2>1 DEF Sound, Table
        <5>2. row'[i] \in Particle /\ row'[j] \in Particle
          BY <5>1, <4>1, <4>2
        <5> QED BY <5>2 DEF Particle
      <4>4. Sim[row'[j].text][row'[i].text] > 0
        BY <4>1, <4>3, ReconcileAssumption
      <4>5. i \in Beside(row', j)
        BY <4>1, <4>2, <4>4 DEF Beside, Near
      <4>6. ~Entering(rows, row', j)
        BY <4>5, <2>2
      <4>7. j \in DOMAIN rows /\ IsActive(rows[j])
        BY <4>1, <4>6 DEF Entering
      <4>8. row'[j].text = rows[j].text
        BY <4>7, <2>1 DEF Sound, Grows
      <4> QED BY <4>1, <4>7, <4>8, <3>2 DEF Beside, Near
    <3> QED BY <3>3, <3>4
  <2> QED BY <2>3, <2>4
<1> QED
  BY <1>6, <1>8, <1>9

\* A release lets a claim in where its nearest ACTIVE claim, claim A left out, was
\* asked about, or was loaded and a claim asked about was retired since.
LEMMA ReleaseNearest ==
    ASSUME TableInv, Journaled, NEW x \in Releaser, NEW whole \in BOOLEAN, Release(x, whole),
           NEW i \in Id, Enters(i)
    PROVE  Nearest(row', row'[i].text, Id \ {i, row[rl[x].rec].a}) \in {0} \cup Vetted(x)
<1> DEFINE r == rl[x].rec
           a == row[r].a
           b == row[r].b
           t == row[b].text
           members == {a, b, r}
           twin == ActiveTwin(row, t)
           ids == UnderLock(x, rl[x].asked, whole) \ rl[x].out
           seen == Observe(Closed(row, r), twin, row[b].src)
           mid == Set(Closed(row, r), b, "SUPERSEDED", "CONFLICT_RESOLVED")
           new == Append(mid, Successor(row, b))
           n == Nearest(row', t, Id \ {i, a})
<1>1. Table(row) /\ TypeOK /\ row \in Seq(Particle) /\ DOMAIN row \subseteq Id
  BY RowsAreIds DEF TableInv
<1>2. r \in DOMAIN row /\ row[r].kind = "record" /\ pc[x] = "check"
  BY DEF TableInv, Processes, Release
<1>3. PICK S \in Selections(t, ids) :
        \/ row' = row
        \/ /\ StillOpen(r) /\ S \ (rl[x].asked \cup rl[x].known) = {}
           /\ \/ twin = 0 /\ row' = PromoteOrHold(Closed(row, r), b, 0)
              \/ twin # 0 /\ row' = Set(seen, b, "SUPERSEDED", "CONFLICT_RESOLVED")
  BY DEF Release, Commit, Closed
<1>4. row' # row
  BY DEF Enters
<1>5. StillOpen(r) /\ S \subseteq rl[x].asked \cup rl[x].known
  BY <1>3, <1>4
<1>6. IsOpen(row[r]) /\ b \in DOMAIN row /\ IsHeld(row[b])
  BY <1>1, <1>2, <1>5 DEF StillOpen, Table, Named
<1>7. twin = 0
  BY <1>1, <1>6, HeldHasNoTwin
<1>8. row' = PromoteOrHold(Closed(row, r), b, 0)
  BY <1>3, <1>4, <1>7
<1>9. row' = new /\ Sound(row, row')
  <2> HIDE DEF r
  <2> QED BY <1>1, <1>2, <1>6, <1>8, ClosePromoted
<1>10. Selected(row, rl[x], changed[x])
  BY <1>2, <1>5 DEF Journaled
<1>11. /\ Sound(row, mid) /\ DOMAIN mid = DOMAIN row /\ mid[b].status = "SUPERSEDED"
       /\ \A k \in DOMAIN row \ {b, r} : mid[k] = row[k]
  BY <1>1, <1>2, <1>6, CloseSettled
<1>12. Successor(row, b) \in Particle /\ Successor(row, b).text = t
  <2>1. row[b] \in Particle /\ b \in Nat
    BY <1>1, <1>6
  <2> QED BY <2>1 DEF Successor, NewClaim, Particle, Status, Reason
<1> HIDE DEF mid
<1>13. /\ DOMAIN new = DOMAIN row \cup {Len(mid) + 1} /\ Len(mid) + 1 \notin DOMAIN row
       /\ \A k \in DOMAIN row : new[k] = mid[k]
       /\ new[Len(mid) + 1] = Successor(row, b)
  BY <1>11, <1>12, OneMoreRow DEF Sound, Table
<1> HIDE DEF new
<1>14. i = Len(mid) + 1
  BY <1>9, <1>11, <1>13 DEF Enters, Sound, Grows
<1>15. row'[i].text = t
  BY <1>9, <1>12, <1>13, <1>14
<1>16. /\ \A k \in DOMAIN row \ {b, r} : row'[k] = row[k]
       /\ DOMAIN row' = DOMAIN row \cup {i} /\ i \notin DOMAIN row
       /\ ~IsActive(row'[b]) /\ ~IsActive(row'[r])
  <2>1. ~IsActive(row'[b])
    BY <1>6, <1>9, <1>11, <1>13 DEF IsActive
  <2>2. ~IsActive(row'[r])
    BY <1>2, <1>9 DEF Sound, Grows, IsActive
  <2> QED BY <2>1, <2>2, <1>9, <1>11, <1>13, <1>14
<1>17. Near(row', t, Id \ {i, a}) = Near(row, t, Id \ members)
  BY <1>16 DEF Near
<1>18. t \in Text /\ row' \in Seq(Particle)
  <2>1. row[b] \in Particle
    BY <1>1, <1>6
  <2> QED BY <2>1, <1>9 DEF Particle, Sound, Table
<1> SUFFICES ASSUME n # 0, n \notin rl[x].asked PROVE n \in Vetted(x)
  BY <1>15 DEF Vetted
<1>19. n \in Near(row, t, Id \ members) /\ \A j \in Near(row, t, Id \ members) : Beats(row, t, n, j)
  <2>1. /\ n \in Near(row', t, Id \ {i, a})
        /\ \A j \in Near(row', t, Id \ {i, a}) : Beats(row', t, n, j)
    <3> HIDE DEF t
    <3> QED BY <1>18, NearestBeats
  <2>2. \A j \in Near(row, t, Id \ members) : row'[j] = row[j]
    BY <1>16 DEF Near
  <2> HIDE DEF n, t
  <2> QED BY <1>17, <2>1, <2>2 DEF Beats
<1> HIDE DEF n
<1>20. n \in DOMAIN row /\ n \in Id \ members /\ IsActive(row[n]) /\ Sim[t][row[n].text] > 0
  BY <1>19 DEF Near
<1>21. rl[x].out = members \cup {0} /\ 0 \notin Id
  <2>1. 0 \notin Id
    BY DEF Id
  <2> QED BY <1>10, <2>1 DEF Selected
<1>22. n \in rl[x].known
  <2> SUFFICES ASSUME n \notin rl[x].known PROVE FALSE
    OBVIOUS
  <2>1. n \in changed[x]
    BY <1>10, <1>19 DEF Selected, Rivals
  <2>2. n \in ids /\ ids \cap Id \subseteq Id \ members
    BY <2>1, <1>20, <1>21 DEF UnderLock
  <2>3. n \in Near(row, t, ids) /\ Near(row, t, ids) \subseteq Near(row, t, Id \ members)
    BY <2>2, <1>1, <1>20 DEF Near
  <2> HIDE DEF ids, t, members
  <2>4. \A j \in Near(row, t, ids) : Beats(row, t, n, j)
    BY <2>3, <1>19
  <2>5. Nearest(row, t, ids) = n
    BY <2>3, <2>4, <1>1, <1>18, BeatsAll
  <2>6. n \in S
    BY <2>5, <1>3 DEF Selections
  <2> QED BY <2>6, <1>5
<1>23. PICK m \in rl[x].asked \ members : row[m].kind = "claim" /\ Beats(row, t, m, n)
  BY <1>10, <1>20, <1>22 DEF Selected
<1>24. m \in DOMAIN row
  BY <1>10 DEF Selected
<1>25. ~IsActive(row[m])
  <2> SUFFICES ASSUME IsActive(row[m]) PROVE FALSE
    OBVIOUS
  <2>1. Sim[t][row[m].text] \in Nat /\ Sim[t][row[n].text] \in Nat /\ m \in Nat /\ n \in Nat
    <3>1. row[m].text \in Text /\ row[n].text \in Text
      BY <1>1, <1>20, <1>24, TextsTyped
    <3> HIDE DEF t
    <3> QED BY <3>1, <1>1, <1>18, <1>20, <1>24, ReconcileAssumption
  <2> HIDE DEF t, members
  <2>2. Sim[t][row[m].text] > 0
    BY <2>1, <1>20, <1>23 DEF Beats
  <2>3. m \in Near(row, t, Id \ members)
    BY <2>2, <1>1, <1>23, <1>24 DEF Near
  <2>4. Beats(row, t, n, m) /\ Beats(row, t, m, n)
    BY <2>3, <1>19, <1>23
  <2>5. m = n
    BY <2>1, <2>4 DEF Beats
  <2> QED BY <2>5, <1>23
<1> QED
  BY <1>22, <1>23, <1>25 DEF Vetted

\* An asserted claim enters where the nearest ACTIVE claim of the whole table is
\* the one its gather asked about, or there is none.
LEMMA AssertedNearest ==
    ASSUME TableInv, Journaled, NEW w \in Writer, NEW whole \in BOOLEAN, ApplySearched(w, whole),
           NEW i \in Id, Enters(i)
    PROVE  Nearest(row, row'[i].text, Id) \in {0, wr[w].conflict}
<1> DEFINE t == wr[w].text
           ids == UnderLock(w, wr[w].hood \cup {wr[w].conflict}, whole)
<1>1. /\ Admits(row, row', t)
      /\ \/ Nearest(row, t, ids) = 0
         \/ wr[w].searched /\ Nearest(row, t, ids) = wr[w].conflict
         \/ Quiet(row, row')
  BY ApplySearchedRows
<1>2. ~Quiet(row, row')
  BY DEF Quiet, Enters
<1>3. row'[i].text = t
  BY <1>1 DEF Admits, Enters
<1>4. DOMAIN row \subseteq Id
  BY RowsAreIds DEF TableInv
<1>5. Near(row, t, Id) \subseteq ids
  <2>1. CASE whole
    BY <2>1 DEF UnderLock, Near
  <2>2. CASE ~whole
    <3>1. pc[w] = "apply" /\ wr[w].searched
      BY <2>2 DEF ApplySearched
    <3>2. Near(row, t, Id) \subseteq wr[w].hood \cup changed[w]
      BY <3>1 DEF Journaled
    <3> QED BY <2>2, <3>2 DEF UnderLock
  <2> QED BY <2>1, <2>2
<1>6. ids \cap DOMAIN row \subseteq Id
  BY <1>4
<1> HIDE DEF ids, t
<1>7. Nearest(row, t, ids) = Nearest(row, t, Id)
  BY <1>5, <1>6, SameSearch
<1> QED
  BY <1>1, <1>2, <1>3, <1>7

\* Every step at which a claim becomes ACTIVE, where no reviewer works without
\* the writer lock.
LEMMA EntersCheckedStep ==
    ASSUME TableInv, Journaled, Reviewer = {}, [Next]_vars, NEW i \in Id, Enters(i)
    PROVE  LET t == row'[i].text IN
           /\ \A w \in Writer : Ended(w) => Nearest(row, t, Id) \in {0, wr[w].conflict}
           /\ \A x \in Releaser : Ended(x) =>
                 Nearest(row', t, Id \ {i, row[rl[x].rec].a}) \in {0} \cup Vetted(x)
           /\ (\A p \in Writer \cup Releaser : ~Ended(p)) =>
                 Near(row', t, Id \ ({i} \cup Firsts(row'[i].sup))) = {}
<1> DEFINE t == row'[i].text
           Asserted == \A w \in Writer : Ended(w) => Nearest(row, t, Id) \in {0, wr[w].conflict}
           Released == \A x \in Releaser : Ended(x) =>
                          Nearest(row', t, Id \ {i, row[rl[x].rec].a}) \in {0} \cup Vetted(x)
           Promoted == (\A p \in Writer \cup Releaser : ~Ended(p)) =>
                          Near(row', t, Id \ ({i} \cup Firsts(row'[i].sup))) = {}
           Goal == Asserted /\ Released /\ Promoted
<1>1. TypeOK /\ pc \in [Proc -> Places] /\ Writer \subseteq Proc /\ Releaser \subseteq Proc
  BY DEF TableInv, TypeOK, Places, Proc
<1>2. row' # row /\ ~Quiet(row, row')
  BY DEF Enters, Quiet
<1>3. Writer \cap Releaser = {}
  BY ReconcileAssumption
<1>4. \A q \in Writer \cup Releaser : pc[q] # "idle" /\ pc' = [pc EXCEPT ![q] = "idle"] =>
         Ended(q) /\ \A p \in Writer \cup Releaser : Ended(p) => p = q
  BY <1>1 DEF Ended
<1>5. ASSUME NEW w \in Writer, NEW whole \in BOOLEAN, ApplySearched(w, whole) PROVE Goal
  <2>1. Nearest(row, t, Id) \in {0, wr[w].conflict}
    BY <1>5, AssertedNearest
  <2>2. pc[w] = "apply" /\ pc' = [pc EXCEPT ![w] = "idle"]
    BY <1>5 DEF ApplySearched, Done
  <2>3. Ended(w) /\ \A p \in Writer \cup Releaser : Ended(p) => p = w
    BY <2>2, <1>4
  <2> HIDE DEF t
  <2>4. Asserted
    BY <2>1, <2>3
  <2>5. Released
    BY <2>3, <1>3
  <2>6. Promoted
    BY <2>3
  <2> QED BY <2>4, <2>5, <2>6
<1>6. ASSUME NEW x \in Releaser, NEW whole \in BOOLEAN, Release(x, whole) PROVE Goal
  <2>1. Nearest(row', t, Id \ {i, row[rl[x].rec].a}) \in {0} \cup Vetted(x)
    BY <1>6, ReleaseNearest
  <2>2. pc[x] = "check" /\ pc' = [pc EXCEPT ![x] = "idle"]
    BY <1>6 DEF Release
  <2>3. Ended(x) /\ \A p \in Writer \cup Releaser : Ended(p) => p = x
    BY <2>2, <1>4
  <2> HIDE DEF t
  <2>4. Asserted
    BY <2>3, <1>3
  <2>5. Released
    BY <2>1, <2>3
  <2>6. Promoted
    BY <2>3
  <2> QED BY <2>4, <2>5, <2>6
<1>7. ASSUME NEW r \in DOMAIN row, NEW act \in Action, EngineResolve(r, act) PROVE Goal
  <2>1. Beside(row', i) \subseteq Firsts(row'[i].sup)
    BY <1>7, EngineBeside
  <2>2. Near(row', t, Id \ ({i} \cup Firsts(row'[i].sup))) = {}
    BY <2>1 DEF Beside, Near
  <2>3. pc' = pc
    BY <1>7 DEF EngineResolve
  <2>4. \A p : ~Ended(p)
    BY <2>3 DEF Ended
  <2> HIDE DEF t
  <2> QED BY <2>2, <2>4
<1> HIDE DEF Goal
<1>8. ASSUME NEW w \in Writer, ApplySettled(w) PROVE FALSE
  BY <1>2, <1>8, ApplySettledRows
<1>9. ASSUME NEW j \in DOMAIN row, RetractClaim(j) PROVE FALSE
  <2>1. row' = Set(row, j, "RETRACTED", "EXPLICIT_RETRACTION")
    BY <1>9 DEF RetractClaim, Commit
  <2>2. DOMAIN row' = DOMAIN row /\ Grows(row, row')
    BY <1>9, <2>1, RetractClaimRows DEF Set, Sound
  <2> QED BY <1>2, <2>2, InPlaceQuiet
<1>10. ASSUME NEW s \in Source, RetractEntry(s) PROVE FALSE
  <2>1. DOMAIN row' = DOMAIN row
    BY <1>10 DEF RetractEntry, Commit
  <2>2. Grows(row, row')
    BY <1>10, RetractEntryRows DEF RowsMove
  <2> QED BY <1>2, <2>1, <2>2, InPlaceQuiet
<1>11. ASSUME \/ UNCHANGED vars
              \/ \E w \in Writer :
                    (\E u \in Text, s \in Source : Ask(w, u, s)) \/ Load(w) \/ Probe(w)
              \/ \E x \in Releaser :
                    (\E r \in DOMAIN row : ReleaseTake(x, r)) \/ ReleaseLoad(x) \/ ReleaseBlocked(x)
       PROVE  FALSE
  <2>1. row' = row
    BY <1>11 DEF vars, Ask, Load, Probe, ReleaseTake, ReleaseLoad, ReleaseBlocked, Commit
  <2> QED BY <1>2, <2>1
<1>12. Goal
  BY <1>5, <1>6, <1>7, <1>8, <1>9, <1>10, <1>11 DEF Next
<1> QED
  BY <1>12 DEF Goal

\* Where every resolution runs under the writer lock, a claim becomes ACTIVE only
\* beside claims it was checked against, for any number of racing writers and
\* release passes and whatever changed between a gather and its write; the one
\* exception is a claim a release pass had loaded, after one it asked about was
\* retired (apply_reconcile, promote_unless_contradicted, _unchecked_since_load).
THEOREM ClaimsEnterChecked == Reviewer = {} => (Spec => EntersChecked)
<1> SUFFICES ASSUME Reviewer = {} PROVE Spec => EntersChecked
  OBVIOUS
<1>1. Init => Journaled
  BY DEF Init, Journaled, Proc
<1>2. TableInv /\ Journaled /\ [Next]_vars => Journaled'
  BY JournalStep
<1>3. TableInv /\ Journaled /\ [Next]_vars =>
        [\A i \in Id : Enters(i) =>
            LET t == row'[i].text IN
            /\ \A w \in Writer : Ended(w) => Nearest(row, t, Id) \in {0, wr[w].conflict}
            /\ \A x \in Releaser : Ended(x) =>
                  Nearest(row', t, Id \ {i, row[rl[x].rec].a}) \in {0} \cup Vetted(x)
            /\ (\A p \in Writer \cup Releaser : ~Ended(p)) =>
                  Near(row', t, Id \ ({i} \cup Firsts(row'[i].sup))) = {}]_vars
  BY EntersCheckedStep
<1> QED
  BY <1>1, <1>2, <1>3, TableHolds, PTL DEF Spec, EntersChecked
================================================================================
