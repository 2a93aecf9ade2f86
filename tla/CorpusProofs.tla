------------------------------ MODULE CorpusProofs -----------------------------
(***************************************************************************)
(* The corpus for any sets of addresses, contents, depositors and runners.   *)
(* What is on disk is proved as long as no two writers meet on one torn file *)
(* (SameName = FALSE); what a hard delete leaves is proved wherever its       *)
(* statements fall between those of the others.                              *)
(***************************************************************************)
EXTENDS Corpus, SequenceTheorems, FiniteSetTheorems, WellFoundedInduction, TLAPS

\* The entries that a plan and a deposit name exist, and what a plan strips has a
\* source elsewhere: stripping leaves one.
Named ==
    /\ del.pc # "idle" => /\ del.entry \in DOMAIN entries
                          /\ \A p \in del.strip :
                                /\ p \in DOMAIN parts /\ parts[p].status # "DELETED"
                                /\ ~(parts[p].refs \subseteq Of(del.entry))
    /\ \A d \in Depositor : dep[d].pc = "insert" /\ ~dep[d].new => dep[d].entry \in DOMAIN entries

\* What holds of the rows however deposits, extractions and deletes overlap.
StoreInv == TypeOK /\ Named

\* No file is torn but the old ones, and no two writers are at one of those.
TornAlone ==
    /\ \A b \in Body : file[b] = "torn" => b \in Torn
    /\ \A c, d \in Depositor :
          c # d /\ dep[c].pc # "idle" /\ dep[d].pc # "idle" /\ dep[c].body = dep[d].body =>
             dep[c].body \notin Torn

\* Who is about to unlink does it to a torn file, and who has written its blob
\* finds it in place until its row is committed.
BlobStays ==
    \A d \in Depositor :
        /\ dep[d].pc = "unlink" => file[dep[d].body] = "torn"
        /\ dep[d].pc \in {"match", "insert"} => file[dep[d].body] = "good"

\* The inductive invariant of the blob files.
BlobInv == StoreInv /\ TornAlone /\ BlobStays /\ RowsAreReadable

\* Of the particles no extraction wrote since the plan, those to be deleted have no
\* source but the entry, and those passed over cite none of its snapshots.
PlanHolds ==
    del.pc = "planned" => \A p \in DOMAIN parts \ late :
        /\ p \in del.kill => parts[p].refs \subseteq Of(del.entry)
        /\ p \notin del.kill /\ p \notin del.strip /\ parts[p].status # "DELETED" =>
              parts[p].refs \cap Of(del.entry) = {}

\* A deposit that found its entry finds it with other content when it inserts, and
\* with no row at all if the entry is gone.
MatchHolds ==
    \A d \in Depositor : dep[d].pc = "insert" /\ ~dep[d].new =>
        /\ ~Unchanged(dep[d].entry, dep[d].body)
        /\ ~entries[dep[d].entry].there => Of(dep[d].entry) \cap Rows = {}

\* The inductive invariant of the rows.
RowInv == StoreInv /\ PlanHolds /\ MatchHolds /\ GenerationsDiffer

--------------------------------------------------------------------------------
\* The sequence of a finite set is a sequence of its members.
LEMMA SetToSeqIsSeq ==
    ASSUME NEW S, IsFiniteSet(S)
    PROVE  /\ Len(SetToSeq(S)) \in Nat /\ DOMAIN SetToSeq(S) = 1..Len(SetToSeq(S))
           /\ \A k \in DOMAIN SetToSeq(S) : SetToSeq(S)[k] \in S
<1>1. Cardinality(S) \in Nat /\ ExistsBijection(1..Cardinality(S), S)
    BY FS_CardinalityType
<1>2. \E f \in [1..Cardinality(S) -> S] : IsInjective(f)
    BY <1>1 DEF ExistsBijection, Bijection, Injection
<1>3. SetToSeq(S) \in [1..Cardinality(S) -> S]
    BY <1>2, Zenon DEF SetToSeq
<1> QED
    BY <1>1, <1>3

\* The rows have their positions.
LEMMA Rowed ==
    ASSUME TypeOK
    PROVE  /\ Len(snaps) \in Nat /\ DOMAIN snaps = 1..Len(snaps)
           /\ \A i \in DOMAIN snaps : snaps[i] \in SnapRow
           /\ Len(entries) \in Nat /\ DOMAIN entries = 1..Len(entries)
           /\ \A e \in DOMAIN entries : entries[e] \in EntryRow
           /\ Len(parts) \in Nat /\ DOMAIN parts = 1..Len(parts)
           /\ \A p \in DOMAIN parts : parts[p] \in Particle
BY LenProperties, ElementOfSeq DEF TypeOK

\* The depositor's record after it gives up or is done.
LEMMA NoDepTyped == NoDep \in DepState /\ NoDep.pc = "idle"
<1>1. (CHOOSE u \in Uri : TRUE) \in Uri /\ (CHOOSE b \in Body : TRUE) \in Body
    BY CorpusAssumption
<1> QED
    BY <1>1 DEF NoDep, DepState

\* A row changed at one position, or at all of them.
LEMMA Changed ==
    ASSUME NEW T, NEW s, s \in Seq(T), NEW t, DOMAIN t = DOMAIN s,
           t = [i \in DOMAIN t |-> t[i]], \A i \in DOMAIN s : t[i] \in T
    PROVE  t \in Seq(T) /\ Len(t) = Len(s)
<1>1. Len(s) \in Nat /\ DOMAIN s = 1..Len(s)
    BY LenProperties
<1>2. t \in [1..Len(s) -> T]
    BY <1>1
<1> QED
    BY <1>1, <1>2

\* A row is inserted at the end, into a new entry or the one that was found.
LEMMA InsertFacts ==
    ASSUME StoreInv, NEW d \in Depositor, Insert(d)
    PROVE  /\ snaps' \in Seq(SnapRow) /\ entries' \in Seq(EntryRow)
           /\ DOMAIN snaps' = 1..(Len(snaps) + 1)
           /\ \A i \in DOMAIN snaps : snaps'[i] = snaps[i]
           /\ DOMAIN entries \subseteq DOMAIN entries'
           /\ \A e \in DOMAIN entries : entries'[e] = entries[e]
           /\ LET n == snaps'[Len(snaps) + 1] IN
              /\ n.there /\ n.body = dep[d].body /\ n.entry \in DOMAIN entries'
              /\ entries'[n.entry].there \/ ~dep[d].new
              /\ n.entry = IF dep[d].new THEN Len(entries) + 1 ELSE dep[d].entry
<1>1. TypeOK /\ dep[d] \in DepState /\ dep[d].pc = "insert"
    BY DEF StoreInv, TypeOK, Insert
<1> DEFINE e == IF dep[d].new THEN Len(entries) + 1 ELSE dep[d].entry
           x == [uri |-> {dep[d].uri}, there |-> TRUE]
           y == [entry |-> e, body |-> dep[d].body, status |-> "PENDING", there |-> TRUE]
<1>2. ~dep[d].new => dep[d].entry \in DOMAIN entries
    BY <1>1 DEF StoreInv, Named
<1>3. e \in Nat /\ x \in EntryRow /\ y \in SnapRow
    BY <1>1, Rowed DEF EntryRow, SnapRow, DepState
<1>4. /\ snaps' = Append(snaps, y)
      /\ entries' = IF dep[d].new THEN Append(entries, x) ELSE entries
    BY DEF Insert
<1>5. x.there /\ y.there /\ y.body = dep[d].body /\ y.entry = e
    OBVIOUS
<1> HIDE DEF x, y
<1>6. /\ snaps' \in Seq(SnapRow) /\ DOMAIN snaps' = 1..(Len(snaps) + 1)
      /\ \A i \in DOMAIN snaps : snaps'[i] = snaps[i]
      /\ snaps'[Len(snaps) + 1] = y
    BY <1>1, <1>3, <1>4, Rowed, AppendProperties, LenProperties DEF TypeOK
<1>7. /\ entries' \in Seq(EntryRow) /\ DOMAIN entries \subseteq DOMAIN entries'
      /\ \A k \in DOMAIN entries : entries'[k] = entries[k]
      /\ dep[d].new => e \in DOMAIN entries' /\ entries'[e] = x
  <2>1. CASE dep[d].new
    <3>1. entries' = Append(entries, x) /\ e = Len(entries) + 1
      BY <1>4, <2>1
    <3>2. /\ entries' \in Seq(EntryRow) /\ Len(entries') = Len(entries) + 1
          /\ \A k \in 1..Len(entries) : entries'[k] = entries[k]
          /\ entries'[Len(entries) + 1] = x
      BY <1>1, <1>3, <3>1, AppendProperties DEF TypeOK
    <3>3. DOMAIN entries' = 1..(Len(entries) + 1) /\ DOMAIN entries = 1..Len(entries)
          /\ Len(entries) \in Nat
      BY <1>1, <3>2, Rowed, LenProperties
    <3> QED
      BY <3>1, <3>2, <3>3
  <2>2. CASE ~dep[d].new
    BY <1>1, <1>4, <2>2 DEF TypeOK
  <2> QED
    BY <2>1, <2>2
<1> QED
    BY <1>2, <1>5, <1>6, <1>7

\* What an extraction or a delete does to the snapshot rows.
LEMMA SnapFacts ==
    ASSUME StoreInv, (\E r \in Runner : Gather(r) \/ Write(r)) \/ Delete
    PROVE  /\ snaps' \in Seq(SnapRow) /\ DOMAIN snaps' = DOMAIN snaps
           /\ \A i \in DOMAIN snaps :
                 /\ snaps'[i].entry = snaps[i].entry /\ snaps'[i].body = snaps[i].body
                 /\ snaps'[i].there <=> snaps[i].there /\ ~(Delete /\ i \in Of(del.entry))
<1>1. /\ TypeOK /\ snaps \in Seq(SnapRow) /\ DOMAIN snaps = 1..Len(snaps)
      /\ \A i \in DOMAIN snaps : snaps[i] \in SnapRow
    BY Rowed DEF StoreInv, TypeOK
<1>2. ASSUME NEW i \in DOMAIN snaps, NEW x \in {"PENDING", "COMPLETE", "FAILED"},
             snaps' = [snaps EXCEPT ![i].status = x], ~Delete
      PROVE  /\ snaps' \in Seq(SnapRow) /\ DOMAIN snaps' = DOMAIN snaps
             /\ \A k \in DOMAIN snaps :
                   /\ snaps'[k].entry = snaps[k].entry /\ snaps'[k].body = snaps[k].body
                   /\ snaps'[k].there <=> snaps[k].there /\ ~(Delete /\ k \in Of(del.entry))
  <2> DEFINE y == [snaps[i] EXCEPT !.status = x]
  <2>1. y \in SnapRow /\ y.entry = snaps[i].entry /\ y.body = snaps[i].body
        /\ y.there = snaps[i].there
    BY <1>1 DEF SnapRow
  <2>2. snaps' = [snaps EXCEPT ![i] = y]
    BY <1>2
  <2> HIDE DEF y
  <2>3. DOMAIN snaps' = DOMAIN snaps /\ \A k \in DOMAIN snaps : snaps'[k] = IF k = i THEN y ELSE snaps[k]
    BY <2>2
  <2>4. snaps' \in Seq(SnapRow)
    BY <1>1, <2>1, <2>2, ExceptSeq
  <2> QED
    BY <1>2, <2>1, <2>3, <2>4
<1>3. CASE \E r \in Runner : Gather(r)
  <2>1. PICK r \in Runner : Gather(r)
    BY <1>3
  <2>2. ~Delete
    <3>1. ASSUME Delete PROVE FALSE
      <4>1. del.pc = "planned" /\ del'.pc = "idle"
        BY <3>1 DEF Delete, NoDel
      <4> QED
        BY <2>1, <4>1 DEF Gather
    <3> QED
      BY <3>1
  <2>3. PICK i \in DOMAIN snaps : snaps' = snaps \/ snaps' = [snaps EXCEPT ![i].status = "FAILED"]
    BY <2>1 DEF Gather, Rows
  <2> QED
    BY <1>1, <1>2, <2>2, <2>3
<1>4. CASE \E r \in Runner : Write(r)
  <2>1. PICK r \in Runner : Write(r)
    BY <1>4
  <2>2. ~Delete
    <3>1. ASSUME Delete PROVE FALSE
      <4>1. del.pc = "planned" /\ del'.pc = "idle"
        BY <3>1 DEF Delete, NoDel
      <4> QED
        BY <2>1, <4>1 DEF Write
    <3> QED
      BY <3>1
  <2>3. ext[r].pc = "read" /\ NoExt.pc = "idle"
    BY <2>1 DEF Write, NoExt
  <2>4. ext[r].snap \in DOMAIN snaps
    BY <1>1, <2>3 DEF TypeOK
  <2> DEFINE i == ext[r].snap
             x == IF snaps[i].there THEN "COMPLETE" ELSE snaps[i].status
  <2>5. x \in {"PENDING", "COMPLETE", "FAILED"}
    BY <1>1, <2>4 DEF SnapRow
  <2>6. snaps' = [snaps EXCEPT ![i].status = x]
    BY <2>1 DEF Write
  <2> HIDE DEF i, x
  <2>7. i \in DOMAIN snaps
    BY <2>4 DEF i
  <2> QED
    BY <1>2, <2>2, <2>5, <2>6, <2>7
<1>5. CASE Delete
  <2>1. snaps' = [i \in DOMAIN snaps |-> [snaps[i] EXCEPT !.there = @ /\ i \notin Of(del.entry)]]
    BY <1>5 DEF Delete
  <2>2. DOMAIN snaps' = DOMAIN snaps /\ snaps' = [i \in DOMAIN snaps' |-> snaps'[i]]
    BY <2>1
  <2>3. ASSUME NEW i \in DOMAIN snaps
        PROVE  /\ snaps'[i] \in SnapRow
               /\ snaps'[i].entry = snaps[i].entry /\ snaps'[i].body = snaps[i].body
               /\ snaps'[i].there <=> snaps[i].there /\ i \notin Of(del.entry)
    <3> DEFINE z == snaps[i].there /\ i \notin Of(del.entry)
    <3>1. z \in BOOLEAN
      OBVIOUS
    <3>2. snaps'[i] = [snaps[i] EXCEPT !.there = z]
      BY <2>1
    <3>3. z <=> snaps[i].there /\ i \notin Of(del.entry)
      OBVIOUS
    <3> HIDE DEF z
    <3>4. snaps[i] \in SnapRow
      BY <1>1
    <3>5. snaps'[i] \in SnapRow /\ snaps'[i].there = z
          /\ snaps'[i].entry = snaps[i].entry /\ snaps'[i].body = snaps[i].body
      BY <3>1, <3>2, <3>4 DEF SnapRow
    <3> QED
      BY <3>3, <3>5
  <2>4. snaps' \in Seq(SnapRow)
    BY <1>1, <2>2, <2>3, Changed
  <2> QED
    BY <1>5, <2>2, <2>3, <2>4
<1> QED
    BY <1>3, <1>4, <1>5

\* An extraction's write adds its snapshot to the sources of particles that are
\* still there, and particles of its own.
LEMMA WriteFacts ==
    ASSUME StoreInv, NEW r \in Runner, Write(r)
    PROVE  /\ ext[r].snap \in DOMAIN snaps
           /\ parts' \in Seq(Particle) /\ DOMAIN parts \subseteq DOMAIN parts'
           /\ \A p \in DOMAIN parts :
                 /\ parts'[p].status = parts[p].status
                 /\ \/ parts'[p].refs = parts[p].refs
                    \/ parts[p].status # "DELETED" /\ parts'[p].refs = parts[p].refs \cup {ext[r].snap}
           /\ \A p \in DOMAIN parts' \ DOMAIN parts :
                 parts'[p].status = "ACTIVE" /\ parts'[p].refs = {ext[r].snap}
           /\ late' \subseteq DOMAIN parts'
           /\ del.pc = "planned" => \A p \in DOMAIN parts' \ late' :
                 p \in DOMAIN parts /\ parts'[p] = parts[p]
<1>1. /\ TypeOK /\ late \subseteq DOMAIN parts /\ parts \in Seq(Particle) /\ DOMAIN parts = 1..Len(parts)
      /\ \A p \in DOMAIN parts : parts[p] \in Particle
      /\ DOMAIN snaps = 1..Len(snaps) /\ Len(snaps) \in Nat /\ Len(parts) \in Nat
      /\ \A i \in DOMAIN snaps : snaps[i] \in SnapRow
    BY Rowed DEF StoreInv, TypeOK
<1> DEFINE i    == ext[r].snap
           into == {CHOOSE p \in ext[r].dup[t] : TRUE :
                       t \in {t \in DOMAIN ext[r].dup : ext[r].dup[t] # {}}}
           S    == {t \in DOMAIN ext[r].dup : ext[r].dup[t] = {}}
           new  == SetToSeq(S)
           old  == Observed(into, i)
           more == [k \in DOMAIN new |-> [text |-> new[k], refs |-> {i}, status |-> "ACTIVE"]]
<1>2. ext[r].pc = "read" /\ NoExt.pc = "idle"
    BY DEF Write, NoExt
<1>3. i \in DOMAIN snaps /\ ext[r].dup \in [Says[snaps[i].body] -> SUBSET DOMAIN parts]
    BY <1>1, <1>2 DEF TypeOK
<1>4. snaps[i].body \in Body /\ S \subseteq Says[snaps[i].body]
    BY <1>1, <1>3 DEF SnapRow
<1>5. IsFiniteSet(S)
    BY <1>4, FS_Subset, CorpusAssumption
<1>6. /\ parts' = old \o more
      /\ late' = IF del.pc = "planned" THEN late \cup into \cup (DOMAIN parts' \ DOMAIN parts) ELSE late
    BY DEF Write
<1>18. into \subseteq DOMAIN parts
  <2>1. ASSUME NEW t \in DOMAIN ext[r].dup, ext[r].dup[t] # {}
        PROVE  (CHOOSE p \in ext[r].dup[t] : TRUE) \in DOMAIN parts
    <3>1. ext[r].dup[t] \in SUBSET DOMAIN parts
      BY <1>3
    <3> QED
      BY <2>1, <3>1
  <2> QED
    BY <2>1
<1> HIDE DEF into, S
<1>7. Len(new) \in Nat /\ DOMAIN new = 1..Len(new) /\ \A k \in DOMAIN new : new[k] \in S
    BY <1>5, SetToSeqIsSeq
<1> HIDE DEF new
<1>8. \A t \in S : t \in UNION {Says[b] : b \in Body}
    BY <1>4
<1>9. i \in Nat
    BY <1>1, <1>3
<1>10. ASSUME NEW k \in DOMAIN new
      PROVE  more[k] \in Particle /\ more[k].status = "ACTIVE" /\ more[k].refs = {i}
  <2>1. new[k] \in UNION {Says[b] : b \in Body}
    BY <1>7, <1>8
  <2> QED
    BY <1>9, <2>1 DEF Particle
<1>11. more \in Seq(Particle) /\ Len(more) = Len(new)
  <2>1. more \in [1..Len(new) -> Particle]
    BY <1>7, <1>10
  <2> HIDE DEF more
  <2> QED
    BY <1>7, <2>1
<1>12. ASSUME NEW p \in DOMAIN parts
       PROVE  /\ old[p] \in Particle /\ old[p].status = parts[p].status
              /\ \/ old[p].refs = parts[p].refs
                 \/ parts[p].status # "DELETED" /\ old[p].refs = parts[p].refs \cup {i}
              /\ p \notin into => old[p] = parts[p]
  <2>1. parts[p] \in Particle /\ old[p] = IF p \in into /\ parts[p].status # "DELETED"
                              THEN [parts[p] EXCEPT !.refs = @ \cup {i}] ELSE parts[p]
    BY <1>1 DEF Observed
  <2>2. parts[p].refs \cup {i} \in SUBSET Nat
    BY <1>9, <2>1 DEF Particle
  <2> HIDE DEF old, i
  <2> QED
    BY <2>1, <2>2 DEF Particle
<1>13. old \in Seq(Particle) /\ Len(old) = Len(parts)
  <2>1. old \in [1..Len(parts) -> Particle]
    BY <1>1, <1>12 DEF Observed
  <2> HIDE DEF old
  <2> QED
    BY <1>1, <2>1
<1> HIDE DEF old, more, i
<1>14. /\ parts' \in Seq(Particle) /\ Len(parts') = Len(parts) + Len(new)
       /\ \A p \in 1..(Len(parts) + Len(new)) :
             parts'[p] = IF p <= Len(parts) THEN old[p] ELSE more[p - Len(parts)]
  <2>1. /\ old \o more \in Seq(Particle) /\ Len(old \o more) = Len(old) + Len(more)
        /\ \A p \in 1..(Len(old) + Len(more)) :
              (old \o more)[p] = IF p <= Len(old) THEN old[p] ELSE more[p - Len(old)]
    BY <1>11, <1>13, ConcatProperties
  <2> QED
    BY <1>6, <1>11, <1>13, <2>1
<1>15. DOMAIN parts' = 1..(Len(parts) + Len(new))
    BY <1>14, LenProperties
<1>16. \A p \in DOMAIN parts : p \in DOMAIN parts' /\ parts'[p] = old[p]
    BY <1>1, <1>7, <1>14, <1>15
<1>17. ASSUME NEW p \in DOMAIN parts' \ DOMAIN parts
       PROVE  parts'[p].status = "ACTIVE" /\ parts'[p].refs = {i}
  <2>1. p - Len(parts) \in DOMAIN new /\ parts'[p] = more[p - Len(parts)]
    BY <1>1, <1>7, <1>14, <1>15
  <2> QED
    BY <1>10, <2>1
<1> QED
    BY <1>1, <1>3, <1>6, <1>12, <1>14, <1>16, <1>17, <1>18 DEF i

\* A delete removes what it planned to remove and strips what it planned to strip.
LEMMA DeleteFacts ==
    ASSUME StoreInv, Delete
    PROVE  /\ parts' \in Seq(Particle) /\ DOMAIN parts' = DOMAIN parts
           /\ \A p \in DOMAIN parts :
                 \/ p \in del.kill /\ parts'[p].status = "DELETED" /\ parts'[p].refs = {}
                 \/ /\ p \notin del.kill /\ p \in del.strip
                    /\ parts'[p].status = parts[p].status
                    /\ parts'[p].refs = parts[p].refs \ Of(del.entry)
                 \/ p \notin del.kill /\ p \notin del.strip /\ parts'[p] = parts[p]
           /\ entries' \in Seq(EntryRow) /\ DOMAIN entries' = DOMAIN entries
           /\ \A e \in DOMAIN entries : entries'[e].there <=> entries[e].there /\ e # del.entry
<1>1. /\ TypeOK /\ parts \in Seq(Particle) /\ entries \in Seq(EntryRow)
      /\ \A p \in DOMAIN parts : parts[p] \in Particle
      /\ \A e \in DOMAIN entries : entries[e] \in EntryRow
      /\ DOMAIN entries = 1..Len(entries)
    BY Rowed DEF StoreInv, TypeOK
<1>2. parts' = [p \in DOMAIN parts |->
          IF p \in del.kill THEN [parts[p] EXCEPT !.status = "DELETED", !.refs = {}]
          ELSE IF p \in del.strip THEN [parts[p] EXCEPT !.refs = @ \ Of(del.entry)]
          ELSE parts[p]]
    BY DEF Delete
<1>3. DOMAIN parts' = DOMAIN parts /\ parts' = [p \in DOMAIN parts' |-> parts'[p]]
    BY <1>2
<1>4. ASSUME NEW p \in DOMAIN parts
      PROVE  /\ parts'[p] \in Particle
             /\ \/ p \in del.kill /\ parts'[p].status = "DELETED" /\ parts'[p].refs = {}
                \/ /\ p \notin del.kill /\ p \in del.strip
                   /\ parts'[p].status = parts[p].status
                   /\ parts'[p].refs = parts[p].refs \ Of(del.entry)
                \/ p \notin del.kill /\ p \notin del.strip /\ parts'[p] = parts[p]
  <2> DEFINE x == parts[p].refs \ Of(del.entry)
  <2>1. parts[p] \in Particle /\ x \in SUBSET Nat
    BY <1>1 DEF Particle
  <2>2. parts'[p] = IF p \in del.kill THEN [parts[p] EXCEPT !.status = "DELETED", !.refs = {}]
                    ELSE IF p \in del.strip THEN [parts[p] EXCEPT !.refs = x]
                    ELSE parts[p]
    BY <1>2
  <2>3. x = parts[p].refs \ Of(del.entry)
    OBVIOUS
  <2> HIDE DEF x
  <2>4. CASE p \in del.kill
    BY <2>1, <2>2, <2>4 DEF Particle
  <2>5. CASE p \notin del.kill /\ p \in del.strip
    BY <2>1, <2>2, <2>3, <2>5 DEF Particle
  <2>6. CASE p \notin del.kill /\ p \notin del.strip
    BY <2>1, <2>2, <2>6
  <2> QED
    BY <2>4, <2>5, <2>6
<1>5. parts' \in Seq(Particle)
    BY <1>1, <1>3, <1>4, Changed
<1>6. entries' = [entries EXCEPT ![del.entry].there = FALSE]
    BY DEF Delete
<1>7. del.entry \in DOMAIN entries
    BY DEF Delete, StoreInv, Named
<1> DEFINE y == [entries[del.entry] EXCEPT !.there = FALSE]
<1>8. y \in EntryRow /\ y.there = FALSE /\ entries' = [entries EXCEPT ![del.entry] = y]
    BY <1>1, <1>6, <1>7 DEF EntryRow
<1> HIDE DEF y
<1>9. entries' \in Seq(EntryRow) /\ DOMAIN entries' = DOMAIN entries
    BY <1>1, <1>7, <1>8, ExceptSeq
<1>10. \A e \in DOMAIN entries : entries'[e].there <=> entries[e].there /\ e # del.entry
    BY <1>7, <1>8
<1> QED
    BY <1>3, <1>4, <1>5, <1>9, <1>10

\* The lint takes a particle with a missing source out of belief.
LEMMA LintFacts ==
    ASSUME StoreInv, Lint
    PROVE  /\ parts' \in Seq(Particle) /\ DOMAIN parts' = DOMAIN parts
           /\ \A p \in DOMAIN parts :
                 /\ parts'[p].refs = parts[p].refs
                 /\ \/ parts'[p].status = parts[p].status
                    \/ parts[p].status = "ACTIVE" /\ parts'[p].status = "STALE"
<1>1. /\ TypeOK /\ parts \in Seq(Particle) /\ \A p \in DOMAIN parts : parts[p] \in Particle
    BY Rowed DEF StoreInv, TypeOK
<1>2. parts' = [p \in DOMAIN parts |->
                  IF p \in Dangling THEN [parts[p] EXCEPT !.status = "STALE"] ELSE parts[p]]
    BY DEF Lint
<1>3. DOMAIN parts' = DOMAIN parts /\ parts' = [p \in DOMAIN parts' |-> parts'[p]]
    BY <1>2
<1>4. ASSUME NEW p \in DOMAIN parts
      PROVE  /\ parts'[p] \in Particle /\ parts'[p].refs = parts[p].refs
             /\ \/ parts'[p].status = parts[p].status
                \/ parts[p].status = "ACTIVE" /\ parts'[p].status = "STALE"
    BY <1>1, <1>2 DEF Particle, Dangling, Active
<1> QED
    BY <1>1, <1>3, <1>4, Changed

--------------------------------------------------------------------------------
\* A depositor goes on to a step of its protocol.
LEMMA DepToFacts ==
    ASSUME StoreInv, NEW c \in Depositor, NEW q, DepTo(c, q),
           q \in {"look", "holds", "link", "judge", "unlink", "match", "insert"}
    PROVE  /\ dep' \in [Depositor -> DepState] /\ dep'[c].pc = q
           /\ dep'[c].body = dep[c].body /\ dep'[c].task = dep[c].task
           /\ dep'[c].new = dep[c].new /\ dep'[c].entry = dep[c].entry
           /\ \A o \in Depositor \ {c} : dep'[o] = dep[o]
<1>1. dep \in [Depositor -> DepState] /\ dep[c] \in DepState
    BY DEF StoreInv, TypeOK
<1>2. dep' = [dep EXCEPT ![c] = [dep[c] EXCEPT !.pc = q]]
    BY DEF DepTo
<1>3. [dep[c] EXCEPT !.pc = q] \in DepState
    BY <1>1 DEF DepState
<1> QED
    BY <1>1, <1>2, <1>3 DEF DepState

\* A depositor is done, gave up or died.
LEMMA DepEndsFacts ==
    ASSUME StoreInv, NEW c \in Depositor, DepEnds(c)
    PROVE  /\ dep' \in [Depositor -> DepState] /\ dep'[c] = NoDep
           /\ \A o \in Depositor \ {c} : dep'[o] = dep[o]
BY NoDepTyped DEF DepEnds, StoreInv, TypeOK

\* One step of one depositor, through write_blob and write_entry_and_snapshot.
LEMMA DepositorStep ==
    ASSUME StoreInv, NEW c \in Depositor,
           Begin(c) \/ BeginRehome(c) \/ Deposit(c) \/ CrashDeposit(c)
    PROVE  /\ dep' \in [Depositor -> DepState]
           /\ \A o \in Depositor \ {c} : dep'[o] = dep[o]
           /\ \/ dep'[c] = NoDep
              \/ /\ dep[c].pc = "idle" /\ dep'[c].pc = "look" /\ file' = file
                 /\ SameName \/ ~Meets(c, dep'[c].body) \/ dep'[c].body \in Away
              \/ /\ dep[c].pc # "idle" /\ dep'[c].body = dep[c].body
                 /\ dep'[c].pc \notin {"idle", "insert"} /\ ~Insert(c)
                 /\ dep'[c].pc = "unlink" => file[dep[c].body] = "torn" /\ file' = file
                 /\ dep'[c].pc = "match" => file'[dep[c].body] = "good"
              \/ /\ Match(c) /\ dep[c].pc = "match" /\ dep'[c].body = dep[c].body
                 /\ dep'[c].pc = "insert" /\ file' = file
<1>1. /\ TypeOK /\ dep \in [Depositor -> DepState] /\ dep[c] \in DepState
      /\ file \in [Body -> {"none", "torn", "good"}] /\ dep[c].body \in Body
    BY DEF StoreInv, TypeOK, DepState
<1>2. CASE Begin(c)
  <2>1. PICK u \in Uri, b \in Body :
          /\ SameName \/ ~Meets(c, b)
          /\ dep' = [dep EXCEPT ![c] = [NoDep EXCEPT !.pc = "look", !.uri = u, !.body = b]]
    BY <1>2 DEF Begin
  <2> DEFINE x == [NoDep EXCEPT !.pc = "look", !.uri = u, !.body = b]
  <2>2. x \in DepState /\ x.pc = "look" /\ x.body = b
    BY NoDepTyped DEF DepState
  <2> HIDE DEF x
  <2>3. dep' = [dep EXCEPT ![c] = x]
    BY <2>1 DEF x
  <2> QED
    BY <1>1, <1>2, <2>1, <2>2, <2>3 DEF Begin
<1>3. CASE BeginRehome(c)
  <2>1. PICK b \in Away :
          dep' = [dep EXCEPT ![c] = [NoDep EXCEPT !.pc = "look", !.task = "rehome", !.body = b]]
    BY <1>3 DEF BeginRehome
  <2> DEFINE x == [NoDep EXCEPT !.pc = "look", !.task = "rehome", !.body = b]
  <2>2. x \in DepState /\ x.pc = "look" /\ x.body = b
    BY NoDepTyped, CorpusAssumption DEF DepState
  <2> HIDE DEF x
  <2>3. dep' = [dep EXCEPT ![c] = x]
    BY <2>1 DEF x
  <2> QED
    BY <1>1, <1>3, <2>1, <2>2, <2>3 DEF BeginRehome
<1>4. CASE Look(c)
  <2> DEFINE q == IF file[dep[c].body] = "none" THEN "link" ELSE "holds"
  <2>1. DepTo(c, q) /\ dep[c].pc = "look" /\ q \in {"link", "holds"}
    BY <1>4 DEF Look
  <2> HIDE DEF q
  <2>2. /\ dep' \in [Depositor -> DepState] /\ dep'[c].pc = q
        /\ dep'[c].body = dep[c].body /\ \A o \in Depositor \ {c} : dep'[o] = dep[o]
    BY <2>1, DepToFacts
  <2> QED
    BY <2>1, <2>2 DEF Insert
<1>5. ASSUME Written(c), file'[dep[c].body] = "good", dep[c].pc \notin {"idle", "insert"}
      PROVE  /\ dep' \in [Depositor -> DepState]
             /\ \A o \in Depositor \ {c} : dep'[o] = dep[o]
             /\ \/ dep'[c] = NoDep
                \/ /\ dep[c].pc # "idle" /\ dep'[c].body = dep[c].body
                   /\ dep'[c].pc = "match" /\ ~Insert(c)
  <2>1. CASE DepTo(c, "match")
    BY <1>5, <2>1, DepToFacts DEF Insert
  <2>2. CASE DepEnds(c)
    BY <2>2, DepEndsFacts
  <2> QED
    BY <1>5, <2>1, <2>2 DEF Written
<1>6. CASE Holds(c)
  <2>1. dep[c].pc = "holds" /\ file' = file
    BY <1>6 DEF Holds
  <2>2. CASE file[dep[c].body] = "none"
    BY <1>6, <2>2, DepEndsFacts DEF Holds
  <2>3. CASE file[dep[c].body] = "torn"
    <3>1. DepTo(c, "link")
      BY <1>6, <2>3 DEF Holds
    <3> QED
      BY <2>1, <3>1, DepToFacts DEF Insert
  <2>4. CASE file[dep[c].body] = "good"
    <3>1. Written(c)
      BY <1>6, <2>4 DEF Holds
    <3> QED
      BY <1>5, <2>1, <2>4, <3>1
  <2> QED
    BY <1>1, <2>2, <2>3, <2>4
<1>7. CASE Link(c)
  <2>1. dep[c].pc = "link"
    BY <1>7 DEF Link
  <2>2. CASE file[dep[c].body] = "none"
    <3>1. Written(c) /\ file'[dep[c].body] = "good"
      BY <1>1, <1>7, <2>2 DEF Link
    <3> QED
      BY <1>5, <2>1, <3>1
  <2>3. CASE file[dep[c].body] # "none"
    <3>1. DepTo(c, "judge")
      BY <1>7, <2>3 DEF Link
    <3> QED
      BY <2>1, <3>1, DepToFacts DEF Insert
  <2> QED
    BY <2>2, <2>3
<1>8. CASE Judge(c)
  <2>1. dep[c].pc = "judge" /\ file' = file
    BY <1>8 DEF Judge
  <2>2. CASE file[dep[c].body] = "good"
    <3>1. Written(c)
      BY <1>8, <2>2 DEF Judge
    <3> QED
      BY <1>5, <2>1, <2>2, <3>1
  <2>3. CASE file[dep[c].body] = "torn" /\ dep[c].tries = 0
    <3>1. DepTo(c, "unlink")
      BY <1>8, <2>3 DEF Judge
    <3> QED
      BY <2>1, <2>3, <3>1, DepToFacts DEF Insert
  <2>4. CASE file[dep[c].body] # "good" /\ ~(file[dep[c].body] = "torn" /\ dep[c].tries = 0)
    BY <1>8, <2>4, DepEndsFacts DEF Judge
  <2> QED
    BY <2>2, <2>3, <2>4
<1>9. CASE Unlink(c)
  <2>1. dep[c].pc = "unlink"
    BY <1>9 DEF Unlink
  <2>2. CASE file[dep[c].body] = "none"
    BY <1>9, <2>2, DepEndsFacts DEF Unlink
  <2>3. CASE file[dep[c].body] # "none"
    <3> DEFINE x == [dep[c] EXCEPT !.pc = "link", !.tries = 1]
    <3>1. dep' = [dep EXCEPT ![c] = x]
      BY <1>9, <2>3 DEF Unlink
    <3>2. x \in DepState /\ x.pc = "link" /\ x.body = dep[c].body
      BY <1>1 DEF DepState
    <3> HIDE DEF x
    <3> QED
      BY <1>1, <2>1, <3>1, <3>2 DEF Insert
  <2> QED
    BY <2>2, <2>3
<1>10. CASE Match(c)
  <2>1. dep[c].pc = "match" /\ file' = file
    BY <1>10 DEF Match
  <2>2. CASE DepEnds(c)
    BY <2>2, DepEndsFacts
  <2>3. ASSUME NEW x \in DepState, dep' = [dep EXCEPT ![c] = x], x.pc = "insert", x.body = dep[c].body
        PROVE  /\ dep' \in [Depositor -> DepState] /\ dep'[c].pc = "insert"
               /\ dep'[c].body = dep[c].body /\ \A o \in Depositor \ {c} : dep'[o] = dep[o]
    BY <1>1, <2>3
  <2>4. CASE dep' = [dep EXCEPT ![c].pc = "insert", ![c].new = TRUE]
    <3> DEFINE x == [dep[c] EXCEPT !.pc = "insert", !.new = TRUE]
    <3>1. x \in DepState /\ x.pc = "insert" /\ x.body = dep[c].body
      BY <1>1 DEF DepState
    <3>2. dep' = [dep EXCEPT ![c] = x]
      BY <2>4
    <3> HIDE DEF x
    <3> QED
      BY <1>10, <2>1, <2>3, <3>1, <3>2
  <2>5. ASSUME NEW e \in DOMAIN entries, dep' = [dep EXCEPT ![c].pc = "insert", ![c].entry = e]
        PROVE  /\ dep' \in [Depositor -> DepState] /\ dep'[c].pc = "insert"
               /\ dep'[c].body = dep[c].body /\ \A o \in Depositor \ {c} : dep'[o] = dep[o]
    <3> DEFINE x == [dep[c] EXCEPT !.pc = "insert", !.entry = e]
    <3>1. e \in Nat
      BY <1>1, Rowed
    <3>2. x \in DepState /\ x.pc = "insert" /\ x.body = dep[c].body
      BY <1>1, <3>1 DEF DepState
    <3>3. dep' = [dep EXCEPT ![c] = x]
      BY <2>5
    <3> HIDE DEF x
    <3> QED
      BY <2>3, <3>2, <3>3
  <2>6. \/ DepEnds(c) \/ dep' = [dep EXCEPT ![c].pc = "insert", ![c].new = TRUE]
        \/ \E e \in DOMAIN entries : dep' = [dep EXCEPT ![c].pc = "insert", ![c].entry = e]
    BY <1>10 DEF Match, ByUri, ByBody
  <2>7. CASE \E e \in DOMAIN entries : dep' = [dep EXCEPT ![c].pc = "insert", ![c].entry = e]
    BY <1>10, <2>1, <2>5, <2>7
  <2> QED
    BY <2>2, <2>4, <2>6, <2>7
<1>11. CASE Insert(c) \/ CrashDeposit(c)
    BY <1>11, DepEndsFacts DEF Insert, CrashDeposit
<1> QED
    BY <1>2, <1>3, <1>4, <1>6, <1>7, <1>8, <1>9, <1>10, <1>11 DEF Deposit

\* The steps that write no row.
Quiet ==
    \/ UNCHANGED vars \/ Preview \/ Replan
    \/ \E c \in Depositor : \/ Begin(c) \/ BeginRehome(c) \/ Look(c) \/ Holds(c) \/ Link(c)
                            \/ Judge(c) \/ Unlink(c) \/ Match(c) \/ CrashDeposit(c)

\* Every step is a quiet one or one of the writers'.
LEMMA Steps ==
    ASSUME [Next]_vars
    PROVE  \/ Quiet \/ Delete \/ Lint \/ \E c \in Depositor : Insert(c)
           \/ \E r \in Runner : Gather(r) \/ Write(r)
BY DEF Next, Quiet, Deposit

\* A quiet step writes no row and starts no extraction.
LEMMA QuietFacts ==
    ASSUME Quiet
    PROVE  UNCHANGED <<entries, snaps, parts, ext>>
BY DEF Quiet, vars, Preview, Replan, Begin, BeginRehome, Look, Holds, Link, Judge, Unlink, Match,
       CrashDeposit

\* Rows are only added, and an entry and its content are never another's.
LEMMA RowsStep ==
    ASSUME StoreInv, [Next]_vars
    PROVE  /\ snaps' \in Seq(SnapRow) /\ entries' \in Seq(EntryRow) /\ parts' \in Seq(Particle)
           /\ DOMAIN snaps \subseteq DOMAIN snaps' /\ DOMAIN entries \subseteq DOMAIN entries'
           /\ DOMAIN parts \subseteq DOMAIN parts'
           /\ \A i \in DOMAIN snaps : /\ snaps'[i].entry = snaps[i].entry
                                      /\ snaps'[i].body = snaps[i].body
           /\ \A i \in DOMAIN snaps' : snaps'[i].entry \in DOMAIN entries'
<1>1. /\ TypeOK /\ snaps \in Seq(SnapRow) /\ entries \in Seq(EntryRow) /\ parts \in Seq(Particle)
      /\ \A i \in DOMAIN snaps : snaps[i].entry \in DOMAIN entries
    BY DEF StoreInv, TypeOK
<1>2. CASE Quiet
    BY <1>1, <1>2, QuietFacts
<1>3. CASE Lint
    BY <1>1, <1>3, LintFacts DEF Lint
<1>4. CASE \E c \in Depositor : Insert(c)
  <2>1. PICK c \in Depositor : Insert(c)
    BY <1>4
  <2>2. parts' = parts
    BY <2>1 DEF Insert
  <2>3. /\ snaps' \in Seq(SnapRow) /\ entries' \in Seq(EntryRow)
        /\ DOMAIN snaps' = 1..(Len(snaps) + 1)
        /\ \A i \in DOMAIN snaps : snaps'[i] = snaps[i]
        /\ DOMAIN entries \subseteq DOMAIN entries'
        /\ snaps'[Len(snaps) + 1].entry \in DOMAIN entries'
    BY <2>1, InsertFacts
  <2>4. DOMAIN snaps = 1..Len(snaps) /\ Len(snaps) \in Nat
    BY <1>1, Rowed
  <2>5. \A i \in DOMAIN snaps' : i \in DOMAIN snaps \/ i = Len(snaps) + 1
    BY <2>3, <2>4
  <2>6. \A i \in DOMAIN snaps : i \in DOMAIN snaps'
    BY <2>3, <2>4
  <2> QED
    BY <1>1, <2>2, <2>3, <2>5, <2>6
<1>5. CASE \E r \in Runner : Gather(r)
    BY <1>1, <1>5, SnapFacts DEF Gather
<1>6. CASE \E r \in Runner : Write(r)
  <2>1. PICK r \in Runner : Write(r)
    BY <1>6
  <2>2. entries' = entries
    BY <2>1 DEF Write
  <2> QED
    BY <1>1, <2>1, <2>2, SnapFacts, WriteFacts
<1>7. CASE Delete
    BY <1>1, <1>7, SnapFacts, DeleteFacts
<1> QED
    BY <1>2, <1>3, <1>4, <1>5, <1>6, <1>7, Steps

\* A particle is deleted with its last source and not otherwise.
LEMMA RefsStep ==
    ASSUME StoreInv, [Next]_vars
    PROVE  \A p \in DOMAIN parts' : /\ parts'[p].refs \subseteq DOMAIN snaps'
                                    /\ parts'[p].refs = {} <=> parts'[p].status = "DELETED"
<1>1. \A p \in DOMAIN parts : /\ parts[p].refs \subseteq DOMAIN snaps
                              /\ parts[p].refs = {} <=> parts[p].status = "DELETED"
    BY DEF StoreInv, TypeOK
<1>2. DOMAIN snaps \subseteq DOMAIN snaps'
    BY RowsStep
<1>3. CASE parts' = parts
    BY <1>1, <1>2, <1>3
<1>4. CASE Lint
    BY <1>1, <1>2, <1>4, LintFacts
<1>5. CASE \E r \in Runner : Write(r)
  <2>1. PICK r \in Runner : Write(r)
    BY <1>5
  <2>2. ASSUME NEW p \in DOMAIN parts
        PROVE  /\ parts'[p].refs \subseteq DOMAIN snaps'
               /\ parts'[p].refs = {} <=> parts'[p].status = "DELETED"
    BY <1>1, <1>2, <2>1, WriteFacts
  <2>3. ASSUME NEW p \in DOMAIN parts' \ DOMAIN parts
        PROVE  /\ parts'[p].refs \subseteq DOMAIN snaps'
               /\ parts'[p].refs = {} <=> parts'[p].status = "DELETED"
    <3>1. parts'[p].status = "ACTIVE" /\ parts'[p].refs = {ext[r].snap} /\ ext[r].snap \in DOMAIN snaps
      BY <2>1, WriteFacts
    <3> QED
      BY <1>2, <3>1
  <2> QED
    BY <2>2, <2>3
<1>6. CASE Delete
  <2>1. ASSUME NEW p \in DOMAIN parts
        PROVE  /\ parts'[p].refs \subseteq DOMAIN snaps'
               /\ parts'[p].refs = {} <=> parts'[p].status = "DELETED"
    <3>1. p \in del.strip => parts[p].status # "DELETED" /\ ~(parts[p].refs \subseteq Of(del.entry))
      BY <1>6 DEF Delete, StoreInv, Named
    <3>2. \/ p \in del.kill /\ parts'[p].status = "DELETED" /\ parts'[p].refs = {}
          \/ /\ p \notin del.kill /\ p \in del.strip
             /\ parts'[p].status = parts[p].status
             /\ parts'[p].refs = parts[p].refs \ Of(del.entry)
          \/ p \notin del.kill /\ p \notin del.strip /\ parts'[p] = parts[p]
      BY <1>6, DeleteFacts
    <3> QED
      BY <1>1, <1>2, <3>1, <3>2
  <2>2. DOMAIN parts' = DOMAIN parts
    BY <1>6, DeleteFacts
  <2> QED
    BY <2>1, <2>2
<1> QED
    BY <1>3, <1>4, <1>5, <1>6, Steps, QuietFacts DEF Insert, Gather

\* Two deposits are never both behind the lock.
LEMMA LockedStep ==
    ASSUME StoreInv, [Next]_vars
    PROVE  /\ dep' \in [Depositor -> DepState]
           /\ \A c, d \in Locked' : c = d
           /\ \A c \in Locked' : dep'[c] = dep[c] \/ (Match(c) /\ Locked = {})
<1>1. dep \in [Depositor -> DepState] /\ \A c, d \in Locked : c = d
    BY DEF StoreInv, TypeOK
<1>2. CASE \E c \in Depositor : Begin(c) \/ BeginRehome(c) \/ Deposit(c) \/ CrashDeposit(c)
  <2>1. PICK c \in Depositor : Begin(c) \/ BeginRehome(c) \/ Deposit(c) \/ CrashDeposit(c)
    BY <1>2
  <2>2. /\ dep' \in [Depositor -> DepState] /\ \A o \in Depositor \ {c} : dep'[o] = dep[o]
        /\ dep'[c].pc = "insert" => Match(c)
    BY <2>1, DepositorStep, NoDepTyped
  <2>3. Match(c) => Locked = {}
    BY DEF Match
  <2>4. \A o \in Locked' : o # c => o \in Locked /\ dep'[o] = dep[o]
    BY <2>2 DEF Locked
  <2>5. \A o \in Locked' : o = c => Match(c) /\ Locked = {}
    BY <2>2, <2>3 DEF Locked
  <2> QED
    BY <1>1, <2>2, <2>4, <2>5
<1>3. CASE dep' = dep
  <2>1. Locked' = Locked
    BY <1>3 DEF Locked
  <2> QED
    BY <1>1, <1>3, <2>1
<1> QED
    BY <1>2, <1>3 DEF Next, vars, Gather, Write, Preview, Replan, Delete, Lint

\* A running extraction keeps the snapshot and the candidates it read.
LEMMA ExtStep ==
    ASSUME StoreInv, [Next]_vars
    PROVE  /\ DOMAIN ext' = Runner
           /\ \A r \in Runner :
                 \/ ext'[r] = NoExt
                 \/ /\ ext'[r].pc = "read" /\ ext'[r].snap \in DOMAIN snaps'
                    /\ ext'[r].dup \in [Says[snaps'[ext'[r].snap].body] -> SUBSET DOMAIN parts']
<1>1. /\ DOMAIN ext = Runner
      /\ \A r \in Runner :
            \/ ext[r] = NoExt
            \/ /\ ext[r].pc = "read" /\ ext[r].snap \in DOMAIN snaps
               /\ ext[r].dup \in [Says[snaps[ext[r].snap].body] -> SUBSET DOMAIN parts]
    BY DEF StoreInv, TypeOK
<1>2. /\ DOMAIN snaps \subseteq DOMAIN snaps' /\ DOMAIN parts \subseteq DOMAIN parts'
      /\ \A i \in DOMAIN snaps : snaps'[i].body = snaps[i].body
    BY RowsStep
<1>3. ASSUME NEW r \in Runner, ext'[r] = ext[r]
      PROVE  \/ ext'[r] = NoExt
             \/ /\ ext'[r].pc = "read" /\ ext'[r].snap \in DOMAIN snaps'
                /\ ext'[r].dup \in [Says[snaps'[ext'[r].snap].body] -> SUBSET DOMAIN parts']
  <2>1. CASE ext[r] = NoExt
    BY <1>3, <2>1
  <2>2. CASE ext[r] # NoExt
    <3> DEFINE A == Says[snaps[ext[r].snap].body]
    <3>1. ext[r].pc = "read" /\ ext[r].snap \in DOMAIN snaps /\ ext[r].dup \in [A -> SUBSET DOMAIN parts]
      BY <1>1, <2>2
    <3>2. snaps'[ext[r].snap].body = snaps[ext[r].snap].body
      BY <1>2, <3>1
    <3> HIDE DEF A
    <3>3. ext[r].dup \in [A -> SUBSET DOMAIN parts']
      BY <1>2, <3>1
    <3> QED
      BY <1>2, <1>3, <3>1, <3>2, <3>3 DEF A
  <2> QED
    BY <2>1, <2>2
<1>4. CASE ext' = ext
    BY <1>1, <1>3, <1>4
<1>5. CASE \E r \in Runner : Write(r)
  <2>1. PICK r \in Runner : Write(r)
    BY <1>5
  <2>2. ext' = [ext EXCEPT ![r] = NoExt]
    BY <2>1 DEF Write
  <2>3. DOMAIN ext' = Runner /\ ext'[r] = NoExt /\ \A s \in Runner \ {r} : ext'[s] = ext[s]
    BY <1>1, <2>2
  <2> QED
    BY <1>3, <2>3
<1>6. CASE \E r \in Runner : Gather(r)
  <2>1. PICK r \in Runner : Gather(r)
    BY <1>6
  <2>2. PICK i \in Rows :
          \/ ext' = ext
          \/ /\ ext' = [ext EXCEPT ![r] = [pc |-> "read", snap |-> i,
                         dup |-> [t \in Says[snaps[i].body] |-> {p \in Active : parts[p].text = t}]]]
             /\ snaps' = snaps
    BY <2>1 DEF Gather
  <2>3. CASE ext' # ext
    <3> DEFINE f == [t \in Says[snaps[i].body] |-> {p \in Active : parts[p].text = t}]
               x == [pc |-> "read", snap |-> i, dup |-> f]
    <3>1. ext' = [ext EXCEPT ![r] = x] /\ snaps' = snaps
      BY <2>2, <2>3
    <3>2. f \in [Says[snaps[i].body] -> SUBSET DOMAIN parts]
      BY DEF Active
    <3>3. x.pc = "read" /\ x.snap = i /\ x.dup = f
      OBVIOUS
    <3> HIDE DEF f, x
    <3>4. DOMAIN ext' = Runner /\ ext'[r] = x /\ \A s \in Runner \ {r} : ext'[s] = ext[s]
      BY <1>1, <3>1
    <3>5. i \in DOMAIN snaps /\ parts' = parts
      BY <2>1 DEF Rows, Gather
    <3> QED
      BY <1>3, <3>1, <3>2, <3>3, <3>4, <3>5
  <2> QED
    BY <1>4, <2>3
<1> QED
    BY <1>4, <1>5, <1>6, Steps, QuietFacts DEF Lint, Delete, Insert

\* Only a delete takes a source away or removes a particle.
LEMMA RefsGrow ==
    ASSUME StoreInv, [Next]_vars, ~Delete
    PROVE  \A p \in DOMAIN parts : /\ parts[p].refs \subseteq parts'[p].refs
                                   /\ parts'[p].status = "DELETED" <=> parts[p].status = "DELETED"
<1>1. CASE parts' = parts
    BY <1>1
<1>2. CASE Lint
    BY <1>2, LintFacts
<1>3. CASE \E r \in Runner : Write(r)
    BY <1>3, WriteFacts
<1> QED
    BY <1>1, <1>2, <1>3, Steps, QuietFacts DEF Insert, Gather

\* What the delete is about to do changes only by its own steps.
LEMMA DelStep ==
    ASSUME StoreInv, [Next]_vars
    PROVE  /\ del' = del \/ Preview \/ Replan \/ (Delete /\ del' = NoDel)
           /\ del' \in [pc : {"idle", "asked", "planned"}, entry : Nat, kill : SUBSET Nat,
                        strip : SUBSET Nat]
<1>1. /\ del \in [pc : {"idle", "asked", "planned"}, entry : Nat, kill : SUBSET Nat,
                  strip : SUBSET Nat]
      /\ \A e : Doomed(e) \subseteq DOMAIN parts /\ Shared(e) \subseteq DOMAIN parts
      /\ DOMAIN parts \subseteq Nat /\ DOMAIN entries \subseteq Nat
    BY Rowed DEF StoreInv, TypeOK, Doomed, Shared
<1>2. del' = del \/ Preview \/ Replan \/ (Delete /\ del' = NoDel)
    BY DEF Next, vars, Begin, BeginRehome, Deposit, Look, Holds, Link, Judge, Unlink, Match, Insert,
           CrashDeposit, Gather, Write, Delete, Lint
<1>3. CASE Preview
  <2>1. PICK e \in DOMAIN entries :
          del' = [pc |-> "asked", entry |-> e, kill |-> Doomed(e), strip |-> Shared(e)]
    BY <1>3 DEF Preview
  <2>2. Doomed(e) \in SUBSET Nat /\ Shared(e) \in SUBSET Nat /\ e \in Nat
    BY <1>1
  <2> QED
    BY <1>2, <2>1, <2>2
<1>4. CASE Replan
  <2>1. del' = [del EXCEPT !.pc = "planned", !.kill = Doomed(del.entry), !.strip = Shared(del.entry)]
    BY <1>4 DEF Replan
  <2>2. Doomed(del.entry) \in SUBSET Nat /\ Shared(del.entry) \in SUBSET Nat
    BY <1>1
  <2> QED
    BY <1>1, <1>2, <2>1, <2>2
<1>5. NoDel \in [pc : {"idle", "asked", "planned"}, entry : Nat, kill : SUBSET Nat,
                 strip : SUBSET Nat]
    BY DEF NoDel
<1> QED
    BY <1>1, <1>2, <1>3, <1>4, <1>5

\* The types are kept.
LEMMA TypeStep == ASSUME StoreInv, [Next]_vars PROVE TypeOK'
<1>1. TypeOK
    BY DEF StoreInv
<1>2. file' \in [Body -> {"none", "torn", "good"}]
  <2>1. CASE file' = file
    BY <1>1, <2>1 DEF TypeOK
  <2>2. CASE \E d \in Depositor : Link(d) \/ Unlink(d)
    BY <1>1, <2>2 DEF TypeOK, Link, Unlink
  <2> QED
    BY <2>1, <2>2 DEF Next, vars, Begin, BeginRehome, Deposit, Look, Holds, Judge, Match, Insert,
           CrashDeposit, Gather, Write, Preview, Replan, Delete, Lint
<1>3. used' \in [crash : Nat, delete : Nat]
  <2>1. CASE used' = used
    BY <1>1, <2>1 DEF TypeOK
  <2>2. CASE Preview \/ \E d \in Depositor : CrashDeposit(d)
    <3>1. /\ used \in [crash : Nat, delete : Nat]
          /\ \/ used' = [used EXCEPT !.delete = @ + 1]
             \/ used' = [used EXCEPT !.crash = @ + 1]
      BY <1>1, <2>2 DEF TypeOK, Preview, CrashDeposit
    <3> QED
      BY <3>1
  <2> QED
    BY <2>1, <2>2 DEF Next, vars, Begin, BeginRehome, Deposit, Look, Holds, Link, Judge, Unlink,
           Match, Insert, Gather, Write, Replan, Delete, Lint
<1>4. late' \subseteq DOMAIN parts'
  <2>1. late \subseteq DOMAIN parts /\ DOMAIN parts \subseteq DOMAIN parts'
    BY <1>1, RowsStep DEF TypeOK
  <2>2. CASE late' = late \/ Replan
    BY <2>1, <2>2 DEF Replan
  <2>3. CASE \E r \in Runner : Write(r)
    BY <2>3, WriteFacts
  <2> QED
    BY <2>2, <2>3 DEF Next, vars, Begin, BeginRehome, Deposit, Look, Holds, Link, Judge, Unlink,
           Match, Insert, CrashDeposit, Gather, Preview, Delete, Lint
<1> QED
    BY <1>2, <1>3, <1>4, RowsStep, RefsStep, LockedStep, ExtStep, DelStep DEF TypeOK

\* The snapshots of an entry after a step.
OfAfter(e) == {i \in DOMAIN snaps' : snaps'[i].entry = e}

\* A plan and a deposit go on naming entries that exist.
LEMMA NamedStep == ASSUME StoreInv, [Next]_vars PROVE Named'
<1>1. TypeOK /\ Named
    BY DEF StoreInv
<1>2. /\ DOMAIN snaps \subseteq DOMAIN snaps' /\ DOMAIN entries \subseteq DOMAIN entries'
      /\ DOMAIN parts \subseteq DOMAIN parts'
      /\ \A i \in DOMAIN snaps : snaps'[i].entry = snaps[i].entry
    BY RowsStep
<1>3. ASSUME NEW d \in Depositor, dep'[d].pc = "insert", ~dep'[d].new
      PROVE  dep'[d].entry \in DOMAIN entries'
  <2>1. d \in Locked' /\ dep[d] \in DepState /\ dep \in [Depositor -> DepState]
    BY <1>1, <1>3 DEF Locked, TypeOK
  <2>2. CASE dep'[d] = dep[d]
    BY <1>1, <1>2, <1>3, <2>2 DEF Named
  <2>3. CASE Match(d)
    <3>1. DepEnds(d) => dep'[d].pc = "idle"
      BY DepEndsFacts, NoDepTyped
    <3>2. ASSUME dep' = [dep EXCEPT ![d].pc = "insert", ![d].new = TRUE] PROVE dep'[d].new
      BY <2>1, <3>2 DEF DepState
    <3>3. PICK e \in DOMAIN entries : dep' = [dep EXCEPT ![d].pc = "insert", ![d].entry = e]
      BY <1>3, <2>3, <3>1, <3>2 DEF Match, ByUri, ByBody
    <3>4. dep'[d].entry = e
      BY <2>1, <3>3 DEF DepState
    <3> QED
      BY <1>2, <3>4
  <2> QED
    BY <2>1, <2>2, <2>3, LockedStep
<1>4. ASSUME del'.pc # "idle"
      PROVE  /\ del'.entry \in DOMAIN entries'
             /\ \A p \in del'.strip :
                   /\ p \in DOMAIN parts' /\ parts'[p].status # "DELETED"
                   /\ ~(parts'[p].refs \subseteq OfAfter(del'.entry))
  <2>1. CASE del' = del /\ ~Delete
    <3>1. /\ del.entry \in DOMAIN entries
          /\ \A p \in del.strip : /\ p \in DOMAIN parts /\ parts[p].status # "DELETED"
                                  /\ ~(parts[p].refs \subseteq Of(del.entry))
      BY <1>1, <1>4, <2>1 DEF Named
    <3>2. ASSUME NEW p \in del.strip
          PROVE  /\ p \in DOMAIN parts' /\ parts'[p].status # "DELETED"
                 /\ ~(parts'[p].refs \subseteq OfAfter(del.entry))
      <4>1. PICK i \in parts[p].refs : i \notin Of(del.entry)
        BY <3>1
      <4>2. i \in DOMAIN snaps /\ snaps[i].entry # del.entry
        BY <1>1, <3>1, <4>1 DEF TypeOK, Of
      <4>3. i \notin OfAfter(del.entry)
        BY <1>2, <2>1, <4>2 DEF OfAfter
      <4>4. i \in parts'[p].refs /\ parts'[p].status # "DELETED"
        BY <2>1, <3>1, <4>1, RefsGrow
      <4> QED
        BY <1>2, <3>1, <4>3, <4>4
    <3> QED
      BY <1>2, <2>1, <3>1, <3>2
  <2>2. CASE Preview
    <3>1. PICK e \in DOMAIN entries :
            del' = [pc |-> "asked", entry |-> e, kill |-> Doomed(e), strip |-> Shared(e)]
      BY <2>2 DEF Preview
    <3>2. entries' = entries /\ snaps' = snaps /\ parts' = parts
      BY <2>2 DEF Preview
    <3> QED
      BY <3>1, <3>2 DEF Shared, Of, OfAfter
  <2>3. CASE Replan
    <3>1. del' = [del EXCEPT !.pc = "planned", !.kill = Doomed(del.entry), !.strip = Shared(del.entry)]
      BY <2>3 DEF Replan
    <3>2. entries' = entries /\ snaps' = snaps /\ parts' = parts /\ del.pc = "asked"
      BY <2>3 DEF Replan
    <3>3. del'.entry = del.entry /\ del'.strip = Shared(del.entry)
      BY <1>1, <3>1 DEF TypeOK
    <3>4. del.entry \in DOMAIN entries
      BY <1>1, <3>2 DEF Named
    <3> QED
      BY <3>2, <3>3, <3>4 DEF Shared, Of, OfAfter
  <2>4. ~Delete
    <3>1. ASSUME Delete PROVE del'.pc = "idle"
      BY <3>1 DEF Delete, NoDel
    <3> QED
      BY <1>4, <3>1
  <2> QED
    BY <2>1, <2>2, <2>3, <2>4, DelStep
<1> QED
    BY <1>3, <1>4 DEF Named, Of, OfAfter

\* The rows as they are at first.
LEMMA InitStore == Init => StoreInv
<1> SUFFICES ASSUME Init PROVE StoreInv
    OBVIOUS
<1>1. /\ Len(Old) \in Nat /\ DOMAIN Old = 1..Len(Old)
      /\ \A k \in DOMAIN Old : Old[k] \in Body
    BY SetToSeqIsSeq, CorpusAssumption DEF Old
<1>2. entries \in [1..Len(Old) -> EntryRow] /\ snaps \in [1..Len(Old) -> SnapRow]
  <2>1. \A k \in DOMAIN Old : entries[k] \in EntryRow /\ snaps[k] \in SnapRow
    BY <1>1 DEF Init, EntryRow, SnapRow
  <2> QED
    BY <1>1, <2>1 DEF Init
<1>3. entries \in Seq(EntryRow) /\ snaps \in Seq(SnapRow) /\ parts \in Seq(Particle)
    BY <1>1, <1>2 DEF Init
<1>4. dep \in [Depositor -> DepState] /\ Locked = {}
    BY NoDepTyped DEF Init, Locked
<1>5. /\ \A i \in DOMAIN snaps : snaps[i].entry \in DOMAIN entries
      /\ DOMAIN parts = {} /\ DOMAIN ext = Runner /\ \A r \in Runner : ext[r] = NoExt
    BY DEF Init
<1>6. TypeOK
    BY <1>3, <1>4, <1>5 DEF TypeOK, Init, NoDel
<1>7. Named
    BY <1>4 DEF Named, Init, NoDel, Locked
<1> QED
    BY <1>6, <1>7 DEF StoreInv

\* Tables, depositors, extractions and the delete stay well formed: snapshots name
\* entries, particles name snapshots, a particle loses its last source only when
\* it is deleted, and one deposit at a time is behind the lock, also where a
\* delete's statements fall inside another's write block.
THEOREM CorpusTyped == Spec => []TypeOK
<1>1. StoreInv /\ [Next]_vars => StoreInv'
    BY TypeStep, NamedStep DEF StoreInv
<1>2. StoreInv => TypeOK
    BY DEF StoreInv
<1> QED
    BY <1>1, <1>2, InitStore, PTL DEF Spec

--------------------------------------------------------------------------------
\* Which row comes to be there: only one that is inserted.
LEMMA NewRow ==
    ASSUME StoreInv, [Next]_vars, NEW i \in Rows'
    PROVE  \/ i \in Rows /\ snaps'[i].body = snaps[i].body /\ snaps'[i].entry = snaps[i].entry
              /\ i \in DOMAIN snaps
           \/ \E d \in Depositor : /\ Insert(d) /\ i = Len(snaps) + 1 /\ snaps'[i].body = dep[d].body
                                   /\ dep[d].pc = "insert"
<1>1. i \in DOMAIN snaps' /\ snaps'[i].there
    BY DEF Rows
<1>2. CASE snaps' = snaps
    BY <1>2 DEF Rows
<1>3. CASE (\E r \in Runner : Gather(r) \/ Write(r)) \/ Delete
  <2>1. /\ DOMAIN snaps' = DOMAIN snaps
        /\ \A k \in DOMAIN snaps :
              /\ snaps'[k].entry = snaps[k].entry /\ snaps'[k].body = snaps[k].body
              /\ snaps'[k].there => snaps[k].there
    BY <1>3, SnapFacts
  <2> QED
    BY <1>1, <2>1 DEF Rows
<1>4. CASE \E d \in Depositor : Insert(d)
  <2>1. PICK d \in Depositor : Insert(d)
    BY <1>4
  <2>2. /\ DOMAIN snaps' = 1..(Len(snaps) + 1) /\ \A k \in DOMAIN snaps : snaps'[k] = snaps[k]
        /\ snaps'[Len(snaps) + 1].body = dep[d].body
    BY <2>1, InsertFacts
  <2>3. DOMAIN snaps = 1..Len(snaps) /\ Len(snaps) \in Nat
    BY Rowed DEF StoreInv
  <2>4. i \in DOMAIN snaps \/ i = Len(snaps) + 1
    BY <1>1, <2>2, <2>3
  <2>5. dep[d].pc = "insert"
    BY <2>1 DEF Insert
  <2> QED
    BY <1>1, <2>1, <2>2, <2>4, <2>5 DEF Rows
<1> QED
    BY <1>2, <1>3, <1>4, Steps, QuietFacts DEF Lint

\* A name changes only when a blob is linked to a free one, or a torn one freed.
LEMMA FileStep ==
    ASSUME BlobInv, [Next]_vars, NEW b \in Body
    PROVE  \/ file'[b] = file[b]
           \/ file[b] = "none" /\ file'[b] = "good"
           \/ /\ file[b] = "torn" /\ file'[b] = "none"
              /\ \E d \in Depositor : Unlink(d) /\ dep[d].pc = "unlink" /\ dep[d].body = b
<1>1. file \in [Body -> {"none", "torn", "good"}] /\ \A d \in Depositor : dep[d].body \in Body
    BY DEF BlobInv, StoreInv, TypeOK, DepState
<1>2. CASE file' = file
    BY <1>2
<1>3. ASSUME NEW d \in Depositor, Link(d)
      PROVE  file'[b] = file[b] \/ (file[b] = "none" /\ file'[b] = "good")
    BY <1>1, <1>3 DEF Link
<1>4. ASSUME NEW d \in Depositor, Unlink(d)
      PROVE  \/ file'[b] = file[b]
             \/ /\ file[b] = "torn" /\ file'[b] = "none"
                /\ Unlink(d) /\ dep[d].pc = "unlink" /\ dep[d].body = b
  <2>1. dep[d].pc = "unlink" /\ file' = [file EXCEPT ![dep[d].body] = "none"]
    BY <1>4 DEF Unlink
  <2>2. file[dep[d].body] = "torn"
    BY <2>1 DEF BlobInv, BlobStays
  <2> QED
    BY <1>1, <1>4, <2>1, <2>2
<1> QED
    BY <1>2, <1>3, <1>4 DEF Next, vars, Begin, BeginRehome, Deposit, Look, Holds, Judge, Match,
           Insert, CrashDeposit, Gather, Write, Preview, Replan, Delete, Lint

\* Every step is one depositor's or leaves the depositors alone.
LEMMA DepSteps ==
    ASSUME [Next]_vars
    PROVE  \/ UNCHANGED <<dep, file>>
           \/ \E c \in Depositor : Begin(c) \/ BeginRehome(c) \/ Deposit(c) \/ CrashDeposit(c)
BY DEF Next, vars, Gather, Write, Preview, Replan, Delete, Lint

\* Nobody comes to a torn file that another writer is at.
LEMMA TornStep == ASSUME BlobInv, ~SameName, [Next]_vars PROVE TornAlone'
<1>1. StoreInv /\ TornAlone
    BY DEF BlobInv
<1>2. \A b \in Body : file'[b] = "torn" => b \in Torn
    BY <1>1, FileStep DEF TornAlone
<1>3. ASSUME NEW c \in Depositor, NEW d \in Depositor, c # d,
             dep'[c].pc # "idle", dep'[d].pc # "idle", dep'[c].body = dep'[d].body,
             Begin(c) \/ BeginRehome(c) \/ Deposit(c) \/ CrashDeposit(c)
      PROVE  dep'[c].body \notin Torn
  <2>1. dep'[d] = dep[d] /\ dep'[c] # NoDep
    BY <1>1, <1>3, DepositorStep, NoDepTyped
  <2>2. CASE dep[c].pc # "idle" /\ dep'[c].body = dep[c].body
    BY <1>1, <1>3, <2>1, <2>2 DEF TornAlone
  <2>3. CASE dep'[c].body \in Away
    BY <2>3, CorpusAssumption
  <2>4. CASE ~Meets(c, dep'[c].body)
    BY <1>3, <2>1, <2>4 DEF Meets
  <2>5. Match(c) => dep[c].pc = "match"
    BY DEF Match
  <2> QED
    BY <1>1, <1>3, <2>1, <2>2, <2>3, <2>4, <2>5, DepositorStep
<1>4. ASSUME NEW c \in Depositor, NEW d \in Depositor, c # d,
             dep'[c].pc # "idle", dep'[d].pc # "idle", dep'[c].body = dep'[d].body
      PROVE  dep'[c].body \notin Torn
  <2>1. CASE dep' = dep
    BY <1>1, <1>4, <2>1 DEF TornAlone
  <2>2. ASSUME NEW o \in Depositor, Begin(o) \/ BeginRehome(o) \/ Deposit(o) \/ CrashDeposit(o)
        PROVE  dep'[c].body \notin Torn
    <3>1. CASE o = c
      BY <1>3, <1>4, <2>2, <3>1
    <3>2. CASE o = d
      BY <1>3, <1>4, <2>2, <3>2
    <3>3. CASE o # c /\ o # d
      <4>1. dep'[c] = dep[c] /\ dep'[d] = dep[d]
        BY <1>1, <2>2, <3>3, DepositorStep
      <4> QED
        BY <1>1, <1>4, <4>1 DEF TornAlone
    <3> QED
      BY <3>1, <3>2, <3>3
  <2> QED
    BY <2>1, <2>2, DepSteps
<1> QED
    BY <1>2, <1>4 DEF TornAlone

\* A blob that was found or written stays for the deposit that counts on it.
LEMMA BlobStep == ASSUME BlobInv, ~SameName, [Next]_vars PROVE BlobStays'
<1>1. StoreInv /\ TornAlone /\ BlobStays /\ \A d \in Depositor : dep[d].body \in Body
    BY DEF BlobInv, StoreInv, TypeOK, DepState
<1> SUFFICES ASSUME NEW d \in Depositor
             PROVE  /\ dep'[d].pc = "unlink" => file'[dep'[d].body] = "torn"
                    /\ dep'[d].pc \in {"match", "insert"} => file'[dep'[d].body] = "good"
    BY DEF BlobStays
<1>2. file[dep[d].body] = "good" => file'[dep[d].body] = "good"
    BY <1>1, FileStep
<1>3. CASE Begin(d) \/ BeginRehome(d) \/ Deposit(d) \/ CrashDeposit(d)
    BY <1>1, <1>2, <1>3, DepositorStep, NoDepTyped DEF BlobStays
<1>4. CASE dep'[d] = dep[d] /\ ~Unlink(d)
  <2>1. ASSUME dep[d].pc = "unlink" PROVE file'[dep[d].body] = "torn"
    <3>1. file[dep[d].body] = "torn" /\ dep[d].body \in Torn
      BY <1>1, <2>1 DEF BlobStays, TornAlone
    <3>2. ASSUME NEW o \in Depositor, Unlink(o), dep[o].pc = "unlink", dep[o].body = dep[d].body
          PROVE  FALSE
      BY <1>1, <1>4, <2>1, <3>1, <3>2 DEF TornAlone
    <3> QED
      BY <1>1, <3>1, <3>2, FileStep
  <2> QED
    BY <1>1, <1>2, <1>4, <2>1 DEF BlobStays
<1>5. dep'[d] = dep[d] \/ Begin(d) \/ BeginRehome(d) \/ Deposit(d) \/ CrashDeposit(d)
    BY <1>1, DepSteps, DepositorStep
<1> QED
    BY <1>3, <1>4, <1>5 DEF Deposit

\* No step takes a blob away from a row, and a row is added after its blob.
LEMMA ReadableStep == ASSUME BlobInv, [Next]_vars PROVE RowsAreReadable'
<1>1. StoreInv /\ BlobStays /\ RowsAreReadable
      /\ (\A d \in Depositor : dep[d].body \in Body) /\ \A i \in Rows : snaps[i].body \in Body
  <2>1. \A i \in Rows : snaps[i] \in SnapRow
    BY Rowed DEF BlobInv, StoreInv, Rows
  <2> QED
    BY <2>1 DEF BlobInv, StoreInv, TypeOK, DepState, SnapRow
<1> SUFFICES ASSUME NEW i \in Rows', i > Len(Old) PROVE file'[snaps'[i].body] = "good"
    BY DEF RowsAreReadable
<1>2. \A b \in Body : file[b] = "good" => file'[b] = "good"
    BY FileStep
<1>3. CASE i \in Rows /\ snaps'[i].body = snaps[i].body
    BY <1>1, <1>2, <1>3 DEF RowsAreReadable
<1>4. CASE \E d \in Depositor : snaps'[i].body = dep[d].body /\ dep[d].pc = "insert"
    BY <1>1, <1>2, <1>4 DEF BlobStays
<1> QED
    BY <1>1, <1>3, <1>4, NewRow

\* The blob is there before the row that names it and stays, whatever crashed,
\* whoever wrote the same bytes at the same time and whatever was deleted, as long
\* as no two writers meet on one torn file.
THEOREM RowsStayReadable == ~SameName /\ Spec => []RowsAreReadable
<1> SUFFICES ASSUME ~SameName PROVE Spec => []RowsAreReadable
    OBVIOUS
<1>1. Init => BlobInv
  <2> SUFFICES ASSUME Init PROVE BlobInv
    OBVIOUS
  <2>1. Len(Old) \in Nat /\ DOMAIN Old = 1..Len(Old)
    BY SetToSeqIsSeq, CorpusAssumption DEF Old
  <2>2. \A i \in Rows : ~(i > Len(Old))
    BY <2>1 DEF Init, Rows
  <2>3. \A d \in Depositor : dep[d].pc = "idle"
    BY NoDepTyped DEF Init
  <2> QED
    BY <2>2, <2>3, InitStore DEF BlobInv, TornAlone, BlobStays, RowsAreReadable, Init
<1>2. BlobInv /\ [Next]_vars => BlobInv'
    BY TypeStep, NamedStep, TornStep, BlobStep, ReadableStep DEF BlobInv, StoreInv
<1>3. BlobInv => RowsAreReadable
    BY DEF BlobInv
<1> QED
    BY <1>1, <1>2, <1>3, PTL DEF Spec

--------------------------------------------------------------------------------
\* The rows of an entry after a step, and whether a deposit of a body would find it
\* unchanged.
RowsAfter(e) == {i \in OfAfter(e) : snaps'[i].there}
UnchangedAfter(e, b) == RowsAfter(e) # {} /\ snaps'[Newest(RowsAfter(e))].body = b

\* The newest of some rows is one of them.
LEMMA NewestIn ==
    ASSUME NEW n \in Nat, NEW S \in SUBSET (1..n), S # {}
    PROVE  Newest(S) \in S
<1> DEFINE Less == {x \in Nat \X Nat : x[1] < x[2]}
           T == {n - j : j \in S}
<1>1. IsWellFoundedOn(Less, Nat)
    BY NatLessThanWellFounded, Zenon DEF OpToRel
<1>2. T \subseteq Nat /\ T # {}
  <2>1. \A j \in S : j \in 1..n
    OBVIOUS
  <2>2. \A j \in S : n - j \in Nat
    BY <2>1
  <2> QED
    BY <2>2
<1> HIDE DEF Less
<1>3. PICK m \in T : \A k \in T : ~(<<k, m>> \in Less)
    BY <1>1, <1>2, WFMin
<1>4. PICK x \in S : m = n - x
    OBVIOUS
<1>5. ASSUME NEW j \in S PROVE j <= x
  <2> DEFINE k == n - j
  <2>1. k \in Nat /\ m \in Nat /\ k \in T
    BY <1>2
  <2> HIDE DEF k, T
  <2>2. ~(k < m)
    BY <1>3, <2>1, Zenon DEF Less
  <2> QED
    BY <1>4, <2>1, <2>2 DEF k
<1>6. \E i \in S : \A j \in S : j <= i
    BY <1>5
<1> QED
    BY <1>6 DEF Newest

\* Whatever runs between a delete's plan and its writes, the plan holds of the
\* particles no extraction wrote.
LEMMA PlanStep == ASSUME RowInv, [Next]_vars PROVE PlanHolds'
<1>1. /\ StoreInv /\ PlanHolds
      /\ \A p \in DOMAIN parts : parts[p].refs \subseteq DOMAIN snaps
    BY DEF RowInv, StoreInv, TypeOK
<1> SUFFICES ASSUME del'.pc = "planned", NEW p \in DOMAIN parts' \ late'
             PROVE  /\ p \in del'.kill => parts'[p].refs \subseteq OfAfter(del'.entry)
                    /\ p \notin del'.kill /\ p \notin del'.strip /\ parts'[p].status # "DELETED" =>
                          parts'[p].refs \cap OfAfter(del'.entry) = {}
    BY DEF PlanHolds, OfAfter, Of
<1>2. CASE Replan
  <2>1. /\ snaps' = snaps /\ parts' = parts
        /\ del' = [del EXCEPT !.pc = "planned", !.kill = Doomed(del.entry), !.strip = Shared(del.entry)]
    BY <1>2 DEF Replan
  <2>2. del'.entry = del.entry /\ del'.kill = Doomed(del.entry) /\ del'.strip = Shared(del.entry)
    BY <1>1, <2>1 DEF StoreInv, TypeOK
  <2>3. OfAfter(del.entry) = Of(del.entry)
    BY <2>1 DEF OfAfter, Of
  <2> QED
    BY <2>1, <2>2, <2>3 DEF Doomed, Shared
<1>3. CASE del' = del /\ ~Delete /\ ~Replan
  <2>1. /\ p \in DOMAIN parts /\ p \notin late /\ parts'[p].refs = parts[p].refs
        /\ parts'[p].status = "DELETED" <=> parts[p].status = "DELETED"
    <3>1. CASE \E r \in Runner : Write(r)
      <4>1. PICK r \in Runner : Write(r)
        BY <3>1
      <4>2. p \in DOMAIN parts /\ parts'[p] = parts[p]
        BY <1>1, <1>3, <4>1, WriteFacts
      <4>3. late \subseteq late'
        BY <4>1 DEF Write
      <4> QED
        BY <4>2, <4>3
    <3>2. CASE Lint
      BY <1>1, <3>2, LintFacts DEF Lint
    <3>3. CASE parts' = parts /\ late' = late
      BY <3>3
    <3> QED
      BY <1>3, <3>1, <3>2, <3>3 DEF Next, vars, Begin, BeginRehome, Deposit, Look, Holds, Link,
             Judge, Unlink, Match, Insert, CrashDeposit, Gather, Preview
  <2>2. parts[p].refs \cap OfAfter(del.entry) = parts[p].refs \cap Of(del.entry)
    <3>1. \A i \in DOMAIN snaps : i \in DOMAIN snaps' /\ snaps'[i].entry = snaps[i].entry
      BY <1>1, RowsStep
    <3> QED
      BY <1>1, <2>1, <3>1 DEF OfAfter, Of
  <2>3. /\ p \in del.kill => parts[p].refs \subseteq Of(del.entry)
        /\ p \notin del.kill /\ p \notin del.strip /\ parts[p].status # "DELETED" =>
              parts[p].refs \cap Of(del.entry) = {}
    BY <1>1, <1>3, <2>1 DEF PlanHolds
  <2>4. p \in del.kill => parts[p].refs \subseteq OfAfter(del.entry)
    BY <2>2, <2>3
  <2> QED
    BY <1>3, <2>1, <2>2, <2>3, <2>4
<1>4. ~Preview
  <2>1. ASSUME Preview PROVE del'.pc = "asked"
    BY <2>1 DEF Preview
  <2> QED
    BY <2>1
<1>5. ~Delete
  <2>1. ASSUME Delete PROVE del'.pc = "idle"
    BY <2>1 DEF Delete, NoDel
  <2> QED
    BY <2>1
<1> QED
    BY <1>1, <1>2, <1>3, <1>4, <1>5, DelStep

\* What a deposit found behind the lock is so when it inserts, unless a delete took
\* the entry and all its rows away.
LEMMA MatchStep == ASSUME RowInv, [Next]_vars PROVE MatchHolds'
<1>1. StoreInv /\ MatchHolds
    BY DEF RowInv
<1> SUFFICES ASSUME NEW c \in Depositor, dep'[c].pc = "insert", ~dep'[c].new
             PROVE  /\ ~UnchangedAfter(dep'[c].entry, dep'[c].body)
                    /\ ~entries'[dep'[c].entry].there => RowsAfter(dep'[c].entry) = {}
  <2>1. \A e : (Of(e) \cap Rows)' = {i \in DOMAIN snaps' : snaps'[i].entry = e /\ snaps'[i].there}
    BY DEF Of, Rows
  <2>2. \A e : RowsAfter(e) = {i \in DOMAIN snaps' : snaps'[i].entry = e /\ snaps'[i].there}
    BY DEF RowsAfter, OfAfter
  <2> QED
    BY <2>1, <2>2 DEF MatchHolds, Unchanged, UnchangedAfter
<1>2. c \in Locked'
    BY DEF Locked
<1>3. CASE dep'[c] = dep[c]
  <2>1. c \in Locked /\ dep[c].pc = "insert" /\ ~dep[c].new
    BY <1>3 DEF Locked
  <2>2. /\ ~Unchanged(dep[c].entry, dep[c].body) /\ dep[c].entry \in DOMAIN entries
        /\ ~entries[dep[c].entry].there => Of(dep[c].entry) \cap Rows = {}
    BY <1>1, <2>1 DEF MatchHolds, StoreInv, Named
  <2>3. \A r \in Runner : ~Write(r)
    BY <2>1 DEF Write
  <2>4. \A o \in Depositor : ~Insert(o)
    <3>1. ASSUME NEW o \in Depositor, Insert(o) PROVE FALSE
      <4>1. o \in Locked
        BY <3>1 DEF Insert, Locked
      <4>2. o = c
        BY <1>1, <2>1, <4>1 DEF StoreInv, TypeOK
      <4>3. dep'[o] = NoDep
        BY <1>1, <3>1, DepEndsFacts DEF Insert
      <4> QED
        BY <4>2, <4>3, NoDepTyped
    <3> QED
      BY <3>1
  <2>5. CASE entries' = entries /\ snaps' = snaps
    <3>1. RowsAfter(dep[c].entry) = Of(dep[c].entry) \cap Rows
      BY <2>5 DEF RowsAfter, OfAfter, Of, Rows
    <3> QED
      BY <1>3, <2>2, <2>5, <3>1 DEF Unchanged, UnchangedAfter
  <2>6. CASE ((\E r \in Runner : Gather(r)) /\ ~Delete) \/ (Delete /\ dep[c].entry # del.entry)
    <3>1. entries'[dep[c].entry].there <=> entries[dep[c].entry].there
      BY <1>1, <2>2, <2>6, DeleteFacts DEF Gather
    <3>2. /\ DOMAIN snaps' = DOMAIN snaps
          /\ \A i \in DOMAIN snaps :
                /\ snaps'[i].entry = snaps[i].entry /\ snaps'[i].body = snaps[i].body
                /\ i \in Of(dep[c].entry) => (snaps'[i].there <=> snaps[i].there)
      BY <1>1, <2>6, SnapFacts DEF Of
    <3> DEFINE S == Of(dep[c].entry) \cap Rows
    <3>3. RowsAfter(dep[c].entry) = S
      BY <3>2 DEF RowsAfter, OfAfter, Of, Rows
    <3>4. \A i \in S : snaps'[i].body = snaps[i].body
      BY <3>2 DEF Of, Rows
    <3>5. ~(S # {} /\ snaps[Newest(S)].body = dep[c].body)
      BY <2>2 DEF Unchanged
    <3>6. S # {} => Newest(S) \in S
      <4>1. S \in SUBSET (1..Len(snaps)) /\ Len(snaps) \in Nat
        BY <1>1, Rowed DEF StoreInv, Of, Rows
      <4> QED
        BY <4>1, NewestIn
    <3> QED
      BY <1>3, <2>2, <3>1, <3>3, <3>4, <3>5, <3>6 DEF UnchangedAfter
  <2>7. CASE Delete /\ dep[c].entry = del.entry
    <3>1. RowsAfter(dep[c].entry) = {}
      BY <1>1, <2>7, SnapFacts DEF RowsAfter, OfAfter, Of
    <3> QED
      BY <1>3, <3>1 DEF UnchangedAfter
  <2>8. ASSUME NEW r \in Runner, Gather(r) PROVE ~Delete
    <3>1. ASSUME Delete PROVE del.pc = "planned" /\ del'.pc = "idle"
      BY <3>1 DEF Delete, NoDel
    <3> QED
      BY <2>8, <3>1 DEF Gather
  <2> QED
    BY <2>3, <2>4, <2>5, <2>6, <2>7, <2>8, Steps, QuietFacts DEF Lint
<1>4. CASE Match(c)
  <2>1. entries' = entries /\ snaps' = snaps /\ dep \in [Depositor -> DepState] /\ dep[c] \in DepState
    BY <1>1, <1>4 DEF Match, StoreInv, TypeOK
  <2>2. DepEnds(c) => dep'[c].pc = "idle"
    BY <1>1, DepEndsFacts, NoDepTyped
  <2>3. ASSUME dep' = [dep EXCEPT ![c].pc = "insert", ![c].new = TRUE] PROVE dep'[c].new
    BY <2>1, <2>3 DEF DepState
  <2>4. PICK e \in DOMAIN entries : /\ dep' = [dep EXCEPT ![c].pc = "insert", ![c].entry = e]
                                    /\ entries[e].there /\ ~Unchanged(e, dep[c].body)
    BY <1>4, <2>2, <2>3 DEF Match, ByUri, ByBody
  <2>5. dep'[c].entry = e /\ dep'[c].body = dep[c].body
    BY <2>1, <2>4 DEF DepState
  <2>6. RowsAfter(e) = Of(e) \cap Rows
    BY <2>1 DEF RowsAfter, OfAfter, Of, Rows
  <2> QED
    BY <2>1, <2>4, <2>5, <2>6 DEF Unchanged, UnchangedAfter
<1> QED
    BY <1>1, <1>2, <1>3, <1>4, LockedStep

\* A new row differs from the generation before it.
LEMMA DifferStep == ASSUME RowInv, [Next]_vars PROVE GenerationsDiffer'
<1>1. /\ StoreInv /\ TypeOK /\ MatchHolds /\ GenerationsDiffer
      /\ Len(snaps) \in Nat /\ DOMAIN snaps = 1..Len(snaps)
      /\ Len(entries) \in Nat /\ DOMAIN entries = 1..Len(entries)
      /\ \A i \in DOMAIN snaps : snaps[i].entry \in DOMAIN entries
    BY Rowed DEF RowInv, StoreInv, TypeOK
<1> SUFFICES ASSUME NEW i \in Rows'
             PROVE  \A j \in Rows' : (j < i /\ snaps'[j].entry = snaps'[i].entry
                           /\ \A k \in (j + 1)..(i - 1) : snaps'[k].entry # snaps'[i].entry)
                          => snaps'[j].body # snaps'[i].body
    BY DEF GenerationsDiffer
<1>2. \A k \in DOMAIN snaps : snaps'[k].entry = snaps[k].entry /\ snaps'[k].body = snaps[k].body
    BY <1>1, RowsStep
<1>3. CASE i \in Rows /\ i \in DOMAIN snaps
  <2>2. ASSUME NEW j \in Rows', j < i, snaps'[j].entry = snaps'[i].entry,
               \A k \in (j + 1)..(i - 1) : snaps'[k].entry # snaps'[i].entry
        PROVE  snaps'[j].body # snaps'[i].body
    <3>1. i \in 1..Len(snaps) /\ j # Len(snaps) + 1
      BY <1>1, <1>3, <2>2
    <3>2. j \in Rows /\ j \in DOMAIN snaps
      BY <1>1, <3>1, NewRow
    <3>3. \A k \in (j + 1)..(i - 1) : k \in DOMAIN snaps
      BY <1>1, <3>1, <3>2
    <3>4. \A k \in (j + 1)..(i - 1) : snaps[k].entry # snaps[i].entry
      BY <1>2, <1>3, <2>2, <3>3
    <3>5. snaps[j].entry = snaps[i].entry
      BY <1>2, <1>3, <2>2, <3>2
    <3>6. snaps[j].body # snaps[i].body
      BY <1>1, <1>3, <2>2, <3>2, <3>4, <3>5 DEF GenerationsDiffer
    <3> QED
      BY <1>2, <1>3, <3>2, <3>6
  <2> QED
    BY <2>2
<1>4. ASSUME NEW d \in Depositor, Insert(d), i = Len(snaps) + 1
      PROVE  \A j \in Rows' : (j < i /\ snaps'[j].entry = snaps'[i].entry
                    /\ \A k \in (j + 1)..(i - 1) : snaps'[k].entry # snaps'[i].entry)
                   => snaps'[j].body # snaps'[i].body
  <2>1. dep[d].pc = "insert" /\ dep[d].new \in BOOLEAN
    BY <1>1, <1>4 DEF Insert, TypeOK, DepState
  <2>2. /\ snaps'[i].there /\ snaps'[i].body = dep[d].body
        /\ entries'[snaps'[i].entry].there \/ ~dep[d].new
        /\ snaps'[i].entry = IF dep[d].new THEN Len(entries) + 1 ELSE dep[d].entry
        /\ \A e \in DOMAIN entries : entries'[e] = entries[e]
        /\ \A k \in DOMAIN snaps : snaps'[k] = snaps[k]
    BY <1>1, <1>4, InsertFacts
  <2>3. ~dep[d].new => ~Unchanged(dep[d].entry, dep[d].body)
    BY <1>1, <2>1 DEF MatchHolds
  <2>5. ASSUME NEW j \in Rows', j < i, snaps'[j].entry = snaps'[i].entry,
               \A k \in (j + 1)..(i - 1) : snaps'[k].entry # snaps'[i].entry
        PROVE  snaps'[j].body # snaps'[i].body
    <3>1. j \in Rows /\ j \in DOMAIN snaps /\ j # Len(snaps) + 1
      <4>1. j # Len(snaps) + 1
        BY <1>1, <1>4, <2>5
      <4> QED
        BY <1>1, <4>1, NewRow
    <3>2. snaps[j].entry = snaps'[i].entry
      BY <2>2, <2>5, <3>1
    <3>3. CASE dep[d].new
      <4>1. snaps[j].entry \in 1..Len(entries) /\ snaps[j].entry = Len(entries) + 1
        BY <1>1, <2>2, <3>1, <3>2, <3>3
      <4> QED
        BY <1>1, <4>1
    <3>4. CASE ~dep[d].new
      <4> DEFINE e == dep[d].entry
                 S == Of(e) \cap Rows
      <4>1. j \in S /\ \A k \in S : k \in DOMAIN snaps /\ snaps'[k].entry = snaps'[i].entry
        BY <2>2, <3>1, <3>2, <3>4 DEF Of, Rows
      <4>2. ASSUME NEW k \in S PROVE k <= j
        <5>1. k \in 1..Len(snaps) /\ j \in 1..Len(snaps) /\ k \notin (j + 1)..(i - 1)
          BY <1>1, <2>5, <3>1, <4>1
        <5> QED
          BY <1>1, <1>4, <5>1
      <4>3. \A k \in S : (\A m \in S : m <= k) => k = j
        <5>1. ASSUME NEW k \in S, \A m \in S : m <= k PROVE k = j
          <6>1. k \in 1..Len(snaps) /\ j \in 1..Len(snaps) /\ k <= j /\ j <= k
            BY <1>1, <3>1, <4>1, <4>2, <5>1
          <6> QED
            BY <1>1, <6>1
        <5> QED
          BY <5>1
      <4>4. Newest(S) = j
        BY <4>1, <4>2, <4>3 DEF Newest
      <4>5. snaps[j].body # dep[d].body
        BY <2>3, <3>4, <4>1, <4>4 DEF Unchanged
      <4> QED
        BY <2>2, <3>1, <4>5
    <3> QED
      BY <3>3, <3>4
  <2> QED
    BY <2>5
<1> QED
    BY <1>1, <1>3, <1>4, NewRow

\* The invariant of the rows holds in every state the corpus reaches.
LEMMA RowInvariant == Spec => []RowInv
<1>1. Init => RowInv
  <2> SUFFICES ASSUME Init PROVE RowInv
    OBVIOUS
  <2>1. \A d \in Depositor : dep[d].pc = "idle"
    BY NoDepTyped DEF Init
  <2>2. PlanHolds /\ MatchHolds
    BY <2>1 DEF PlanHolds, MatchHolds, Init, NoDel
  <2>3. Len(Old) \in Nat /\ DOMAIN Old = 1..Len(Old)
    BY SetToSeqIsSeq, CorpusAssumption DEF Old
  <2>4. \A i \in Rows : /\ i \in DOMAIN Old /\ snaps[i].entry = i
    BY DEF Init, Rows
  <2>5. GenerationsDiffer
    BY <2>3, <2>4 DEF GenerationsDiffer
  <2> QED
    BY <2>2, <2>5, InitStore DEF RowInv
<1>2. RowInv /\ [Next]_vars => RowInv'
    BY TypeStep, NamedStep, PlanStep, MatchStep, DifferStep DEF RowInv, StoreInv
<1> QED
    BY <1>1, <1>2, PTL DEF Spec

\* No snapshot row outlives its entry: a row without one is inserted by the one
\* deposit that had found the entry before the delete took it away, and stands
\* alone.  And no two generations of an entry in a row hold the same bytes.
THEOREM RowsKeepEntries == Spec => RowsHaveEntries
<1> DEFINE Orphaned ==
             /\ GenerationsDiffer'
             /\ \A i \in Orphans' \ Orphans :
                   LET e == snaps'[i].entry IN
                   /\ i \notin DOMAIN snaps /\ Of(e) \cap Rows = {} /\ e \in DOMAIN entries
                   /\ \E d \in Depositor : dep[d].pc = "insert" /\ dep[d].entry = e
<1>1. ASSUME RowInv, [Next]_vars PROVE [Orphaned]_vars
  <2>1. /\ StoreInv /\ MatchHolds /\ DOMAIN snaps = 1..Len(snaps) /\ Len(snaps) \in Nat
        /\ \A i \in DOMAIN snaps : snaps[i].entry \in DOMAIN entries
    BY <1>1, Rowed DEF RowInv, StoreInv, TypeOK
  <2> SUFFICES ASSUME NEW i \in Orphans' \ Orphans
               PROVE  /\ i \notin DOMAIN snaps /\ Of(snaps'[i].entry) \cap Rows = {}
                      /\ snaps'[i].entry \in DOMAIN entries
                      /\ \E d \in Depositor : dep[d].pc = "insert" /\ dep[d].entry = snaps'[i].entry
    BY <1>1, DifferStep
  <2>2. i \in Rows' /\ ~entries'[snaps'[i].entry].there
    BY DEF Orphans
  <2>3. CASE i \in Rows /\ i \in DOMAIN snaps /\ snaps'[i].entry = snaps[i].entry
    <3>1. entries[snaps[i].entry].there /\ snaps[i].entry \in DOMAIN entries
      BY <2>1, <2>3 DEF Orphans
    <3>2. entries'[snaps[i].entry].there
      <4>1. CASE entries' = entries
        BY <3>1, <4>1
      <4>2. CASE \E d \in Depositor : Insert(d)
        BY <2>1, <3>1, <4>2, InsertFacts
      <4>3. CASE Delete
        <5>1. i \notin Of(del.entry)
          BY <2>1, <2>2, <2>3, <4>3, SnapFacts DEF Rows
        <5>2. snaps[i].entry # del.entry
          BY <2>3, <5>1 DEF Of
        <5> QED
          BY <2>1, <3>1, <4>3, <5>2, DeleteFacts
      <4> QED
        BY <1>1, <4>1, <4>2, <4>3, Steps, QuietFacts DEF Lint, Gather, Write
    <3> QED
      BY <2>2, <2>3, <3>2
  <2>4. ASSUME NEW d \in Depositor, Insert(d), i = Len(snaps) + 1
        PROVE  /\ i \notin DOMAIN snaps /\ Of(snaps'[i].entry) \cap Rows = {}
               /\ snaps'[i].entry \in DOMAIN entries
               /\ dep[d].pc = "insert" /\ dep[d].entry = snaps'[i].entry
    <3>1. dep[d].pc = "insert" /\ dep[d].new \in BOOLEAN
      BY <2>1, <2>4 DEF Insert, StoreInv, TypeOK, DepState
    <3>2. /\ entries'[snaps'[i].entry].there \/ ~dep[d].new
          /\ snaps'[i].entry = IF dep[d].new THEN Len(entries) + 1 ELSE dep[d].entry
          /\ \A e \in DOMAIN entries : entries'[e] = entries[e]
      BY <2>1, <2>4, InsertFacts
    <3>3. ~dep[d].new /\ snaps'[i].entry = dep[d].entry
      BY <2>2, <3>2
    <3>4. dep[d].entry \in DOMAIN entries
      BY <2>1, <3>1, <3>3 DEF StoreInv, Named
    <3>5. Of(dep[d].entry) \cap Rows = {}
      BY <2>1, <2>2, <3>1, <3>2, <3>3, <3>4 DEF MatchHolds
    <3>6. i \notin DOMAIN snaps
      BY <2>1, <2>4
    <3> QED
      BY <3>1, <3>3, <3>4, <3>5, <3>6
  <2> QED
    BY <1>1, <2>1, <2>2, <2>3, <2>4, NewRow
<1> QED
    BY <1>1, RowInvariant, PTL DEF Spec, RowsHaveEntries

\* A hard delete removes only claims whose every source is the entry, whatever was
\* extracted between its preview and its plan, and claims an extraction wrote
\* between its plan and its deletes.
THEOREM DeletesOnlySoleSource == Spec => OnlySoleSourceAsPlanned
<1> DEFINE Sole == \A p \in DOMAIN parts :
                      parts[p].status # "DELETED" /\ parts'[p].status = "DELETED"
                         => parts[p].refs \subseteq Of(del.entry) \/ p \in late
<1>1. ASSUME RowInv, [Next]_vars PROVE [Sole]_vars
  <2>1. StoreInv
    BY <1>1 DEF RowInv
  <2> SUFFICES ASSUME NEW p \in DOMAIN parts, parts[p].status # "DELETED",
                      parts'[p].status = "DELETED", p \notin late
               PROVE  parts[p].refs \subseteq Of(del.entry)
    OBVIOUS
  <2>2. Delete
    BY <1>1, <2>1, RefsGrow
  <2>3. p \in del.kill
    BY <2>1, <2>2, DeleteFacts
  <2> QED
    BY <1>1, <2>2, <2>3 DEF RowInv, PlanHolds, Delete
<1> QED
    BY <1>1, RowInvariant, PTL DEF Spec, OnlySoleSourceAsPlanned

\* A delete leaves no claim citing the rows it removed: what makes a claim cite a
\* missing snapshot is the late write of an extraction that had read it before, or
\* a write between the delete's plan and its deletes.
THEOREM LateWritesDangle == Spec => OnlyLateWritesDangle
<1> DEFINE Late == \A p \in Dangling' \ Dangling :
             \/ \E r \in Runner : /\ ext[r].pc = "read" /\ ext'[r].pc = "idle"
                                  /\ ext[r].snap \in parts'[p].refs \ Rows
             \/ p \in late /\ del.pc = "planned" /\ parts'[p].refs \cap Of(del.entry) # {}
<1>1. ASSUME RowInv, [Next]_vars PROVE [Late]_vars
  <2>1. StoreInv /\ \A p \in DOMAIN parts : parts[p].refs \subseteq DOMAIN snaps
    BY <1>1 DEF RowInv, StoreInv, TypeOK
  <2> SUFFICES ASSUME NEW p \in Dangling' \ Dangling
               PROVE  \/ \E r \in Runner : /\ ext[r].pc = "read" /\ ext'[r].pc = "idle"
                                           /\ ext[r].snap \in parts'[p].refs \ Rows
                      \/ /\ p \in late /\ del.pc = "planned"
                         /\ parts'[p].refs \cap Of(del.entry) # {}
    OBVIOUS
  <2>2. p \in DOMAIN parts' /\ parts'[p].status = "ACTIVE" /\ ~(parts'[p].refs \subseteq Rows')
    BY DEF Dangling, Active
  <2>3. p \in DOMAIN parts /\ parts[p].status = "ACTIVE" => parts[p].refs \subseteq Rows
    BY DEF Dangling, Active
  <2>4. ASSUME NEW r \in Runner, Write(r) PROVE ext[r].pc = "read" /\ ext'[r].pc = "idle"
                                                /\ ext[r].snap \in parts'[p].refs \ Rows
    <3>1. ext[r].pc = "read" /\ ext' = [ext EXCEPT ![r] = NoExt]
      BY <2>4 DEF Write
    <3>2. ext'[r].pc = "idle"
      BY <2>1, <3>1 DEF StoreInv, TypeOK, NoExt
    <3>3. ~Delete
      <4>1. ASSUME Delete PROVE del'.pc = "idle" /\ del.pc = "planned"
        BY <4>1 DEF Delete, NoDel
      <4> QED
        BY <2>4, <4>1 DEF Write
    <3>4. Rows' = Rows
      BY <2>1, <2>4, <3>3, SnapFacts DEF Rows
    <3>5. CASE p \in DOMAIN parts
      <4>1. /\ parts'[p].status = parts[p].status
            /\ \/ parts'[p].refs = parts[p].refs
               \/ parts'[p].refs = parts[p].refs \cup {ext[r].snap}
        BY <2>1, <2>4, <3>5, WriteFacts
      <4> QED
        BY <2>2, <2>3, <3>1, <3>2, <3>4, <3>5, <4>1
    <3>6. CASE p \notin DOMAIN parts
      <4>1. parts'[p].refs = {ext[r].snap}
        BY <2>1, <2>2, <2>4, <3>6, WriteFacts
      <4> QED
        BY <2>2, <3>1, <3>2, <3>4, <4>1
    <3> QED
      BY <3>5, <3>6
  <2>5. CASE Delete
    <3>1. del.pc = "planned"
      BY <2>5 DEF Delete
    <3>2. /\ p \in DOMAIN parts
          /\ \/ p \in del.kill /\ parts'[p].status = "DELETED"
             \/ /\ p \notin del.kill /\ p \in del.strip
                /\ parts'[p].status = parts[p].status
                /\ parts'[p].refs = parts[p].refs \ Of(del.entry)
             \/ p \notin del.kill /\ p \notin del.strip /\ parts'[p] = parts[p]
      BY <2>1, <2>2, <2>5, DeleteFacts
    <3>3. parts[p].status = "ACTIVE" /\ parts[p].refs \subseteq Rows /\ p \notin del.kill
      BY <2>2, <2>3, <3>2
    <3>4. p \in late \/ parts'[p].refs \cap Of(del.entry) = {}
      BY <1>1, <3>1, <3>2, <3>3 DEF RowInv, PlanHolds
    <3>5. parts'[p].refs \subseteq Rows
      BY <3>2, <3>3
    <3>6. Rows \ Of(del.entry) \subseteq Rows'
      BY <2>1, <2>5, SnapFacts DEF Rows
    <3>7. parts'[p].refs \cap Of(del.entry) # {}
      BY <2>2, <3>5, <3>6
    <3> QED
      BY <3>1, <3>4, <3>7
  <2>6. CASE ~Delete /\ \A r \in Runner : ~Write(r)
    <3>1. Rows \subseteq Rows'
      <4>1. CASE snaps' = snaps
        BY <4>1 DEF Rows
      <4>2. CASE \E r \in Runner : Gather(r)
        BY <2>1, <2>6, <4>2, SnapFacts DEF Rows
      <4>3. CASE \E d \in Depositor : Insert(d)
        <5>1. /\ DOMAIN snaps' = 1..(Len(snaps) + 1) /\ \A i \in DOMAIN snaps : snaps'[i] = snaps[i]
          BY <2>1, <4>3, InsertFacts
        <5>2. DOMAIN snaps \subseteq DOMAIN snaps'
          BY <1>1, <2>1, RowsStep
        <5> QED
          BY <5>1, <5>2 DEF Rows
      <4> QED
        BY <1>1, <2>6, <4>1, <4>2, <4>3, Steps, QuietFacts DEF Lint
    <3>2. CASE parts' = parts
      BY <2>2, <2>3, <3>1, <3>2
    <3>3. CASE Lint
      <4>1. p \in DOMAIN parts /\ parts'[p].refs = parts[p].refs /\ parts[p].status = "ACTIVE"
        BY <2>1, <2>2, <3>3, LintFacts
      <4> QED
        BY <2>2, <2>3, <3>1, <4>1
    <3> QED
      BY <1>1, <2>6, <3>2, <3>3, Steps, QuietFacts DEF Insert, Gather
  <2> QED
    BY <2>4, <2>5, <2>6
<1> QED
    BY <1>1, RowInvariant, PTL DEF Spec, OnlyLateWritesDangle
================================================================================
