------------------------ MODULE ExtractionBeliefProofs -------------------------
(***************************************************************************)
(* What extraction does to the beliefs.  Whatever the runners do, a belief   *)
(* that is left when all work is done is stated by a current generation.     *)
(* With one runner at a time, no claim is lost, no standing belief is        *)
(* retired and nothing judged comes back unreviewed.                         *)
(*                                                                         *)
(* The argument needs no currency while work is owed.  The newest deposited  *)
(* record of an entry is never collapsed; as long as it is not COMPLETE the  *)
(* cascade that settles the entry is still to come, and from then on it is   *)
(* the current generation.                                                  *)
(***************************************************************************)
EXTENDS ExtractionProofs

\* Of any deposited records one is the latest: deposits come one at a time.
Latests ==
    \A S \in SUBSET Deposited :
        S # {} => \E s \in S : \A t \in S : Captured[t] <= Captured[s]

\* The newest deposited record of its entry.
Newest(w) ==
    w \in Deposited /\ \A t \in Deposited : EntryOf[t] = EntryOf[w] => Captured[t] <= Captured[w]

\* The entry's newest record still owes its extraction, so a cascade is to come.
Awaits(e) == \E w \in Deposited : EntryOf[w] = e /\ Newest(w) /\ st[w] # "COMPLETE"

\* Everybody works on deposited records; absences go their own way.
Known ==
    /\ \A s \in Snap : by[s] # NoSnap => by[s] \in Deposited
    /\ \A r \in Runner :
          /\ todo[r] \subseteq Deposited
          /\ \A s, t \in Snap : <<s, t>> \in plan[r] => t \in Deposited
          /\ pc[r] \in {"claim", "read", "gather", "apply"} => job[r] \in Deposited \ Absent
          /\ pc[r] = "absence" => job[r] \in Deposited \cap Absent

\* A particle's refs are deposited records with content, its edges are refs, and
\* no ref's entry is without an edge.
Sourced(p) ==
    /\ p.edges \subseteq p.refs /\ p.refs \subseteq Deposited \ Absent
    /\ \A x \in p.refs : \E y \in p.edges : EntryOf[y] = EntryOf[x]

PartsSourced == \A c \in Claim : \A i \in DOMAIN part[c] : Sourced(part[c][i])

\* A ref stands when its entry never takes a statement back, when it is the
\* newest of the entry, or when the entry's settling is still to come.
Stands(x) == EntryOf[x] \in Mutable => Newest(x) \/ Awaits(EntryOf[x])

\* Every belief has a ref that stands.
Stated ==
    \A c \in Claim : \A i \in DOMAIN part[c] :
        part[c][i].status = "ACTIVE" => \E x \in part[c][i].refs : Stands(x)

\* The inductive invariant of the beliefs, for any runners.
BeliefInv == ExtractionInv /\ Latests /\ Known /\ PartsSourced /\ Stated

--------------------------------------------------------------------------------
(* The latest of some records, and the current generation *)

\* The latest of a set is the one that no other is later than.
LEMMA LatestIs ==
    ASSUME NEW S \in SUBSET Snap, NEW m \in S, \A t \in S : Captured[t] <= Captured[m]
    PROVE  Latest(S) = m
<1> USE ExtractionAssumption
<1> DEFINE P(s) == \A t \in S : Captured[t] <= Captured[s]
<1>1. \A s \in S : P(s) => s = m
  <2> SUFFICES ASSUME NEW s \in S, P(s) PROVE s = m
    OBVIOUS
  <2>1. Captured[m] <= Captured[s] /\ Captured[s] <= Captured[m]
    OBVIOUS
  <2>2. Captured[m] \in Nat /\ Captured[s] \in Nat
    OBVIOUS
  <2>3. Captured[m] = Captured[s]
    BY <2>1, <2>2
  <2> QED
    BY <2>3
<1>2. P(m)
    OBVIOUS
<1>3. Latest(S) = CHOOSE s \in S : P(s)
    BY DEF Latest
<1> HIDE DEF P
<1> QED
    BY <1>1, <1>2, <1>3

\* Every entry with a deposited record has a newest one.
LEMMA NewestOf ==
    ASSUME Latests, NEW x \in Deposited
    PROVE  \E w \in Deposited : EntryOf[w] = EntryOf[x] /\ Newest(w)
<1> DEFINE S == {t \in Deposited : EntryOf[t] = EntryOf[x]}
<1>1. S \in SUBSET Deposited /\ S # {}
    OBVIOUS
<1>2. PICK w \in S : \A t \in S : Captured[t] <= Captured[w]
    BY <1>1 DEF Latests
<1> QED
    BY <1>2 DEF Newest

\* The newest record of an entry is never collapsed, and once it is COMPLETE it is
\* the entry's currency (get_entry_currency).
LEMMA NewestIsCurrent ==
    ASSUME BeliefInv, NEW w, Newest(w)
    PROVE  by[w] = NoSnap /\ (st[w] = "COMPLETE" => Currency(EntryOf[w]) = w)
<1> USE ExtractionAssumption
<1>1. w \in Snap /\ w \in Deposited
    BY DEF Newest, Deposited
<1>2. CollapsedByNewer /\ Known
    BY DEF BeliefInv, ExtractionInv, CorpusOK
<1>3. by[w] = NoSnap
  <2> SUFFICES ASSUME by[w] # NoSnap PROVE FALSE
    OBVIOUS
  <2>1. by[w] \in Deposited /\ by[w] \in Snap /\ Newer(by[w], w)
    BY <1>1, <1>2 DEF Known, CollapsedByNewer
  <2>2. EntryOf[by[w]] = EntryOf[w] /\ Captured[w] < Captured[by[w]]
    BY <2>1 DEF Newer
  <2>3. Captured[by[w]] <= Captured[w]
    BY <2>1, <2>2 DEF Newest
  <2>4. Captured[by[w]] \in Nat /\ Captured[w] \in Nat
    BY <1>1, <2>1
  <2> QED
    BY <2>2, <2>3, <2>4
<1>4. ASSUME st[w] = "COMPLETE" PROVE Currency(EntryOf[w]) = w
  <2> DEFINE S == Processed(EntryOf[w])
  <2>1. S \subseteq Deposited /\ S \subseteq Snap /\ w \in S /\ \A t \in S : EntryOf[t] = EntryOf[w]
    BY <1>1, <1>3, <1>4 DEF Processed, Deposited
  <2>2. \A t \in S : Captured[t] <= Captured[w]
    BY <2>1 DEF Newest
  <2> HIDE DEF S
  <2>3. Latest(S) = w
    BY <2>1, <2>2, LatestIs
  <2> QED
    BY <2>1, <2>3 DEF Currency, S
<1> QED
    BY <1>3, <1>4

\* Where the newest record is COMPLETE, or is the one just extracted, it is the
\* current generation, whichever snapshot of the entry was extracted last
\* (current_generation).
LEMMA CurrentIsNewest ==
    ASSUME BeliefInv, NEW s \in Deposited, NEW w, Newest(w), EntryOf[w] = EntryOf[s],
           w = s \/ st[w] = "COMPLETE"
    PROVE  CurrentGeneration(s) = w
<1> USE ExtractionAssumption
<1>1. s \in Snap /\ w \in Snap /\ Captured[s] <= Captured[w]
    BY DEF Newest, Deposited
<1>2. Captured[s] \in Nat /\ Captured[w] \in Nat
    BY <1>1
<1> DEFINE held == Currency(EntryOf[s])
<1>3. CASE w = s
  <2>1. held = NoSnap \/ (held \in Deposited /\ EntryOf[held] = EntryOf[s])
    <3> DEFINE S == Processed(EntryOf[s])
    <3>1. CASE S = {}
      BY <3>1 DEF Currency
    <3>2. CASE S # {}
      <4>1. S \in SUBSET Deposited /\ S \in SUBSET Snap /\ \A t \in S : EntryOf[t] = EntryOf[s]
        BY DEF Processed, Deposited
      <4>2. PICK m \in S : \A t \in S : Captured[t] <= Captured[m]
        BY <3>2, <4>1 DEF BeliefInv, Latests
      <4> HIDE DEF S
      <4>3. Latest(S) = m
        BY <4>1, <4>2, LatestIs
      <4> QED
        BY <3>2, <4>1, <4>3 DEF Currency, S
    <3> QED
      BY <3>1, <3>2
  <2>2. held # NoSnap => Captured[held] <= Captured[s]
    BY <1>3, <2>1 DEF Newest
  <2> QED
    BY <1>3, <2>2 DEF CurrentGeneration
<1>4. CASE w # s
  <2>1. held = w
    BY <1>4, NewestIsCurrent
  <2>2. Captured[w] # Captured[s]
    BY <1>1, <1>4
  <2>3. ~(Captured[w] <= Captured[s])
    BY <1>1, <1>2, <2>2
  <2>4. w # NoSnap
    BY <1>1
  <2> QED
    BY <2>1, <2>3, <2>4 DEF CurrentGeneration
<1> QED
    BY <1>3, <1>4

--------------------------------------------------------------------------------
(* What a step does to the deposited records *)

\* A status written to one record that is not NONE deposits nothing.
LEMMA SetOne ==
    ASSUME ExtractionInv, NEW s \in Deposited, NEW status \in ExtractionStatus \ {"NONE"},
           st' = [st EXCEPT ![s] = status]
    PROVE  Deposited' = Deposited
BY DEF Deposited, ExtractionInv, CorpusOK

\* Only a deposit adds a record, and the newest record of an entry becomes COMPLETE
\* only at the end of its own extraction: a collapse names a newer one.
LEMMA Settling ==
    ASSUME BeliefInv, [Next]_vars
    PROVE  \/ \E s \in Snap : Deposit(s)
           \/ \E r \in Runner : Apply(r) \/ ProcessAbsence(r)
           \/ /\ Deposited' = Deposited
              /\ \A w : Newest(w) /\ st'[w] = "COMPLETE" => st[w] = "COMPLETE"
              /\ part' = part \/ \E c \in Claim : \E i \in DOMAIN part[c] : Retract(c, i)
<1> DEFINE Calm == /\ Deposited' = Deposited
                   /\ \A w : Newest(w) /\ st'[w] = "COMPLETE" => st[w] = "COMPLETE"
<1>0. ExtractionInv /\ Known /\ st \in [Snap -> ExtractionStatus]
    BY DEF BeliefInv, ExtractionInv, CorpusOK
<1>k. ASSUME st' = st PROVE Calm
    BY <1>k DEF Deposited
<1>s. ASSUME NEW s \in Deposited, NEW v \in {"PENDING", "IN_PROGRESS", "FAILED"},
             st' = [st EXCEPT ![s] = v]
      PROVE  Calm
  <2>1. Deposited' = Deposited
    BY <1>0, <1>s, SetOne DEF ExtractionStatus
  <2>2. ASSUME NEW w, Newest(w), st'[w] = "COMPLETE" PROVE st[w] = "COMPLETE"
    BY <1>0, <1>s, <2>2 DEF Newest, Deposited
  <2> QED
    BY <2>1, <2>2
<1>1. ASSUME NEW s \in Snap, LoseBlob(s) \/ Age(s) \/ Expire(s) PROVE Calm /\ part' = part
    BY <1>1, <1>k DEF LoseBlob, Age, Expire, corpus
<1>2. ASSUME NEW c \in Claim, NEW i \in DOMAIN part[c], Retract(c, i) PROVE Calm
    BY <1>2, <1>k DEF Retract, corpus
<1>3. ASSUME NEW r \in Runner, ResetStale(r) PROVE Calm /\ part' = part
  <2>1. st' = [s \in Snap |-> IF s \in Stale THEN "PENDING" ELSE st[s]] /\ part' = part
    BY <1>3 DEF ResetStale
  <2>2. Deposited' = Deposited
    BY <1>0, <2>1 DEF Deposited, Stale
  <2>3. ASSUME NEW w, Newest(w), st'[w] = "COMPLETE" PROVE st[w] = "COMPLETE"
    BY <1>0, <2>1, <2>3 DEF Newest, Deposited
  <2> QED
    BY <2>1, <2>2, <2>3
<1>4. ASSUME NEW r \in Runner, MarkCollapsed(r) PROVE Calm /\ part' = part
  <2> DEFINE Marked(s) == /\ \E t \in Snap : <<s, t>> \in plan[r]
                          /\ st[s] \in {"PENDING", "FAILED"} /\ by[s] = NoSnap
  <2>1. st' = [s \in Snap |-> IF Marked(s) THEN "COMPLETE" ELSE st[s]] /\ part' = part
    BY <1>4 DEF MarkCollapsed
  <2>2. ASSUME NEW w \in Snap, Newest(w), Marked(w) PROVE FALSE
    <3>1. PICK t \in Snap : <<w, t>> \in plan[r]
      BY <2>2
    <3>2. Newer(t, w) /\ t \in Deposited
      BY <2>2, <3>1, <1>0 DEF ExtractionInv, CorpusOK, PlansNewer, Known
    <3>3. EntryOf[t] = EntryOf[w] /\ Captured[w] < Captured[t] /\ Captured[t] <= Captured[w]
      BY <2>2, <3>2 DEF Newer, Newest
    <3> QED
      BY <3>3, ExtractionAssumption
  <2>3. Deposited' = Deposited
    BY <1>0, <2>1 DEF Deposited
  <2>4. ASSUME NEW w, Newest(w), st'[w] = "COMPLETE" PROVE st[w] = "COMPLETE"
    <3>1. w \in Snap
      BY <2>4 DEF Newest, Deposited
    <3>2. ~Marked(w)
      BY <2>2, <2>4, <3>1
    <3> HIDE DEF Marked
    <3> QED
      BY <2>1, <2>4, <3>1, <3>2
  <2> QED
    BY <2>1, <2>3, <2>4
<1>5. ASSUME NEW r \in Runner, PlanCollapse(r) \/ ListPending(r) \/ Read(r) \/ Gather(r) \/ Crash(r)
      PROVE  Calm /\ part' = part
    BY <1>5, <1>k DEF PlanCollapse, ListPending, Read, Gather, Crash, corpus
<1>6. ASSUME NEW r \in Runner, NEW s \in Snap,
             TakeResponse(r, s) \/ TakeAbsence(r, s) \/ SkipListed(r, s) \/ NameSnapshot(r, s)
      PROVE  Calm /\ part' = part
    BY <1>6, <1>k DEF TakeResponse, TakeAbsence, TakeUp, SkipListed, NameSnapshot, corpus
<1>7. ASSUME NEW r \in Runner, ClaimSnapshot(r) PROVE Calm /\ part' = part
    BY <1>0, <1>7, <1>s DEF ClaimSnapshot, Known
<1>8. ASSUME NEW r \in Runner, BlobMissing(r) \/ TransientError(r) PROVE Calm /\ part' = part
    BY <1>0, <1>8, <1>s DEF BlobMissing, TransientError, SetStatus, Known
<1>9. ASSUME NEW r \in Runner, Interrupted(r) PROVE Calm /\ part' = part
    BY <1>0, <1>9, <1>s, <1>k DEF Interrupted, SetStatus, Known, corpus
<1>10. CASE UNCHANGED vars
    BY <1>10, <1>k DEF vars, corpus
<1> HIDE DEF Calm
<1>11. CASE Next
    BY <1>11, <1>1, <1>2, <1>3, <1>4, <1>5, <1>6, <1>7, <1>8, <1>9 DEF Next, Step, Calm
<1> QED
    BY <1>10, <1>11 DEF vars, Calm

\* A finished extraction only completes its own record.
LEMMA Finishing ==
    ASSUME BeliefInv, NEW r \in Runner, Apply(r) \/ ProcessAbsence(r)
    PROVE  /\ job[r] \in Deposited /\ job[r] \in Snap /\ Deposited' = Deposited
           /\ st' = [st EXCEPT ![job[r]] = "COMPLETE"] /\ by' = by
<1>0. ExtractionInv /\ Known
    BY DEF BeliefInv
<1>1. job[r] \in Deposited
    BY <1>0 DEF Apply, ProcessAbsence, Known
<1>2. st' = [st EXCEPT ![job[r]] = "COMPLETE"] /\ by' = by
    BY DEF Apply, ProcessAbsence, SetStatus
<1> QED
    BY <1>0, <1>1, <1>2, SetOne DEF ExtractionStatus, Deposited

\* A deposit adds one record, which owes its extraction.
LEMMA Depositing ==
    ASSUME BeliefInv, NEW s \in Snap, Deposit(s)
    PROVE  /\ Deposited' = Deposited \cup {s} /\ s \notin Deposited /\ st'[s] = "PENDING"
           /\ \A t \in Deposited : st'[t] = st[t]
           /\ part' = part
BY DEF Deposit, Deposited, BeliefInv, ExtractionInv, CorpusOK

\* No record is ever taken back.
LEMMA DepositsStay ==
    ASSUME BeliefInv, [Next]_vars
    PROVE  Deposited \subseteq Deposited'
BY Settling, Finishing, Depositing

\* Any deposited records have a latest one, whatever is deposited in whatever order.
LEMMA LatestsStep == BeliefInv /\ [Next]_vars => Latests'
<1> SUFFICES ASSUME BeliefInv, [Next]_vars PROVE Latests'
    OBVIOUS
<1>0. Latests
    BY DEF BeliefInv
<1>1. ASSUME NEW s \in Snap, Deposit(s) PROVE Latests'
  <2>1. Deposited' = Deposited \cup {s}
    BY <1>1, Depositing
  <2>2. ASSUME NEW S \in SUBSET Deposited', S # {}
        PROVE  \E m \in S : \A t \in S : Captured[t] <= Captured[m]
    <3>1. \A t \in S : t \in Snap /\ Captured[t] \in Nat
      BY <2>1, ExtractionAssumption DEF Deposited
    <3>2. CASE s \notin S
      <4>1. S \in SUBSET Deposited
        BY <2>1, <3>2
      <4> QED
        BY <1>0, <2>2, <4>1 DEF Latests
    <3>3. CASE S = {s}
      BY <3>1, <3>3
    <3>4. CASE s \in S /\ S # {s}
      <4>1. S \ {s} \in SUBSET Deposited /\ S \ {s} # {}
        BY <2>1, <3>4
      <4>2. PICK m \in S \ {s} : \A t \in S \ {s} : Captured[t] <= Captured[m]
        BY <1>0, <4>1 DEF Latests
      <4>3. CASE Captured[s] <= Captured[m]
        BY <4>2, <4>3
      <4>4. CASE ~(Captured[s] <= Captured[m])
        <5>1. \A t \in S : Captured[t] <= Captured[s]
          BY <3>1, <3>4, <4>2, <4>4
        <5> QED
          BY <3>4, <5>1
      <4> QED
        BY <4>3, <4>4
    <3> QED
      BY <3>2, <3>3, <3>4
  <2> QED
    BY <2>2 DEF Latests
<1>2. CASE Deposited' = Deposited
    BY <1>0, <1>2 DEF Latests
<1> QED
    BY <1>1, <1>2, Settling, Finishing

\* A runner that goes on with deposited records has no snapshot in hand.
LEMMA NextItemKnown ==
    ASSUME BeliefInv, Deposited \subseteq Deposited', NEW r \in Runner, NEW rest \in SUBSET Deposited',
           NextItem(r, rest), by' = by
    PROVE  Known'
<1>0. Known /\ RunnersOK /\ plan \in [Runner -> SUBSET (Snap \X Snap)]
    BY DEF BeliefInv, ExtractionInv, CorpusOK
<1>1. /\ pc' = [pc EXCEPT ![r] = IF rest = {} THEN "idle" ELSE "next"]
      /\ todo' = [todo EXCEPT ![r] = rest]
      /\ job' = [job EXCEPT ![r] = NoSnap]
      /\ plan' = [plan EXCEPT ![r] = {}]
    BY DEF NextItem
<1>2. ASSUME NEW q \in Runner
      PROVE  /\ todo'[q] \subseteq Deposited'
             /\ \A s, t \in Snap : <<s, t>> \in plan'[q] => t \in Deposited'
             /\ pc'[q] \in {"claim", "read", "gather", "apply"} => job'[q] \in Deposited' \ Absent
             /\ pc'[q] = "absence" => job'[q] \in Deposited' \cap Absent
  <2>1. CASE q = r
    BY <1>0, <1>1, <2>1 DEF RunnersOK
  <2>2. CASE q # r
    BY <1>0, <1>1, <2>2 DEF RunnersOK, Known
  <2> QED
    BY <2>1, <2>2
<1>3. \A s \in Snap : by'[s] # NoSnap => by'[s] \in Deposited'
    BY <1>0 DEF Known
<1> QED
    BY <1>2, <1>3 DEF Known

\* Whoever works, works on deposited records.
LEMMA KnownStep == BeliefInv /\ [Next]_vars => Known'
<1> SUFFICES ASSUME BeliefInv, [Next]_vars PROVE Known'
    OBVIOUS
<1>0. /\ Known /\ RunnersOK /\ CorpusOK /\ Deposited \subseteq Deposited'
      /\ Deposited \subseteq Snap
    BY DepositsStay DEF BeliefInv, ExtractionInv, Deposited
<1>t. \A q \in Runner : todo[q] \subseteq Deposited'
    BY <1>0 DEF Known
<1>k. ASSUME UNCHANGED local, by' = by PROVE Known'
    BY <1>0, <1>k DEF Known, local
<1>n. ASSUME NEW r \in Runner, NEW rest \in SUBSET Deposited', NextItem(r, rest), by' = by PROVE Known'
    BY <1>0, <1>n, NextItemKnown
<1>1. ASSUME NEW s \in Snap, Deposit(s) \/ LoseBlob(s) \/ Age(s) \/ Expire(s) PROVE Known'
    BY <1>1, <1>k DEF Deposit, LoseBlob, Age, Expire, corpus
<1>2. ASSUME NEW c \in Claim, NEW i \in DOMAIN part[c], Retract(c, i) PROVE Known'
    BY <1>2, <1>k DEF Retract, corpus
<1>3. ASSUME NEW r \in Runner, ResetStale(r) PROVE Known'
    BY <1>0, <1>3 DEF ResetStale, Known, RunnersOK
<1>4. ASSUME NEW r \in Runner, PlanCollapse(r) PROVE Known'
  <2>1. \A s, t \in Snap : <<s, t>> \in Collapses => t \in Deposited
    BY DEF Collapses, Collapsible, Superseders, Deposited
  <2>2. /\ plan' = [plan EXCEPT ![r] = Collapses]
        /\ pc' = [pc EXCEPT ![r] = IF Collapses = {} THEN "list" ELSE "mark"]
        /\ by' = by /\ UNCHANGED <<todo, job>>
    BY <1>4 DEF PlanCollapse, corpus
  <2> QED
    BY <1>0, <2>1, <2>2 DEF Known, RunnersOK, CorpusOK
<1>5. ASSUME NEW r \in Runner, MarkCollapsed(r) PROVE Known'
  <2> DEFINE With(s) == CHOOSE t \in Snap : <<s, t>> \in plan[r]
             Marked(s) == /\ \E t \in Snap : <<s, t>> \in plan[r]
                          /\ st[s] \in {"PENDING", "FAILED"} /\ by[s] = NoSnap
  <2>1. /\ by' = [s \in Snap |-> IF Marked(s) THEN With(s) ELSE by[s]]
        /\ plan' = [plan EXCEPT ![r] = {}] /\ pc' = [pc EXCEPT ![r] = "list"]
        /\ UNCHANGED <<todo, job>>
    BY <1>5 DEF MarkCollapsed
  <2>2. \A s \in Snap : Marked(s) => With(s) \in Snap /\ <<s, With(s)>> \in plan[r]
    OBVIOUS
  <2>3. \A s \in Snap : Marked(s) => With(s) \in Deposited
    BY <1>0, <2>2 DEF Known
  <2> HIDE DEF Marked, With
  <2> QED
    BY <1>0, <2>1, <2>3 DEF Known, RunnersOK, CorpusOK
<1>6. ASSUME NEW r \in Runner, ListPending(r) PROVE Known'
  <2>1. {s \in Snap : st[s] = "PENDING"} \ refused \in SUBSET Deposited'
    BY <1>0 DEF Deposited
  <2> QED
    BY <1>6, <1>n, <2>1 DEF ListPending, corpus
<1>7. ASSUME NEW r \in Runner, NEW s \in Snap, TakeResponse(r, s) \/ TakeAbsence(r, s)
      PROVE  Known'
  <2>1. s \in Deposited
    BY <1>0, <1>7 DEF TakeResponse, TakeAbsence, Listed, Known
  <2>2. PICK place \in {"claim", "absence"} :
            TakeUp(r, s, place) /\ (place = "absence" <=> s \in Absent)
    BY <1>7 DEF TakeResponse, TakeAbsence
  <2>3. /\ pc' = [pc EXCEPT ![r] = place]
        /\ todo' = [todo EXCEPT ![r] = @ \ {s}]
        /\ job' = [job EXCEPT ![r] = s]
        /\ by' = by /\ plan' = plan
    BY <2>2 DEF TakeUp, corpus
  <2> QED
    BY <1>0, <2>1, <2>2, <2>3 DEF Known, RunnersOK
<1>8. ASSUME NEW r \in Runner, NEW s \in Snap, SkipListed(r, s) PROVE Known'
  <2>1. todo[r] \ {s} \in SUBSET Deposited'
    BY <1>t
  <2> QED
    BY <1>8, <1>n, <2>1 DEF SkipListed, corpus
<1>9. ASSUME NEW r \in Runner, NEW s \in Snap, NameSnapshot(r, s) PROVE Known'
    BY <1>0, <1>9 DEF NameSnapshot, Known, RunnersOK, corpus
<1>10. ASSUME NEW r \in Runner, ClaimSnapshot(r) PROVE Known'
    BY <1>0, <1>10 DEF ClaimSnapshot, Known, RunnersOK, CorpusOK
<1>11. ASSUME NEW r \in Runner, Read(r) \/ Gather(r) PROVE Known'
    BY <1>0, <1>11 DEF Read, Gather, Known, RunnersOK, corpus
<1>12. ASSUME NEW r \in Runner, BlobMissing(r) \/ TransientError(r) \/ Crash(r) PROVE Known'
    BY <1>12, <1>n, <1>t DEF BlobMissing, TransientError, Crash, SetStatus, corpus
<1>13. ASSUME NEW r \in Runner, Interrupted(r) PROVE Known'
  <2>1. PICK rest \in SUBSET Deposited' : NextItem(r, rest)
    BY <1>13, <1>t DEF Interrupted
  <2> QED
    BY <1>13, <1>n, <2>1 DEF Interrupted, SetStatus, corpus
<1>14. ASSUME NEW r \in Runner, Apply(r) \/ ProcessAbsence(r) PROVE Known'
    BY <1>14, <1>n, <1>t DEF Apply, ProcessAbsence, SetStatus
<1>15. CASE UNCHANGED vars
    BY <1>15, <1>k DEF vars, corpus
<1> QED
    BY <1>1, <1>2, <1>3, <1>4, <1>5, <1>6, <1>7, <1>8, <1>9, <1>10, <1>11, <1>12, <1>13,
       <1>14, <1>15 DEF Next, Step

--------------------------------------------------------------------------------
(* What the write phase does to the particles *)

\* cascade_superseded_generation keeps every particle's refs and edges, and retires
\* exactly the beliefs with an old edge of the entry that nothing attests.
Retirable(p, s, id, spared) ==
    /\ EntryOf[s] \in Mutable /\ id \notin spared /\ p.status = "ACTIVE"
    /\ \E x \in p.edges : EntryOf[x] = EntryOf[s] /\ x # CurrentGeneration(s)
    /\ ~Attested(p, EntryOf[s], CurrentGeneration(s))

Stale1(p) == [p EXCEPT !.status = "PROVENANCE_STALE", !.reason = "RETRACTED_DEPENDENCY"]

\* One particle through the cascade.
LEMMA CascadeOne ==
    ASSUME NEW parts \in [Claim -> Seq(Particle)], NEW s, NEW spared, NEW c \in Claim
    PROVE  /\ DOMAIN Cascade(parts, s, spared)[c] = DOMAIN parts[c]
           /\ \A i \in DOMAIN parts[c] :
                 Cascade(parts, s, spared)[c][i] =
                     IF Retirable(parts[c][i], s, <<c, i>>, spared)
                     THEN Stale1(parts[c][i]) ELSE parts[c][i]
BY DEF Cascade, Retirable, Stale1

\* A retired particle keeps all but its status.
LEMMA StaleOne ==
    ASSUME NEW p \in Particle
    PROVE  /\ Stale1(p).status = "PROVENANCE_STALE" /\ Stale1(p).reason = "RETRACTED_DEPENDENCY"
           /\ Stale1(p).refs = p.refs /\ Stale1(p).edges = p.edges
BY DEF Stale1, Particle

\* The particles the cascade leaves alone because the pass met them.
Spared(r) == carried[r] \cup {<<c, seen[r].dup[c]>> : c \in Suppressed(r)}

\* The write loop, old particles: those met gain a ref.
LEMMA WrittenOld ==
    ASSUME BeliefInv, NEW r \in Runner, job[r] \in Snap, NEW c \in Claim, NEW i \in DOMAIN part[c]
    PROVE  /\ part[c][i] \in Particle /\ i \in DOMAIN Written(r)[c]
           /\ Written(r)[c][i] = IF <<c, i>> \in Observed(r)
                                 THEN AppendRef(part[c][i], job[r]) ELSE part[c][i]
<1> DEFINE Met(j) == IF <<c, j>> \in Observed(r) THEN AppendRef(part[c][j], job[r]) ELSE part[c][j]
           old == [j \in DOMAIN part[c] |-> Met(j)]
<1>0. part[c] \in Seq(Particle)
    BY DEF BeliefInv, ExtractionInv, PartOK
<1>1. part[c][i] \in Particle /\ Len(part[c]) \in Nat /\ DOMAIN part[c] = 1..Len(part[c])
    BY <1>0
<1>2. Written(r)[c] = IF c \in Fresh(r) \cup Quarantined(r) THEN Append(old, Minted(r, c)) ELSE old
    BY DEF Written
<1> HIDE DEF Met
<1>3. old \in Seq({Met(j) : j \in DOMAIN part[c]}) /\ Len(old) = Len(part[c])
    BY <1>1
<1>4. old[i] = Met(i) /\ i \in DOMAIN old
    OBVIOUS
<1>5. Append(old, Minted(r, c))[i] = old[i] /\ i \in DOMAIN Append(old, Minted(r, c))
  <2> HIDE DEF old
  <2> QED
    BY <1>1, <1>3, <1>4
<1> HIDE DEF old
<1> QED
    BY <1>1, <1>2, <1>4, <1>5 DEF Met

\* The write loop, new particles: one per fresh or quarantined candidate.
LEMMA WrittenNew ==
    ASSUME BeliefInv, NEW r \in Runner, job[r] \in Snap, NEW c \in Claim
    PROVE  /\ \A i \in DOMAIN Written(r)[c] \ DOMAIN part[c] :
                 c \in Fresh(r) \cup Quarantined(r) /\ Written(r)[c][i] = Minted(r, c)
           /\ c \in Fresh(r) \cup Quarantined(r) =>
                 \E i \in DOMAIN Written(r)[c] : Written(r)[c][i] = Minted(r, c)
<1> DEFINE Met(j) == IF <<c, j>> \in Observed(r) THEN AppendRef(part[c][j], job[r]) ELSE part[c][j]
           old == [j \in DOMAIN part[c] |-> Met(j)]
           n == Len(part[c])
<1>0. part[c] \in Seq(Particle)
    BY DEF BeliefInv, ExtractionInv, PartOK
<1>1. n \in Nat /\ DOMAIN part[c] = 1..n
    BY <1>0
<1>2. Written(r)[c] = IF c \in Fresh(r) \cup Quarantined(r) THEN Append(old, Minted(r, c)) ELSE old
    BY DEF Written
<1> HIDE DEF Met
<1>3. old \in Seq({Met(j) : j \in DOMAIN part[c]}) /\ Len(old) = n /\ DOMAIN old = DOMAIN part[c]
    BY <1>1
<1> HIDE DEF old, n
<1>4. /\ DOMAIN Append(old, Minted(r, c)) = 1..(n + 1)
      /\ Append(old, Minted(r, c))[n + 1] = Minted(r, c)
    BY <1>1, <1>3
<1> QED
    BY <1>1, <1>2, <1>3, <1>4

\* What is minted ACTIVE is new to the cascade: the pass met no copy of it.
LEMMA MintedUnmet ==
    ASSUME NEW r \in Runner, NEW c \in Claim, c \in Fresh(r) \cup Quarantined(r), NEW i
    PROVE  <<c, i>> \notin Spared(r)
BY DEF Spared, Fresh, Quarantined, Reasserted, Suppressed, Candidates

\* What the cascade spares was met: it has gained a ref to the snapshot.
LEMMA SparedMet ==
    ASSUME NEW r \in Runner
    PROVE  Spared(r) \subseteq Observed(r)
BY DEF Spared, Observed

\* A particle that is met keeps its sources and gains one; its edges stay refs.
LEMMA AppendRefSourced ==
    ASSUME NEW p \in Particle, NEW s \in Snap
    PROVE  /\ AppendRef(p, s).status = p.status /\ AppendRef(p, s).reason = p.reason
           /\ AppendRef(p, s).refs = p.refs \cup {s}
           /\ AppendRef(p, s).edges =
                 IF \E x \in p.edges : EntryOf[x] = EntryOf[s] THEN p.edges ELSE p.edges \cup {s}
BY DEF AppendRef, Particle

\* A particle that is met keeps its status and its refs.
LEMMA AppendRefKeepsStatus ==
    \A p \in Particle, s \in Snap :
        /\ AppendRef(p, s).status = p.status /\ AppendRef(p, s).reason = p.reason
        /\ AppendRef(p, s).refs = p.refs \cup {s}
BY DEF AppendRef, Particle

\* A sourced particle that is met stays sourced.
LEMMA AppendRefKeeps ==
    ASSUME NEW p \in Particle, Sourced(p), NEW s \in Deposited \ Absent, s \in Snap
    PROVE  Sourced(AppendRef(p, s))
<1> DEFINE q == AppendRef(p, s)
<1>1. /\ q.refs = p.refs \cup {s}
      /\ q.edges = IF \E x \in p.edges : EntryOf[x] = EntryOf[s] THEN p.edges ELSE p.edges \cup {s}
    BY AppendRefSourced
<1> HIDE DEF q
<1>2. /\ p.edges \subseteq p.refs /\ p.refs \subseteq Deposited \ Absent
      /\ \A x \in p.refs : \E y \in p.edges : EntryOf[y] = EntryOf[x]
    BY DEF Sourced
<1>3. \A x \in q.refs : \E y \in q.edges : EntryOf[y] = EntryOf[x]
    BY <1>1, <1>2
<1>4. Sourced(q)
    BY <1>1, <1>2, <1>3 DEF Sourced
<1> QED
    BY <1>4 DEF q

\* A particle with the same refs and edges is as well sourced after the step.
LEMMA SourcedKept ==
    ASSUME NEW p, Sourced(p), Deposited \subseteq Deposited', NEW q,
           q.refs = p.refs, q.edges = p.edges
    PROVE  /\ q.edges \subseteq q.refs /\ q.refs \subseteq Deposited' \ Absent
           /\ \A x \in q.refs : \E y \in q.edges : EntryOf[y] = EntryOf[x]
BY DEF Sourced

\* After the write loop every particle is sourced as before, the new ones by the
\* snapshot alone.
LEMMA WrittenSourced ==
    ASSUME BeliefInv, NEW r \in Runner, job[r] \in Deposited \ Absent, NEW c \in Claim,
           NEW i \in DOMAIN Written(r)[c]
    PROVE  Sourced(Written(r)[c][i])
<1> DEFINE p == part[c][i]
           s == job[r]
<1>0. s \in Snap
    BY DEF Deposited
<1>1. CASE i \in DOMAIN part[c]
  <2>1. p \in Particle /\ Sourced(p)
    BY <1>0, <1>1, WrittenOld DEF BeliefInv, PartsSourced
  <2>2. Written(r)[c][i] = p \/ Written(r)[c][i] = AppendRef(p, s)
    BY <1>0, <1>1, WrittenOld
  <2>3. Sourced(AppendRef(p, s))
    BY <1>0, <2>1, AppendRefKeeps
  <2> QED
    BY <2>1, <2>2, <2>3
<1>2. CASE i \notin DOMAIN part[c]
  <2>1. Written(r)[c][i] = Minted(r, c)
    BY <1>0, <1>2, WrittenNew
  <2>2. Minted(r, c).refs = {s} /\ Minted(r, c).edges = {s}
    BY DEF Minted
  <2> QED
    BY <2>1, <2>2 DEF Sourced
<1> QED
    BY <1>1, <1>2

\* The cascade at the end of a pass runs over well-typed, sourced particles.
LEMMA PassOver ==
    ASSUME BeliefInv, NEW r \in Runner, Apply(r) \/ ProcessAbsence(r)
    PROVE  \E parts \in [Claim -> Seq(Particle)], spared \in SUBSET (Claim \X Nat) :
              /\ part' = Cascade(parts, job[r], spared)
              /\ \A c \in Claim : \A i \in DOMAIN parts[c] : Sourced(parts[c][i])
              /\ \/ Apply(r) /\ parts = Written(r) /\ spared = Spared(r)
                 \/ ProcessAbsence(r) /\ parts = part /\ spared = {}
<1>0. ExtractionInv /\ Known /\ PartsSourced
    BY DEF BeliefInv
<1>1. CASE Apply(r)
  <2>1. job[r] \in Deposited \ Absent /\ job[r] \in Snap
    BY <1>0, <1>1 DEF Apply, Known, Deposited
  <2>2. Written(r) \in [Claim -> Seq(Particle)]
    BY <1>0, <2>1, WrittenTyped
  <2>3. \A c \in Claim : \A i \in DOMAIN Written(r)[c] : Sourced(Written(r)[c][i])
    BY <2>1, WrittenSourced
  <2>4. part' = Cascade(Written(r), job[r], Spared(r))
    BY <1>1 DEF Apply, Spared
  <2>5. Spared(r) \in SUBSET (Claim \X Nat)
    <3>1. carried[r] \subseteq Claim \X Nat /\ \A c \in Claim : seen[r].dup[c] \in Nat
      BY <1>0 DEF ExtractionInv, RunnersOK, Index
    <3>2. Suppressed(r) \subseteq Claim
      BY <2>1, ExtractionAssumption DEF Suppressed, Candidates
    <3> QED
      BY <3>1, <3>2 DEF Spared
  <2> QED
    BY <1>1, <2>2, <2>3, <2>4, <2>5
<1>2. CASE ProcessAbsence(r)
  <2>1. part' = Cascade(part, job[r], {})
    BY <1>2 DEF ProcessAbsence
  <2>2. part \in [Claim -> Seq(Particle)]
    BY <1>0 DEF ExtractionInv, PartOK
  <2> QED
    BY <1>0, <1>2, <2>1, <2>2 DEF PartsSourced
<1> QED
    BY <1>1, <1>2

\* One particle through a pass: its refs and edges are what they were, and it is as
\* it was unless the cascade retired it.
LEMMA PassOne ==
    ASSUME NEW parts \in [Claim -> Seq(Particle)], NEW s, NEW spared,
           part' = Cascade(parts, s, spared), NEW c \in Claim, NEW i \in DOMAIN part'[c]
    PROVE  /\ i \in DOMAIN parts[c] /\ parts[c][i] \in Particle
           /\ part'[c][i].refs = parts[c][i].refs /\ part'[c][i].edges = parts[c][i].edges
           /\ \/ part'[c][i] = parts[c][i] /\ ~Retirable(parts[c][i], s, <<c, i>>, spared)
              \/ /\ Retirable(parts[c][i], s, <<c, i>>, spared)
                 /\ part'[c][i].status = "PROVENANCE_STALE"
                 /\ part'[c][i].reason = "RETRACTED_DEPENDENCY"
<1>1. i \in DOMAIN parts[c] /\ parts[c] \in Seq(Particle)
    BY CascadeOne
<1>2. parts[c][i] \in Particle
    BY <1>1
<1> QED
    BY <1>1, <1>2, CascadeOne, StaleOne

\* What is ACTIVE after a pass the cascade left alone.
LEMMA PassActive ==
    ASSUME NEW parts \in [Claim -> Seq(Particle)], NEW s, NEW spared,
           part' = Cascade(parts, s, spared), NEW c \in Claim, NEW i \in DOMAIN part'[c],
           part'[c][i].status = "ACTIVE"
    PROVE  /\ i \in DOMAIN parts[c] /\ part'[c][i] = parts[c][i]
           /\ ~Retirable(parts[c][i], s, <<c, i>>, spared)
BY PassOne

\* A retraction touches one particle's status.
LEMMA RetractOne ==
    ASSUME BeliefInv, NEW c \in Claim, NEW i \in DOMAIN part[c], Retract(c, i),
           NEW d \in Claim
    PROVE  /\ DOMAIN part'[d] = DOMAIN part[d]
           /\ \A j \in DOMAIN part[d] :
                 /\ part'[d][j].refs = part[d][j].refs /\ part'[d][j].edges = part[d][j].edges
                 /\ \/ part'[d][j] = part[d][j]
                    \/ /\ d = c /\ j = i /\ part[d][j].status = "ACTIVE"
                       /\ part'[d][j].status = "RETRACTED"
                       /\ part'[d][j].reason = "EXPLICIT_RETRACTION"
<1>0. part \in [Claim -> Seq(Particle)]
    BY DEF BeliefInv, ExtractionInv, PartOK
<1>1. part[c] \in Seq(Particle) /\ part[d] \in Seq(Particle)
    BY <1>0
<1>2. part[c][i] \in Particle
    BY <1>1
<1> DEFINE p == [part[c][i] EXCEPT !.status = "RETRACTED", !.reason = "EXPLICIT_RETRACTION"]
<1>3. part[c][i].status = "ACTIVE" /\ part' = [part EXCEPT ![c] = [part[c] EXCEPT ![i] = p]]
    BY <1>0, <1>1, <1>2 DEF Retract, Particle
<1>4. /\ p.status = "RETRACTED" /\ p.reason = "EXPLICIT_RETRACTION"
      /\ p.refs = part[c][i].refs /\ p.edges = part[c][i].edges
    BY <1>2 DEF Particle
<1> HIDE DEF p
<1>5. CASE d = c
    BY <1>0, <1>1, <1>3, <1>4, <1>5
<1>6. CASE d # c
    BY <1>0, <1>3, <1>6
<1> QED
    BY <1>5, <1>6

\* Every step leaves particles whose refs are deposited and whose edges are refs.
LEMMA PartsSourcedStep == BeliefInv /\ [Next]_vars => PartsSourced'
<1> SUFFICES ASSUME BeliefInv, [Next]_vars,
                    NEW c \in Claim, NEW i \in DOMAIN part'[c]
             PROVE  Sourced(part[c][i])'
    BY DEF PartsSourced
<1>0. PartsSourced /\ Deposited \subseteq Deposited'
    BY DepositsStay DEF BeliefInv
<1>1. CASE part' = part
    BY <1>0, <1>1, SourcedKept DEF PartsSourced, Sourced
<1>2. ASSUME NEW d \in Claim, NEW j \in DOMAIN part[d], Retract(d, j)
      PROVE  Sourced(part[c][i])'
  <2>1. i \in DOMAIN part[c] /\ part'[c][i].refs = part[c][i].refs /\ part'[c][i].edges = part[c][i].edges
    BY <1>2, RetractOne
  <2>2. Sourced(part[c][i])
    BY <1>0, <2>1 DEF PartsSourced
  <2> QED
    BY <1>0, <2>1, <2>2, SourcedKept DEF Sourced
<1>3. ASSUME NEW r \in Runner, Apply(r) \/ ProcessAbsence(r) PROVE Sourced(part[c][i])'
  <2>1. PICK parts \in [Claim -> Seq(Particle)], spared \in SUBSET (Claim \X Nat) :
              /\ part' = Cascade(parts, job[r], spared)
              /\ \A d \in Claim : \A j \in DOMAIN parts[d] : Sourced(parts[d][j])
    BY <1>3, PassOver
  <2>2. /\ i \in DOMAIN parts[c]
        /\ part'[c][i].refs = parts[c][i].refs /\ part'[c][i].edges = parts[c][i].edges
    BY <2>1, PassOne
  <2> QED
    BY <1>0, <2>1, <2>2, SourcedKept DEF Sourced
<1> QED
    BY <1>1, <1>2, <1>3, Settling, Depositing

--------------------------------------------------------------------------------
(* Every belief has a ref that stands *)

\* An entry has one newest record.
LEMMA NewestOnce ==
    ASSUME NEW w, NEW x, Newest(w), Newest(x), EntryOf[w] = EntryOf[x]
    PROVE  w = x
<1>1. w \in Snap /\ x \in Snap /\ Captured[w] <= Captured[x] /\ Captured[x] <= Captured[w]
    BY DEF Newest, Deposited
<1>2. Captured[w] \in Nat /\ Captured[x] \in Nat
    BY <1>1, ExtractionAssumption
<1>3. Captured[w] = Captured[x]
    BY <1>1, <1>2
<1> QED
    BY <1>1, <1>3, ExtractionAssumption

\* A ref that attests stands (attests).
LEMMA AttestsStands ==
    ASSUME BeliefInv, NEW x \in Deposited, Attests(x)
    PROVE  Stands(x)
<1> SUFFICES ASSUME EntryOf[x] \in Mutable, ~Awaits(EntryOf[x]) PROVE Newest(x)
    BY DEF Stands
<1>1. PICK w \in Deposited : EntryOf[w] = EntryOf[x] /\ Newest(w)
    BY NewestOf DEF BeliefInv
<1>2. st[w] = "COMPLETE"
    BY <1>1 DEF Awaits
<1>3. Currency(EntryOf[x]) = w
    BY <1>1, <1>2, NewestIsCurrent
<1>4. w \in {NoSnap, x}
    BY <1>3 DEF Attests
<1>5. w # NoSnap
    BY ExtractionAssumption DEF Deposited
<1> QED
    BY <1>1, <1>4, <1>5

\* Where nothing is deposited and no newest record is settled, what stood stands.
LEMMA StandsCalm ==
    ASSUME Deposited' = Deposited, NEW x, Stands(x),
           \A w : Newest(w) /\ EntryOf[w] = EntryOf[x] /\ st'[w] = "COMPLETE" => st[w] = "COMPLETE"
    PROVE  Stands(x)'
<1>1. \A w : Newest(w) <=> Newest(w)'
    BY DEF Newest
<1>2. ASSUME Awaits(EntryOf[x]) PROVE Awaits(EntryOf[x])'
    BY <1>1, <1>2 DEF Awaits
<1> QED
    BY <1>1, <1>2 DEF Stands

\* A newer record that is deposited owes its extraction, and until then what stood
\* stands.
LEMMA StandsDeposit ==
    ASSUME BeliefInv, NEW s \in Snap, Deposit(s), NEW x \in Deposited, Stands(x)
    PROVE  Stands(x)'
<1> SUFFICES ASSUME EntryOf[x] \in Mutable PROVE Newest(x)' \/ Awaits(EntryOf[x])'
    BY DEF Stands
<1>1. /\ Deposited' = Deposited \cup {s} /\ st'[s] = "PENDING"
      /\ \A t \in Deposited : st'[t] = st[t]
    BY Depositing
<1>2. ASSUME NEW w \in Deposited, Newest(w), EntryOf[w] = EntryOf[x], ~Newest(w)'
      PROVE  Awaits(EntryOf[x])'
  <2>1. EntryOf[s] = EntryOf[w] /\ ~(Captured[s] <= Captured[w])
    BY <1>1, <1>2 DEF Newest
  <2>2. \A t \in Deposited' : EntryOf[t] = EntryOf[w] => Captured[t] <= Captured[s]
    <3> SUFFICES ASSUME NEW t \in Deposited, EntryOf[t] = EntryOf[w] PROVE Captured[t] <= Captured[s]
      BY <1>1, <2>1, ExtractionAssumption
    <3>1. Captured[t] <= Captured[w]
      BY <1>2 DEF Newest
    <3>2. Captured[t] \in Nat /\ Captured[w] \in Nat /\ Captured[s] \in Nat
      BY ExtractionAssumption DEF Deposited
    <3> QED
      BY <2>1, <3>1, <3>2
  <2>3. Newest(s)'
    BY <1>1, <2>1, <2>2 DEF Newest
  <2> QED
    BY <1>1, <1>2, <2>1, <2>3 DEF Awaits
<1>3. CASE Newest(x)
    BY <1>2, <1>3
<1>4. CASE Awaits(EntryOf[x])
  <2>1. PICK w \in Deposited : EntryOf[w] = EntryOf[x] /\ Newest(w) /\ st[w] # "COMPLETE"
    BY <1>4 DEF Awaits
  <2>2. CASE Newest(w)'
    BY <1>1, <2>1, <2>2 DEF Awaits
  <2> QED
    BY <1>2, <2>1, <2>2
<1> QED
    BY <1>3, <1>4 DEF Stands

\* After a pass over snapshot s, its entry still awaits its newest record, or that
\* record is COMPLETE and was the current generation of the cascade.
LEMMA PassSettles ==
    ASSUME BeliefInv, NEW r \in Runner, Apply(r) \/ ProcessAbsence(r),
           NEW s, s = job[r], NEW e, e = EntryOf[s]
    PROVE  \/ Awaits(e)'
           \/ \E w \in Deposited :
                 /\ EntryOf[w] = e /\ Newest(w) /\ Newest(w)'
                 /\ CurrentGeneration(s) = w
                 /\ w # s => ~Awaits(e)
<1>1. /\ s \in Deposited /\ s \in Snap /\ Deposited' = Deposited
      /\ st' = [st EXCEPT ![s] = "COMPLETE"]
    BY Finishing
<1>2. PICK w \in Deposited : EntryOf[w] = e /\ Newest(w)
    BY <1>1, NewestOf DEF BeliefInv
<1>3. Newest(w)'
    BY <1>1, <1>2 DEF Newest
<1>4. CASE st'[w] # "COMPLETE"
  <2>1. w \in Deposited'
    BY <1>1
  <2> QED
    BY <1>2, <1>3, <1>4, <2>1 DEF Awaits
<1>5. CASE st'[w] = "COMPLETE"
  <2>1. w = s \/ st[w] = "COMPLETE"
    BY <1>1, <1>5 DEF Deposited, BeliefInv, ExtractionInv, CorpusOK
  <2>2. CurrentGeneration(s) = w
    BY <1>1, <1>2, <2>1, CurrentIsNewest
  <2>3. ASSUME w # s, Awaits(e) PROVE FALSE
    <3>1. PICK v \in Deposited : EntryOf[v] = e /\ Newest(v) /\ st[v] # "COMPLETE"
      BY <2>3 DEF Awaits
    <3>2. v = w
      BY <1>2, <3>1, NewestOnce
    <3> QED
      BY <2>1, <2>3, <3>1, <3>2
  <2> QED
    BY <1>2, <1>3, <2>2, <2>3
<1> QED
    BY <1>4, <1>5

\* A pass settles its own entry only: refs into the others stand as they stood.
LEMMA PassElsewhere ==
    ASSUME BeliefInv, NEW r \in Runner, Apply(r) \/ ProcessAbsence(r),
           NEW x, Stands(x), EntryOf[x] # EntryOf[job[r]]
    PROVE  Stands(x)'
<1>1. Deposited' = Deposited /\ job[r] \in Snap /\ st' = [st EXCEPT ![job[r]] = "COMPLETE"]
    BY Finishing
<1>2. \A w : Newest(w) /\ EntryOf[w] = EntryOf[x] /\ st'[w] = "COMPLETE" => st[w] = "COMPLETE"
    BY <1>1 DEF Newest, Deposited, BeliefInv, ExtractionInv, CorpusOK
<1> QED
    BY <1>1, <1>2, StandsCalm

\* A belief the cascade leaves has a ref that stands: the pass met it, or it states
\* the current generation, or another source attests it (_unattested).
LEMMA PassLeaves ==
    ASSUME BeliefInv, NEW r \in Runner, Apply(r) \/ ProcessAbsence(r),
           NEW s, s = job[r], NEW e, e = EntryOf[s],
           NEW p, Sourced(p), p.status = "ACTIVE",
           NEW id, NEW spared, ~Retirable(p, s, id, spared),
           s \in p.refs \/ \E x \in p.refs : Stands(x),
           id \in spared => s \in p.refs /\ \E x \in p.refs : Stands(x)
    PROVE  \E x \in p.refs : Stands(x)'
<1>0. s \in Deposited /\ s \in Snap /\ Deposited' = Deposited
    BY Finishing
<1>r. /\ p.edges \subseteq p.refs /\ p.refs \subseteq Deposited \ Absent
      /\ \A x \in p.refs : \E y \in p.edges : EntryOf[y] = EntryOf[x]
    BY DEF Sourced
<1>e. \A x \in p.refs : Stands(x) /\ EntryOf[x] # e => Stands(x)'
    BY PassElsewhere
<1>1. CASE e \notin Mutable
  <2>1. \A x \in p.refs : EntryOf[x] = e => Stands(x)'
    BY <1>1 DEF Stands
  <2> QED
    BY <2>1, <1>e
<1>2. CASE Awaits(e)'
  <2>1. \A x \in p.refs : EntryOf[x] = e => Stands(x)'
    BY <1>2 DEF Stands
  <2> QED
    BY <2>1, <1>e
<1>3. CASE e \in Mutable /\ ~Awaits(e)'
  <2>1. PICK w \in Deposited :
            /\ EntryOf[w] = e /\ Newest(w) /\ Newest(w)'
            /\ CurrentGeneration(s) = w
            /\ w # s => ~Awaits(e)
    BY <1>3, PassSettles
  <2>2. Stands(w)'
    BY <2>1 DEF Stands
  <2>3. CASE id \in spared
    <3>1. CASE w = s
      BY <2>2, <2>3, <3>1
    <3>2. CASE w # s
      <4>1. PICK x \in p.refs : Stands(x)
        BY <2>3
      <4>2. CASE EntryOf[x] = e
        <5>1. Newest(x)
          BY <1>3, <2>1, <3>2, <4>1, <4>2 DEF Stands
        <5>2. Newest(x)'
          BY <1>0, <5>1 DEF Newest
        <5> QED
          BY <5>2 DEF Stands
      <4> QED
        BY <4>1, <4>2, <1>e
    <3> QED
      BY <3>1, <3>2
  <2>4. CASE ~\E x \in p.edges : EntryOf[x] = e /\ x # w
    <3>1. CASE \E x \in p.refs : EntryOf[x] = e
      <4>1. w \in p.refs
        BY <1>r, <2>4, <3>1
      <4> QED
        BY <2>2, <4>1
    <3>2. CASE ~\E x \in p.refs : EntryOf[x] = e
      BY <1>e, <3>2
    <3> QED
      BY <3>1, <3>2
  <2>5. CASE Attested(p, e, w)
    <3>1. PICK x \in p.refs : IF EntryOf[x] = e THEN x = w ELSE Attests(x)
      BY <2>5 DEF Attested
    <3>2. CASE EntryOf[x] = e
      BY <2>2, <3>1, <3>2
    <3>3. CASE EntryOf[x] # e
      <4>1. Stands(x)
        BY <1>r, <3>1, <3>3, AttestsStands
      <4> QED
        BY <1>e, <3>3, <4>1
    <3> QED
      BY <3>2, <3>3
  <2> QED
    BY <1>3, <2>1, <2>3, <2>4, <2>5 DEF Retirable
<1> QED
    BY <1>1, <1>2, <1>3

\* A pass leaves every belief a ref that stands.
LEMMA StatedPass ==
    ASSUME BeliefInv, NEW r \in Runner, Apply(r) \/ ProcessAbsence(r),
           NEW c \in Claim, NEW i \in DOMAIN part'[c], part'[c][i].status = "ACTIVE"
    PROVE  \E x \in part'[c][i].refs : Stands(x)'
<1>1. PICK parts \in [Claim -> Seq(Particle)], spared \in SUBSET (Claim \X Nat) :
              /\ part' = Cascade(parts, job[r], spared)
              /\ \A d \in Claim : \A j \in DOMAIN parts[d] : Sourced(parts[d][j])
              /\ \/ Apply(r) /\ parts = Written(r) /\ spared = Spared(r)
                 \/ ProcessAbsence(r) /\ parts = part /\ spared = {}
    BY PassOver
<1>2. /\ i \in DOMAIN parts[c] /\ part'[c][i] = parts[c][i]
      /\ ~Retirable(parts[c][i], job[r], <<c, i>>, spared)
    BY <1>1, PassOne
<1> DEFINE p == parts[c][i]
<1>3. Sourced(p) /\ p.status = "ACTIVE" /\ job[r] \in Snap
    BY <1>1, <1>2, Finishing
<1>4. /\ job[r] \in p.refs \/ \E x \in p.refs : Stands(x)
      /\ <<c, i>> \in spared => job[r] \in p.refs /\ \E x \in p.refs : Stands(x)
  <2>0. Stated
    BY DEF BeliefInv
  <2>1. CASE ProcessAbsence(r) /\ parts = part /\ spared = {}
    BY <1>2, <1>3, <2>0, <2>1 DEF Stated
  <2>2. CASE Apply(r) /\ parts = Written(r) /\ spared = Spared(r)
    <3>1. CASE i \in DOMAIN part[c]
      <4>1. /\ part[c][i] \in Particle
            /\ p = IF <<c, i>> \in Observed(r) THEN AppendRef(part[c][i], job[r]) ELSE part[c][i]
        BY <1>3, <2>2, <3>1, WrittenOld
      <4>a. /\ AppendRef(part[c][i], job[r]).status = part[c][i].status
            /\ AppendRef(part[c][i], job[r]).refs = part[c][i].refs \cup {job[r]}
        BY <1>3, <4>1, AppendRefKeepsStatus
      <4>2. /\ part[c][i].status = "ACTIVE" /\ part[c][i].refs \subseteq p.refs
            /\ <<c, i>> \in Observed(r) => job[r] \in p.refs
        <5>1. CASE <<c, i>> \in Observed(r)
          BY <1>3, <4>1, <4>a, <5>1
        <5>2. CASE <<c, i>> \notin Observed(r)
          BY <1>3, <4>1, <5>2
        <5> QED
          BY <5>1, <5>2
      <4>3. \E x \in p.refs : Stands(x)
        BY <2>0, <3>1, <4>2 DEF Stated
      <4>4. <<c, i>> \in spared => job[r] \in p.refs
        BY <2>2, <4>2, SparedMet
      <4> QED
        BY <4>3, <4>4
    <3>2. CASE i \notin DOMAIN part[c]
      <4>1. c \in Fresh(r) \cup Quarantined(r) /\ p = Minted(r, c)
        BY <1>2, <1>3, <2>2, <3>2, WrittenNew
      <4>2. p.refs = {job[r]}
        BY <4>1 DEF Minted
      <4> QED
        BY <2>2, <4>1, <4>2, MintedUnmet
    <3> QED
      BY <3>1, <3>2
  <2> QED
    BY <1>1, <2>1, <2>2
<1> HIDE DEF p
<1>5. \E x \in p.refs : Stands(x)'
    BY <1>2, <1>3, <1>4, PassLeaves DEF p
<1> QED
    BY <1>2, <1>5 DEF p

\* Every step leaves every belief a ref that stands.
LEMMA StatedStep == BeliefInv /\ [Next]_vars => Stated'
<1> SUFFICES ASSUME BeliefInv, [Next]_vars,
                    NEW c \in Claim, NEW i \in DOMAIN part'[c], part'[c][i].status = "ACTIVE"
             PROVE  \E x \in part'[c][i].refs : Stands(x)'
    BY DEF Stated
<1>0. Stated /\ PartsSourced
    BY DEF BeliefInv
<1>1. ASSUME NEW r \in Runner, Apply(r) \/ ProcessAbsence(r)
      PROVE  \E x \in part'[c][i].refs : Stands(x)'
    BY <1>1, StatedPass
<1>2. ASSUME NEW s \in Snap, Deposit(s) PROVE \E x \in part'[c][i].refs : Stands(x)'
  <2>1. part' = part
    BY <1>2, Depositing
  <2>2. PICK x \in part[c][i].refs : Stands(x)
    BY <1>0, <2>1 DEF Stated
  <2>3. x \in Deposited
    BY <1>0, <2>1, <2>2 DEF PartsSourced, Sourced
  <2> QED
    BY <1>2, <2>1, <2>2, <2>3, StandsDeposit
<1>3. ASSUME Deposited' = Deposited,
             \A w : Newest(w) /\ st'[w] = "COMPLETE" => st[w] = "COMPLETE",
             part' = part \/ \E d \in Claim : \E j \in DOMAIN part[d] : Retract(d, j)
      PROVE  \E x \in part'[c][i].refs : Stands(x)'
  <2>1. /\ i \in DOMAIN part[c] /\ part[c][i].status = "ACTIVE"
        /\ part'[c][i].refs = part[c][i].refs
    <3>1. ASSUME NEW d \in Claim, NEW j \in DOMAIN part[d], Retract(d, j)
          PROVE  i \in DOMAIN part[c] /\ part'[c][i] = part[c][i]
      BY <3>1, RetractOne
    <3> QED
      BY <1>3, <3>1
  <2>2. PICK x \in part[c][i].refs : Stands(x)
    BY <1>0, <2>1 DEF Stated
  <2> QED
    BY <1>3, <2>1, <2>2, StandsCalm
<1> QED
    BY <1>1, <1>2, <1>3, Settling

\* At the start nothing is deposited and nobody works.
LEMMA InitBelief == Init => BeliefInv
<1> SUFFICES ASSUME Init PROVE BeliefInv
    OBVIOUS
<1>1. Deposited = {}
    BY DEF Init, Deposited
<1>2. Latests
    BY <1>1 DEF Latests
<1>3. Known
    BY DEF Init, Known
<1>4. \A c \in Claim : DOMAIN part[c] = {}
    BY DEF Init
<1> QED
    BY <1>2, <1>3, <1>4, InitExtraction DEF BeliefInv, PartsSourced, Stated

\* The inductive invariant of the beliefs holds in every reachable state, with any
\* runners, faults and deposits.
THEOREM BeliefInvariance == Spec => []BeliefInv
<1>1. BeliefInv /\ [Next]_vars => BeliefInv'
    BY CorpusStep, RunnersStep, PartStep, RefusedStep, LatestsStep, KnownStep,
       PartsSourcedStep, StatedStep DEF BeliefInv, ExtractionInv
<1> QED
    BY <1>1, InitBelief, PTL DEF Spec

\* When all work is done the newest record of every entry is its currency, so a ref
\* that stands attests.
LEMMA StandsAttests ==
    ASSUME BeliefInv, Quiet, NEW x \in Deposited \ Absent, Stands(x)
    PROVE  Attests(x)
<1> SUFFICES ASSUME EntryOf[x] \in Mutable PROVE Attests(x)
    BY DEF Attests
<1>1. ~Awaits(EntryOf[x])
    BY DEF Quiet, Awaits
<1>2. Newest(x) /\ st[x] = "COMPLETE"
    BY <1>1 DEF Stands, Quiet
<1>3. Currency(EntryOf[x]) = x
    BY <1>2, NewestIsCurrent
<1> QED
    BY <1>3 DEF Attests

\* When all deposited work is done, every belief is stated by a current generation
\* of one of its sources: with any number of runners, crashes, stale claims and
\* orders of extraction (cascade_superseded_generation).
THEOREM BeliefsAreStated == Spec => []BelievedIsStated
<1>1. BeliefInv => BelievedIsStated
  <2> SUFFICES ASSUME BeliefInv, Quiet, NEW c \in Claim, NEW i \in DOMAIN part[c],
                      part[c][i].status = "ACTIVE"
               PROVE  \E s \in part[c][i].refs : Attests(s)
    BY DEF BelievedIsStated
  <2>1. PICK x \in part[c][i].refs : Stands(x)
    BY DEF BeliefInv, Stated
  <2>2. x \in Deposited \ Absent
    BY <2>1 DEF BeliefInv, PartsSourced, Sourced
  <2> QED
    BY <2>1, <2>2, StandsAttests
<1> QED
    BY <1>1, BeliefInvariance, PTL

--------------------------------------------------------------------------------
(* One runner at a time *)

\* At most one runner works on the corpus.
Alone == \A r, q \in Runner : r = q

\* The snapshot a runner has claimed, or the absence it took up, is not collapsed.
OwnClaim ==
    \A r \in Runner : pc[r] \in {"read", "gather", "apply", "absence"} => by[job[r]] = NoSnap

\* A position that was ACTIVE when it was read: an operator may have judged it since.
Upheld(c, i) ==
    i \in DOMAIN part[c] /\ (part[c][i].status = "ACTIVE" \/ IsJudged(part[c][i]))

\* What the extractor carried forward is still there.
CarriedHolds(r) == \A c \in Claim : \A i \in Nat : <<c, i>> \in carried[r] => Upheld(c, i)

\* The indexes are as good as when they were gathered: a claim they do not know is
\* neither believed nor judged, and what they name is there.
SeenHolds(r) ==
    \A c \in Claim :
        /\ seen[r].dup[c] # 0 => Upheld(c, seen[r].dup[c])
        /\ seen[r].dup[c] = 0 => \A i \in DOMAIN part[c] : part[c][i].status # "ACTIVE"
        /\ c \in seen[r].hold =>
              seen[r].retired[c] \in DOMAIN part[c] /\ IsHold(part[c][seen[r].retired[c]])
        /\ seen[r].dup[c] = 0 /\ seen[r].retired[c] = 0 =>
              \A i \in DOMAIN part[c] : ~IsJudged(part[c][i])

GatherHolds ==
    \A r \in Runner :
        /\ pc[r] \in {"gather", "apply"} => CarriedHolds(r)
        /\ pc[r] = "apply" => SeenHolds(r)

\* A believed particle carries no reason.
Plain == \A c \in Claim : \A i \in DOMAIN part[c] :
            part[c][i].status = "ACTIVE" => part[c][i].reason = "NONE"

\* A record whose statements count: extracted, not collapsed, and the newest of its
\* entry where a newer one would replace it.
Speaks(s) ==
    /\ s \in Deposited \ Absent /\ st[s] = "COMPLETE" /\ by[s] = NoSnap
    /\ EntryOf[s] \in Mutable => Newest(s)

\* The claim is believed on the record's word, held for review, or judged.
Keeps(c, s) ==
    \E i \in DOMAIN part[c] :
        \/ part[c][i].status = "ACTIVE" /\ s \in part[c][i].refs
        \/ IsHold(part[c][i]) \/ IsJudged(part[c][i])

AllKept == \A s \in Snap : Speaks(s) => \A c \in Says[s] : Keeps(c, s)

\* The inductive invariant for one runner at a time.
SoloInv == BeliefInv /\ Plain /\ CollapsedIsComplete /\ OwnClaim /\ GatherHolds /\ AllKept

\* A belief never carries a reason: it is minted without one, and whatever gives it
\* one ends it.
LEMMA PlainStep == BeliefInv /\ Plain /\ [Next]_vars => Plain'
<1> SUFFICES ASSUME BeliefInv, Plain, [Next]_vars,
                    NEW c \in Claim, NEW i \in DOMAIN part'[c], part'[c][i].status = "ACTIVE"
             PROVE  part'[c][i].reason = "NONE"
    BY DEF Plain
<1>1. CASE part' = part
    BY <1>1 DEF Plain
<1>2. ASSUME NEW d \in Claim, NEW j \in DOMAIN part[d], Retract(d, j)
      PROVE  part'[c][i].reason = "NONE"
    BY <1>2, RetractOne DEF Plain
<1>3. ASSUME NEW r \in Runner, Apply(r) \/ ProcessAbsence(r) PROVE part'[c][i].reason = "NONE"
  <2>1. PICK parts \in [Claim -> Seq(Particle)], spared \in SUBSET (Claim \X Nat) :
              /\ part' = Cascade(parts, job[r], spared)
              /\ \/ Apply(r) /\ parts = Written(r) /\ spared = Spared(r)
                 \/ ProcessAbsence(r) /\ parts = part /\ spared = {}
    BY <1>3, PassOver
  <2>2. /\ i \in DOMAIN parts[c] /\ part'[c][i] = parts[c][i]
        /\ ~Retirable(parts[c][i], job[r], <<c, i>>, spared)
    BY <2>1, PassActive
  <2>3. CASE parts = part
    BY <2>2, <2>3 DEF Plain
  <2>4. CASE parts = Written(r)
    <3>0. job[r] \in Snap
      BY <1>3, Finishing
    <3>1. CASE i \in DOMAIN part[c]
      <4>1. part[c][i] \in Particle /\ (parts[c][i] = part[c][i] \/ parts[c][i] = AppendRef(part[c][i], job[r]))
        BY <2>4, <3>0, <3>1, WrittenOld
      <4>2. parts[c][i].status = part[c][i].status /\ parts[c][i].reason = part[c][i].reason
        BY <3>0, <4>1, AppendRefKeepsStatus
      <4> QED
        BY <2>2, <3>1, <4>2 DEF Plain
    <3>2. CASE i \notin DOMAIN part[c]
      <4>1. parts[c][i] = Minted(r, c)
        BY <2>2, <2>4, <3>0, <3>2, WrittenNew
      <4> QED
        BY <2>2, <4>1 DEF Minted
    <3> QED
      BY <3>1, <3>2
  <2> QED
    BY <2>1, <2>3, <2>4
<1> QED
    BY <1>1, <1>2, <1>3, Settling, Depositing

\* With one runner a collapsed record stays COMPLETE until it is claimed anew, and
\* what the runner has claimed cannot be collapsed under it.
LEMMA ClaimsStep ==
    Alone /\ SoloInv /\ [Next]_vars => CollapsedIsComplete' /\ OwnClaim'
<1> SUFFICES ASSUME Alone, SoloInv, [Next]_vars PROVE CollapsedIsComplete' /\ OwnClaim'
    OBVIOUS
<1>0. /\ CollapsedIsComplete /\ OwnClaim /\ RunnersOK /\ CorpusOK /\ Known
      /\ st \in [Snap -> ExtractionStatus] /\ by \in [Snap -> Snap \cup {NoSnap}]
      /\ pc \in [Runner -> Place] /\ job \in [Runner -> Snap \cup {NoSnap}]
    BY DEF SoloInv, BeliefInv, ExtractionInv, CorpusOK, RunnersOK
<1>k. ASSUME UNCHANGED local, by' = by PROVE OwnClaim'
    BY <1>0, <1>k DEF OwnClaim, local
<1>q. ASSUME NEW r \in Runner, pc'[r] \notin {"read", "gather", "apply", "absence"} PROVE OwnClaim'
    BY <1>q DEF Alone, OwnClaim
<1>c. ASSUME st' = st, by' = by PROVE CollapsedIsComplete'
    BY <1>0, <1>c DEF CollapsedIsComplete
<1>n. ASSUME NEW r \in Runner, NEW rest, NextItem(r, rest) PROVE OwnClaim'
    BY <1>0, <1>n, <1>q DEF NextItem
<1>s. ASSUME NEW s \in Snap, NEW v, SetStatus(s, v), by[s] = NoSnap \/ v = "COMPLETE"
      PROVE  CollapsedIsComplete'
    BY <1>0, <1>s DEF SetStatus, CollapsedIsComplete
<1>j. \A r \in Runner : pc[r] \in {"claim", "read", "gather", "apply", "absence"} => job[r] \in Snap
    BY <1>0 DEF RunnersOK, JobInHand
<1>1. ASSUME NEW s \in Snap, Deposit(s) PROVE CollapsedIsComplete' /\ OwnClaim'
    BY <1>0, <1>1, <1>k DEF Deposit, CollapsedIsComplete
<1>2. ASSUME NEW s \in Snap, LoseBlob(s) \/ Age(s) \/ Expire(s) PROVE CollapsedIsComplete' /\ OwnClaim'
    BY <1>2, <1>k, <1>c DEF LoseBlob, Age, Expire, corpus
<1>3. ASSUME NEW c \in Claim, NEW i \in DOMAIN part[c], Retract(c, i)
      PROVE  CollapsedIsComplete' /\ OwnClaim'
    BY <1>3, <1>k, <1>c DEF Retract, corpus
<1>4. ASSUME NEW r \in Runner, ResetStale(r) PROVE CollapsedIsComplete' /\ OwnClaim'
    BY <1>0, <1>4, <1>q DEF ResetStale, CollapsedIsComplete, Stale
<1>5. ASSUME NEW r \in Runner, PlanCollapse(r) PROVE CollapsedIsComplete' /\ OwnClaim'
    BY <1>0, <1>5, <1>q, <1>c DEF PlanCollapse, corpus
<1>6. ASSUME NEW r \in Runner, MarkCollapsed(r) PROVE CollapsedIsComplete' /\ OwnClaim'
  <2> DEFINE Marked(s) == /\ \E t \in Snap : <<s, t>> \in plan[r]
                          /\ st[s] \in {"PENDING", "FAILED"} /\ by[s] = NoSnap
             With(s) == CHOOSE t \in Snap : <<s, t>> \in plan[r]
  <2>1. /\ st' = [s \in Snap |-> IF Marked(s) THEN "COMPLETE" ELSE st[s]]
        /\ by' = [s \in Snap |-> IF Marked(s) THEN With(s) ELSE by[s]]
        /\ pc' = [pc EXCEPT ![r] = "list"]
    BY <1>6 DEF MarkCollapsed
  <2> HIDE DEF Marked, With
  <2> QED
    BY <1>0, <1>q, <2>1 DEF CollapsedIsComplete
<1>7. ASSUME NEW r \in Runner, ListPending(r) \/ Crash(r) PROVE CollapsedIsComplete' /\ OwnClaim'
    BY <1>7, <1>n, <1>c DEF ListPending, Crash, corpus
<1>8. ASSUME NEW r \in Runner, NEW s \in Snap, TakeResponse(r, s) PROVE CollapsedIsComplete' /\ OwnClaim'
    BY <1>0, <1>8, <1>q, <1>c DEF TakeResponse, TakeUp, corpus
<1>9. ASSUME NEW r \in Runner, NEW s \in Snap, TakeAbsence(r, s) PROVE CollapsedIsComplete' /\ OwnClaim'
  <2>1. by[s] = NoSnap /\ by' = by /\ st' = st /\ job' = [job EXCEPT ![r] = s]
    BY <1>9 DEF TakeAbsence, TakeUp, corpus
  <2>2. \A q \in Runner : q = r
    BY DEF Alone
  <2> QED
    BY <1>0, <1>c, <2>1, <2>2 DEF OwnClaim
<1>10. ASSUME NEW r \in Runner, NEW s \in Snap, SkipListed(r, s) PROVE CollapsedIsComplete' /\ OwnClaim'
    BY <1>10, <1>n, <1>c DEF SkipListed, corpus
<1>11. ASSUME NEW r \in Runner, NEW s \in Snap, NameSnapshot(r, s) PROVE CollapsedIsComplete' /\ OwnClaim'
    BY <1>0, <1>11, <1>q, <1>c DEF NameSnapshot, corpus
<1>12. ASSUME NEW r \in Runner, ClaimSnapshot(r) PROVE CollapsedIsComplete' /\ OwnClaim'
  <2>1. /\ st' = [st EXCEPT ![job[r]] = "IN_PROGRESS"] /\ by' = [by EXCEPT ![job[r]] = NoSnap]
        /\ job' = job /\ job[r] \in Snap
    BY <1>12, <1>j DEF ClaimSnapshot
  <2>2. \A q \in Runner : q = r
    BY DEF Alone
  <2>3. by'[job[r]] = NoSnap
    BY <1>0, <2>1
  <2> QED
    BY <1>0, <2>1, <2>2, <2>3 DEF CollapsedIsComplete, OwnClaim
<1>13. ASSUME NEW r \in Runner, Read(r) \/ Gather(r) PROVE CollapsedIsComplete' /\ OwnClaim'
  <2>1. by' = by /\ st' = st /\ job' = job /\ by[job[r]] = NoSnap
    BY <1>0, <1>13 DEF Read, Gather, corpus, OwnClaim
  <2>2. \A q \in Runner : q = r
    BY DEF Alone
  <2> QED
    BY <1>c, <2>1, <2>2 DEF OwnClaim
<1>14. ASSUME NEW r \in Runner, BlobMissing(r) \/ TransientError(r) PROVE CollapsedIsComplete' /\ OwnClaim'
    BY <1>0, <1>14, <1>n, <1>s, <1>j DEF BlobMissing, TransientError, OwnClaim
<1>15. ASSUME NEW r \in Runner, Interrupted(r) PROVE CollapsedIsComplete' /\ OwnClaim'
  <2>1. CollapsedIsComplete'
    BY <1>0, <1>15, <1>s, <1>j, <1>c DEF Interrupted, OwnClaim, corpus
  <2> QED
    BY <1>15, <1>n, <2>1 DEF Interrupted
<1>16. ASSUME NEW r \in Runner, Apply(r) \/ ProcessAbsence(r) PROVE CollapsedIsComplete' /\ OwnClaim'
    BY <1>16, <1>n, <1>s, <1>j DEF Apply, ProcessAbsence
<1>17. CASE UNCHANGED vars
    BY <1>17, <1>k, <1>c DEF vars, corpus
<1> QED
    BY <1>1, <1>2, <1>3, <1>4, <1>5, <1>6, <1>7, <1>8, <1>9, <1>10, <1>11, <1>12, <1>13,
       <1>14, <1>15, <1>16, <1>17 DEF Next, Step

\* First picks a member, and 0 only where there is none.
LEMMA FirstIn ==
    ASSUME NEW S \in SUBSET (Nat \ {0})
    PROVE  (First(S) = 0 <=> S = {}) /\ (S # {} => First(S) \in S)
<1>1. CASE S = {}
    BY <1>1 DEF First
<1>2. CASE S # {}
  <2>1. PICK m \in S : \A k \in S : m <= k
    BY <1>2, LeastOf
  <2> DEFINE P(k) == \A j \in S : k <= j
  <2>2. First(S) = CHOOSE k \in S : P(k)
    BY <1>2 DEF First
  <2>3. P(m)
    BY <2>1
  <2> HIDE DEF P
  <2>4. First(S) \in S
    BY <2>1, <2>2, <2>3
  <2> QED
    BY <1>2, <2>4
<1> QED
    BY <1>1, <1>2

\* What a gather reads holds when it is read (build_duplicate_index,
\* build_retired_value_index).
LEMMA GatherSees ==
    ASSUME SoloInv, NEW r \in Runner, Gather(r), part' = part
    PROVE  SeenHolds(r)'
<1> DEFINE Having(c, Test(_)) == {i \in DOMAIN part[c] : Test(part[c][i])}
           Active(p) == p.status = "ACTIVE"
           Held == {c \in Claim : Having(c, IsHold) # {}}
           dup == [c \in Claim |-> First(Having(c, Active))]
           retired == [c \in Claim |->
                         First(IF c \in Held THEN Having(c, IsHold) ELSE Having(c, IsJudged))]
           mark == [c \in Claim |-> Len(part[c])]
<1>1. seen' = [seen EXCEPT ![r] = [dup |-> dup, hold |-> Held, retired |-> retired, mark |-> mark]]
    BY Zenon DEF Gather
<1>2. seen \in [Runner -> [dup : Index, retired : Index, hold : SUBSET Claim, mark : Index]]
    BY DEF SoloInv, BeliefInv, ExtractionInv, RunnersOK
<1>3. seen'[r].dup = dup /\ seen'[r].hold = Held /\ seen'[r].retired = retired
  <2> HIDE DEF dup, Held, retired, mark
  <2> QED
    BY <1>1, <1>2
<1>4. ASSUME NEW c \in Claim
      PROVE  /\ dup[c] # 0 => Upheld(c, dup[c])
             /\ dup[c] = 0 => \A i \in DOMAIN part[c] : part[c][i].status # "ACTIVE"
             /\ c \in Held => retired[c] \in DOMAIN part[c] /\ IsHold(part[c][retired[c]])
             /\ retired[c] = 0 => \A i \in DOMAIN part[c] : ~IsJudged(part[c][i])
  <2>1. part[c] \in Seq(Particle)
    BY DEF SoloInv, BeliefInv, ExtractionInv, PartOK
  <2>2. DOMAIN part[c] \subseteq Nat \ {0}
    BY <2>1
  <2> DEFINE A == Having(c, Active)
             H == Having(c, IsHold)
             J == Having(c, IsJudged)
  <2>3. A \in SUBSET (Nat \ {0}) /\ H \in SUBSET (Nat \ {0}) /\ J \in SUBSET (Nat \ {0})
    BY <2>2
  <2>4. dup[c] = First(A) /\ retired[c] = First(IF c \in Held THEN H ELSE J)
    OBVIOUS
  <2>5. c \in Held <=> H # {}
    OBVIOUS
  <2>6. /\ First(A) = 0 <=> A = {}
        /\ A # {} => First(A) \in A
        /\ First(H) = 0 <=> H = {}
        /\ H # {} => First(H) \in H
        /\ First(J) = 0 <=> J = {}
        /\ J # {} => First(J) \in J
    <3> HIDE DEF A, H, J
    <3> QED
      BY <2>3, FirstIn
  <2>7. /\ \A i : i \in A <=> i \in DOMAIN part[c] /\ part[c][i].status = "ACTIVE"
        /\ \A i : i \in H <=> i \in DOMAIN part[c] /\ IsHold(part[c][i])
        /\ \A i : i \in J <=> i \in DOMAIN part[c] /\ IsJudged(part[c][i])
    OBVIOUS
  <2> HIDE DEF A, H, J, dup, retired, Held, Having, Active
  <2>8. retired[c] = IF c \in Held THEN First(H) ELSE First(J)
    BY <2>4
  <2> QED
    BY <2>4, <2>5, <2>6, <2>7, <2>8 DEF Upheld
<1> HIDE DEF dup, retired, Held, mark
<1> QED
    BY <1>3, <1>4 DEF SeenHolds, Upheld

\* An operator's retraction leaves the indexes good: what they name is judged now,
\* and what they do not know cannot be retracted.
LEMMA RetractHolds ==
    ASSUME SoloInv, NEW c \in Claim, NEW i \in DOMAIN part[c], Retract(c, i),
           NEW r \in Runner
    PROVE  (CarriedHolds(r) => CarriedHolds(r)') /\ (SeenHolds(r) => SeenHolds(r)')
<1>0. BeliefInv /\ carried' = carried /\ seen' = seen
    BY DEF SoloInv, Retract, local
<1>1. ASSUME NEW d \in Claim, NEW j, Upheld(d, j) PROVE Upheld(d, j)'
    BY <1>0, <1>1, RetractOne DEF Upheld, IsJudged
<1>2. ASSUME NEW d \in Claim, NEW j \in DOMAIN part'[d]
      PROVE  /\ j \in DOMAIN part[d]
             /\ IsHold(part[d][j]) => IsHold(part'[d][j])
             /\ part'[d][j].status = "ACTIVE" => part[d][j].status = "ACTIVE"
             /\ IsJudged(part'[d][j]) => IsJudged(part[d][j]) \/ part[d][j].status = "ACTIVE"
    BY <1>0, <1>2, RetractOne DEF IsHold
<1>3. \A d \in Claim : DOMAIN part'[d] = DOMAIN part[d]
    BY <1>0, RetractOne
<1>4. CarriedHolds(r) => CarriedHolds(r)'
    BY <1>0, <1>1 DEF CarriedHolds
<1>5. ASSUME SeenHolds(r), NEW d \in Claim
      PROVE  /\ seen'[r].dup[d] # 0 => Upheld(d, seen[r].dup[d])'
             /\ seen'[r].dup[d] = 0 => \A j \in DOMAIN part'[d] : part'[d][j].status # "ACTIVE"
             /\ d \in seen'[r].hold =>
                   seen'[r].retired[d] \in DOMAIN part'[d] /\ IsHold(part'[d][seen'[r].retired[d]])
             /\ seen'[r].dup[d] = 0 /\ seen'[r].retired[d] = 0 =>
                   \A j \in DOMAIN part'[d] : ~IsJudged(part'[d][j])
  <2>1. /\ seen[r].dup[d] # 0 => Upheld(d, seen[r].dup[d])
        /\ seen[r].dup[d] = 0 => \A j \in DOMAIN part[d] : part[d][j].status # "ACTIVE"
        /\ d \in seen[r].hold =>
              seen[r].retired[d] \in DOMAIN part[d] /\ IsHold(part[d][seen[r].retired[d]])
        /\ seen[r].dup[d] = 0 /\ seen[r].retired[d] = 0 =>
              \A j \in DOMAIN part[d] : ~IsJudged(part[d][j])
    BY <1>5 DEF SeenHolds
  <2>2. seen'[r].dup[d] # 0 => Upheld(d, seen[r].dup[d])'
    BY <1>0, <1>1, <2>1
  <2> QED
    BY <1>0, <1>2, <1>3, <2>1, <2>2
<1>6. SeenHolds(r) => SeenHolds(r)'
    BY <1>0, <1>5 DEF SeenHolds
<1> QED
    BY <1>4, <1>6

\* With one runner the indexes stay good from the gather to the write: nothing but
\* an operator's retraction comes between.
LEMMA GatherStep == Alone /\ SoloInv /\ [Next]_vars => GatherHolds'
<1> SUFFICES ASSUME Alone, SoloInv, [Next]_vars PROVE GatherHolds'
    OBVIOUS
<1>0. /\ GatherHolds /\ BeliefInv /\ RunnersOK
      /\ pc \in [Runner -> Place] /\ carried \in [Runner -> SUBSET (Claim \X Nat)]
    BY DEF SoloInv, BeliefInv, ExtractionInv, RunnersOK
<1>q. ASSUME NEW r \in Runner, pc'[r] \notin {"gather", "apply"} PROVE GatherHolds'
    BY <1>q DEF Alone, GatherHolds
<1>n. ASSUME NEW r \in Runner, NEW rest, NextItem(r, rest) PROVE GatherHolds'
    BY <1>0, <1>n, <1>q DEF NextItem
<1>k. ASSUME UNCHANGED <<pc, carried, seen>>, part' = part PROVE GatherHolds'
    BY <1>0, <1>k DEF GatherHolds, CarriedHolds, SeenHolds, Upheld
<1>1. ASSUME NEW s \in Snap, Deposit(s) \/ LoseBlob(s) \/ Age(s) \/ Expire(s) PROVE GatherHolds'
    BY <1>1, <1>k DEF Deposit, LoseBlob, Age, Expire, local
<1>2. ASSUME NEW c \in Claim, NEW i \in DOMAIN part[c], Retract(c, i) PROVE GatherHolds'
  <2>1. pc' = pc
    BY <1>2 DEF Retract, local
  <2> QED
    BY <1>0, <1>2, <2>1, RetractHolds DEF GatherHolds
<1>3. ASSUME NEW r \in Runner, ResetStale(r) \/ PlanCollapse(r) \/ MarkCollapsed(r) \/ ClaimSnapshot(r)
      PROVE  GatherHolds'
  <2>1. pc' = [pc EXCEPT ![r] = pc'[r]] /\ pc'[r] \in {"plan", "list", "mark", "read"}
    BY <1>0, <1>3 DEF ResetStale, PlanCollapse, MarkCollapsed, ClaimSnapshot
  <2> QED
    BY <1>q, <2>1
<1>4. ASSUME NEW r \in Runner, ListPending(r) \/ Crash(r) \/ BlobMissing(r) \/ TransientError(r)
                               \/ Interrupted(r) \/ Apply(r) \/ ProcessAbsence(r)
      PROVE  GatherHolds'
    BY <1>4, <1>n DEF ListPending, Crash, BlobMissing, TransientError, Interrupted, Apply, ProcessAbsence
<1>5. ASSUME NEW r \in Runner, NEW s \in Snap,
             TakeResponse(r, s) \/ TakeAbsence(r, s) \/ SkipListed(r, s) \/ NameSnapshot(r, s)
      PROVE  GatherHolds'
  <2>1. CASE SkipListed(r, s)
    BY <1>n, <2>1 DEF SkipListed
  <2>2. CASE TakeResponse(r, s) \/ TakeAbsence(r, s) \/ NameSnapshot(r, s)
    <3>1. pc'[r] \in {"claim", "absence"}
      BY <1>0, <2>2 DEF TakeResponse, TakeAbsence, TakeUp, NameSnapshot
    <3> QED
      BY <1>q, <3>1
  <2> QED
    BY <1>5, <2>1, <2>2
<1>6. ASSUME NEW r \in Runner, Read(r) PROVE GatherHolds'
  <2>1. /\ pc'[r] = "gather" /\ carried'[r] = Carries(job[r]) /\ part' = part
    BY <1>0, <1>6 DEF Read
  <2>2. \A c \in Claim : \A i \in Nat : <<c, i>> \in Carries(job[r]) => Upheld(c, i)
    BY DEF Carries, Upheld
  <2>3. CarriedHolds(r)'
    BY <2>1, <2>2 DEF CarriedHolds, Upheld
  <2>4. \A q \in Runner : q = r
    BY DEF Alone
  <2> QED
    BY <2>1, <2>3, <2>4 DEF GatherHolds
<1>7. ASSUME NEW r \in Runner, Gather(r) PROVE GatherHolds'
  <2>1. part' = part /\ carried' = carried /\ pc[r] = "gather"
    BY <1>7 DEF Gather
  <2>2. CarriedHolds(r)'
    BY <1>0, <2>1 DEF GatherHolds, CarriedHolds, Upheld
  <2>3. SeenHolds(r)'
    BY <1>7, <2>1, GatherSees
  <2>4. \A q \in Runner : q = r
    BY DEF Alone
  <2> QED
    BY <2>2, <2>3, <2>4 DEF GatherHolds
<1>8. CASE UNCHANGED vars
    BY <1>8, <1>k DEF vars, local
<1> QED
    BY <1>1, <1>2, <1>3, <1>4, <1>5, <1>6, <1>7, <1>8 DEF Next, Step

--------------------------------------------------------------------------------
(* No claim a current record states is lost *)

\* A particle that nothing attests once snapshot s was processed (_unattested).
Unattested(q, s) ==
    /\ EntryOf[s] \in Mutable
    /\ \A x \in q.refs : /\ EntryOf[x] = EntryOf[s] => x # CurrentGeneration(s)
                         /\ EntryOf[x] # EntryOf[s] => ~Attests(x)

\* A stored particle through a pass: it keeps its refs, gains the snapshot's if it was
\* met, and keeps its status unless it was believed, not spared, and nothing attests it.
LEMMA PassOld ==
    ASSUME BeliefInv, NEW r \in Runner, Apply(r) \/ ProcessAbsence(r),
           NEW c \in Claim, NEW i \in DOMAIN part[c]
    PROVE  /\ i \in DOMAIN part'[c] /\ part[c][i].refs \subseteq part'[c][i].refs
           /\ Apply(r) /\ <<c, i>> \in Observed(r) => job[r] \in part'[c][i].refs
           /\ \/ /\ part'[c][i].status = part[c][i].status
                 /\ part'[c][i].reason = part[c][i].reason
              \/ /\ part[c][i].status = "ACTIVE"
                 /\ part'[c][i].status = "PROVENANCE_STALE"
                 /\ part'[c][i].reason = "RETRACTED_DEPENDENCY"
                 /\ Apply(r) => <<c, i>> \notin Spared(r)
                 /\ Unattested(part'[c][i], job[r])
<1>1. PICK parts \in [Claim -> Seq(Particle)], spared \in SUBSET (Claim \X Nat) :
              /\ part' = Cascade(parts, job[r], spared)
              /\ \/ Apply(r) /\ parts = Written(r) /\ spared = Spared(r)
                 \/ ProcessAbsence(r) /\ parts = part /\ spared = {}
    BY PassOver
<1> DEFINE p == part[c][i]
           w == parts[c][i]
           q == part'[c][i]
<1>0. job[r] \in Snap /\ ~(Apply(r) /\ ProcessAbsence(r))
    BY Finishing DEF Apply, ProcessAbsence
<1>2. /\ i \in DOMAIN parts[c] /\ p.refs \subseteq w.refs
      /\ w.status = p.status /\ w.reason = p.reason
      /\ Apply(r) /\ <<c, i>> \in Observed(r) => job[r] \in w.refs
  <2>1. CASE ProcessAbsence(r) /\ parts = part
    BY <1>0, <2>1
  <2>2. CASE Apply(r) /\ parts = Written(r)
    <3>1. /\ p \in Particle /\ i \in DOMAIN parts[c]
          /\ w = IF <<c, i>> \in Observed(r) THEN AppendRef(p, job[r]) ELSE p
      BY <1>0, <2>2, WrittenOld
    <3>2. CASE <<c, i>> \in Observed(r)
      <4>1. w = AppendRef(p, job[r])
        BY <3>1, <3>2
      <4>2. w.status = p.status /\ w.reason = p.reason /\ w.refs = p.refs \cup {job[r]}
        <5>1. p \in Particle
          BY <3>1
        <5> HIDE DEF p, w
        <5> QED
          BY <1>0, <4>1, <5>1, AppendRefKeepsStatus
      <4> QED
        BY <3>1, <4>2
    <3>3. CASE <<c, i>> \notin Observed(r)
      BY <3>1, <3>3
    <3> QED
      BY <3>2, <3>3
  <2> QED
    BY <1>1, <2>1, <2>2
<1>3. i \in DOMAIN part'[c]
    BY <1>1, <1>2, CascadeOne
<1>4. /\ q.refs = w.refs
      /\ \/ q = w
         \/ /\ Retirable(w, job[r], <<c, i>>, spared)
            /\ q.status = "PROVENANCE_STALE" /\ q.reason = "RETRACTED_DEPENDENCY"
    BY <1>1, <1>3, PassOne
<1>5. ASSUME Retirable(w, job[r], <<c, i>>, spared)
      PROVE  w.status = "ACTIVE" /\ <<c, i>> \notin spared /\ Unattested(q, job[r])
    BY <1>4, <1>5 DEF Retirable, Attested, Unattested
<1> HIDE DEF p, w, q
<1>6. CASE q = w
    BY <1>2, <1>3, <1>6 DEF p, q
<1>7. CASE /\ Retirable(w, job[r], <<c, i>>, spared)
           /\ q.status = "PROVENANCE_STALE" /\ q.reason = "RETRACTED_DEPENDENCY"
  <2>1. Apply(r) => <<c, i>> \notin Spared(r)
    BY <1>0, <1>1, <1>5, <1>7
  <2> QED
    BY <1>2, <1>3, <1>4, <1>5, <1>7, <2>1 DEF p, q
<1> QED
    BY <1>4, <1>6, <1>7

\* A belief that a speaking record states is not retired, whichever entry the pass is
\* over (current_generation, _unattested).
LEMMA SpokenStays ==
    ASSUME BeliefInv, NEW r \in Runner, Apply(r) \/ ProcessAbsence(r), NEW t, Speaks(t),
           NEW c \in Claim, NEW i \in DOMAIN part[c],
           part[c][i].status = "ACTIVE", t \in part[c][i].refs
    PROVE  i \in DOMAIN part'[c] /\ part'[c][i].status = "ACTIVE" /\ t \in part'[c][i].refs
<1> DEFINE s == job[r]
<1>0. s \in Deposited /\ s \in Snap
    BY Finishing
<1>1. i \in DOMAIN part'[c] /\ t \in part'[c][i].refs
    BY PassOld
<1> SUFFICES ASSUME part'[c][i].status # "ACTIVE" PROVE FALSE
    BY <1>1
<1>2. /\ EntryOf[s] \in Mutable
      /\ EntryOf[t] = EntryOf[s] => t # CurrentGeneration(s)
      /\ EntryOf[t] # EntryOf[s] => ~Attests(t)
  <2>1. Unattested(part'[c][i], job[r])
    BY PassOld
  <2> QED
    BY <1>1, <2>1 DEF Unattested
<1>3. t \in Deposited \ Absent /\ st[t] = "COMPLETE" /\ (EntryOf[t] \in Mutable => Newest(t))
    BY DEF Speaks
<1>4. CASE EntryOf[t] = EntryOf[s]
  <2>1. CurrentGeneration(s) = t
    BY <1>0, <1>2, <1>3, <1>4, CurrentIsNewest
  <2> QED
    BY <1>2, <1>4, <2>1
<1>5. CASE EntryOf[t] # EntryOf[s]
  <2>1. EntryOf[t] \in Mutable => Currency(EntryOf[t]) = t
    BY <1>3, NewestIsCurrent
  <2> QED
    BY <1>2, <1>3, <1>5, <2>1 DEF Attests
<1> QED
    BY <1>4, <1>5

\* A pass over another record keeps what a speaking record states.
LEMMA KeptOther ==
    ASSUME BeliefInv, NEW r \in Runner, Apply(r) \/ ProcessAbsence(r),
           NEW t, Speaks(t), NEW c \in Claim, Keeps(c, t)
    PROVE  Keeps(c, t)'
<1>1. PICK i \in DOMAIN part[c] :
            \/ part[c][i].status = "ACTIVE" /\ t \in part[c][i].refs
            \/ IsHold(part[c][i]) \/ IsJudged(part[c][i])
    BY DEF Keeps
<1>2. CASE part[c][i].status = "ACTIVE" /\ t \in part[c][i].refs
  <2>1. i \in DOMAIN part'[c] /\ part'[c][i].status = "ACTIVE" /\ t \in part'[c][i].refs
    BY <1>2, SpokenStays
  <2> QED
    BY <2>1 DEF Keeps
<1>3. CASE IsHold(part[c][i]) \/ IsJudged(part[c][i])
  <2>1. part[c][i].status # "ACTIVE"
    BY <1>3 DEF IsHold, IsJudged
  <2>2. /\ i \in DOMAIN part'[c] /\ part'[c][i].status = part[c][i].status
        /\ part'[c][i].reason = part[c][i].reason
    BY <2>1, PassOld
  <2>3. IsHold(part'[c][i]) \/ IsJudged(part'[c][i])
    BY <1>3, <2>2 DEF IsHold, IsJudged
  <2> QED
    BY <2>2, <2>3 DEF Keeps
<1> QED
    BY <1>1, <1>2, <1>3

\* What the pass meets is kept on the word of its snapshot.
LEMMA KeptMet ==
    ASSUME BeliefInv, NEW r \in Runner, Apply(r), NEW s, s = job[r],
           NEW c \in Claim, NEW i, Upheld(c, i), <<c, i>> \in Spared(r)
    PROVE  Keeps(c, s)'
<1>1. i \in DOMAIN part[c] /\ <<c, i>> \in Observed(r)
    BY SparedMet DEF Upheld
<1>2. /\ i \in DOMAIN part'[c] /\ s \in part'[c][i].refs
      /\ part'[c][i].status = part[c][i].status /\ part'[c][i].reason = part[c][i].reason
    BY <1>1, PassOld
<1>3. part'[c][i].status = "ACTIVE" \/ IsJudged(part'[c][i])
    BY <1>2 DEF Upheld, IsJudged
<1> QED
    BY <1>2, <1>3 DEF Keeps

\* A pass over the newest record keeps every claim it states: it is carried,
\* suppressed into a belief, absorbed by a hold, held or believed anew.
LEMMA KeptOwn ==
    ASSUME SoloInv, NEW r \in Runner, Apply(r), NEW s, s = job[r],
           EntryOf[s] \in Mutable => Newest(s), NEW c \in Says[s]
    PROVE  Keeps(c, s)'
<1>0. BeliefInv /\ GatherHolds /\ pc[r] = "apply" /\ s \in Deposited /\ s \in Snap
    BY Finishing DEF SoloInv, Apply
<1>1. CarriedHolds(r) /\ SeenHolds(r) /\ c \in Claim
    BY <1>0, ExtractionAssumption DEF GatherHolds
<1>2. CASE \E x \in carried[r] : x[1] = c
  <2>1. PICK i \in Nat : <<c, i>> \in carried[r]
    BY <1>0, <1>2 DEF BeliefInv, ExtractionInv, RunnersOK
  <2> QED
    BY <1>0, <1>1, <2>1, KeptMet DEF CarriedHolds, Spared
<1>3. CASE c \in Candidates(r) /\ seen[r].dup[c] # 0
  <2>1. <<c, seen[r].dup[c]>> \in Spared(r)
    BY <1>3 DEF Spared, Suppressed
  <2> QED
    BY <1>0, <1>1, <1>3, <2>1, KeptMet DEF SeenHolds
<1>4. CASE c \in Absorbed(r)
  <2> DEFINE i == seen[r].retired[c]
  <2>1. i \in DOMAIN part[c] /\ IsHold(part[c][i])
    BY <1>1, <1>4 DEF SeenHolds, Absorbed
  <2>2. part[c][i].status # "ACTIVE"
    BY <2>1 DEF IsHold
  <2>3. /\ i \in DOMAIN part'[c] /\ part'[c][i].status = part[c][i].status
        /\ part'[c][i].reason = part[c][i].reason
    BY <1>0, <1>1, <2>1, <2>2, PassOld
  <2>4. IsHold(part'[c][i])
    BY <2>1, <2>3 DEF IsHold
  <2> QED
    BY <2>3, <2>4 DEF Keeps
<1>5. CASE c \in Fresh(r) \cup Quarantined(r)
  <2>1. PICK i \in DOMAIN Written(r)[c] : Written(r)[c][i] = Minted(r, c)
    BY <1>0, <1>1, <1>5, WrittenNew
  <2>2. PICK parts \in [Claim -> Seq(Particle)], spared \in SUBSET (Claim \X Nat) :
              /\ part' = Cascade(parts, job[r], spared)
              /\ parts = Written(r)
    <3>1. ~ProcessAbsence(r)
      BY <1>0 DEF ProcessAbsence
    <3> QED
      BY <1>0, <3>1, PassOver
  <2>3. ~Retirable(Minted(r, c), s, <<c, i>>, spared)
    <3> SUFFICES ASSUME EntryOf[s] \in Mutable,
                        \E x \in Minted(r, c).edges : x # CurrentGeneration(s)
                 PROVE  FALSE
      BY DEF Retirable
    <3>1. CurrentGeneration(s) = s
      BY <1>0, CurrentIsNewest
    <3> QED
      BY <3>1 DEF Minted
  <2>4. i \in DOMAIN part'[c] /\ part'[c][i] = Minted(r, c)
    BY <1>1, <2>1, <2>2, <2>3, CascadeOne
  <2>5. Minted(r, c).refs = {s} /\ (Minted(r, c).status = "ACTIVE" \/ IsHold(Minted(r, c)))
    BY DEF Minted, IsHold
  <2> QED
    BY <2>4, <2>5 DEF Keeps
<1>6. c \in Candidates(r) \/ \E x \in carried[r] : x[1] = c
    BY DEF Candidates
<1>7. c \in Candidates(r) /\ seen[r].dup[c] = 0 => c \in Fresh(r) \cup Quarantined(r) \/ c \in Absorbed(r)
    BY DEF Fresh, Quarantined, Absorbed, Reasserted, Suppressed
<1> QED
    BY <1>2, <1>3, <1>4, <1>5, <1>6, <1>7

\* A record becomes COMPLETE without being collapsed only at the end of its own pass.
LEMMA Completing ==
    ASSUME BeliefInv, [Next]_vars, NEW t \in Snap, st'[t] = "COMPLETE", by'[t] = NoSnap
    PROVE  \/ st[t] = "COMPLETE" /\ by[t] = NoSnap
           \/ \E r \in Runner : (Apply(r) \/ ProcessAbsence(r)) /\ t = job[r]
<1> DEFINE Done == st[t] = "COMPLETE" /\ by[t] = NoSnap
<1>0. /\ CorpusOK /\ st \in [Snap -> ExtractionStatus] /\ by \in [Snap -> Snap \cup {NoSnap}]
      /\ \A r \in Runner : pc[r] \in {"claim", "read", "gather", "apply", "absence"} => job[r] \in Snap
    BY DEF BeliefInv, ExtractionInv, CorpusOK, RunnersOK, JobInHand
<1>c. ASSUME st' = st, by' = by PROVE Done
    BY <1>c
<1>s. ASSUME NEW s \in Snap, NEW v \in {"PENDING", "FAILED"}, SetStatus(s, v) PROVE Done
    BY <1>0, <1>s DEF SetStatus
<1>1. ASSUME NEW s \in Snap, Deposit(s) PROVE Done
    BY <1>0, <1>1 DEF Deposit
<1>2. ASSUME NEW s \in Snap, LoseBlob(s) \/ Age(s) \/ Expire(s) PROVE Done
    BY <1>2, <1>c DEF LoseBlob, Age, Expire, corpus
<1>3. ASSUME NEW c \in Claim, NEW i \in DOMAIN part[c], Retract(c, i) PROVE Done
    BY <1>3, <1>c DEF Retract, corpus
<1>4. ASSUME NEW r \in Runner, ResetStale(r) PROVE Done
    BY <1>0, <1>4 DEF ResetStale
<1>5. ASSUME NEW r \in Runner, MarkCollapsed(r) PROVE Done
  <2> DEFINE With(s) == CHOOSE u \in Snap : <<s, u>> \in plan[r]
             Marked(s) == /\ \E u \in Snap : <<s, u>> \in plan[r]
                          /\ st[s] \in {"PENDING", "FAILED"} /\ by[s] = NoSnap
  <2>1. /\ st' = [s \in Snap |-> IF Marked(s) THEN "COMPLETE" ELSE st[s]]
        /\ by' = [s \in Snap |-> IF Marked(s) THEN With(s) ELSE by[s]]
    BY <1>5 DEF MarkCollapsed
  <2>2. Marked(t) => With(t) \in Snap
    OBVIOUS
  <2> HIDE DEF Marked, With
  <2> QED
    BY <2>1, <2>2, ExtractionAssumption
<1>6. ASSUME NEW r \in Runner, PlanCollapse(r) \/ ListPending(r) \/ Read(r) \/ Gather(r) \/ Crash(r)
      PROVE  Done
    BY <1>6, <1>c DEF PlanCollapse, ListPending, Read, Gather, Crash, corpus
<1>7. ASSUME NEW r \in Runner, NEW s \in Snap,
             TakeResponse(r, s) \/ TakeAbsence(r, s) \/ SkipListed(r, s) \/ NameSnapshot(r, s)
      PROVE  Done
    BY <1>7, <1>c DEF TakeResponse, TakeAbsence, TakeUp, SkipListed, NameSnapshot, corpus
<1>8. ASSUME NEW r \in Runner, ClaimSnapshot(r) PROVE Done
    BY <1>0, <1>8 DEF ClaimSnapshot
<1>9. ASSUME NEW r \in Runner, BlobMissing(r) \/ TransientError(r) PROVE Done
    BY <1>0, <1>9, <1>s DEF BlobMissing, TransientError
<1>10. ASSUME NEW r \in Runner, Interrupted(r) PROVE Done
    BY <1>0, <1>10, <1>s, <1>c DEF Interrupted, corpus
<1>11. ASSUME NEW r \in Runner, Apply(r) \/ ProcessAbsence(r), t # job[r] PROVE Done
    BY <1>0, <1>11 DEF Apply, ProcessAbsence, SetStatus
<1>12. CASE UNCHANGED vars
    BY <1>12, <1>c DEF vars, corpus
<1> HIDE DEF Done
<1>13. CASE Next
    BY <1>13, <1>1, <1>2, <1>3, <1>4, <1>5, <1>6, <1>7, <1>8, <1>9, <1>10, <1>11
       DEF Next, Step, Done
<1> QED
    BY <1>12, <1>13 DEF Done

\* With one runner every claim of a speaking record is kept.
LEMMA KeptStep == SoloInv /\ [Next]_vars => AllKept'
<1> SUFFICES ASSUME SoloInv, [Next]_vars, NEW t \in Snap, Speaks(t)', NEW c \in Says[t]
             PROVE  Keeps(c, t)'
    BY DEF AllKept
<1>0. BeliefInv /\ AllKept /\ c \in Claim
    BY ExtractionAssumption DEF SoloInv
<1>1. /\ t \notin Absent /\ st'[t] = "COMPLETE" /\ by'[t] = NoSnap
      /\ EntryOf[t] \in Mutable => \A u \in Deposited : EntryOf[u] = EntryOf[t] => Captured[u] <= Captured[t]
    BY <1>0, DepositsStay DEF Speaks, Newest
<1>2. CASE st[t] = "COMPLETE" /\ by[t] = NoSnap
  <2>1. Speaks(t)
    BY <1>1, <1>2 DEF Speaks, Newest, Deposited
  <2>2. Keeps(c, t)
    BY <1>0, <2>1 DEF AllKept
  <2>3. CASE part' = part
    BY <2>2, <2>3 DEF Keeps
  <2>4. ASSUME NEW d \in Claim, NEW j \in DOMAIN part[d], Retract(d, j) PROVE Keeps(c, t)'
    <3>1. PICK i \in DOMAIN part[c] :
              \/ part[c][i].status = "ACTIVE" /\ t \in part[c][i].refs
              \/ IsHold(part[c][i]) \/ IsJudged(part[c][i])
      BY <2>2 DEF Keeps
    <3>2. /\ i \in DOMAIN part'[c] /\ part'[c][i].refs = part[c][i].refs
          /\ part'[c][i] = part[c][i] \/ IsJudged(part'[c][i])
      BY <1>0, <2>4, RetractOne DEF IsJudged
    <3> QED
      BY <3>1, <3>2 DEF Keeps
  <2>5. ASSUME NEW r \in Runner, Apply(r) \/ ProcessAbsence(r) PROVE Keeps(c, t)'
    BY <1>0, <2>1, <2>2, <2>5, KeptOther
  <2> QED
    BY <1>0, <2>3, <2>4, <2>5, Settling, Depositing
<1>3. ASSUME NEW r \in Runner, Apply(r) \/ ProcessAbsence(r), t = job[r] PROVE Keeps(c, t)'
  <2>1. Apply(r)
    BY <1>0, <1>1, <1>3 DEF ProcessAbsence, BeliefInv, Known
  <2>2. t \in Deposited
    BY <1>0, <1>3, Finishing
  <2>3. EntryOf[t] \in Mutable => Newest(t)
    BY <1>1, <2>2 DEF Newest
  <2> QED
    BY <1>3, <2>1, <2>3, KeptOwn
<1> QED
    BY <1>0, <1>1, <1>2, <1>3, Completing

\* At the start there is nothing to keep.
LEMMA InitSolo == Init => SoloInv
<1> SUFFICES ASSUME Init PROVE SoloInv
    OBVIOUS
<1>1. \A c \in Claim : DOMAIN part[c] = {}
    BY DEF Init
<1>2. CollapsedIsComplete /\ OwnClaim /\ GatherHolds
    BY DEF Init, CollapsedIsComplete, OwnClaim, GatherHolds
<1>3. AllKept
    BY DEF Init, AllKept, Speaks
<1> QED
    BY <1>1, <1>2, <1>3, InitBelief DEF SoloInv, Plain

\* With one runner at a time the indexes a pass uses are still good when it writes,
\* and every claim of a speaking record is kept.
THEOREM SoloInvariance == Alone => (Spec => []SoloInv)
<1> SUFFICES ASSUME Alone PROVE Spec => []SoloInv
    OBVIOUS
<1>1. SoloInv /\ [Next]_vars => SoloInv'
  <2>1. BeliefInv /\ [Next]_vars => BeliefInv'
    BY CorpusStep, RunnersStep, PartStep, RefusedStep, LatestsStep, KnownStep,
       PartsSourcedStep, StatedStep DEF BeliefInv, ExtractionInv
  <2> QED
    BY <2>1, PlainStep, ClaimsStep, GatherStep, KeptStep DEF SoloInv
<1> QED
    BY <1>1, InitSolo, PTL DEF Spec

\* With one runner at a time a collapsed snapshot is COMPLETE and owes no work,
\* whatever is interrupted, refused or named by an operator (SnapshotRow).
THEOREM CollapsedOwesNothing == Alone => (Spec => []CollapsedIsComplete)
<1> SUFFICES ASSUME Alone PROVE Spec => []CollapsedIsComplete
    OBVIOUS
<1>1. SoloInv => CollapsedIsComplete
    BY DEF SoloInv
<1> QED
    BY <1>1, SoloInvariance, PTL

\* With one runner at a time, when all deposited work is done, a claim that the
\* current generation of some entry states is believed, held for review or was
\* judged: suppression and retirement never lose it (route_particle,
\* append_provenance_ref, cascade_superseded_generation).
THEOREM ClaimsAreKept == Alone => (Spec => []NoClaimLost)
<1> SUFFICES ASSUME Alone PROVE Spec => []NoClaimLost
    OBVIOUS
<1>1. SoloInv => NoClaimLost
  <2> SUFFICES ASSUME SoloInv, Quiet, NEW s \in Snap, Current(s), NEW c \in Says[s]
               PROVE  \E i \in DOMAIN part[c] :
                         part[c][i].status = "ACTIVE" \/ IsHold(part[c][i]) \/ IsJudged(part[c][i])
    BY DEF NoClaimLost
  <2>0. BeliefInv /\ AllKept
    BY DEF SoloInv
  <2>1. s \in Deposited /\ st[s] = "COMPLETE" /\ by[s] = NoSnap /\ Attests(s)
    BY DEF Current
  <2>2. Speaks(s)
    <3>1. CASE EntryOf[s] \notin Mutable
      BY <2>1, <3>1, ExtractionAssumption DEF Speaks
    <3>2. CASE EntryOf[s] \in Mutable
      <4>1. PICK w \in Deposited : EntryOf[w] = EntryOf[s] /\ Newest(w)
        BY <2>0, <2>1, NewestOf DEF BeliefInv
      <4>2. Currency(EntryOf[s]) = w
        BY <2>0, <4>1, NewestIsCurrent DEF Quiet
      <4>3. w \in Snap /\ w # NoSnap
        BY <4>1, ExtractionAssumption DEF Deposited
      <4>4. w = s /\ s \notin Absent
        BY <2>1, <3>2, <4>2, <4>3 DEF Attests
      <4> QED
        BY <2>1, <4>1, <4>4 DEF Speaks
    <3> QED
      BY <3>1, <3>2
  <2>3. Keeps(c, s)
    BY <2>0, <2>2 DEF AllKept
  <2> QED
    BY <2>3 DEF Keeps
<1> QED
    BY <1>1, SoloInvariance, PTL

\* With one runner at a time a value an operator retracted comes back only as a hold:
\* the write phase mints no belief of it (build_retired_value_index,
\* _hold_retired_reassertion).
THEOREM JudgedStayOut == Alone => (Spec => JudgedStaysOut)
<1> SUFFICES ASSUME Alone PROVE Spec => JudgedStaysOut
    OBVIOUS
<1> DEFINE Out == \A c \in Claim :
          (/\ \E i \in DOMAIN part[c] : IsJudged(part[c][i])
           /\ \A i \in DOMAIN part[c] : part[c][i].status # "ACTIVE")
          => \A i \in DOMAIN part'[c] : part'[c][i].status # "ACTIVE"
<1>1. SoloInv /\ [Next]_vars => [Out]_vars
  <2> SUFFICES ASSUME SoloInv, [Next]_vars, NEW c \in Claim,
                      NEW k \in DOMAIN part[c], IsJudged(part[c][k]),
                      \A i \in DOMAIN part[c] : part[c][i].status # "ACTIVE",
                      NEW i \in DOMAIN part'[c], part'[c][i].status = "ACTIVE"
               PROVE  FALSE
    OBVIOUS
  <2>0. BeliefInv /\ GatherHolds
    BY DEF SoloInv
  <2>1. CASE part' = part
    BY <2>1
  <2>2. ASSUME NEW d \in Claim, NEW j \in DOMAIN part[d], Retract(d, j) PROVE FALSE
    BY <2>0, <2>2, RetractOne
  <2>3. ASSUME NEW r \in Runner, Apply(r) \/ ProcessAbsence(r) PROVE FALSE
    <3>1. i \notin DOMAIN part[c]
      <4> SUFFICES ASSUME i \in DOMAIN part[c] PROVE FALSE
        OBVIOUS
      <4>1. part[c][i].status # "ACTIVE"
        OBVIOUS
      <4>2. part'[c][i].status = part[c][i].status
        BY <2>0, <2>3, <4>1, PassOld
      <4> QED
        BY <4>1, <4>2
    <3>2. PICK parts \in [Claim -> Seq(Particle)], spared \in SUBSET (Claim \X Nat) :
              /\ part' = Cascade(parts, job[r], spared)
              /\ \/ Apply(r) /\ parts = Written(r) /\ spared = Spared(r)
                 \/ ProcessAbsence(r) /\ parts = part /\ spared = {}
      BY <2>0, <2>3, PassOver
    <3>3. i \in DOMAIN parts[c] /\ part'[c][i] = parts[c][i]
      BY <3>2, PassActive
    <3>4. Apply(r) /\ parts = Written(r)
      BY <3>1, <3>2, <3>3
    <3>5. c \in Fresh(r) \cup Quarantined(r) /\ part'[c][i] = Minted(r, c)
      BY <2>0, <2>3, <3>1, <3>3, <3>4, Finishing, WrittenNew
    <3>6. c \notin Quarantined(r)
      BY <3>5 DEF Minted
    <3>7. seen[r].dup[c] = 0 /\ seen[r].retired[c] = 0
      BY <3>5, <3>6 DEF Fresh, Suppressed, Reasserted
    <3>8. SeenHolds(r)
      BY <2>0, <3>4 DEF GatherHolds, Apply
    <3> QED
      BY <3>7, <3>8 DEF SeenHolds
  <2> QED
    BY <2>0, <2>1, <2>2, <2>3, Settling, Depositing
<1> QED
    BY <1>1, SoloInvariance, PTL DEF Spec, JudgedStaysOut

\* The currency of an entry is one of its processed records.
LEMMA CurrencyOf ==
    ASSUME BeliefInv, NEW e
    PROVE  \/ Processed(e) = {} /\ Currency(e) = NoSnap
           \/ /\ Currency(e) \in Processed(e)
              /\ \A t \in Processed(e) : Captured[t] <= Captured[Currency(e)]
<1> DEFINE S == Processed(e)
<1>1. CASE S = {}
    BY <1>1 DEF Currency
<1>2. CASE S # {}
  <2>1. S \in SUBSET Deposited /\ S \in SUBSET Snap
    BY DEF Processed, Deposited
  <2>2. PICK m \in S : \A t \in S : Captured[t] <= Captured[m]
    BY <1>2, <2>1 DEF BeliefInv, Latests
  <2>3. Currency(e) = Latest(S)
    BY <1>2 DEF Currency
  <2> HIDE DEF S
  <2>4. Latest(S) = m
    BY <2>1, <2>2, LatestIs
  <2> QED
    BY <2>2, <2>3, <2>4 DEF S
<1> QED
    BY <1>1, <1>2

\* After a pass over an uncollapsed snapshot the entry's currency is the current
\* generation the cascade took: the record it will be, before its row says so
\* (current_generation, get_entry_currency).
LEMMA PassCurrency ==
    ASSUME BeliefInv, BeliefInv', NEW r \in Runner, Apply(r) \/ ProcessAbsence(r),
           NEW s, s = job[r], by[s] = NoSnap, NEW e, e = EntryOf[s]
    PROVE  Currency(e)' = CurrentGeneration(s)
<1>1. s \in Snap /\ st' = [st EXCEPT ![s] = "COMPLETE"] /\ by' = by /\ st \in [Snap -> ExtractionStatus]
    BY Finishing DEF BeliefInv, ExtractionInv, CorpusOK
<1>2. Processed(e)' = Processed(e) \cup {s}
    BY <1>1 DEF Processed
<1> DEFINE S == Processed(e)
           held == Currency(e)
<1>3. S \in SUBSET Snap /\ s \in Snap
    BY <1>1 DEF Processed
<1>4. \/ S = {} /\ held = NoSnap
      \/ held \in S /\ \A t \in S : Captured[t] <= Captured[held]
    BY CurrencyOf
<1>5. Currency(e)' = Latest(S \cup {s})
    BY <1>2 DEF Currency
<1>6. \A t \in S \cup {s} : Captured[t] \in Nat
    BY <1>3, ExtractionAssumption
<1>7. CurrentGeneration(s) = IF held = NoSnap \/ Captured[held] <= Captured[s] THEN s ELSE held
    BY DEF CurrentGeneration
<1> HIDE DEF S, held
<1>8. CASE held = NoSnap \/ Captured[held] <= Captured[s]
  <2>1. \A t \in S \cup {s} : Captured[t] <= Captured[s]
    BY <1>3, <1>4, <1>6, <1>8, ExtractionAssumption
  <2>2. Latest(S \cup {s}) = s
    BY <1>3, <2>1, LatestIs
  <2> QED
    BY <1>5, <1>7, <1>8, <2>2
<1>9. CASE ~(held = NoSnap \/ Captured[held] <= Captured[s])
  <2>1. held \in S \cup {s} /\ \A t \in S \cup {s} : Captured[t] <= Captured[held]
    BY <1>4, <1>6, <1>9
  <2>2. Latest(S \cup {s}) = held
    BY <1>3, <2>1, LatestIs
  <2> QED
    BY <1>5, <1>7, <1>9, <2>2
<1> QED
    BY <1>8, <1>9

\* A pass settles its own entry only: elsewhere a ref attests as it did.
LEMMA AttestsElsewhere ==
    ASSUME BeliefInv, NEW r \in Runner, Apply(r) \/ ProcessAbsence(r),
           NEW x, EntryOf[x] # EntryOf[job[r]], Attests(x)'
    PROVE  Attests(x)
<1>1. job[r] \in Snap /\ st' = [st EXCEPT ![job[r]] = "COMPLETE"] /\ by' = by
      /\ st \in [Snap -> ExtractionStatus]
    BY Finishing DEF BeliefInv, ExtractionInv, CorpusOK
<1>2. Processed(EntryOf[x])' = Processed(EntryOf[x])
    BY <1>1 DEF Processed
<1>3. Currency(EntryOf[x])' = Currency(EntryOf[x])
    BY <1>2 DEF Currency
<1> QED
    BY <1>3 DEF Attests

\* With one runner at a time a belief is retired for a lost source only when none of
\* its refs is a current statement after the step, in whatever order the generations
\* of its sources are extracted (current_generation, _unattested).
THEOREM StandingBeliefsAreKept == Alone => (Spec => StandingBeliefsStay)
<1> SUFFICES ASSUME Alone PROVE Spec => StandingBeliefsStay
    OBVIOUS
<1> DEFINE Stay == \A c \in Claim : \A i \in DOMAIN part[c] :
                      Retires(c, i) => ~\E s \in part[c][i].refs : Attests(s)'
<1>1. SoloInv /\ SoloInv' /\ [Next]_vars => [Stay]_vars
  <2> SUFFICES ASSUME SoloInv, SoloInv', [Next]_vars, NEW c \in Claim, NEW i \in DOMAIN part[c],
                      part[c][i].status = "ACTIVE", part'[c][i].reason = "RETRACTED_DEPENDENCY",
                      NEW x \in part[c][i].refs, Attests(x)'
               PROVE  FALSE
    BY DEF Retires
  <2>0. BeliefInv /\ BeliefInv' /\ Plain /\ OwnClaim
    BY DEF SoloInv
  <2>p. part[c][i].reason = "NONE"
    BY <2>0 DEF Plain
  <2>1. CASE part' = part
    BY <2>1, <2>p
  <2>2. ASSUME NEW d \in Claim, NEW j \in DOMAIN part[d], Retract(d, j) PROVE FALSE
    BY <2>0, <2>2, <2>p, RetractOne
  <2>3. ASSUME NEW r \in Runner, Apply(r) \/ ProcessAbsence(r) PROVE FALSE
    <3>1. Unattested(part'[c][i], job[r]) /\ x \in part'[c][i].refs
      BY <2>0, <2>3, <2>p, PassOld
    <3>2. CASE EntryOf[x] # EntryOf[job[r]]
      BY <2>0, <2>3, <3>1, <3>2, AttestsElsewhere DEF Unattested
    <3>3. CASE EntryOf[x] = EntryOf[job[r]]
      <4>1. PICK s : s = job[r]
        OBVIOUS
      <4>2. by[s] = NoSnap /\ s \in Snap
        BY <2>0, <2>3, <4>1, Finishing DEF OwnClaim, Apply, ProcessAbsence
      <4>3. Currency(EntryOf[s])' = CurrentGeneration(s)
        BY <2>0, <2>3, <4>1, <4>2, PassCurrency
      <4>4. CurrentGeneration(s) # x /\ EntryOf[x] \in Mutable
        BY <3>1, <3>3, <4>1 DEF Unattested
      <4>5. CurrentGeneration(s) # NoSnap
        BY <4>2, ExtractionAssumption DEF CurrentGeneration
      <4> QED
        BY <3>3, <4>1, <4>3, <4>4, <4>5 DEF Attests
    <3> QED
      BY <3>2, <3>3
  <2> QED
    BY <2>0, <2>1, <2>2, <2>3, Settling, Depositing
<1> QED
    BY <1>1, SoloInvariance, PTL DEF Spec, StandingBeliefsStay
================================================================================
