--------------------------- MODULE ExtractionProofs ----------------------------
(***************************************************************************)
(* The bookkeeping of extraction for any corpus and any number of runners,  *)
(* slow or crashing, and any faults: what a snapshot's row says stays       *)
(* consistent though every runner acts on what it read before the lock.     *)
(***************************************************************************)
EXTENDS Extraction, WellFoundedInduction, SequenceTheorems, TLAPS

\* A planned collapse names a newer snapshot of the same entry, whenever the plan
\* is applied: capture times and entries never change.
PlansNewer ==
    \A r \in Runner : \A s, t \in Snap : <<s, t>> \in plan[r] => Newer(t, s)

\* A runner past its list has a snapshot in hand.
JobInHand ==
    \A r \in Runner : pc[r] \in {"claim", "read", "gather", "apply", "absence"} => job[r] \in Snap

\* The corpus rows and the plans made over them.
CorpusOK ==
    /\ st \in [Snap -> ExtractionStatus]
    /\ by \in [Snap -> Snap \cup {NoSnap}]
    /\ age \in [Snap -> {"none", "fresh", "old"}]
    /\ blob \subseteq Snap \ Absent
    /\ plan \in [Runner -> SUBSET (Snap \X Snap)]
    /\ PlansNewer /\ CollapsedByNewer /\ ClaimStamped

\* What the runners keep.
RunnersOK ==
    /\ pc \in [Runner -> Place]
    /\ todo \in [Runner -> SUBSET Snap]
    /\ job \in [Runner -> Snap \cup {NoSnap}]
    /\ carried \in [Runner -> SUBSET (Claim \X Nat)]
    /\ seen \in [Runner -> [dup : Index, retired : Index, hold : SUBSET Claim, mark : Index]]
    /\ {faults, explicits, retracts} \subseteq Nat
    /\ JobInHand

\* The particles.
PartOK == part \in [Claim -> Seq(Particle)]

\* The recorded refusals.
RefusedOK == refused \subseteq Snap

\* The inductive invariant.
ExtractionInv == CorpusOK /\ RunnersOK /\ PartOK /\ RefusedOK

\* Of any positions one is the first.
LEMMA LeastOf ==
    ASSUME NEW S \in SUBSET Nat, S # {}
    PROVE  \E m \in S : \A k \in S : m <= k
<1> DEFINE Less == {x \in Nat \X Nat : x[1] < x[2]}
<1>1. IsWellFoundedOn(Less, Nat)
    BY NatLessThanWellFounded, Zenon DEF OpToRel
<1> HIDE DEF Less
<1>2. PICK m \in S : \A k \in S : ~(<<k, m>> \in Less)
    BY <1>1, WFMin
<1>3. ASSUME NEW k \in S PROVE m <= k
  <2>1. k \in Nat /\ m \in Nat
    OBVIOUS
  <2>2. ~(k < m)
    BY <1>2, <2>1, Zenon DEF Less
  <2> QED
    BY <2>1, <2>2
<1> QED
    BY <1>3

\* First picks a position, or 0 for none (the indexes' first particle of a key).
LEMMA FirstTyped ==
    ASSUME NEW S \in SUBSET Nat
    PROVE  First(S) \in Nat
<1>1. CASE S = {}
    BY <1>1 DEF First
<1>2. CASE S # {}
  <2>1. PICK m \in S : \A k \in S : m <= k
    BY <1>2, LeastOf
  <2>2. First(S) = CHOOSE i \in S : \A j \in S : i <= j
    BY <1>2 DEF First
  <2> QED
    BY <2>1, <2>2
<1> QED
    BY <1>1, <1>2

\* Every plan of plan_collapse pairs a record with a newer one.
LEMMA CollapsesNewer ==
    /\ Collapses \subseteq Snap \X Snap
    /\ \A s, t \in Snap : <<s, t>> \in Collapses => Newer(t, s)
BY DEF Collapses, Collapsible

\* Nothing is deposited and nothing runs.
LEMMA InitExtraction == Init => ExtractionInv
<1> SUFFICES ASSUME Init PROVE ExtractionInv
    OBVIOUS
<1> USE ExtractionAssumption DEF Init
<1>1. CorpusOK
    BY DEF CorpusOK, ExtractionStatus, PlansNewer, CollapsedByNewer, ClaimStamped
<1>2. RunnersOK
    BY DEF RunnersOK, Place, Index, NothingSeen, NoIndex, JobInHand
<1>3. PartOK /\ RefusedOK
    BY DEF PartOK, RefusedOK
<1> QED
    BY <1>1, <1>2, <1>3 DEF ExtractionInv

\* update_extraction_status to a status that owes nothing keeps the corpus rows.
LEMMA SetStatusKeeps ==
    ASSUME CorpusOK, NEW s, NEW status \in {"PENDING", "COMPLETE", "FAILED"},
           SetStatus(s, status), plan' \in [Runner -> SUBSET (Snap \X Snap)], PlansNewer'
    PROVE  CorpusOK'
BY DEF SetStatus, CorpusOK, ExtractionStatus, CollapsedByNewer, ClaimStamped, PlansNewer, Newer

\* A runner that goes on with its list forgets its plan and keeps the others.
LEMMA NextItemPlans ==
    ASSUME CorpusOK, NEW r \in Runner, NEW rest, NextItem(r, rest)
    PROVE  plan' \in [Runner -> SUBSET (Snap \X Snap)] /\ PlansNewer'
BY DEF NextItem, CorpusOK, PlansNewer, Newer

\* Every step keeps the corpus rows: only MarkCollapsed sets superseded_by and only
\* from a plan; a claim and its time are written and cleared together.
LEMMA CorpusStep == ExtractionInv /\ [Next]_vars => CorpusOK'
<1> SUFFICES ASSUME ExtractionInv, [Next]_vars PROVE CorpusOK'
    OBVIOUS
<1>0. CorpusOK
    BY DEF ExtractionInv
<1> USE ExtractionAssumption, <1>0
<1> DEFINE Kept == UNCHANGED <<st, by, age, blob, plan>>
<1>k. ASSUME Kept PROVE CorpusOK'
    BY <1>k DEF CorpusOK, PlansNewer, CollapsedByNewer, ClaimStamped, Newer
<1>n. ASSUME NEW r \in Runner, NEW rest, NextItem(r, rest), UNCHANGED corpus
      PROVE  CorpusOK'
    BY <1>n, NextItemPlans DEF corpus, CorpusOK, CollapsedByNewer, ClaimStamped, Newer
<1>s. ASSUME NEW r \in Runner, NEW rest, NextItem(r, rest), NEW x,
             NEW status \in {"PENDING", "COMPLETE", "FAILED"}, SetStatus(x, status)
      PROVE  CorpusOK'
    BY <1>s, NextItemPlans, SetStatusKeeps
<1>1. ASSUME NEW x \in Snap, Deposit(x) PROVE CorpusOK'
    BY <1>1 DEF Deposit, local, CorpusOK, ExtractionStatus, PlansNewer, CollapsedByNewer,
                ClaimStamped, Newer
<1>2. ASSUME NEW x \in Snap, LoseBlob(x) PROVE CorpusOK'
    BY <1>2 DEF LoseBlob, local, CorpusOK, PlansNewer, CollapsedByNewer, ClaimStamped, Newer
<1>e. ASSUME NEW x \in Snap, Expire(x) PROVE CorpusOK'
    BY <1>e, <1>k DEF Expire, corpus, local
<1>3. ASSUME NEW x \in Snap, Age(x) PROVE CorpusOK'
    BY <1>3 DEF Age, local, CorpusOK, PlansNewer, CollapsedByNewer, ClaimStamped, Newer
<1>4. ASSUME NEW c \in Claim, NEW i \in DOMAIN part[c], Retract(c, i) PROVE CorpusOK'
    BY <1>4, <1>k DEF Retract, local, corpus
<1>5. ASSUME NEW r \in Runner, ResetStale(r) PROVE CorpusOK'
    BY <1>5 DEF ResetStale, CorpusOK, ExtractionStatus, PlansNewer, CollapsedByNewer,
                ClaimStamped, Newer
<1>6. ASSUME NEW r \in Runner, PlanCollapse(r) PROVE CorpusOK'
  <2>1. plan' = [plan EXCEPT ![r] = Collapses] /\ UNCHANGED <<st, by, age, blob>>
    BY <1>6 DEF PlanCollapse, corpus
  <2>2. plan' \in [Runner -> SUBSET (Snap \X Snap)] /\ PlansNewer'
    BY <2>1, CollapsesNewer DEF CorpusOK, PlansNewer, Newer
  <2> QED
    BY <2>1, <2>2 DEF CorpusOK, CollapsedByNewer, ClaimStamped, Newer
<1>7. ASSUME NEW r \in Runner, MarkCollapsed(r) PROVE CorpusOK'
  <2> DEFINE Planned(x) == \E y \in Snap : <<x, y>> \in plan[r]
             Marked(x) == Planned(x) /\ st[x] \in {"PENDING", "FAILED"} /\ by[x] = NoSnap
             With(x) == CHOOSE y \in Snap : <<x, y>> \in plan[r]
  <2>1. /\ st' = [x \in Snap |-> IF Marked(x) THEN "COMPLETE" ELSE st[x]]
        /\ age' = [x \in Snap |-> IF Marked(x) THEN "none" ELSE age[x]]
        /\ by' = [x \in Snap |-> IF Marked(x) THEN With(x) ELSE by[x]]
        /\ plan' = [plan EXCEPT ![r] = {}] /\ UNCHANGED blob
    BY <1>7 DEF MarkCollapsed
  <2>2. \A x \in Snap : Marked(x) => With(x) \in Snap /\ <<x, With(x)>> \in plan[r]
    OBVIOUS
  <2>3. \A x \in Snap : Marked(x) => With(x) \in Snap /\ Newer(With(x), x)
    BY <2>2 DEF CorpusOK, PlansNewer
  <2> HIDE DEF Marked, With
  <2>4. by' \in [Snap -> Snap \cup {NoSnap}] /\ CollapsedByNewer'
    BY <2>1, <2>3 DEF CorpusOK, CollapsedByNewer, Newer
  <2>5. /\ st' \in [Snap -> ExtractionStatus]
        /\ age' \in [Snap -> {"none", "fresh", "old"}]
        /\ ClaimStamped'
    BY <2>1 DEF CorpusOK, ClaimStamped, ExtractionStatus, Marked
  <2>6. plan' \in [Runner -> SUBSET (Snap \X Snap)] /\ PlansNewer'
    BY <2>1 DEF CorpusOK, PlansNewer, Newer
  <2> QED
    BY <2>1, <2>4, <2>5, <2>6 DEF CorpusOK
<1>8. ASSUME NEW r \in Runner, ListPending(r) PROVE CorpusOK'
    BY <1>8, <1>n DEF ListPending
<1>9. ASSUME NEW r \in Runner, NEW x \in Snap, TakeResponse(r, x) \/ TakeAbsence(r, x)
      PROVE  CorpusOK'
    BY <1>9, <1>k DEF TakeResponse, TakeAbsence, TakeUp, corpus
<1>10. ASSUME NEW r \in Runner, NEW x \in Snap, SkipListed(r, x) PROVE CorpusOK'
    BY <1>10, <1>n DEF SkipListed
<1>11. ASSUME NEW r \in Runner, NEW x \in Snap, NameSnapshot(r, x) PROVE CorpusOK'
    BY <1>11, <1>k DEF NameSnapshot, corpus
<1>12. ASSUME NEW r \in Runner, ClaimSnapshot(r) PROVE CorpusOK'
    BY <1>12 DEF ClaimSnapshot, CorpusOK, ExtractionStatus, PlansNewer, CollapsedByNewer,
                 ClaimStamped, Newer
<1>13. ASSUME NEW r \in Runner, BlobMissing(r) PROVE CorpusOK'
    BY <1>13, <1>s DEF BlobMissing
<1>14. ASSUME NEW r \in Runner, Read(r) \/ Gather(r) PROVE CorpusOK'
    BY <1>14, <1>k DEF Read, Gather, corpus
<1>15. ASSUME NEW r \in Runner, TransientError(r) PROVE CorpusOK'
    BY <1>15, <1>s DEF TransientError
<1>16. ASSUME NEW r \in Runner, Interrupted(r) PROVE CorpusOK'
    BY <1>16, <1>s, <1>n DEF Interrupted
<1>17. ASSUME NEW r \in Runner, Crash(r) PROVE CorpusOK'
    BY <1>17, <1>n DEF Crash
<1>18. ASSUME NEW r \in Runner, Apply(r) \/ ProcessAbsence(r) PROVE CorpusOK'
    BY <1>18, <1>s DEF Apply, ProcessAbsence
<1>19. CASE UNCHANGED vars
    BY <1>19, <1>k DEF vars, corpus, local
<1> QED
    BY <1>1, <1>2, <1>3, <1>4, <1>5, <1>6, <1>7, <1>8, <1>9, <1>10, <1>11, <1>12, <1>13,
       <1>14, <1>15, <1>16, <1>17, <1>18, <1>19, <1>e DEF Next, Step

\* What a gather reads is well typed: positions of stored particles.
LEMMA GatherTyped ==
    ASSUME ExtractionInv, NEW r \in Runner, Gather(r)
    PROVE  seen' \in [Runner -> [dup : Index, retired : Index, hold : SUBSET Claim, mark : Index]]
<1> DEFINE Having(c, Test(_)) == {i \in DOMAIN part[c] : Test(part[c][i])}
           Active(p) == p.status = "ACTIVE"
           Held == {c \in Claim : Having(c, IsHold) # {}}
           dup == [c \in Claim |-> First(Having(c, Active))]
           retired == [c \in Claim |->
                         First(IF c \in Held THEN Having(c, IsHold) ELSE Having(c, IsJudged))]
           mark == [c \in Claim |-> Len(part[c])]
<1>1. \A c \in Claim : part[c] \in Seq(Particle)
    BY DEF ExtractionInv, PartOK
<1>2. \A c \in Claim : DOMAIN part[c] \subseteq Nat /\ Len(part[c]) \in Nat
    BY <1>1
<1>3. dup \in Index
    BY <1>2, FirstTyped DEF Index
<1>4. retired \in Index
    BY <1>2, FirstTyped DEF Index
<1>5. mark \in Index /\ Held \in SUBSET Claim
    BY <1>2 DEF Index
<1>6. seen' = [seen EXCEPT ![r] = [dup |-> dup, hold |-> Held, retired |-> retired, mark |-> mark]]
    BY Zenon DEF Gather
<1> HIDE DEF dup, retired, mark, Held
<1> QED
    BY <1>3, <1>4, <1>5, <1>6 DEF ExtractionInv, RunnersOK

\* A runner that goes on with its list stays well typed.
LEMMA NextItemRunners ==
    ASSUME RunnersOK, NEW r \in Runner, NEW rest \in SUBSET Snap, NextItem(r, rest),
           {faults', explicits', retracts'} \subseteq Nat
    PROVE  RunnersOK'
BY DEF NextItem, RunnersOK, Place, JobInHand, NothingSeen, NoIndex, Index

\* Every step keeps what the runners hold well typed.
LEMMA RunnersStep == ExtractionInv /\ [Next]_vars => RunnersOK'
<1> SUFFICES ASSUME ExtractionInv, [Next]_vars PROVE RunnersOK'
    OBVIOUS
<1>0. RunnersOK
    BY DEF ExtractionInv
<1> USE ExtractionAssumption, <1>0
<1>k. ASSUME UNCHANGED local, {faults', explicits', retracts'} \subseteq Nat PROVE RunnersOK'
    BY <1>k DEF local, RunnersOK, JobInHand
<1>c. ASSUME UNCHANGED counts PROVE {faults', explicits', retracts'} \subseteq Nat
    BY <1>c DEF counts, RunnersOK
<1>f. ASSUME Fault PROVE {faults', explicits', retracts'} \subseteq Nat
    BY <1>f DEF Fault, RunnersOK
<1>t. \A r \in Runner : todo[r] \in SUBSET Snap
    BY DEF RunnersOK
<1>b. ASSUME UNCHANGED <<faults, explicits, retracts>>
      PROVE  {faults', explicits', retracts'} \subseteq Nat
    BY <1>b DEF RunnersOK
<1>1. ASSUME NEW x \in Snap, Deposit(x) \/ Age(x) \/ Expire(x) PROVE RunnersOK'
    BY <1>1, <1>k, <1>c, <1>b DEF Deposit, Age, Expire
<1>2. ASSUME NEW x \in Snap, LoseBlob(x) PROVE RunnersOK'
    BY <1>2, <1>k, <1>f DEF LoseBlob
<1>3. ASSUME NEW c \in Claim, NEW i \in DOMAIN part[c], Retract(c, i) PROVE RunnersOK'
  <2>1. {faults', explicits', retracts'} \subseteq Nat
    BY <1>3 DEF Retract, RunnersOK
  <2> QED
    BY <1>3, <1>k, <2>1 DEF Retract
<1>4. ASSUME NEW r \in Runner, ResetStale(r) PROVE RunnersOK'
    BY <1>4 DEF ResetStale, RunnersOK, Place, JobInHand, counts
<1>5. ASSUME NEW r \in Runner, PlanCollapse(r) PROVE RunnersOK'
    BY <1>5 DEF PlanCollapse, RunnersOK, Place, JobInHand, counts
<1>6. ASSUME NEW r \in Runner, MarkCollapsed(r) PROVE RunnersOK'
    BY <1>6 DEF MarkCollapsed, RunnersOK, Place, JobInHand, counts
<1>7. ASSUME NEW r \in Runner, ListPending(r) PROVE RunnersOK'
    BY <1>7, <1>c, NextItemRunners DEF ListPending
<1>8. ASSUME NEW r \in Runner, NEW x \in Snap, TakeResponse(r, x) \/ TakeAbsence(r, x)
      PROVE  RunnersOK'
  <2>1. PICK place \in {"claim", "absence"} : TakeUp(r, x, place)
    BY <1>8 DEF TakeResponse, TakeAbsence
  <2>2. /\ pc' = [pc EXCEPT ![r] = place]
        /\ todo' = [todo EXCEPT ![r] = @ \ {x}]
        /\ job' = [job EXCEPT ![r] = x]
        /\ UNCHANGED <<carried, seen, faults, explicits, retracts>>
    BY <2>1 DEF TakeUp, counts
  <2> QED
    BY <2>2 DEF RunnersOK, Place, JobInHand
<1>9. ASSUME NEW r \in Runner, NEW x \in Snap, SkipListed(r, x) PROVE RunnersOK'
    BY <1>9, <1>c, <1>t, NextItemRunners DEF SkipListed
<1>10. ASSUME NEW r \in Runner, NEW x \in Snap, NameSnapshot(r, x) PROVE RunnersOK'
    BY <1>10 DEF NameSnapshot, RunnersOK, Place, JobInHand, Deposited
<1>11. ASSUME NEW r \in Runner, ClaimSnapshot(r) PROVE RunnersOK'
    BY <1>11 DEF ClaimSnapshot, RunnersOK, Place, JobInHand, counts
<1>12. ASSUME NEW r \in Runner, BlobMissing(r) PROVE RunnersOK'
    BY <1>12, <1>c, <1>t, NextItemRunners DEF BlobMissing
<1>13. ASSUME NEW r \in Runner, Read(r) PROVE RunnersOK'
  <2>1. job[r] \in Snap
    BY <1>13 DEF Read, RunnersOK, JobInHand
  <2>2. \A c \in Claim : part[c] \in Seq(Particle)
    BY DEF ExtractionInv, PartOK
  <2>3. \A c \in Claim : DOMAIN part[c] \subseteq Nat
    BY <2>2
  <2>4. Carries(job[r]) \subseteq Claim \X Nat
    BY <2>1, <2>3 DEF Carries
  <2> HIDE DEF Carries
  <2> QED
    BY <1>13, <2>4 DEF Read, RunnersOK, Place, JobInHand, counts
<1>14. ASSUME NEW r \in Runner, Gather(r) PROVE RunnersOK'
  <2>1. pc' = [pc EXCEPT ![r] = "apply"] /\ pc[r] = "gather"
        /\ UNCHANGED <<todo, job, carried, faults, explicits, retracts>>
    BY <1>14 DEF Gather, counts
  <2> QED
    BY <1>14, <2>1, GatherTyped DEF RunnersOK, Place, JobInHand
<1>15. ASSUME NEW r \in Runner, TransientError(r) \/ Interrupted(r) PROVE RunnersOK'
  <2>1. PICK rest \in SUBSET Snap : NextItem(r, rest)
    BY <1>15, <1>t DEF TransientError, Interrupted
  <2> QED
    BY <1>15, <1>f, <2>1, NextItemRunners DEF TransientError, Interrupted
<1>16. ASSUME NEW r \in Runner, Crash(r) PROVE RunnersOK'
    BY <1>16, <1>f, NextItemRunners DEF Crash
<1>17. ASSUME NEW r \in Runner, Apply(r) \/ ProcessAbsence(r) PROVE RunnersOK'
    BY <1>17, <1>c, <1>b, <1>t, NextItemRunners DEF Apply, ProcessAbsence
<1>18. CASE UNCHANGED vars
    BY <1>18, <1>k, <1>c DEF vars
<1> QED
    BY <1>1, <1>2, <1>3, <1>4, <1>5, <1>6, <1>7, <1>8, <1>9, <1>10, <1>11, <1>12, <1>13,
       <1>14, <1>15, <1>16, <1>17, <1>18 DEF Next, Step

\* cascade_superseded_generation only changes statuses.
LEMMA CascadeTyped ==
    ASSUME NEW parts \in [Claim -> Seq(Particle)], NEW s, NEW spared
    PROVE  Cascade(parts, s, spared) \in [Claim -> Seq(Particle)]
<1> DEFINE e == EntryOf[s]
           current == CurrentGeneration(s)
           Retired(c, i) ==
             /\ e \in Mutable /\ <<c, i>> \notin spared
             /\ parts[c][i].status = "ACTIVE"
             /\ \E x \in parts[c][i].edges : EntryOf[x] = e /\ x # current
             /\ ~Attested(parts[c][i], e, current)
           New(c, i) == IF Retired(c, i)
                        THEN [parts[c][i] EXCEPT !.status = "PROVENANCE_STALE",
                                                 !.reason = "RETRACTED_DEPENDENCY"]
                        ELSE parts[c][i]
<1>1. Cascade(parts, s, spared) = [c \in Claim |-> [i \in DOMAIN parts[c] |-> New(c, i)]]
    BY DEF Cascade
<1> HIDE DEF Retired
<1>2. ASSUME NEW c \in Claim PROVE [i \in DOMAIN parts[c] |-> New(c, i)] \in Seq(Particle)
  <2>1. parts[c] \in Seq(Particle)
    OBVIOUS
  <2>2. ASSUME NEW i \in DOMAIN parts[c] PROVE New(c, i) \in Particle
    <3>1. parts[c][i] \in Particle
      BY <2>1
    <3> QED
      BY <3>1 DEF Particle, Status, Reason
  <2> HIDE DEF New
  <2> QED
    BY <2>1, <2>2
<1> QED
    BY <1>1, <1>2

\* The write loop stores particles.
LEMMA WrittenTyped ==
    ASSUME ExtractionInv, NEW r \in Runner, job[r] \in Snap
    PROVE  Written(r) \in [Claim -> Seq(Particle)]
<1> DEFINE New(c, i) == IF <<c, i>> \in Observed(r)
                        THEN AppendRef(part[c][i], job[r]) ELSE part[c][i]
           Old(c) == [i \in DOMAIN part[c] |-> New(c, i)]
<1>1. ASSUME NEW c \in Claim PROVE Old(c) \in Seq(Particle)
  <2>1. part[c] \in Seq(Particle)
    BY DEF ExtractionInv, PartOK
  <2>2. ASSUME NEW i \in DOMAIN part[c] PROVE New(c, i) \in Particle
    <3>1. part[c][i] \in Particle
      BY <2>1
    <3>2. AppendRef(part[c][i], job[r]) \in Particle
      BY <3>1 DEF Particle, AppendRef
    <3> QED
      BY <3>1, <3>2
  <2> HIDE DEF New
  <2> QED
    BY <2>1, <2>2
<1>2. ASSUME NEW c \in Claim PROVE Minted(r, c) \in Particle
    BY DEF Minted, Particle, Status, Reason
<1>3. ASSUME NEW c \in Claim PROVE Append(Old(c), Minted(r, c)) \in Seq(Particle)
  <2> HIDE DEF Old
  <2> QED
    BY <1>1, <1>2, AppendProperties
<1>4. Written(r) = [c \in Claim |-> IF c \in Fresh(r) \cup Quarantined(r)
                                   THEN Append(Old(c), Minted(r, c)) ELSE Old(c)]
    BY DEF Written
<1> HIDE DEF Old
<1> QED
    BY <1>1, <1>3, <1>4

\* Every step stores particles.
LEMMA PartStep == ExtractionInv /\ [Next]_vars => PartOK'
<1> SUFFICES ASSUME ExtractionInv, [Next]_vars PROVE PartOK'
    OBVIOUS
<1>0. PartOK
    BY DEF ExtractionInv
<1>k. ASSUME UNCHANGED part PROVE PartOK'
    BY <1>0, <1>k DEF PartOK
<1>1. ASSUME NEW c \in Claim, NEW i \in DOMAIN part[c], Retract(c, i) PROVE PartOK'
  <2>1. part[c] \in Seq(Particle)
    BY <1>0 DEF PartOK
  <2>2. part[c][i] \in Particle
    BY <2>1
  <2> DEFINE p == [part[c][i] EXCEPT !.status = "RETRACTED", !.reason = "EXPLICIT_RETRACTION"]
  <2>3. p \in Particle
    BY <2>2 DEF Particle, Status, Reason
  <2>4. part' = [part EXCEPT ![c] = [part[c] EXCEPT ![i] = p]]
    BY <1>1, <2>1, <2>2, <1>0 DEF Retract, PartOK, Particle
  <2> HIDE DEF p
  <2>5. [part[c] EXCEPT ![i] = p] \in Seq(Particle)
    BY <2>1, <2>3
  <2> QED
    BY <1>0, <2>4, <2>5 DEF PartOK
<1>2. ASSUME NEW r \in Runner, Apply(r) PROVE PartOK'
  <2>1. job[r] \in Snap
    BY <1>2 DEF Apply, ExtractionInv, RunnersOK, JobInHand
  <2> QED
    BY <1>2, <2>1, WrittenTyped, CascadeTyped DEF Apply, PartOK
<1>3. ASSUME NEW r \in Runner, ProcessAbsence(r) PROVE PartOK'
    BY <1>0, <1>3, CascadeTyped DEF ProcessAbsence, PartOK
<1>4. ASSUME NEW x \in Snap, Deposit(x) \/ LoseBlob(x) \/ Age(x) \/ Expire(x)
      PROVE  PartOK'
    BY <1>4, <1>k DEF Deposit, LoseBlob, Age, Expire
<1>5. ASSUME NEW r \in Runner, ResetStale(r) \/ PlanCollapse(r) \/ MarkCollapsed(r)
             \/ ListPending(r) \/ ClaimSnapshot(r) \/ BlobMissing(r) \/ Read(r) \/ Gather(r)
      PROVE  PartOK'
    BY <1>5, <1>k DEF ResetStale, PlanCollapse, MarkCollapsed, ListPending, ClaimSnapshot,
                      BlobMissing, Read, Gather
<1>6. ASSUME NEW r \in Runner, NEW x \in Snap, TakeResponse(r, x) \/ TakeAbsence(r, x)
             \/ SkipListed(r, x) \/ NameSnapshot(r, x)
      PROVE  PartOK'
    BY <1>6, <1>k DEF TakeResponse, TakeAbsence, TakeUp, SkipListed, NameSnapshot
<1>7. ASSUME NEW r \in Runner, TransientError(r) \/ Interrupted(r) \/ Crash(r) PROVE PartOK'
    BY <1>7, <1>k DEF TransientError, Interrupted, Crash
<1>8. CASE UNCHANGED vars
    BY <1>8, <1>k DEF vars
<1> QED
    BY <1>1, <1>2, <1>3, <1>4, <1>5, <1>6, <1>7, <1>8 DEF Next, Step

\* Every step records refusals of snapshots only.
LEMMA RefusedStep == ExtractionInv /\ [Next]_vars => RefusedOK'
<1> SUFFICES ASSUME ExtractionInv, [Next]_vars PROVE RefusedOK'
    OBVIOUS
<1>0. RefusedOK
    BY DEF ExtractionInv
<1>k. ASSUME UNCHANGED refused PROVE RefusedOK'
    BY <1>0, <1>k DEF RefusedOK
<1>1. ASSUME NEW r \in Runner, TransientError(r) PROVE RefusedOK'
  <2>1. job[r] \in Snap
    BY <1>1 DEF TransientError, ExtractionInv, RunnersOK, JobInHand
  <2> QED
    BY <1>0, <1>1, <2>1 DEF TransientError, RefusedOK
<1>2. ASSUME NEW r \in Runner, Apply(r) PROVE RefusedOK'
    BY <1>0, <1>2 DEF Apply, RefusedOK
<1>3. ASSUME NEW x \in Snap, Expire(x) PROVE RefusedOK'
    BY <1>0, <1>3 DEF Expire, RefusedOK
<1>4. ASSUME NEW x \in Snap, Deposit(x) \/ LoseBlob(x) \/ Age(x) PROVE RefusedOK'
    BY <1>4, <1>k DEF Deposit, LoseBlob, Age, counts
<1>5. ASSUME NEW c \in Claim, NEW i \in DOMAIN part[c], Retract(c, i) PROVE RefusedOK'
    BY <1>5, <1>k DEF Retract
<1>6. ASSUME NEW r \in Runner, ResetStale(r) \/ PlanCollapse(r) \/ MarkCollapsed(r)
             \/ ListPending(r) \/ ClaimSnapshot(r) \/ BlobMissing(r) \/ Read(r) \/ Gather(r)
             \/ ProcessAbsence(r) \/ Interrupted(r) \/ Crash(r)
      PROVE  RefusedOK'
    BY <1>6, <1>k DEF ResetStale, PlanCollapse, MarkCollapsed, ListPending, ClaimSnapshot,
                      BlobMissing, Read, Gather, ProcessAbsence, Interrupted, Crash, counts
<1>7. ASSUME NEW r \in Runner, NEW x \in Snap, TakeResponse(r, x) \/ TakeAbsence(r, x)
             \/ SkipListed(r, x) \/ NameSnapshot(r, x)
      PROVE  RefusedOK'
    BY <1>7, <1>k DEF TakeResponse, TakeAbsence, TakeUp, SkipListed, NameSnapshot, counts
<1>8. CASE UNCHANGED vars
    BY <1>8, <1>k DEF vars, counts
<1> QED
    BY <1>1, <1>2, <1>3, <1>4, <1>5, <1>6, <1>7, <1>8 DEF Next, Step

\* The invariant holds in every reachable state.
THEOREM ExtractionInvariance == Spec => []ExtractionInv
<1>1. ExtractionInv /\ [Next]_vars => ExtractionInv'
    BY CorpusStep, RunnersStep, PartStep, RefusedStep DEF ExtractionInv
<1> QED
    BY InitExtraction, <1>1, PTL DEF Spec

\* The state of extraction is well typed for every corpus and set of runners.
THEOREM ExtractionTyped == Spec => []TypeOK
<1>1. ExtractionInv => TypeOK
    BY DEF ExtractionInv, CorpusOK, RunnersOK, PartOK, RefusedOK, TypeOK
<1> QED
    BY ExtractionInvariance, <1>1, PTL

\* Whatever the runners do, a collapsed snapshot names a newer snapshot of its own
\* entry (plan_collapse, mark_snapshot_superseded).
THEOREM CollapsesPointForward == Spec => []CollapsedByNewer
<1>1. ExtractionInv => CollapsedByNewer
    BY DEF ExtractionInv, CorpusOK
<1> QED
    BY ExtractionInvariance, <1>1, PTL

\* Whatever the runners do, a row carries a claim time exactly while it is
\* IN_PROGRESS (claim_snapshot_for_extraction and the writes that end a claim).
THEOREM ClaimsAreStamped == Spec => []ClaimStamped
<1>1. ExtractionInv => ClaimStamped
    BY DEF ExtractionInv, CorpusOK
<1> QED
    BY ExtractionInvariance, <1>1, PTL
================================================================================
