-------------------------- MODULE ConsolidationProofs --------------------------
(***************************************************************************)
(* The nightly cycle for any number of runners, beliefs, nights, audits,     *)
(* kills and exceptions and any number of records looked at: what falls       *)
(* between two windows was passed over by a pass that ended well or committed *)
(* late, and a cycle that ends is on record unless it was cut short.          *)
(***************************************************************************)
EXTENDS Consolidation, WellFoundedInduction, SequenceTheorems, TLAPS

\* Whoever is in the cycle holds its lock, and only one is.
LockOK == \A r \in Runner : run[r].pc \in Stage <=> holder = r

\* Nothing is stamped later than now.
Stamped ==
    /\ \A c \in Claim : claim[c].at < now /\ claim[c].entry < now /\ claim[c].redone < now
    /\ \A r \in Runner : run[r].mark < now

\* A draft of the cycle's own pass 1 belongs to the run that holds the lock: it
\* was stamped after that run, and every run on record, started.
OwnDrafts ==
    \A c \in Claim : claim[c].st = "own" =>
        /\ \E r \in Runner : run[r].pc = "extract"
        /\ \A r \in Runner : run[r].pc = "extract" =>
              run[r].start <= claim[c].at /\ run[r].mark <= claim[c].at
        /\ \A i \in 1..Len(log) : log[i].mine => log[i].start <= claim[c].at

\* Where the run's own window opens.
Opens(r) == IF run[r].store THEN 0 ELSE run[r].mark

\* Until it reads its scope a run's window holds what the sweeps owe, and from then
\* on the scope does, but for what changed since it started; the scope holds that
\* window too, but for that and for what was committed late.
WindowOK ==
    \A r \in Runner :
        /\ run[r].pc = "extract" => SweepOwes \subseteq Window(Opens(r))
        /\ run[r].pc = "sweep" => SweepOwes \subseteq run[r].scope \cup Window(run[r].start)
        /\ run[r].pc \in {"sweep", "census"} =>
              Window(Opens(r)) \subseteq run[r].scope \cup Window(run[r].start) \cup late

\* After its sweep, a run that did all of its work owes only what changed since it
\* started; after its census, so does one that probed in full.
WorkDone ==
    \A r \in Runner :
        /\ run[r].pc \in {"census", "rest"} /\ run[r].ok /\ ~run[r].limited /\ run[r].sem =>
              SweepOwes \subseteq Window(run[r].start)
        /\ run[r].census => run[r].pc = "rest"
        /\ run[r].pc = "rest" /\ run[r].census /\ ~run[r].cut =>
              CensusOwes \subseteq Window(run[r].start)

\* A run that is about to give the lock back is on record.
OnRecord ==
    \A r \in Runner : run[r].pc = "recorded" =>
        \E i \in 1..Len(log) : log[i].mine /\ log[i].start = run[r].start

\* The inductive invariant.
CycleInv ==
    /\ TypeOK /\ LockOK /\ Stamped /\ OwnDrafts /\ WindowOK /\ WorkDone /\ OnRecord
    /\ OnlyLateFallBetween /\ SweepMissesNothing

--------------------------------------------------------------------------------
\* The newest of the records that qualify is one of them.
LEMMA MaxIn ==
    ASSUME NEW n \in Nat, NEW S \in SUBSET (1..n), S # {}
    PROVE  Max(S) \in S /\ \A j \in S : j <= Max(S)
<1> DEFINE Less == {x \in Nat \X Nat : x[1] < x[2]}
           T == {n - j : j \in S}
<1>1. IsWellFoundedOn(Less, Nat)
    BY NatLessThanWellFounded, Zenon DEF OpToRel
<1>2. T \subseteq Nat /\ T # {}
  <2>1. \A j \in S : j \in 1..n
    OBVIOUS
  <2>2. \A j \in S : n - j \in Nat
    BY <2>1
  <2> QED
    BY <2>2
<1> HIDE DEF Less
<1>3. PICK m \in T : \A k \in T : ~(<<k, m>> \in Less)
    BY <1>1, <1>2, WFMin
<1>4. PICK x \in S : m = n - x
    OBVIOUS
<1>5. ASSUME NEW j \in S PROVE x >= j
  <2>1. n - j \in Nat /\ m \in Nat /\ n - j \in T
    BY <1>2
  <2>2. ~(n - j < m)
    <3> DEFINE k == n - j
    <3> HIDE DEF k
    <3>1. k \in Nat /\ m \in Nat /\ k \in T
      BY <2>1 DEF k
    <3>2. ~(k < m)
      BY <1>3, <3>1, Zenon DEF Less
    <3> QED
      BY <3>2 DEF k
  <2> QED
    BY <1>4, <2>2
<1>6. Max(S) \in S /\ \A y \in S : Max(S) >= y
    BY <1>5 DEF Max
<1> QED
    BY <1>6

\* One more record: the newest that qualifies is the new one, or the one it was,
\* or there is none left to look at (list_events with its limit).
LEMMA OneMore ==
    ASSUME NEW n \in Nat, NEW A \in SUBSET (1..n), NEW B \in SUBSET {n + 1},
           NEW S, \A i : i \in S <=> i \in A /\ i + Limit > n,
           NEW T, \A i : i \in T <=> i \in A \cup B /\ i + Limit > n + 1
    PROVE  \/ T = {}
           \/ T # {} /\ Max(T) = n + 1 /\ n + 1 \in B
           \/ T # {} /\ S # {} /\ Max(T) = Max(S) /\ Max(S) \in A
<1> SUFFICES ASSUME T # {}, n + 1 \notin T
             PROVE  S # {} /\ Max(T) = Max(S) /\ Max(S) \in A
  <2>1. ASSUME T # {}, n + 1 \in T PROVE Max(T) = n + 1 /\ n + 1 \in B
    <3>1. T \in SUBSET (1..(n + 1)) /\ n + 1 \in Nat
      <4>1. \A i \in A : i \in 1..(n + 1)
        <5>1. \A i \in A : i \in 1..n
          OBVIOUS
        <5> QED
          BY <5>1
      <4>2. n + 1 \in 1..(n + 1)
        OBVIOUS
      <4>3. \A i \in B : i = n + 1
        OBVIOUS
      <4>4. \A i \in T : i \in A \cup B
        OBVIOUS
      <4>5. \A i \in T : i \in 1..(n + 1)
        BY <4>1, <4>2, <4>3, <4>4
      <4> QED
        BY <4>5
    <3>2. Max(T) \in T /\ \A j \in T : j <= Max(T)
      BY <2>1, <3>1, MaxIn
    <3>3. n + 1 \in B
      BY <2>1
    <3>4. Max(T) \in 1..(n + 1) /\ n + 1 <= Max(T)
      BY <2>1, <3>1, <3>2
    <3> QED
      BY <3>3, <3>4
  <2> QED
    BY <2>1
<1>1. Limit \in Nat
    BY ConsolidationAssumption
<1>2. \A i \in A : i \in 1..n
    OBVIOUS
<1>3. \A i \in T : i \in A /\ i + Limit > n + 1
  <2>1. \A i \in B : i = n + 1
    OBVIOUS
  <2> QED
    BY <2>1
<1>4. ASSUME NEW i \in T PROVE i + Limit > n
  <2>1. i \in 1..n /\ i + Limit > n + 1
    BY <1>2, <1>3
  <2> QED
    BY <1>1, <2>1
<1>5. T \subseteq S /\ S \in SUBSET (1..n) /\ S # {} /\ T \in SUBSET (1..n)
    BY <1>2, <1>3, <1>4
<1>6. Max(S) \in S /\ (\A j \in S : j <= Max(S)) /\ Max(T) \in T /\ (\A j \in T : j <= Max(T))
    BY <1>5, MaxIn
<1>7. Max(S) \in A /\ Max(S) \in 1..n /\ Max(T) \in 1..n /\ Max(T) <= Max(S)
    BY <1>5, <1>6
<1>8. Max(S) \in T
    BY <1>1, <1>6, <1>7
<1> QED
    BY <1>5, <1>6, <1>7, <1>8

\* What appending a record to the log does to the two marks.
LEMMA Appended ==
    ASSUME log \in Seq(Event), NEW e \in Event, log' = Append(log, e)
    PROVE  /\ Watermark' \in {Watermark, 0} \/ (Watermarks(e) /\ Watermark' = e.start)
           /\ CensusMark' \in {CensusMark, 0} \/ (CensusProbed(e) /\ CensusMark' = e.start)
<1> DEFINE n == Len(log)
<1>1. /\ n \in Nat /\ Len(log') = n + 1 /\ log'[n + 1] = e
      /\ \A i \in 1..n : log'[i] = log[i]
    BY AppendProperties
<1> DEFINE A == {i \in 1..n : Watermarks(log[i])}
           B == {i \in {n + 1} : Watermarks(e)}
           S == {i \in A : i + Limit > n}
           T == {i \in A \cup B : i + Limit > n + 1}
<1>2. {i \in Newest : Watermarks(log[i])} = S
    BY DEF Newest
<1>3. {i \in Newest : Watermarks(log[i])}' = T
    BY <1>1 DEF Newest, Watermarks
<1>4. A \in SUBSET (1..n) /\ B \in SUBSET {n + 1} /\ (n + 1 \in B => Watermarks(e))
    OBVIOUS
<1>5. Watermark = (IF S = {} THEN 0 ELSE log[Max(S)].start)
      /\ Watermark' = (IF T = {} THEN 0 ELSE log'[Max(T)].start)
    BY <1>2, <1>3 DEF Watermark, StartOf
<1>6. Watermark' \in {Watermark, 0} \/ (Watermarks(e) /\ Watermark' = e.start)
  <2> HIDE DEF A, B, S, T, n
  <2>1. /\ \A i : i \in S <=> i \in A /\ i + Limit > n
        /\ \A i : i \in T <=> i \in A \cup B /\ i + Limit > n + 1
    BY DEF S, T
  <2>2. \/ T = {}
        \/ T # {} /\ Max(T) = n + 1 /\ n + 1 \in B
        \/ T # {} /\ S # {} /\ Max(T) = Max(S) /\ Max(S) \in A
    BY <1>1, <1>4, <2>1, OneMore
  <2> QED
    BY <1>1, <1>4, <1>5, <2>2
<1> DEFINE C == {i \in 1..n : CensusProbed(log[i])}
           D == {i \in {n + 1} : CensusProbed(e)}
           U == {i \in C : i + Limit > n}
           V == {i \in C \cup D : i + Limit > n + 1}
<1>7. {i \in Newest : CensusProbed(log[i])} = U
    BY DEF Newest
<1>8. {i \in Newest : CensusProbed(log[i])}' = V
    BY <1>1 DEF Newest, CensusProbed
<1>9. C \in SUBSET (1..n) /\ D \in SUBSET {n + 1} /\ (n + 1 \in D => CensusProbed(e))
    OBVIOUS
<1>10. CensusMark = (IF U = {} THEN 0 ELSE log[Max(U)].start)
       /\ CensusMark' = (IF V = {} THEN 0 ELSE log'[Max(V)].start)
    BY <1>7, <1>8 DEF CensusMark, StartOf
<1>11. CensusMark' \in {CensusMark, 0} \/ (CensusProbed(e) /\ CensusMark' = e.start)
  <2> HIDE DEF C, D, U, V, n
  <2>1. /\ \A i : i \in U <=> i \in C /\ i + Limit > n
        /\ \A i : i \in V <=> i \in C \cup D /\ i + Limit > n + 1
    BY DEF U, V
  <2>2. \/ V = {}
        \/ V # {} /\ Max(V) = n + 1 /\ n + 1 \in D
        \/ V # {} /\ U # {} /\ Max(V) = Max(U) /\ Max(U) \in C
    BY <1>1, <1>9, <2>1, OneMore
  <2> QED
    BY <1>1, <1>9, <1>10, <2>2
<1> QED
    BY <1>6, <1>11

\* A mark is 0 or the start of a record of this actor.
LEMMA MarkIsStart ==
    ASSUME log \in Seq(Event)
    PROVE  /\ Watermark = 0 \/ \E i \in 1..Len(log) : log[i].mine /\ log[i].start = Watermark
           /\ CensusMark = 0 \/ \E i \in 1..Len(log) : log[i].mine /\ log[i].start = CensusMark
<1> DEFINE S == {i \in Newest : Watermarks(log[i])}
           T == {i \in Newest : CensusProbed(log[i])}
<1>1. S \in SUBSET (1..Len(log)) /\ T \in SUBSET (1..Len(log)) /\ Len(log) \in Nat
    BY LenProperties DEF Newest
<1>2. S # {} => Max(S) \in S
    BY <1>1, MaxIn
<1>3. T # {} => Max(T) \in T
    BY <1>1, MaxIn
<1>4. Watermark = 0 \/ (Max(S) \in S /\ Watermark = log[Max(S)].start)
    BY <1>2 DEF Watermark, StartOf
<1>5. CensusMark = 0 \/ (Max(T) \in T /\ CensusMark = log[Max(T)].start)
    BY <1>3 DEF CensusMark, StartOf
<1> QED
    BY <1>1, <1>4, <1>5 DEF Watermarks, CensusProbed

--------------------------------------------------------------------------------
\* An instant a window may open at and miss nothing that is committed from now on,
\* unless it is committed late.
Safe(t) ==
    /\ t \in Nat /\ t < now
    /\ \A c \in Claim : claim[c].st = "own" => t <= claim[c].at
    /\ \A c \in Claim : claim[c].st = "beside" => t <= claim[c].at \/ Behind(c)

\* The marks, where the run in pass 1 opened its window, and the start of one that
\* has read its scope.
LEMMA SafeMarks ==
    ASSUME CycleInv
    PROVE  /\ Safe(Watermark) /\ Safe(CensusMark)
           /\ \A r \in Runner : run[r].pc = "extract" => Safe(Opens(r))
           /\ \A r \in Runner : run[r].pc \in {"sweep", "census", "rest"} => Safe(run[r].start)
<1>1. /\ now \in Nat \ {0} /\ log \in Seq(Event)
      /\ \A c \in Claim : claim[c].at \in Nat
      /\ \A i \in 1..Len(log) : log[i].start \in Nat /\ log[i].start < now
      /\ \A r \in Runner : run[r].start \in Nat /\ run[r].mark \in Nat
                           /\ run[r].start < now /\ run[r].mark < now
  <2>1. \A i \in 1..Len(log) : log[i] \in Event
    BY ElementOfSeq DEF CycleInv, TypeOK
  <2>2. \A r \in Runner : run[r] \in Report
    BY DEF CycleInv, TypeOK
  <2> QED
    BY <2>1, <2>2 DEF CycleInv, TypeOK, Event, Report, Stamped
<1>2. Safe(0)
    BY <1>1 DEF Safe
<1>3. /\ \A t \in {Watermark, CensusMark} : t \in Nat /\ t < now
      /\ \A t \in {Watermark, CensusMark}, c \in Claim : claim[c].st = "own" => t <= claim[c].at
    BY <1>1, MarkIsStart DEF CycleInv, OwnDrafts
<1>4. Safe(Watermark) /\ Safe(CensusMark)
    BY <1>1, <1>3 DEF Safe, Behind
<1>5. ASSUME NEW r \in Runner, run[r].pc = "extract" PROVE Safe(Opens(r))
  <2>1. CASE run[r].store
    BY <1>2, <2>1 DEF Opens
  <2>2. CASE ~run[r].store
    <3>1. \A c \in Claim : claim[c].st = "own" => run[r].mark <= claim[c].at
      BY <1>5 DEF CycleInv, OwnDrafts
    <3>2. \A c \in Claim : run[r].mark <= claim[c].at \/ Behind(c)
      BY <1>1, <1>5, <2>2 DEF Behind
    <3> QED
      BY <1>1, <2>2, <3>1, <3>2 DEF Safe, Opens
  <2> QED
    BY <2>1, <2>2
<1>6. ASSUME NEW r \in Runner, run[r].pc \in {"sweep", "census", "rest"} PROVE Safe(run[r].start)
  <2>1. \A c \in Claim : claim[c].st # "own"
    BY <1>6 DEF CycleInv, OwnDrafts, LockOK, Stage
  <2>2. \A c \in Claim : run[r].start <= claim[c].at \/ Behind(c)
    BY <1>1, <1>6 DEF Behind
  <2> QED
    BY <1>1, <2>1, <2>2 DEF Safe
<1> QED
    BY <1>4, <1>5, <1>6

\* The window after a step.
WindowAfter(t) ==
    {c \in Believed' : claim'[c].at >= t \/ claim'[c].entry >= t \/ claim'[c].redone >= t}

\* A window that opens at 0 is the whole store, and later ones are smaller.
LEMMA WindowFacts ==
    ASSUME CycleInv
    PROVE  Window(0) = Believed /\ \A t : Window(t) \subseteq Believed
BY DEF CycleInv, TypeOK, Window, Believed

\* What a writer's step leaves uncompared is in every window that opens at a safe
\* instant, or is late (the write protocol's stamps, _delta_scope_ids).
LEMMA BeliefStep ==
    ASSUME CycleInv, NEW c \in Claim,
           Draft(c) \/ Commit(c) \/ Reclassify(c), NEW t, Safe(t)
    PROVE  /\ SweepOwes' \subseteq SweepOwes \cup WindowAfter(t)
           /\ CensusOwes' \subseteq CensusOwes \cup WindowAfter(t)
           /\ \A u \in Nat : Window(u) \subseteq WindowAfter(u)
           /\ \A u : WindowAfter(u) \subseteq Window(u) \cup WindowAfter(t) \cup late'
           /\ late \subseteq late' \cup WindowAfter(t) /\ late' \subseteq Believed'
           /\ Believed \subseteq Believed'
<1>1. /\ claim \in [Claim -> [st : Kinds \cup {"none", "in"}, at : Nat, entry : Nat, redone : Nat]]
      /\ now \in Nat /\ t \in Nat /\ t < now /\ late \subseteq Believed
    BY DEF CycleInv, TypeOK, Safe
<1>2. \A d \in Claim \ {c} : claim'[d] = claim[d]
    BY <1>1 DEF Draft, Commit, Reclassify
<1>3. \A d \in Claim \ {c} : (d \in Believed' <=> d \in Believed)
                             /\ \A u : d \in WindowAfter(u) <=> d \in Window(u)
    BY <1>2 DEF Believed, Window, WindowAfter
<1>4. /\ c \in Believed => c \in Believed' /\ \A u \in Nat : c \in Window(u) => c \in WindowAfter(u)
      /\ c \in Believed' => \/ c \in WindowAfter(t) \/ c \in late'
                            \/ c \in Believed /\ claim'[c] = claim[c]
  <2>1. CASE Draft(c)
    BY <1>1, <2>1, ConsolidationAssumption DEF Draft, Believed
  <2>2. CASE Commit(c)
    <3>1. claim[c].st \in {"fresh", "own", "beside"}
      BY <2>2, ConsolidationAssumption DEF Commit
    <3>2. CASE claim[c].st = "fresh"
      <4>1. claim'[c].entry = now /\ claim'[c].st = "in"
        BY <1>1, <2>2, <3>2 DEF Commit
      <4> QED
        BY <1>1, <3>2, <4>1 DEF Believed, WindowAfter
    <3>3. CASE claim[c].st = "own"
      <4>1. claim'[c].at = claim[c].at /\ claim'[c].st = "in" /\ claim[c].at \in Nat
        BY <1>1, <2>2, <3>3 DEF Commit
      <4>2. t <= claim[c].at
        BY <3>3 DEF Safe
      <4> QED
        BY <1>1, <3>3, <4>1, <4>2 DEF Believed, WindowAfter
    <3>4. CASE claim[c].st = "beside"
      <4>1. claim'[c].at = claim[c].at /\ claim'[c].st = "in" /\ claim[c].at \in Nat
        BY <1>1, <2>2, <3>4 DEF Commit
      <4>2. t <= claim[c].at \/ c \in late'
        BY <2>2, <3>4 DEF Safe, Commit
      <4> QED
        BY <1>1, <3>4, <4>1, <4>2 DEF Believed, WindowAfter
    <3> QED
      BY <3>1, <3>2, <3>3, <3>4
  <2>3. CASE Reclassify(c)
    <3>1. /\ claim'[c].st = "in" /\ claim[c].st = "in" /\ claim'[c].redone = now
          /\ claim'[c].at = claim[c].at /\ claim'[c].entry = claim[c].entry
          /\ claim[c].redone = 0
      BY <1>1, <2>3 DEF Reclassify
    <3>2. c \in Believed /\ c \in Believed' /\ c \in WindowAfter(t)
      BY <1>1, <3>1 DEF Believed, WindowAfter
    <3>3. \A u \in Nat : c \in Window(u) => c \in WindowAfter(u)
      <4> SUFFICES ASSUME NEW u \in Nat, c \in Window(u) PROVE c \in WindowAfter(u)
        OBVIOUS
      <4>1. claim[c].at >= u \/ claim[c].entry >= u \/ 0 >= u
        BY <3>1 DEF Window
      <4> QED
        BY <1>1, <3>1, <3>2, <4>1 DEF WindowAfter
    <3> QED
      BY <3>2, <3>3
  <2> QED
    BY <2>1, <2>2, <2>3
<1>5. /\ claim'[c] = claim[c] => /\ swept \cup unswept \cup late \subseteq swept' \cup unswept' \cup late'
                                 /\ probed \cup unprobed \cup late \subseteq probed' \cup unprobed' \cup late'
      /\ (swept \cup unswept \cup late) \ {c} \subseteq swept' \cup unswept' \cup late'
      /\ (probed \cup unprobed \cup late) \ {c} \subseteq probed' \cup unprobed' \cup late'
      /\ late \ {c} \subseteq late' /\ late' \subseteq late \cup {c}
      /\ c \in late => c \in late' \/ c \in WindowAfter(t)
      /\ c \in late' => c \in Believed'
  <2>1. CASE Draft(c)
    BY <1>1, <1>4, <2>1 DEF Draft, compared
  <2>2. CASE Commit(c)
    <3>1. c \in Believed'
      BY <1>1, <2>2 DEF Commit, Believed
    <3> QED
      BY <2>2, <3>1 DEF Commit, compared
  <2>3. CASE Reclassify(c)
    <3>1. claim'[c].redone = now /\ claim[c].redone = 0 /\ claim'[c].st = "in"
      BY <1>1, <2>3 DEF Reclassify
    <3>2. claim'[c] # claim[c] /\ c \in WindowAfter(t)
      BY <1>1, <3>1 DEF CycleInv, TypeOK, WindowAfter, Believed
    <3> QED
      BY <2>3, <3>2 DEF Reclassify
  <2> QED
    BY <2>1, <2>2, <2>3
<1>6. Believed' \subseteq Claim /\ Believed \subseteq Claim
    BY DEF Believed
<1>7. \A u : WindowAfter(u) \subseteq Claim /\ Window(u) \subseteq Claim
    BY DEF WindowAfter, Window, Believed
<1>8. ASSUME NEW u, c \in WindowAfter(u) PROVE c \in Window(u) \cup WindowAfter(t) \cup late'
    BY <1>4, <1>8 DEF WindowAfter, Window
<1>9. SweepOwes' \subseteq SweepOwes \cup WindowAfter(t)
    BY <1>3, <1>4, <1>5, <1>6 DEF SweepOwes
<1>10. CensusOwes' \subseteq CensusOwes \cup WindowAfter(t)
    BY <1>3, <1>4, <1>5, <1>6 DEF CensusOwes
<1>11. \A u \in Nat : Window(u) \subseteq WindowAfter(u)
  <2>1. \A u : Window(u) \subseteq Believed
    BY DEF Window
  <2> QED
    BY <1>3, <1>4, <1>7, <2>1
<1>12. \A u : WindowAfter(u) \subseteq Window(u) \cup WindowAfter(t) \cup late'
    BY <1>3, <1>7, <1>8
<1>13. Believed \subseteq Believed'
    BY <1>3, <1>4, <1>6
<1>14. late \subseteq late' \cup WindowAfter(t) /\ late' \subseteq Believed'
    BY <1>1, <1>5, <1>13
<1> QED
    BY <1>9, <1>10, <1>11, <1>12, <1>13, <1>14

Writes == \E c \in Claim : Draft(c) \/ Commit(c) \/ Reclassify(c)

\* A step that is no writer's leaves every belief and every window as it is; a
\* killed run takes only drafts with it.
LEMMA OtherStep ==
    ASSUME CycleInv, [Next]_vars, ~Writes
    PROVE  /\ Believed' = Believed /\ \A u : WindowAfter(u) = Window(u)
           /\ \A c \in Claim : claim'[c] = claim[c]
                               \/ (claim[c].st = "own" /\ claim'[c].st = "none"
                                   /\ claim'[c].at = 0 /\ claim'[c].entry = claim[c].entry
                                   /\ claim'[c].redone = claim[c].redone)
           /\ claim' \in [Claim -> [st : Kinds \cup {"none", "in"}, at : Nat, entry : Nat, redone : Nat]]
           /\ SweepOwes' \subseteq SweepOwes /\ CensusOwes' \subseteq CensusOwes /\ late' = late
<1>1. claim \in [Claim -> [st : Kinds \cup {"none", "in"}, at : Nat, entry : Nat, redone : Nat]]
    BY DEF CycleInv, TypeOK
<1>2. \/ claim' = claim
      \/ claim' = [c \in Claim |-> IF claim[c].st # "own" THEN claim[c]
                                   ELSE [claim[c] EXCEPT !.st = "none", !.at = 0]]
    BY DEF Next, Writes, Begin, Cycle, Raise, Acquire, Extract, Sweep, Census, Record, Release, Crash,
       Audit, vars
<1>3. \A c \in Claim : claim'[c] = claim[c]
                       \/ (claim[c].st = "own" /\ claim'[c].st = "none"
                           /\ claim'[c].at = 0 /\ claim'[c].entry = claim[c].entry
                           /\ claim'[c].redone = claim[c].redone)
    BY <1>1, <1>2
<1>4. claim' \in [Claim -> [st : Kinds \cup {"none", "in"}, at : Nat, entry : Nat, redone : Nat]]
  <2> DEFINE Stamps == [st : Kinds \cup {"none", "in"}, at : Nat, entry : Nat, redone : Nat]
  <2>1. \A c \in Claim : claim[c] \in Stamps
                         /\ [claim[c] EXCEPT !.st = "none", !.at = 0] \in Stamps
    BY <1>1
  <2> HIDE DEF Stamps
  <2>2. claim' \in [Claim -> Stamps]
    BY <1>1, <1>2, <2>1 DEF Stamps
  <2> QED
    BY <2>2 DEF Stamps
<1>5. Believed' = Believed
    BY <1>3 DEF Believed
<1>6. \A c \in Believed : claim'[c] = claim[c]
    BY <1>3 DEF Believed
<1>7. \A u : WindowAfter(u) = Window(u)
    BY <1>5, <1>6 DEF WindowAfter, Window
<1>8. /\ swept \cup unswept \subseteq swept' \cup unswept'
      /\ probed \cup unprobed \subseteq probed' \cup unprobed'
  <2>1. ASSUME NEW r \in Runner, Sweep(r) PROVE swept \cup unswept \subseteq swept' \cup unswept'
    BY <2>1 DEF Sweep
  <2>2. ASSUME NEW r \in Runner, Census(r)
        PROVE  probed \cup unprobed \subseteq probed' \cup unprobed'
    BY <2>2 DEF Census
  <2>3. ASSUME ~\E r \in Runner : Sweep(r) PROVE swept' = swept /\ unswept' = unswept
    BY <2>3 DEF Next, Writes, Begin, Cycle, Raise, Acquire, Extract, Census, Record, Release,
       Crash, Audit, vars, compared
  <2>4. ASSUME ~\E r \in Runner : Census(r) PROVE probed' = probed /\ unprobed' = unprobed
    BY <2>4 DEF Next, Writes, Begin, Cycle, Raise, Acquire, Extract, Sweep, Record, Release,
       Crash, Audit, vars, compared
  <2> QED
    BY <2>1, <2>2, <2>3, <2>4
<1>9. late' = late
    BY DEF Next, Writes, Begin, Cycle, Raise, Acquire, Extract, Sweep, Census, Record, Release,
       Crash, Audit, vars
<1>10. SweepOwes' \subseteq SweepOwes /\ CensusOwes' \subseteq CensusOwes
    BY <1>5, <1>8, <1>9 DEF SweepOwes, CensusOwes
<1> QED
    BY <1>3, <1>4, <1>5, <1>7, <1>9, <1>10

\* Before the first night.
LEMMA InitCycleInv == Init => CycleInv
<1> SUFFICES ASSUME Init PROVE CycleInv
    OBVIOUS
<1>1. NoReport \in Report /\ NoReport.pc = "idle" /\ NoReport.start = 0 /\ NoReport.mark = 0
      /\ NoReport.scope = {}
    BY DEF NoReport, Report
<1>2. \A r \in Runner : run[r] = NoReport
    BY DEF Init
<1>3. Believed = {}
    BY DEF Init, Believed
<1>4. log = <<>> /\ log \in Seq(Event) /\ Len(log) = 0
    BY EmptySeq DEF Init
<1>5. claim \in [Claim -> [st : Kinds \cup {"none", "in"}, at : Nat, entry : Nat, redone : Nat]]
    BY DEF Init
<1>6. TypeOK
    BY <1>1, <1>2, <1>4, <1>5 DEF Init, TypeOK
<1>7. LockOK
    BY <1>1, <1>2, ConsolidationAssumption DEF Init, LockOK, Stage
<1>8. Stamped /\ OwnDrafts
    BY <1>1, <1>2 DEF Init, Stamped, OwnDrafts
<1>9. WindowOK /\ WorkDone /\ OnRecord
    BY <1>1, <1>2 DEF NoReport, WindowOK, WorkDone, OnRecord
<1>10. OnlyLateFallBetween /\ SweepMissesNothing
    BY <1>3 DEF OnlyLateFallBetween, SweepMissesNothing, CensusOwes, SweepOwes
<1> QED
    BY <1>6, <1>7, <1>8, <1>9, <1>10 DEF CycleInv

\* What a pass makes of the report.
LEMMA EndPassFacts ==
    ASSUME CycleInv, NEW r \in Runner, NEW o, NEW p \in Stage
    PROVE  LET e == EndPass(r, o, p) IN
           /\ e \in Report /\ e.pc = p
           /\ e.start = run[r].start /\ e.store = run[r].store /\ e.sem = run[r].sem
           /\ e.mark = run[r].mark /\ e.scope = run[r].scope /\ e.census = run[r].census
           /\ e.ok => run[r].ok /\ o # "failed"
           /\ ~e.limited => ~run[r].limited /\ o \notin {"over", "cut"}
           /\ ~e.cut => ~run[r].cut /\ o # "cut"
<1>1. run[r] \in Report
    BY DEF CycleInv, TypeOK
<1> QED
    BY <1>1 DEF EndPass, Report

\* Every step keeps the reports well typed and their scopes in the store.
LEMMA ReportStep ==
    ASSUME CycleInv, [Next]_vars
    PROVE  run' \in [Runner -> Report] /\ \A r \in Runner : run'[r].scope \subseteq Believed
<1>1. /\ run \in [Runner -> Report] /\ now \in Nat /\ log \in Seq(Event)
      /\ \A r \in Runner : run[r].scope \subseteq Believed
      /\ \A r \in Runner : run[r] \in Report
    BY DEF CycleInv, TypeOK
<1>2. NoReport \in Report /\ NoReport.scope = {}
    BY DEF NoReport, Report
<1>3. Watermark \in Nat
    BY SafeMarks DEF Safe
<1>4. Believed \subseteq Claim /\ \A u : Window(u) \subseteq Believed
    BY DEF Believed, Window
<1>5. ASSUME NEW r \in Runner, NEW e \in Report, e.scope \subseteq Believed,
             run' = [run EXCEPT ![r] = e]
      PROVE  run' \in [Runner -> Report] /\ \A s \in Runner : run'[s].scope \subseteq Believed
  <2>1. \A s \in Runner : run'[s] = IF s = r THEN e ELSE run[s]
    BY <1>1, <1>5
  <2>2. run' \in [Runner -> Report]
    BY <1>1, <1>5
  <2> QED
    BY <1>1, <1>5, <2>1, <2>2
<1> DEFINE Goal == run' \in [Runner -> Report] /\ \A s \in Runner : run'[s].scope \subseteq Believed
<1>6. ASSUME NEW r \in Runner, Begin(r) PROVE Goal
  <2> DEFINE e == [run[r] EXCEPT !.pc = "asked", !.start = now]
  <2>1. e \in Report /\ e.scope = run[r].scope
    BY <1>1 DEF Report
  <2>2. run' = [run EXCEPT ![r] = e]
    BY <1>1, <1>6 DEF Begin
  <2> HIDE DEF e
  <2> QED
    BY <1>1, <1>5, <2>1, <2>2
<1>7. ASSUME NEW r \in Runner, Acquire(r) PROVE Goal
  <2>1. CASE holder = NoRunner
    <3>1. PICK store \in BOOLEAN, sem \in BOOLEAN :
            run' = [run EXCEPT ![r].pc = "extract", ![r].mark = Watermark,
                               ![r].store = store, ![r].sem = sem]
      BY <1>7, <2>1 DEF Acquire
    <3> DEFINE e == [run[r] EXCEPT !.pc = "extract", !.mark = Watermark,
                                   !.store = store, !.sem = sem]
    <3>2. e \in Report /\ e.scope = run[r].scope
      BY <1>1, <1>3 DEF Report, Stage
    <3>3. run' = [run EXCEPT ![r] = e]
      BY <1>1, <3>1
    <3> HIDE DEF e
    <3> QED
      BY <1>1, <1>5, <3>2, <3>3
  <2>2. CASE holder # NoRunner
    BY <1>2, <1>5, <1>7, <2>2 DEF Acquire
  <2> QED
    BY <2>1, <2>2
<1>8. ASSUME NEW r \in Runner, Extract(r) PROVE Goal
  <2>1. PICK o : run' = [run EXCEPT ![r] = [EndPass(r, o, "sweep") EXCEPT !.scope = Scope(r)]]
    BY <1>8 DEF Extract
  <2> DEFINE b == EndPass(r, o, "sweep")
             e == [b EXCEPT !.scope = Scope(r)]
  <2>2. b \in Report
    BY EndPassFacts DEF Stage
  <2>3. Scope(r) \subseteq Believed
    BY <1>4 DEF Scope
  <2>4. e \in Report /\ e.scope = Scope(r)
    <3> HIDE DEF b
    <3> QED
      BY <1>4, <2>2, <2>3 DEF Report
  <2> HIDE DEF e
  <2> QED
    BY <1>5, <2>1, <2>3, <2>4 DEF e
<1>9. ASSUME NEW r \in Runner, Sweep(r) PROVE Goal
  <2>1. PICK o : run' = [run EXCEPT ![r] = EndPass(r, o, "census")]
    BY <1>9 DEF Sweep
  <2>2. EndPass(r, o, "census") \in Report /\ EndPass(r, o, "census").scope = run[r].scope
    BY EndPassFacts DEF Stage
  <2> QED
    BY <1>1, <1>5, <2>1, <2>2
<1>10. ASSUME NEW r \in Runner, Census(r) PROVE Goal
  <2>1. CASE run' = [run EXCEPT ![r].pc = "rest"]
    <3> DEFINE e == [run[r] EXCEPT !.pc = "rest"]
    <3>1. e \in Report /\ e.scope = run[r].scope
      BY <1>1 DEF Report, Stage
    <3>2. run' = [run EXCEPT ![r] = e]
      BY <1>1, <2>1
    <3> HIDE DEF e
    <3> QED
      BY <1>1, <1>5, <3>1, <3>2
  <2>2. CASE \E o : run' = [run EXCEPT ![r] =
                 [EndPass(r, o, "rest") EXCEPT !.census = o \in {"ran", "cut"}]]
    <3>1. PICK o : run' = [run EXCEPT ![r] =
                 [EndPass(r, o, "rest") EXCEPT !.census = o \in {"ran", "cut"}]]
      BY <2>2
    <3> DEFINE b == EndPass(r, o, "rest")
               z == o \in {"ran", "cut"}
               e == [b EXCEPT !.census = z]
    <3>2. b \in Report /\ b.scope = run[r].scope
      BY EndPassFacts DEF Stage
    <3>3. e \in Report /\ e.scope = run[r].scope
      <4>1. z \in BOOLEAN
        OBVIOUS
      <4> HIDE DEF b, z
      <4> QED
        BY <3>2, <4>1 DEF Report
    <3> HIDE DEF e
    <3> QED
      BY <1>1, <1>5, <3>1, <3>3 DEF e
  <2> QED
    BY <1>10, <2>1, <2>2 DEF Census
<1>11. ASSUME NEW r \in Runner, Record(r) PROVE Goal
  <2> DEFINE e == [NoReport EXCEPT !.pc = "recorded", !.start = run[r].start]
  <2>1. run[r].start \in Nat
    BY <1>1 DEF Report
  <2>2. e \in Report /\ e.scope = {}
    BY <1>2, <2>1 DEF Report, Stage
  <2>3. run' = [run EXCEPT ![r] = e]
    BY <1>11 DEF Record
  <2> HIDE DEF e
  <2> QED
    BY <1>5, <2>2, <2>3
<1>12. ASSUME NEW r \in Runner, Release(r) \/ Raise(r) \/ Crash(r) PROVE Goal
    BY <1>2, <1>5, <1>12 DEF Release, Raise, Crash
<1>13. ASSUME UNCHANGED run PROVE Goal
    BY <1>1, <1>13
<1> HIDE DEF Goal
<1>14. Goal
    BY <1>6, <1>7, <1>8, <1>9, <1>10, <1>11, <1>12, <1>13
       DEF Next, Cycle, Draft, Commit, Reclassify, Audit, vars
<1> QED
    BY <1>14 DEF Goal

\* A step leaves the log alone, or appends the record of the run that ends its
\* passes, or that of an audit.
LEMMA LogStep ==
    ASSUME CycleInv, [Next]_vars
    PROVE  \/ log' = log
           \/ \E e \in Event : /\ log' = Append(log, e) /\ ~e.mine /\ e.start < now'
                               /\ Audit
           \/ \E e \in Event, r \in Runner :
                 /\ log' = Append(log, e) /\ e.start = run[r].start
                 /\ e.mine /\ Record(r)
                 /\ Watermarks(e) => run[r].ok /\ ~run[r].limited /\ run[r].sem
                 /\ CensusProbed(e) => run[r].census /\ ~run[r].cut
<1>1. now \in Nat
    BY DEF CycleInv, TypeOK
<1>2. ASSUME Audit
      PROVE  \E e \in Event : log' = Append(log, e) /\ ~e.mine /\ e.start < now'
  <2> DEFINE e == [mine |-> FALSE, start |-> now, ok |-> TRUE, degraded |-> FALSE, census |-> TRUE]
  <2>1. e \in Event /\ ~e.mine /\ e.start = now
    BY <1>1 DEF Event
  <2>2. log' = Append(log, e) /\ now < now'
    BY <1>1, <1>2 DEF Audit
  <2> HIDE DEF e
  <2> QED
    BY <2>1, <2>2
<1>3. ASSUME NEW r \in Runner, Record(r)
      PROVE  \E e \in Event : /\ log' = Append(log, e) /\ e.start = run[r].start /\ e.mine
                              /\ Watermarks(e) => run[r].ok /\ ~run[r].limited /\ run[r].sem
                              /\ CensusProbed(e) => run[r].census /\ ~run[r].cut
  <2>1. PICK o : log' = Append(log, RecordOf(EndPass(r, o, "recorded")))
    BY <1>3 DEF Record
  <2> DEFINE b == EndPass(r, o, "recorded")
             e == RecordOf(b)
  <2>2. /\ b \in Report /\ b.start = run[r].start /\ b.sem = run[r].sem
        /\ b.census = run[r].census
        /\ b.ok => run[r].ok
        /\ ~b.limited => ~run[r].limited
        /\ ~b.cut => ~run[r].cut
    BY EndPassFacts DEF Stage
  <2> HIDE DEF b
  <2>3. /\ e \in Event /\ e.mine /\ e.start = run[r].start
        /\ Watermarks(e) => b.ok /\ ~b.limited /\ b.sem
        /\ CensusProbed(e) => b.census /\ ~b.cut
    BY <2>2 DEF RecordOf, Report, Event, Watermarks, CensusProbed
  <2> HIDE DEF e
  <2>4. log' = Append(log, e)
    BY <2>1 DEF b, e
  <2> QED
    BY <2>2, <2>3, <2>4
<1>4. CASE ~Audit /\ ~\E r \in Runner : Record(r)
    BY <1>4 DEF Next, Begin, Cycle, Raise, Acquire, Extract, Sweep, Census, Release, Crash,
       Draft, Commit, Reclassify, vars
<1> QED
    BY <1>2, <1>3, <1>4

\* The clock only moves on.
LEMMA ClockStep == ASSUME CycleInv, [Next]_vars PROVE now' \in Nat \ {0} /\ now <= now'
<1>1. now \in Nat \ {0}
    BY DEF CycleInv, TypeOK
<1>2. now' = now \/ now' = now + 1
    BY DEF Next, Begin, Cycle, Raise, Acquire, Extract, Sweep, Census, Record, Release,
       Crash, Audit, Draft, Commit, Reclassify, vars
<1> QED
    BY <1>1, <1>2

\* What the census pass makes of its report and of what is probed.
LEMMA CensusReport ==
    ASSUME CycleInv, NEW r \in Runner, Census(r)
    PROVE  /\ run'[r].pc = "rest" /\ run'[r].start = run[r].start
           /\ run'[r].mark = run[r].mark /\ run'[r].sem = run[r].sem
           /\ run'[r].ok => run[r].ok
           /\ ~run'[r].limited => ~run[r].limited
           /\ run'[r].census /\ ~run'[r].cut =>
                 \/ run[r].census
                 \/ /\ CensusScope(r) \subseteq probed' \cup unprobed'
                    /\ probed \cup unprobed \subseteq probed' \cup unprobed'
<1>1. run \in [Runner -> Report] /\ run[r] \in Report
    BY DEF CycleInv, TypeOK
<1>2. CASE run' = [run EXCEPT ![r].pc = "rest"]
  <2>1. run'[r] = [run[r] EXCEPT !.pc = "rest"]
    BY <1>1, <1>2
  <2> QED
    BY <1>1, <2>1 DEF Report
<1>3. ASSUME NEW o, run' = [run EXCEPT ![r] =
                 [EndPass(r, o, "rest") EXCEPT !.census = o \in {"ran", "cut"}]],
             unprobed' = (IF o = "ran" THEN unprobed \cup CensusScope(r) ELSE unprobed) \ probed',
             probed \subseteq probed'
      PROVE  /\ run'[r].pc = "rest" /\ run'[r].start = run[r].start
             /\ run'[r].mark = run[r].mark /\ run'[r].sem = run[r].sem
             /\ run'[r].ok => run[r].ok
             /\ ~run'[r].limited => ~run[r].limited
             /\ run'[r].census /\ ~run'[r].cut =>
                   /\ CensusScope(r) \subseteq probed' \cup unprobed'
                   /\ probed \cup unprobed \subseteq probed' \cup unprobed'
  <2> DEFINE b == EndPass(r, o, "rest")
             z == o \in {"ran", "cut"}
  <2>1. run'[r] = [b EXCEPT !.census = z]
    BY <1>1, <1>3
  <2>2. /\ b \in Report /\ b.pc = "rest" /\ b.start = run[r].start /\ b.mark = run[r].mark
        /\ b.sem = run[r].sem /\ (b.ok => run[r].ok) /\ (~b.limited => ~run[r].limited)
        /\ (~b.cut => o # "cut")
    BY EndPassFacts DEF Stage
  <2> HIDE DEF b
  <2>3. /\ run'[r].pc = b.pc /\ run'[r].start = b.start /\ run'[r].mark = b.mark
        /\ run'[r].sem = b.sem /\ run'[r].ok = b.ok /\ run'[r].limited = b.limited
        /\ run'[r].cut = b.cut /\ run'[r].census = z
    BY <2>1, <2>2 DEF Report
  <2> QED
    BY <1>3, <2>2, <2>3
<1> QED
    BY <1>2, <1>3 DEF Census

\* Where each report stands and when it started, from one step to the next.
LEMMA PcStep ==
    ASSUME CycleInv, [Next]_vars, NEW s \in Runner
    PROVE  \/ run'[s] = run[s]
           \/ run[s].pc = "idle" /\ run'[s] = [run[s] EXCEPT !.pc = "asked", !.start = now]
              /\ now' = now + 1 /\ Begin(s)
           \/ /\ run'[s] = NoReport
              /\ Release(s) \/ Raise(s) \/ Crash(s) \/ (Acquire(s) /\ holder # NoRunner)
           \/ Cycle(s) /\ run'[s].pc \in Stage /\ run'[s].start = run[s].start
<1>1. run \in [Runner -> Report] /\ \A r \in Runner : run[r] \in Report
    BY DEF CycleInv, TypeOK
<1>2. ASSUME NEW r \in Runner, r # s, Begin(r) \/ Cycle(r) \/ Crash(r) PROVE run'[s] = run[s]
    BY <1>1, <1>2 DEF Begin, Cycle, Raise, Acquire, Extract, Sweep, Census, Record, Release, Crash
<1>3. ASSUME Begin(s)
      PROVE  run[s].pc = "idle" /\ run'[s] = [run[s] EXCEPT !.pc = "asked", !.start = now]
             /\ now' = now + 1
    BY <1>1, <1>3 DEF Begin
<1>4. ASSUME Release(s) \/ Raise(s) \/ Crash(s) \/ (Acquire(s) /\ holder # NoRunner)
      PROVE  run'[s] = NoReport
    BY <1>1, <1>4 DEF Release, Raise, Crash, Acquire
<1>5. ASSUME Acquire(s), holder = NoRunner
      PROVE  run'[s].pc = "extract" /\ run'[s].start = run[s].start
  <2>1. PICK store, sem \in BOOLEAN :
          run' = [run EXCEPT ![s].pc = "extract", ![s].mark = Watermark,
                             ![s].store = store, ![s].sem = sem]
    BY <1>5 DEF Acquire
  <2>2. run'[s] = [run[s] EXCEPT !.pc = "extract", !.mark = Watermark,
                                 !.store = store, !.sem = sem]
    BY <1>1, <2>1
  <2>3. run[s] \in Report
    BY <1>1
  <2> QED
    BY <2>2, <2>3 DEF Report
<1>6. ASSUME Extract(s) PROVE run'[s].pc = "sweep" /\ run'[s].start = run[s].start
  <2>1. PICK o : run' = [run EXCEPT ![s] = [EndPass(s, o, "sweep") EXCEPT !.scope = Scope(s)]]
    BY <1>6 DEF Extract
  <2> QED
    BY <1>1, <2>1 DEF EndPass, Report
<1>7. ASSUME Sweep(s) PROVE run'[s].pc = "census" /\ run'[s].start = run[s].start
    BY <1>1, <1>7 DEF Sweep, EndPass, Report
<1>8. ASSUME Census(s) PROVE run'[s].pc = "rest" /\ run'[s].start = run[s].start
    BY <1>8, CensusReport
<1>9. ASSUME Record(s) PROVE run'[s].pc = "recorded" /\ run'[s].start = run[s].start
    BY <1>1, <1>9 DEF Record, NoReport, Report
<1>10. ASSUME run' = run PROVE run'[s] = run[s]
    BY <1>10
<1>11. {"extract", "sweep", "census", "rest", "recorded"} \subseteq Stage
    BY DEF Stage
<1>12. CASE \E r \in Runner : Begin(r) \/ Cycle(r) \/ Crash(r)
  <2>1. PICK r \in Runner : Begin(r) \/ Cycle(r) \/ Crash(r)
    BY <1>12
  <2>2. CASE r # s
    BY <1>2, <2>1, <2>2
  <2>3. CASE r = s
    BY <1>3, <1>4, <1>5, <1>6, <1>7, <1>8, <1>9, <1>11, <2>1, <2>3 DEF Cycle
  <2> QED
    BY <2>2, <2>3
<1>13. CASE run' = run
    BY <1>10, <1>13
<1> QED
    BY <1>12, <1>13 DEF Next, Draft, Commit, Reclassify, Audit, vars

\* Every step keeps the state well typed.
LEMMA TypeStep == ASSUME CycleInv, [Next]_vars PROVE TypeOK'
<1>1. /\ now \in Nat \ {0} /\ holder \in Runner \cup {NoRunner}
      /\ log \in Seq(Event) /\ kills \in Nat /\ raised \in Nat /\ audits \in Nat
      /\ claim \in [Claim -> [st : Kinds \cup {"none", "in"}, at : Nat, entry : Nat, redone : Nat]]
      /\ probed \cup unprobed \cup swept \cup unswept \cup late \subseteq Believed
      /\ \A r \in Runner : run[r].start < now /\ run[r].scope \subseteq Believed
                           /\ run[r].start \in Nat
      /\ \A i \in 1..Len(log) : log[i].start < now
    BY DEF CycleInv, TypeOK, Report
<1>2. now' \in Nat \ {0} /\ now <= now'
    BY ClockStep
<1>3. holder' \in Runner \cup {NoRunner} /\ kills' \in Nat /\ raised' \in Nat /\ audits' \in Nat
  <2>1. holder' \in Runner \cup {NoRunner}
    BY <1>1 DEF Next, Begin, Cycle, Raise, Acquire, Extract, Sweep, Census, Record, Release,
       Crash, Audit, Draft, Commit, Reclassify, vars
  <2>2. kills' \in {kills, kills + 1}
    BY DEF Next, Begin, Cycle, Raise, Acquire, Extract, Sweep, Census, Record, Release,
       Crash, Audit, Draft, Commit, Reclassify, vars
  <2>3. audits' \in {audits, audits + 1}
    BY DEF Next, Begin, Cycle, Raise, Acquire, Extract, Sweep, Census, Record, Release,
       Crash, Audit, Draft, Commit, Reclassify, vars
  <2>4. raised' \in {raised, raised + 1}
    BY DEF Next, Begin, Cycle, Raise, Acquire, Extract, Sweep, Census, Record, Release,
       Crash, Audit, Draft, Commit, Reclassify, vars
  <2> QED
    BY <1>1, <2>1, <2>2, <2>3, <2>4
<1>4. claim' \in [Claim -> [st : Kinds \cup {"none", "in"}, at : Nat, entry : Nat, redone : Nat]]
  <2> DEFINE Stamps == [st : Kinds \cup {"none", "in"}, at : Nat, entry : Nat, redone : Nat]
  <2>1. ASSUME NEW c \in Claim, Draft(c) \/ Commit(c) \/ Reclassify(c)
        PROVE  claim' \in [Claim -> Stamps]
    <3>1. claim[c] \in Stamps /\ claim \in [Claim -> Stamps]
      BY <1>1
    <3>2. CASE Draft(c)
      <4>1. PICK k \in Kinds : claim' = [claim EXCEPT ![c].st = k, ![c].at = now]
        BY <3>2 DEF Draft
      <4> QED
        BY <1>1, <3>1, <4>1
    <3>3. CASE Commit(c)
      <4>1. CASE claim' = [claim EXCEPT ![c].st = "in", ![c].entry = now]
        BY <1>1, <3>1, <4>1
      <4>2. CASE claim' = [claim EXCEPT ![c].st = "in"]
        BY <1>1, <3>1, <4>2
      <4> QED
        BY <3>3, <4>1, <4>2 DEF Commit
    <3>4. CASE Reclassify(c)
      BY <1>1, <3>1, <3>4 DEF Reclassify
    <3> QED
      BY <2>1, <3>2, <3>3, <3>4
  <2>2. CASE Writes
    BY <2>1, <2>2 DEF Writes
  <2> QED
    BY <2>2, OtherStep
<1>5. Believed \subseteq Believed'
  <2>1. CASE Writes
    BY <2>1, SafeMarks, BeliefStep DEF Writes
  <2> QED
    BY <2>1, OtherStep
<1>6. probed' \cup unprobed' \cup swept' \cup unswept' \cup late' \subseteq Believed'
  <2>1. ASSUME NEW r \in Runner, Sweep(r)
        PROVE  swept' \cup unswept' \subseteq Believed /\ probed' = probed /\ unprobed' = unprobed
    <3>1. PICK o \in Outcomes(r) : \E S \in Compared(o, run[r].scope) :
            /\ swept' = swept \cup S
            /\ unswept' = (IF o \in {"ran", "off"} THEN unswept \cup run[r].scope ELSE unswept) \ swept'
      BY <2>1 DEF Sweep
    <3>2. Compared(o, run[r].scope) \subseteq SUBSET run[r].scope
      BY DEF Compared
    <3> QED
      BY <1>1, <2>1, <3>1, <3>2 DEF Sweep
  <2>2. ASSUME NEW r \in Runner, Census(r)
        PROVE  probed' \cup unprobed' \subseteq Believed /\ swept' = swept /\ unswept' = unswept
    <3>1. CASE UNCHANGED <<probed, unprobed>>
      BY <1>1, <2>2, <3>1 DEF Census
    <3>2. CASE ~UNCHANGED <<probed, unprobed>>
      <4>1. PICK o : \E S \in Compared(o, CensusScope(r)) :
              /\ probed' = probed \cup S
              /\ unprobed' = (IF o = "ran" THEN unprobed \cup CensusScope(r) ELSE unprobed) \ probed'
        BY <2>2, <3>2 DEF Census
      <4>2. Compared(o, CensusScope(r)) \subseteq SUBSET CensusScope(r)
        BY DEF Compared
      <4>3. CensusScope(r) \subseteq Believed
        BY <1>1, WindowFacts DEF CensusScope
      <4> QED
        BY <1>1, <2>2, <4>1, <4>2, <4>3 DEF Census
    <3> QED
      BY <3>1, <3>2
  <2>3. CASE Writes
    <3>1. PICK c \in Claim : Draft(c) \/ Commit(c) \/ Reclassify(c)
      BY <2>3 DEF Writes
    <3>2. late' \subseteq Believed'
      BY <3>1, SafeMarks, BeliefStep
    <3>3. probed' \cup unprobed' \cup swept' \cup unswept' \subseteq Believed
      BY <1>1, <3>1 DEF Draft, Commit, Reclassify, compared
    <3> QED
      BY <1>5, <3>2, <3>3
  <2>4. CASE ~Writes
    <3>1. late' = late
      BY <2>4, OtherStep
    <3>2. CASE \E r \in Runner : Sweep(r) \/ Census(r)
      BY <1>1, <1>5, <2>1, <2>2, <3>1, <3>2
    <3>3. CASE ~\E r \in Runner : Sweep(r) \/ Census(r)
      <4>1. compared' = compared
        BY <2>4, <3>3 DEF Writes, Next, Begin, Cycle, Raise, Acquire, Extract, Record, Release,
           Crash, Audit, vars
      <4> QED
        BY <1>1, <1>5, <3>1, <4>1 DEF compared
    <3> QED
      BY <3>2, <3>3
  <2> QED
    BY <2>3, <2>4
<1>7. /\ log' \in Seq(Event) /\ \A i \in 1..Len(log') : log'[i].start < now'
  <2>1. \A i \in 1..Len(log) : log[i].start \in Nat /\ log[i].start < now'
    <3>1. \A i \in 1..Len(log) : log[i] \in Event
      BY <1>1, ElementOfSeq
    <3> QED
      BY <1>1, <1>2, <3>1 DEF Event
  <2>2. CASE log' = log
    BY <1>1, <2>1, <2>2
  <2>3. ASSUME NEW e \in Event, log' = Append(log, e), e.start < now'
        PROVE  /\ log' \in Seq(Event) /\ \A i \in 1..Len(log') : log'[i].start < now'
    <3>1. /\ log' \in Seq(Event) /\ Len(log') = Len(log) + 1 /\ log'[Len(log) + 1] = e
          /\ \A i \in 1..Len(log) : log'[i] = log[i]
      BY <1>1, <2>3, AppendProperties
    <3>2. Len(log) \in Nat
      BY <1>1, LenProperties
    <3> QED
      BY <2>1, <2>3, <3>1, <3>2
  <2>4. \A r \in Runner : run[r].start < now'
    BY <1>1, <1>2
  <2> QED
    BY <2>2, <2>3, <2>4, LogStep
<1>8. ASSUME NEW s \in Runner PROVE run'[s].start < now'
  <2>1. NoReport.start = 0
    BY DEF NoReport
  <2>2. run[s] \in Report
    BY DEF CycleInv, TypeOK
  <2>3. run[s].start < now' /\ 0 < now'
    BY <1>1, <1>2
  <2>4. ASSUME run'[s] = [run[s] EXCEPT !.pc = "asked", !.start = now], now' = now + 1
        PROVE  run'[s].start < now'
    BY <1>1, <2>2, <2>4 DEF Report
  <2> QED
    BY <2>1, <2>3, <2>4, PcStep
<1>9. run' \in [Runner -> Report] /\ \A r \in Runner : run'[r].scope \subseteq Believed'
    BY <1>5, ReportStep
<1> QED
    BY <1>2, <1>3, <1>4, <1>6, <1>7, <1>8, <1>9 DEF TypeOK

\* The cycle lock passes from run to run (acquire_cycle_lock, release_cycle_lock).
LEMMA LockStep == ASSUME CycleInv, [Next]_vars PROVE LockOK'
<1>1. /\ holder \in Runner \cup {NoRunner} /\ NoRunner \notin Runner
      /\ \A s \in Runner : run[s] \in Report
      /\ \A s \in Runner : run[s].pc \in Stage <=> holder = s
    BY ConsolidationAssumption DEF CycleInv, TypeOK, LockOK
<1> SUFFICES ASSUME NEW s \in Runner PROVE run'[s].pc \in Stage <=> holder' = s
    BY DEF LockOK
<1>2. NoReport.pc \notin Stage /\ "asked" \notin Stage /\ "idle" \notin Stage
    BY DEF NoReport, Stage
<1>3. CASE \E r \in Runner : Acquire(r)
  <2>1. PICK r \in Runner : Acquire(r)
    BY <1>3
  <2>2. CASE holder = NoRunner
    <3>1. /\ holder' = r
          /\ \A q \in Runner \ {r} : run'[q] = run[q]
      BY <2>1, <2>2 DEF Acquire, CycleInv, TypeOK
    <3>2. run'[r].pc = "extract"
      <4>1. PICK store, sem \in BOOLEAN :
              run' = [run EXCEPT ![r].pc = "extract", ![r].mark = Watermark,
                                 ![r].store = store, ![r].sem = sem]
        BY <2>1, <2>2 DEF Acquire
      <4> QED
        BY <1>1, <4>1 DEF Report, CycleInv, TypeOK
    <3> QED
      BY <1>1, <2>2, <3>1, <3>2 DEF Stage
  <2>3. CASE holder # NoRunner
    <3>1. /\ holder' = holder /\ run'[r] = NoReport /\ run[r].pc = "asked"
          /\ \A q \in Runner \ {r} : run'[q] = run[q]
      BY <2>1, <2>3 DEF Acquire, CycleInv, TypeOK
    <3> QED
      BY <1>1, <1>2, <3>1
  <2> QED
    BY <2>2, <2>3
<1>4. CASE \E r \in Runner : Release(r) \/ Raise(r) \/ Crash(r)
  <2>1. PICK r \in Runner : Release(r) \/ Raise(r) \/ Crash(r)
    BY <1>4
  <2>2. /\ run'[r] = NoReport /\ \A q \in Runner \ {r} : run'[q] = run[q]
    BY <2>1 DEF Release, Raise, Crash, CycleInv, TypeOK
  <2>3. holder' = IF holder = r THEN NoRunner ELSE holder
    BY <1>1, <2>1 DEF Release, Raise, Crash, Stage
  <2> QED
    BY <1>1, <1>2, <2>2, <2>3
<1>5. CASE ~\E r \in Runner : Acquire(r) \/ Release(r) \/ Raise(r) \/ Crash(r)
  <2>1. holder' = holder
    BY <1>5 DEF Next, Begin, Cycle, Extract, Sweep, Census, Record, Audit, Draft, Commit,
       Reclassify, vars
  <2>2. run'[s].pc \in Stage <=> run[s].pc \in Stage
    <3>1. ASSUME Cycle(s) PROVE run[s].pc \in Stage
      BY <1>5, <3>1 DEF Cycle, Extract, Sweep, Census, Record, Stage
    <3>2. ASSUME run'[s] = [run[s] EXCEPT !.pc = "asked", !.start = now]
          PROVE  run'[s].pc = "asked"
      BY <1>1, <3>2 DEF Report
    <3> QED
      BY <1>2, <1>5, <3>1, <3>2, PcStep
  <2> QED
    BY <1>1, <2>1, <2>2
<1> QED
    BY <1>3, <1>4, <1>5

\* The window of a run opens where the watermark was when it took the lock.
LEMMA MarkStep ==
    ASSUME CycleInv, [Next]_vars, NEW s \in Runner
    PROVE  \/ run'[s].mark = run[s].mark
           \/ run'[s].mark = 0 /\ run'[s].pc \in {"idle", "recorded"}
           \/ run'[s].mark = Watermark /\ run'[s].pc = "extract" /\ Acquire(s)
              /\ holder = NoRunner /\ run[s].pc = "asked"
<1>1. run \in [Runner -> Report] /\ \A r \in Runner : run[r] \in Report
    BY DEF CycleInv, TypeOK
<1>2. NoReport.mark = 0 /\ NoReport.pc = "idle"
    BY DEF NoReport
<1>3. ASSUME Acquire(s), holder = NoRunner
      PROVE  run'[s].mark = Watermark /\ run'[s].pc = "extract" /\ run[s].pc = "asked"
  <2>1. PICK store, sem \in BOOLEAN :
          run' = [run EXCEPT ![s].pc = "extract", ![s].mark = Watermark,
                             ![s].store = store, ![s].sem = sem]
    BY <1>3 DEF Acquire
  <2> QED
    BY <1>1, <1>3, <2>1 DEF Acquire, Report
<1>4. ASSUME Extract(s) PROVE run'[s].mark = run[s].mark
  <2>1. PICK o : run' = [run EXCEPT ![s] = [EndPass(s, o, "sweep") EXCEPT !.scope = Scope(s)]]
    BY <1>4 DEF Extract
  <2> QED
    BY <1>1, <2>1 DEF EndPass, Report
<1>5. ASSUME Sweep(s) PROVE run'[s].mark = run[s].mark
    BY <1>1, <1>5 DEF Sweep, EndPass, Report
<1>6. ASSUME Census(s) PROVE run'[s].mark = run[s].mark
    BY <1>6, CensusReport
<1>7. ASSUME Record(s) PROVE run'[s].mark = 0 /\ run'[s].pc = "recorded"
    BY <1>1, <1>7 DEF Record, NoReport
<1>8. ASSUME run'[s] = [run[s] EXCEPT !.pc = "asked", !.start = now]
      PROVE  run'[s].mark = run[s].mark
    BY <1>1, <1>8 DEF Report
<1>9. Acquire(s) => holder = NoRunner \/ run'[s] = NoReport
    BY <1>1 DEF Acquire
<1>10. Release(s) \/ Raise(s) => run'[s] = NoReport
    BY <1>1 DEF Release, Raise
<1> QED
    BY <1>2, <1>3, <1>4, <1>5, <1>6, <1>7, <1>8, <1>9, <1>10, PcStep DEF Cycle

\* Every stamp is of an instant before now.
LEMMA StampedStep == ASSUME CycleInv, [Next]_vars PROVE Stamped'
<1>1. /\ now \in Nat \ {0} /\ now' \in Nat \ {0} /\ now <= now'
      /\ claim \in [Claim -> [st : Kinds \cup {"none", "in"}, at : Nat, entry : Nat, redone : Nat]]
      /\ \A c \in Claim : claim[c].at < now /\ claim[c].entry < now /\ claim[c].redone < now
      /\ \A c \in Claim : claim[c].at \in Nat /\ claim[c].entry \in Nat /\ claim[c].redone \in Nat
    BY ClockStep DEF CycleInv, TypeOK, Stamped
<1>2. ASSUME NEW c \in Claim
      PROVE  claim'[c].at < now' /\ claim'[c].entry < now' /\ claim'[c].redone < now'
  <2>1. ASSUME NEW d \in Claim, Draft(d) \/ Commit(d) \/ Reclassify(d)
        PROVE  /\ claim'[c].at \in {claim[c].at, now} /\ claim'[c].entry \in {claim[c].entry, now}
               /\ claim'[c].redone \in {claim[c].redone, now}
               /\ claim' = claim \/ now' = now + 1 \/ (claim'[c].at = claim[c].at
                    /\ claim'[c].entry = claim[c].entry /\ claim'[c].redone = claim[c].redone)
    <3>1. CASE Draft(d)
      BY <1>1, <3>1 DEF Draft
    <3>2. CASE Commit(d)
      BY <1>1, <3>2 DEF Commit
    <3>3. CASE Reclassify(d)
      BY <1>1, <3>3 DEF Reclassify
    <3> QED
      BY <2>1, <3>1, <3>2, <3>3
  <2>2. CASE Writes
    BY <1>1, <2>1, <2>2 DEF Writes
  <2>3. CASE ~Writes
    BY <1>1, <2>3, OtherStep
  <2> QED
    BY <2>2, <2>3
<1>3. ASSUME NEW s \in Runner PROVE run'[s].mark < now'
  <2>1. run[s].mark \in Nat /\ run[s].mark < now /\ Watermark \in Nat /\ Watermark < now
    BY SafeMarks DEF CycleInv, TypeOK, Report, Stamped, Safe
  <2>2. run[s].mark < now' /\ Watermark < now' /\ 0 < now'
    BY <1>1, <2>1
  <2> QED
    BY <2>2, MarkStep
<1> QED
    BY <1>2, <1>3 DEF Stamped

\* Drafts of the cycle's pass 1 live and die with the run that holds the lock.
LEMMA OwnStep == ASSUME CycleInv, [Next]_vars PROVE OwnDrafts'
<1>1. /\ now \in Nat \ {0} /\ log \in Seq(Event) /\ holder \in Runner \cup {NoRunner}
      /\ claim \in [Claim -> [st : Kinds \cup {"none", "in"}, at : Nat, entry : Nat, redone : Nat]]
      /\ \A r \in Runner : run[r] \in Report
      /\ \A r \in Runner : run[r].start < now /\ run[r].mark < now
                           /\ run[r].start \in Nat /\ run[r].mark \in Nat
      /\ \A i \in 1..Len(log) : log[i].start < now
      /\ run \in [Runner -> Report]
    BY DEF CycleInv, TypeOK, Stamped, Report
<1> SUFFICES ASSUME NEW c \in Claim, claim'[c].st = "own"
             PROVE  /\ \E r \in Runner : run'[r].pc = "extract"
                    /\ \A r \in Runner : run'[r].pc = "extract" =>
                          run'[r].start <= claim'[c].at /\ run'[r].mark <= claim'[c].at
                    /\ \A i \in 1..Len(log') : log'[i].mine => log'[i].start <= claim'[c].at
    BY DEF OwnDrafts
<1>2. CASE \E d \in Claim : Draft(d) \/ Commit(d) \/ Reclassify(d)
  <2>1. PICK d \in Claim : Draft(d) \/ Commit(d) \/ Reclassify(d)
    BY <1>2
  <2>2. run' = run /\ log' = log
    BY <2>1 DEF Draft, Commit, Reclassify
  <2>3. CASE claim'[c] = claim[c]
    BY <2>2, <2>3 DEF CycleInv, OwnDrafts
  <2>4. CASE claim'[c] # claim[c]
    <3>1. c = d /\ Draft(d)
      <4>1. c = d
        BY <1>1, <2>1, <2>4 DEF Draft, Commit, Reclassify
      <4>2. ASSUME Commit(d) PROVE claim'[d].st = "in"
        BY <1>1, <4>2 DEF Commit
      <4>3. ASSUME Reclassify(d) PROVE claim'[d].st = "in"
        BY <1>1, <4>3 DEF Reclassify
      <4> QED
        BY <2>1, <4>1, <4>2, <4>3
    <3>2. claim'[c].at = now /\ \E r \in Runner : run[r].pc = "extract"
      BY <1>1, <3>1 DEF Draft
    <3>3. \A i \in 1..Len(log) : log[i].start \in Nat
      <4>1. \A i \in 1..Len(log) : log[i] \in Event
        BY <1>1, ElementOfSeq
      <4> QED
        BY <4>1 DEF Event
    <3> QED
      BY <1>1, <2>2, <3>2, <3>3
  <2> QED
    BY <2>3, <2>4
<1>3. CASE ~Writes
  <2>1. claim'[c] = claim[c] /\ claim[c].st = "own"
    BY <1>3, OtherStep
  <2>2. PICK r \in Runner : run[r].pc = "extract"
    BY <2>1 DEF CycleInv, OwnDrafts
  <2>3. holder = r /\ r # NoRunner
    BY <2>2, ConsolidationAssumption DEF CycleInv, LockOK, Stage
  <2>4. /\ run[r].start <= claim[c].at /\ run[r].mark <= claim[c].at
        /\ \A i \in 1..Len(log) : log[i].mine => log[i].start <= claim[c].at
    BY <2>1, <2>2 DEF CycleInv, OwnDrafts
  <2>5. \A s \in Runner \ {r} : run[s].pc \notin Stage
    BY <2>3 DEF CycleInv, LockOK
  <2>6. ~Extract(r)
    BY <2>1 DEF Extract
  <2>7. ~Crash(r)
    <3>1. ASSUME Crash(r) PROVE claim'[c] # claim[c]
      BY <1>1, <2>1, <2>3, <3>1 DEF Crash
    <3> QED
      BY <2>1, <3>1
  <2>8. \A s \in Runner : /\ ~Extract(s) /\ ~Sweep(s) /\ ~Census(s) /\ ~Record(s)
                          /\ ~Release(s) /\ ~Raise(s)
    BY <2>1, <2>2, <2>5, <2>6 DEF Extract, Sweep, Census, Record, Release, Raise, Stage
  <2>9. run'[r] = run[r]
    BY <2>2, <2>7, <2>8, PcStep DEF Cycle, Acquire
  <2>10. \A s \in Runner \ {r} : run'[s].pc # "extract"
    <3>1. ASSUME NEW s \in Runner \ {r} PROVE run'[s].pc # "extract"
      <4>1. NoReport.pc = "idle" /\ run[s].pc # "extract"
        BY <2>5 DEF NoReport, Stage
      <4>2. ASSUME run'[s] = [run[s] EXCEPT !.pc = "asked", !.start = now]
            PROVE  run'[s].pc = "asked"
        BY <1>1, <4>2 DEF Report
      <4>3. Cycle(s) => run'[s] = NoReport
        BY <1>1, <2>3, <2>8 DEF Cycle, Acquire
      <4> QED
        BY <4>1, <4>2, <4>3, PcStep
    <3> QED
      BY <3>1
  <2>11. CASE log' = log
    BY <2>1, <2>2, <2>4, <2>9, <2>10, <2>11
  <2>12. ASSUME NEW e \in Event, log' = Append(log, e), ~e.mine
         PROVE  \A i \in 1..Len(log') : log'[i].mine => log'[i].start <= claim'[c].at
    <3>1. /\ Len(log') = Len(log) + 1 /\ log'[Len(log) + 1] = e /\ Len(log) \in Nat
          /\ \A i \in 1..Len(log) : log'[i] = log[i]
      BY <1>1, <2>12, AppendProperties, LenProperties
    <3> QED
      BY <2>1, <2>4, <2>12, <3>1
  <2>13. CASE log' # log
    BY <2>1, <2>2, <2>4, <2>8, <2>9, <2>10, <2>12, <2>13, LogStep
  <2> QED
    BY <2>11, <2>13
<1> QED
    BY <1>2, <1>3 DEF Writes

\* A window that holds what it must goes on doing so while beliefs are written.
LEMMA WindowsKeep ==
    ASSUME CycleInv, [Next]_vars, NEW t, Safe(t)
    PROVE  /\ \A A : SweepOwes \subseteq A \cup Window(t) => SweepOwes' \subseteq A \cup WindowAfter(t)
           /\ SweepOwes \subseteq Window(t) => SweepOwes' \subseteq WindowAfter(t)
           /\ CensusOwes \subseteq Window(t) => CensusOwes' \subseteq WindowAfter(t)
           /\ \A u \in Nat : \A A : Window(u) \subseteq A \cup Window(t) \cup late =>
                                    WindowAfter(u) \subseteq A \cup WindowAfter(t) \cup late'
<1>1. t \in Nat
    BY DEF Safe
<1>2. CASE Writes
  <2>1. PICK c \in Claim : Draft(c) \/ Commit(c) \/ Reclassify(c)
    BY <1>2 DEF Writes
  <2>2. /\ SweepOwes' \subseteq SweepOwes \cup WindowAfter(t)
        /\ CensusOwes' \subseteq CensusOwes \cup WindowAfter(t)
        /\ \A u \in Nat : Window(u) \subseteq WindowAfter(u)
        /\ \A u : WindowAfter(u) \subseteq Window(u) \cup WindowAfter(t) \cup late'
        /\ late \subseteq late' \cup WindowAfter(t)
    BY <2>1, BeliefStep
  <2>3. Window(t) \subseteq WindowAfter(t)
    BY <1>1, <2>2
  <2>4. \A u \in Nat : WindowAfter(u) \subseteq Window(u) \cup WindowAfter(t) \cup late'
    BY <2>2
  <2> QED
    BY <2>2, <2>3, <2>4
<1>3. CASE ~Writes
  <2>1. /\ Believed' = Believed /\ \A u : WindowAfter(u) = Window(u)
        /\ SweepOwes' \subseteq SweepOwes /\ CensusOwes' \subseteq CensusOwes /\ late' = late
    BY <1>3, OtherStep
  <2> QED
    BY <2>1
<1> QED
    BY <1>2, <1>3

\* The windows of the run in the cycle hold what it has to compare.
LEMMA WindowStep == ASSUME CycleInv, [Next]_vars PROVE WindowOK'
<1>1. /\ run \in [Runner -> Report] /\ \A r \in Runner : run[r] \in Report
    BY DEF CycleInv, TypeOK
<1> DEFINE OpensAfter(s) == IF run'[s].store THEN 0 ELSE run'[s].mark
<1> SUFFICES ASSUME NEW s \in Runner
             PROVE  /\ run'[s].pc = "extract" => SweepOwes' \subseteq WindowAfter(OpensAfter(s))
                    /\ run'[s].pc = "sweep" =>
                          SweepOwes' \subseteq run'[s].scope \cup WindowAfter(run'[s].start)
                    /\ run'[s].pc \in {"sweep", "census"} =>
                          WindowAfter(OpensAfter(s)) \subseteq
                              run'[s].scope \cup WindowAfter(run'[s].start) \cup late'
    BY DEF WindowOK, Window, WindowAfter, Opens
<1>2. CASE run'[s] = run[s]
  <2>1. /\ run[s].pc = "extract" => Safe(Opens(s))
        /\ run[s].pc \in {"sweep", "census"} => Safe(run[s].start)
        /\ Opens(s) \in Nat
    BY <1>1, SafeMarks DEF Opens, Report
  <2>2. OpensAfter(s) = Opens(s)
    BY <1>2 DEF Opens
  <2>3. ASSUME run[s].pc = "extract"
        PROVE  SweepOwes' \subseteq WindowAfter(Opens(s))
    BY <2>1, <2>3, WindowsKeep DEF CycleInv, WindowOK
  <2>4. ASSUME run[s].pc = "sweep"
        PROVE  SweepOwes' \subseteq run[s].scope \cup WindowAfter(run[s].start)
    BY <2>1, <2>4, WindowsKeep DEF CycleInv, WindowOK
  <2>5. ASSUME run[s].pc \in {"sweep", "census"}
        PROVE  WindowAfter(Opens(s)) \subseteq run[s].scope \cup WindowAfter(run[s].start) \cup late'
    BY <2>1, <2>5, WindowsKeep DEF CycleInv, WindowOK
  <2> QED
    BY <1>2, <2>2, <2>3, <2>4, <2>5
<1>3. CASE Acquire(s) /\ holder = NoRunner
  <2>1. PICK store, sem \in BOOLEAN :
          run' = [run EXCEPT ![s].pc = "extract", ![s].mark = Watermark,
                             ![s].store = store, ![s].sem = sem]
    BY <1>3 DEF Acquire
  <2>2. run'[s].pc = "extract" /\ run'[s].mark = Watermark
    BY <1>1, <2>1 DEF Report
  <2>3. /\ SweepOwes' = SweepOwes /\ \A u : WindowAfter(u) = Window(u)
    BY <1>3 DEF Acquire, SweepOwes, compared, Believed, Window, WindowAfter
  <2>4. SweepOwes \subseteq Window(0)
    BY WindowFacts DEF SweepOwes
  <2> QED
    BY <2>2, <2>3, <2>4 DEF CycleInv, SweepMissesNothing
<1>4. CASE Extract(s)
  <2>1. PICK o : run' = [run EXCEPT ![s] = [EndPass(s, o, "sweep") EXCEPT !.scope = Scope(s)]]
    BY <1>4 DEF Extract
  <2>2. run'[s] = [EndPass(s, o, "sweep") EXCEPT !.scope = Scope(s)]
    BY <1>1, <2>1
  <2>3. /\ run'[s].pc = "sweep" /\ run'[s].store = run[s].store /\ run'[s].mark = run[s].mark
        /\ run'[s].scope = Scope(s)
    BY <1>1, <2>2 DEF EndPass, Report
  <2>4. OpensAfter(s) = Opens(s) /\ Scope(s) = Window(Opens(s))
    BY <2>3 DEF Opens, Scope
  <2>5. /\ SweepOwes' = SweepOwes /\ \A u : WindowAfter(u) = Window(u)
    BY <1>4 DEF Extract, SweepOwes, compared, Believed, Window, WindowAfter
  <2>6. SweepOwes \subseteq Window(Opens(s))
    BY <1>4 DEF Extract, CycleInv, WindowOK
  <2> QED
    BY <2>3, <2>4, <2>5, <2>6
<1>5. CASE Sweep(s)
  <2>1. PICK o : run' = [run EXCEPT ![s] = EndPass(s, o, "census")]
    BY <1>5 DEF Sweep
  <2>2. /\ run'[s].pc = "census" /\ run'[s].store = run[s].store /\ run'[s].mark = run[s].mark
        /\ run'[s].scope = run[s].scope /\ run'[s].start = run[s].start
    BY <1>1, <2>1 DEF EndPass, Report
  <2>3. /\ late' = late /\ \A u : WindowAfter(u) = Window(u)
    BY <1>5 DEF Sweep, Believed, Window, WindowAfter
  <2>4. OpensAfter(s) = Opens(s)
    BY <2>2 DEF Opens
  <2>5. Window(Opens(s)) \subseteq run[s].scope \cup Window(run[s].start) \cup late
    BY <1>5 DEF Sweep, CycleInv, WindowOK
  <2> QED
    BY <2>2, <2>3, <2>4, <2>5
<1>6. ASSUME run'[s].pc \in {"extract", "sweep", "census"}, run'[s] # run[s]
      PROVE  (Acquire(s) /\ holder = NoRunner) \/ Extract(s) \/ Sweep(s)
  <2>1. NoReport.pc = "idle"
    BY DEF NoReport
  <2>2. run'[s] # [run[s] EXCEPT !.pc = "asked", !.start = now]
    BY <1>1, <1>6 DEF Report
  <2>3. Census(s) => run'[s].pc = "rest"
    BY CensusReport
  <2>4. Record(s) => run'[s].pc = "recorded"
    BY <1>1 DEF Record, NoReport
  <2>5. Release(s) \/ Raise(s) => run'[s] = NoReport
    BY <1>1 DEF Release, Raise
  <2>6. Acquire(s) /\ holder # NoRunner => run'[s] = NoReport
    BY <1>1 DEF Acquire
  <2> QED
    BY <1>6, <2>1, <2>2, <2>3, <2>4, <2>5, <2>6, PcStep DEF Cycle
<1> QED
    BY <1>2, <1>3, <1>4, <1>5, <1>6

\* What a run has compared by the time it records itself.
LEMMA WorkStep == ASSUME CycleInv, [Next]_vars PROVE WorkDone'
<1>1. /\ run \in [Runner -> Report] /\ \A r \in Runner : run[r] \in Report
    BY DEF CycleInv, TypeOK
<1> DEFINE Goal(s) ==
      /\ run'[s].pc \in {"census", "rest"} /\ run'[s].ok /\ ~run'[s].limited /\ run'[s].sem =>
            SweepOwes' \subseteq WindowAfter(run'[s].start)
      /\ run'[s].census => run'[s].pc = "rest"
      /\ run'[s].pc = "rest" /\ run'[s].census /\ ~run'[s].cut =>
            CensusOwes' \subseteq WindowAfter(run'[s].start)
<1> SUFFICES ASSUME NEW s \in Runner PROVE Goal(s)
    BY DEF WorkDone, Window, WindowAfter
<1>2. CASE run'[s] = run[s]
  <2>1. ASSUME run[s].pc \in {"census", "rest"} PROVE Safe(run[s].start)
    BY <2>1, SafeMarks DEF Stage
  <2>2. /\ run[s].pc \in {"census", "rest"} /\ run[s].ok /\ ~run[s].limited /\ run[s].sem =>
              SweepOwes \subseteq Window(run[s].start)
        /\ run[s].census => run[s].pc = "rest"
        /\ run[s].pc = "rest" /\ run[s].census /\ ~run[s].cut =>
              CensusOwes \subseteq Window(run[s].start)
    BY DEF CycleInv, WorkDone
  <2> QED
    BY <1>2, <2>1, <2>2, WindowsKeep
<1>3. CASE Sweep(s)
  <2>1. run[s].pc = "sweep" /\ ~run[s].census
    BY <1>3 DEF Sweep, CycleInv, WorkDone
  <2>2. PICK o \in Outcomes(s) :
          /\ run' = [run EXCEPT ![s] = EndPass(s, o, "census")]
          /\ swept \subseteq swept'
          /\ unswept' = (IF o \in {"ran", "off"} THEN unswept \cup run[s].scope ELSE unswept) \ swept'
    BY <1>3 DEF Sweep
  <2> DEFINE b == EndPass(s, o, "census")
  <2>3. /\ b.pc = "census" /\ b.start = run[s].start /\ b.sem = run[s].sem
        /\ b.census = run[s].census /\ (b.ok => o # "failed")
        /\ (~b.limited => o \notin {"over", "cut"})
    BY EndPassFacts DEF Stage
  <2>4. run'[s] = b
    BY <1>1, <2>2
  <2> HIDE DEF b
  <2>5. ASSUME b.ok, ~b.limited, b.sem PROVE o \in {"ran", "off"}
    BY <2>2, <2>3, <2>5 DEF Outcomes
  <2>6. /\ Believed' = Believed /\ late' = late /\ \A u : WindowAfter(u) = Window(u)
    BY <1>3 DEF Sweep, Believed, Window, WindowAfter
  <2>7. SweepOwes \subseteq run[s].scope \cup Window(run[s].start)
    BY <2>1 DEF CycleInv, WindowOK
  <2>8. o \in {"ran", "off"} => SweepOwes' \subseteq Window(run[s].start)
    BY <2>2, <2>6, <2>7 DEF SweepOwes
  <2> QED
    BY <2>1, <2>3, <2>4, <2>5, <2>6, <2>8
<1>4. CASE Census(s)
  <2>1. run[s].pc = "census" /\ ~run[s].census
    BY <1>4 DEF Census, CycleInv, WorkDone
  <2>2. /\ run'[s].pc = "rest" /\ run'[s].start = run[s].start /\ run'[s].sem = run[s].sem
        /\ run'[s].ok => run[s].ok
        /\ ~run'[s].limited => ~run[s].limited
        /\ run'[s].census /\ ~run'[s].cut =>
              /\ CensusScope(s) \subseteq probed' \cup unprobed'
              /\ probed \cup unprobed \subseteq probed' \cup unprobed'
    BY <1>4, <2>1, CensusReport
  <2>3. /\ Believed' = Believed /\ late' = late /\ SweepOwes' = SweepOwes
        /\ \A u : WindowAfter(u) = Window(u)
    BY <1>4 DEF Census, SweepOwes, Believed, Window, WindowAfter
  <2>4. run[s].ok /\ ~run[s].limited /\ run[s].sem => SweepOwes \subseteq Window(run[s].start)
    BY <2>1 DEF CycleInv, WorkDone
  <2>5. CensusOwes \subseteq CensusScope(s) \cup Window(run[s].start)
    <3>1. CensusOwes \subseteq Window(CensusMark)
      BY DEF CycleInv, OnlyLateFallBetween
    <3>2. Window(Opens(s)) \subseteq run[s].scope \cup Window(run[s].start) \cup late
      BY <2>1 DEF CycleInv, WindowOK
    <3>3. CASE run[s].store \/ CensusMark = 0
      <4>1. CensusScope(s) = Believed
        BY <3>3 DEF CensusScope
      <4> QED
        BY <4>1 DEF CensusOwes
    <3>4. CASE ~run[s].store /\ CensusMark # 0 /\ run[s].mark = CensusMark
      BY <3>1, <3>2, <3>4 DEF CensusScope, CensusOwes, Opens
    <3>5. CASE ~run[s].store /\ CensusMark # 0 /\ run[s].mark # CensusMark
      BY <3>1, <3>5 DEF CensusScope
    <3> QED
      BY <3>3, <3>4, <3>5
  <2>6. run'[s].census /\ ~run'[s].cut => CensusOwes' \subseteq Window(run[s].start)
    BY <2>2, <2>3, <2>5 DEF CensusOwes
  <2> QED
    BY <2>2, <2>3, <2>4, <2>6
<1>5. CASE run'[s] # run[s] /\ ~Sweep(s) /\ ~Census(s)
  <2>1. run'[s].pc \notin {"census", "rest"} /\ ~run'[s].census
    <3>1. run[s].census => run[s].pc = "rest"
      BY DEF CycleInv, WorkDone
    <3>2. NoReport.pc = "idle" /\ ~NoReport.census
      BY DEF NoReport
    <3>3. ASSUME run'[s] = [run[s] EXCEPT !.pc = "asked", !.start = now]
          PROVE  run'[s].pc = "asked" /\ run'[s].census = run[s].census
      BY <1>1, <3>3 DEF Report
    <3>4. ASSUME Acquire(s)
          PROVE  run'[s] = NoReport \/ (run'[s].pc = "extract" /\ run'[s].census = run[s].census)
      <4>1. CASE holder # NoRunner
        BY <1>1, <3>4, <4>1 DEF Acquire
      <4>2. CASE holder = NoRunner
        <5>1. PICK store, sem \in BOOLEAN :
                run' = [run EXCEPT ![s].pc = "extract", ![s].mark = Watermark,
                                   ![s].store = store, ![s].sem = sem]
          BY <3>4, <4>2 DEF Acquire
        <5>2. run'[s] = [run[s] EXCEPT !.pc = "extract", !.mark = Watermark,
                                       !.store = store, !.sem = sem]
          BY <1>1, <5>1
        <5> QED
          BY <1>1, <5>2 DEF Report
      <4> QED
        BY <4>1, <4>2
    <3>5. ASSUME Extract(s)
          PROVE  run'[s].pc = "sweep" /\ run'[s].census = run[s].census
      <4>1. PICK o : run' = [run EXCEPT ![s] = [EndPass(s, o, "sweep") EXCEPT !.scope = Scope(s)]]
        BY <3>5 DEF Extract
      <4>2. run'[s] = [EndPass(s, o, "sweep") EXCEPT !.scope = Scope(s)]
        BY <1>1, <4>1
      <4> QED
        BY <1>1, <4>2 DEF EndPass, Report
    <3>6. ASSUME Record(s) PROVE run'[s].pc = "recorded" /\ ~run'[s].census
      BY <1>1, <3>6 DEF Record, NoReport
    <3>7. ASSUME Release(s) \/ Raise(s) PROVE run'[s] = NoReport
      BY <1>1, <3>7 DEF Release, Raise
    <3>8. Acquire(s) \/ Extract(s) => ~run[s].census
      BY <3>1 DEF Acquire, Extract
    <3> QED
      BY <1>5, <3>1, <3>2, <3>3, <3>4, <3>5, <3>6, <3>7, <3>8, PcStep DEF Cycle
  <2> QED
    BY <2>1
<1> QED
    BY <1>2, <1>3, <1>4, <1>5

\* The log only grows.
LEMMA LogGrows ==
    ASSUME CycleInv, [Next]_vars
    PROVE  /\ \A i \in 1..Len(log) : i \in 1..Len(log') /\ log'[i] = log[i]
           /\ \A r \in Runner : Record(r) =>
                 \E i \in 1..Len(log') : log'[i].mine /\ log'[i].start = run[r].start
<1>1. log \in Seq(Event) /\ Len(log) \in Nat
    BY LenProperties DEF CycleInv, TypeOK
<1>2. ASSUME NEW e, e \in Event, log' = Append(log, e)
      PROVE  /\ Len(log') = Len(log) + 1 /\ log'[Len(log) + 1] = e
             /\ \A i \in 1..Len(log) : log'[i] = log[i]
    BY <1>1, <1>2, AppendProperties
<1>3. \A i \in 1..Len(log) : i \in 1..Len(log') /\ log'[i] = log[i]
    BY <1>1, <1>2, LogStep
<1>4. ASSUME NEW r \in Runner, Record(r)
      PROVE  \E i \in 1..Len(log') : log'[i].mine /\ log'[i].start = run[r].start
  <2>1. PICK o : log' = Append(log, RecordOf(EndPass(r, o, "recorded")))
    BY <1>4 DEF Record
  <2> DEFINE e == RecordOf(EndPass(r, o, "recorded"))
  <2>2. EndPass(r, o, "recorded").start = run[r].start
    BY EndPassFacts DEF Stage
  <2>3. e.mine /\ e.start = run[r].start
    BY <2>2 DEF RecordOf
  <2> HIDE DEF e
  <2>4. log' # log /\ Len(log') = Len(log) + 1 /\ log'[Len(log) + 1] = e
    <3>1. log' = Append(log, e)
      BY <2>1 DEF e
    <3> QED
      BY <1>1, <3>1
  <2> QED
    BY <1>1, <2>3, <2>4
<1> QED
    BY <1>3, <1>4

\* A run reaches the release only through its record.
LEMMA RecordStep == ASSUME CycleInv, [Next]_vars PROVE OnRecord'
<1>1. /\ run \in [Runner -> Report] /\ \A r \in Runner : run[r] \in Report
    BY DEF CycleInv, TypeOK
<1> SUFFICES ASSUME NEW s \in Runner, run'[s].pc = "recorded"
             PROVE  \E i \in 1..Len(log') : log'[i].mine /\ log'[i].start = run'[s].start
    BY DEF OnRecord
<1>2. CASE run'[s] = run[s]
    BY <1>2, LogGrows DEF CycleInv, OnRecord
<1>3. CASE run'[s] # run[s]
  <2>1. NoReport.pc = "idle"
    BY DEF NoReport
  <2>2. run'[s] # [run[s] EXCEPT !.pc = "asked", !.start = now]
    BY <1>1 DEF Report
  <2>3. Cycle(s) /\ run'[s].start = run[s].start
    BY <1>3, <2>1, <2>2, PcStep
  <2>4. ~Census(s)
    BY CensusReport
  <2>5. ~Release(s) /\ ~Raise(s)
    BY <1>1, <2>1 DEF Release, Raise
  <2>6. ~Extract(s)
    <3>1. ASSUME Extract(s) PROVE run'[s].pc = "sweep"
      <4>1. PICK o : run' = [run EXCEPT ![s] = [EndPass(s, o, "sweep") EXCEPT !.scope = Scope(s)]]
        BY <3>1 DEF Extract
      <4>2. run'[s] = [EndPass(s, o, "sweep") EXCEPT !.scope = Scope(s)]
        BY <1>1, <4>1
      <4> QED
        BY <1>1, <4>2 DEF EndPass, Report
    <3> QED
      BY <3>1
  <2>7. ~Sweep(s)
    <3>1. ASSUME Sweep(s) PROVE run'[s].pc = "census"
      <4>1. PICK o : run' = [run EXCEPT ![s] = EndPass(s, o, "census")]
        BY <3>1 DEF Sweep
      <4> QED
        BY <1>1, <4>1 DEF EndPass, Report
    <3> QED
      BY <3>1
  <2>8. ~Acquire(s)
    <3>1. ASSUME Acquire(s), holder = NoRunner PROVE run'[s].pc = "extract"
      <4>1. PICK store, sem \in BOOLEAN :
              run' = [run EXCEPT ![s].pc = "extract", ![s].mark = Watermark,
                                 ![s].store = store, ![s].sem = sem]
        BY <3>1 DEF Acquire
      <4> QED
        BY <1>1, <4>1 DEF Report
    <3>2. ASSUME Acquire(s), holder # NoRunner PROVE run'[s].pc = "idle"
      BY <1>1, <2>1, <3>2 DEF Acquire
    <3> QED
      BY <3>1, <3>2
  <2>9. Record(s)
    BY <2>3, <2>4, <2>5, <2>6, <2>7, <2>8 DEF Cycle
  <2> QED
    BY <2>3, <2>9, LogGrows
<1> QED
    BY <1>2, <1>3

\* Neither mark moves past a belief that was not compared.
LEMMA MarksStep ==
    ASSUME CycleInv, [Next]_vars
    PROVE  OnlyLateFallBetween' /\ SweepMissesNothing'
<1> SUFFICES /\ CensusOwes' \subseteq WindowAfter(CensusMark')
             /\ SweepOwes' \subseteq WindowAfter(Watermark')
    BY DEF OnlyLateFallBetween, SweepMissesNothing, Window, WindowAfter
<1>1. log \in Seq(Event)
    BY DEF CycleInv, TypeOK
<1>2. CensusOwes' \subseteq WindowAfter(0) /\ SweepOwes' \subseteq WindowAfter(0)
  <2>1. \A c \in Claim : claim'[c].at \in Nat
    BY TypeStep DEF TypeOK
  <2>2. WindowAfter(0) = Believed'
    BY <2>1 DEF WindowAfter, Believed
  <2> QED
    BY <2>2 DEF CensusOwes, SweepOwes
<1>3. /\ CensusOwes' \subseteq WindowAfter(CensusMark)
      /\ SweepOwes' \subseteq WindowAfter(Watermark)
  <2>1. Safe(CensusMark) /\ Safe(Watermark)
    BY SafeMarks
  <2>2. CensusOwes \subseteq Window(CensusMark) /\ SweepOwes \subseteq Window(Watermark)
    BY DEF CycleInv, OnlyLateFallBetween, SweepMissesNothing
  <2> DEFINE m == CensusMark
             w == Watermark
  <2> HIDE DEF m, w
  <2>3. Safe(m) /\ Safe(w) /\ CensusOwes \subseteq Window(m) /\ SweepOwes \subseteq Window(w)
    BY <2>1, <2>2 DEF m, w
  <2>4. CensusOwes' \subseteq WindowAfter(m)
    BY <2>3, WindowsKeep
  <2>5. SweepOwes' \subseteq WindowAfter(w)
    BY <2>3, WindowsKeep
  <2> QED
    BY <2>4, <2>5 DEF m, w
<1>4. CASE log' = log
  <2>1. CensusMark' = CensusMark /\ Watermark' = Watermark
    BY <1>4 DEF CensusMark, Watermark, StartOf, Newest
  <2> QED
    BY <1>3, <2>1
<1>5. ASSUME NEW e \in Event, log' = Append(log, e)
      PROVE  /\ CensusMark' \in {CensusMark, 0} \/ (CensusProbed(e) /\ CensusMark' = e.start)
             /\ Watermark' \in {Watermark, 0} \/ (Watermarks(e) /\ Watermark' = e.start)
    BY <1>1, <1>5, Appended
<1>6. ASSUME NEW e \in Event, log' = Append(log, e), ~e.mine
      PROVE  CensusMark' \in {CensusMark, 0} /\ Watermark' \in {Watermark, 0}
    BY <1>5, <1>6 DEF CensusProbed, Watermarks
<1>7. ASSUME NEW r \in Runner, Record(r)
      PROVE  /\ run[r].ok /\ ~run[r].limited /\ run[r].sem =>
                   SweepOwes' \subseteq WindowAfter(run[r].start)
             /\ run[r].census /\ ~run[r].cut =>
                   CensusOwes' \subseteq WindowAfter(run[r].start)
  <2>1. run[r].pc = "rest"
    BY <1>7 DEF Record
  <2>2. Safe(run[r].start)
    BY <2>1, SafeMarks DEF Stage
  <2>3. /\ run[r].ok /\ ~run[r].limited /\ run[r].sem =>
              SweepOwes \subseteq Window(run[r].start)
        /\ run[r].census /\ ~run[r].cut => CensusOwes \subseteq Window(run[r].start)
    BY <2>1 DEF CycleInv, WorkDone
  <2> QED
    BY <2>2, <2>3, WindowsKeep
<1>8. ASSUME NEW e \in Event, NEW r \in Runner, log' = Append(log, e),
             e.start = run[r].start, Record(r),
             Watermarks(e) => run[r].ok /\ ~run[r].limited /\ run[r].sem,
             CensusProbed(e) => run[r].census /\ ~run[r].cut
      PROVE  /\ CensusOwes' \subseteq WindowAfter(CensusMark')
             /\ SweepOwes' \subseteq WindowAfter(Watermark')
  <2>1. CASE CensusMark' \in {CensusMark, 0} /\ Watermark' \in {Watermark, 0}
    BY <1>2, <1>3, <2>1
  <2>2. CASE CensusProbed(e) /\ CensusMark' = e.start /\ Watermark' \in {Watermark, 0}
    BY <1>2, <1>3, <1>7, <1>8, <2>2
  <2>3. CASE CensusMark' \in {CensusMark, 0} /\ Watermarks(e) /\ Watermark' = e.start
    BY <1>2, <1>3, <1>7, <1>8, <2>3
  <2>4. CASE CensusProbed(e) /\ CensusMark' = e.start /\ Watermarks(e) /\ Watermark' = e.start
    BY <1>7, <1>8, <2>4
  <2> QED
    BY <1>5, <1>8, <2>1, <2>2, <2>3, <2>4
<1> QED
  <2>1. ASSUME NEW e \in Event, log' = Append(log, e), ~e.mine
        PROVE  /\ CensusOwes' \subseteq WindowAfter(CensusMark')
               /\ SweepOwes' \subseteq WindowAfter(Watermark')
    BY <1>2, <1>3, <1>6, <2>1
  <2> QED
    BY <1>4, <1>8, <2>1, LogStep

\* The invariant holds in every state the cycle reaches.
LEMMA CycleInvariant == Spec => []CycleInv
<1>1. ASSUME CycleInv, [Next]_vars PROVE CycleInv'
    BY <1>1, TypeStep, LockStep, StampedStep, OwnStep, WindowStep, WorkStep, RecordStep, MarksStep
       DEF CycleInv
<1> QED
    BY <1>1, InitCycleInv, PTL DEF Spec

\* Every variable of the cycle keeps its type: reports, run records and stamps are
\* well formed, and nothing is marked compared that is not believed.
THEOREM ConsolidationTyped == Spec => []TypeOK
<1>1. CycleInv => TypeOK
    BY DEF CycleInv
<1> QED
    BY <1>1, CycleInvariant, PTL

\* A belief that no census has compared since it last changed is in the window the
\* next census opens, however many nights fail, degrade, overrun or are cut short and
\* however many records the log is looked up through, unless a census that ended
\* well passed over it or another process committed it behind that window.
THEOREM CensusMissesNothing == Spec => []OnlyLateFallBetween
<1>1. CycleInv => OnlyLateFallBetween
    BY DEF CycleInv
<1> QED
    BY <1>1, CycleInvariant, PTL

\* The same for the update sweep, which may also be off, and the watermark of the
\* nightly run.
THEOREM SweepsMissNothing == Spec => []SweepMissesNothing
<1>1. CycleInv => SweepMissesNothing
    BY DEF CycleInv
<1> QED
    BY <1>1, CycleInvariant, PTL

\* A cycle gives the lock back only once it is on record, whichever of its passes
\* failed or was skipped, unless it was killed or a statement outside them raised.
THEOREM CyclesAreRecorded == Spec => RecordedWhateverFails
<1> DEFINE Kept == holder # NoRunner /\ holder' = NoRunner =>
                     \/ kills' > kills \/ raised' > raised
                     \/ \E i \in 1..Len(log) : log[i].mine /\ log[i].start = run[holder].start
<1>1. ASSUME CycleInv, [Next]_vars PROVE [Kept]_vars
  <2> SUFFICES ASSUME holder # NoRunner, holder' = NoRunner PROVE Kept
    OBVIOUS
  <2>1. holder \in Runner /\ kills \in Nat /\ raised \in Nat
    BY <1>1 DEF CycleInv, TypeOK
  <2>2. PICK r \in Runner : Release(r) \/ Raise(r) \/ Crash(r)
    <3>1. holder' # holder
      OBVIOUS
    <3>2. \A r \in Runner : Acquire(r) => holder' = r \/ holder' = holder
      BY DEF Acquire
    <3>3. \A r \in Runner : ~Acquire(r)
      BY <3>1, <3>2, ConsolidationAssumption
    <3> QED
      BY <1>1, <3>1, <3>3 DEF Next, vars, Begin, Cycle, Extract, Sweep, Census, Record, Draft,
                              Commit, Reclassify, Audit
  <2>3. CASE Release(r)
    <3>1. run[r].pc = "recorded"
      BY <2>3 DEF Release
    <3>2. holder = r
      BY <1>1, <3>1 DEF CycleInv, LockOK, Stage
    <3> QED
      BY <1>1, <3>1, <3>2 DEF CycleInv, OnRecord
  <2>4. CASE Crash(r)
    <3>1. kills' = kills + 1
      BY <2>4 DEF Crash
    <3> QED
      BY <2>1, <3>1
  <2>5. CASE Raise(r)
    <3>1. raised' = raised + 1
      BY <2>5 DEF Raise
    <3> QED
      BY <2>1, <3>1
  <2> QED
    BY <2>2, <2>3, <2>4, <2>5
<1> QED
    BY <1>1, CycleInvariant, PTL DEF Spec, RecordedWhateverFails
================================================================================
