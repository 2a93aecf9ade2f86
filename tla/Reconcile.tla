------------------------------ MODULE Reconcile -------------------------------
(***************************************************************************)
(* How one asserted claim meets the claims the store already holds          *)
(* (techspec section 6.6).  A writer gathers without the writer lock: the   *)
(* cheap rungs, the change journal's marker, the nearest ACTIVE claim, the  *)
(* model's answer on that pair.  It applies under the lock, on the store as *)
(* it stands.  A contradiction nothing settles is held: the candidate is    *)
(* stored quarantined behind an INCONSISTENCY record, until a reviewer, the *)
(* trust cascade or the release pass closes the record.                     *)
(*                                                                         *)
(* Sources: particles/ingest/pipeline.py (reconcile_and_insert),            *)
(* ingest/conflict_plan.py, operations/_quarantine.py, review.py,           *)
(* cascade.py, held_release.py, retract.py and store/particle_store.py.     *)
(* Left out: observer scopes (a pair another project observes), the batch   *)
(* candidate cache, an agent's explicit supersede and records of more than  *)
(* two claims.                                                             *)
(***************************************************************************)
EXTENDS Naturals, Sequences

CONSTANTS
    Text,         \* claims up to the exact-duplicate identity key
    Sim,          \* similarity of two texts, 0 below the conflict floor
    Source,       \* corpus entries
    Writer,       \* assertion calls
    Reviewer,     \* reviewers at a local CLI, who resolve without the lock
    Releaser,     \* release passes
    FailClosed,   \* an incomplete probe quarantines (the assertion pathway)
    Verdicts,     \* bound: the verdicts of a confirmed contradiction
    MaxRows,      \* bound: particles ever stored
    MaxRetracts,  \* bound: claims retracted by an operator
    MaxWithdrawn  \* bound: corpus entries retracted by an operator

AllVerdicts ==
    {"SUPERSEDES", "SUPERSEDED_BY_EXISTING", "DOCUMENT_SUPERSEDES",
     "DOCUMENT_SUPERSEDED_BY_EXISTING", "UPDATE_SUPERSEDES",
     "UPDATE_SUPERSEDED_BY_EXISTING", "INCONSISTENT"}

ASSUME ReconcileAssumption ==
    /\ Sim \in [Text -> [Text -> Nat]]
    /\ \A t, u \in Text : Sim[t][u] = Sim[u][t]
    /\ FailClosed \in BOOLEAN
    /\ Verdicts \subseteq AllVerdicts
    /\ {MaxRows, MaxRetracts, MaxWithdrawn} \subseteq Nat
    /\ Writer \cap Reviewer = {} /\ Writer \cap Releaser = {} /\ Reviewer \cap Releaser = {}

VARIABLES
    row,       \* the particles table; a particle's id is its position
    pc,        \* per process: where it stands
    wr,        \* per writer: the candidate and its ReconcileGather
    rv,        \* per local reviewer: the record and what was read of it
    rl,        \* per release pass: the record and its _Selection
    changed,   \* per writer or pass: ids the change journal names after its marker
    retracts, withdrawn

vars == <<row, pc, wr, rv, rl, changed, retracts, withdrawn>>

Proc == Writer \cup Reviewer \cup Releaser
Id == 1..MaxRows
Status == {"ACTIVE", "PROVENANCE_STALE", "SUPERSEDED", "RETRACTED", "INCONSISTENCY"}
Reason == {"NONE", "CONFLICT_PENDING", "CONFLICT_RESOLVED", "LOWER_TRUST_SOURCE",
           "DOCUMENT_SUPERSEDED", "SUPERSEDED_BY_UPDATE", "EXPLICIT_RETRACTION",
           "SOURCE_RETRACTED"}
Action == {"PREFER_A", "PREFER_B", "BOTH_VALID", "DISCARD", "DEFER"}

\* The provenance refs of a particle: the first one, which a record names, and all.
Refs == [first : Source, all : SUBSET Source]
Sole(s) == [first |-> s, all |-> {s}]

\* A claim, or an INCONSISTENCY record naming claims a and b.
Particle ==
    [kind : {"claim", "record"}, text : Text, src : Refs, status : Status,
     reason : Reason, sup : Nat, a : Nat, b : Nat, twin : BOOLEAN]

NoGather == [searched |-> FALSE, hood |-> {}, conflict |-> 0, answer |-> "none"]
NoReview == [rec |-> 0]
NoPass == [rec |-> 0, out |-> {}, asked |-> {}, known |-> {}]

Init ==
    /\ row = <<>>
    /\ pc = [p \in Proc |-> "idle"]
    /\ wr = [w \in Writer |-> NoGather]
    /\ rv = [q \in Reviewer |-> NoReview]
    /\ rl = [x \in Releaser |-> NoPass]
    /\ changed = [p \in Writer \cup Releaser |-> {}]
    /\ retracts = 0 /\ withdrawn = 0

--------------------------------------------------------------------------------
(* The store *)

NewClaim(t, s, status, reason, sup) ==
    [kind |-> "claim", text |-> t, src |-> s, status |-> status, reason |-> reason,
     sup |-> sup, a |-> 0, b |-> 0, twin |-> FALSE]

\* build_inconsistency_particle: the trigger ref is B's first source.
NewRecord(rows, a, b, twin) ==
    [kind |-> "record", text |-> rows[b].text, src |-> Sole(rows[b].src.first),
     status |-> "INCONSISTENCY", reason |-> "NONE", sup |-> 0, a |-> a, b |-> b,
     twin |-> twin]

IsActive(p) == p.kind = "claim" /\ p.status = "ACTIVE"
IsHeld(p) == p.kind = "claim" /\ p.status = "PROVENANCE_STALE" /\ p.reason = "CONFLICT_PENDING"
IsOpen(p) == p.kind = "record" /\ p.status = "INCONSISTENCY"
Terminal(p) == p.status \in {"RETRACTED", "SUPERSEDED"}

\* JUDGMENT_RETIREMENTS.
IsJudged(p) ==
    \/ p.status = "RETRACTED" /\ p.reason = "EXPLICIT_RETRACTION"
    \/ p.status = "PROVENANCE_STALE" /\ p.reason = "CONFLICT_RESOLVED"

\* update_particle_status.
Set(rows, i, status, reason) ==
    [rows EXCEPT ![i].status = status, ![i].reason = reason]

\* append_provenance_ref, for each of the refs.
From(p, s) == s \in p.src.all

ObserveAsOne(rows, i, refs) ==      \* mutant: the list is appended as one ref
    [rows EXCEPT ![i].src.all = @ \cup {refs}]

Observe(rows, i, refs) == [rows EXCEPT ![i].src.all = @ \cup refs.all]

\* A write commits: the journal names every row it inserted or changed.  What a
\* process no longer waiting for the lock would read there is forgotten.
Commit(rows) ==
    LET touched == {i \in DOMAIN rows : i \notin DOMAIN row \/ rows[i] # row[i]} IN
    /\ Len(rows) <= MaxRows
    /\ row' = rows
    /\ changed' = [p \in Writer \cup Releaser |->
                     IF pc'[p] = "idle" THEN {} ELSE changed[p] \cup touched]

--------------------------------------------------------------------------------
(* The conflict search *)

First(S) == IF S = {} THEN 0 ELSE CHOOSE i \in S : \A j \in S : i <= j

\* build_duplicate_index and build_retired_value_index: an open hold comes
\* before a judged claim.
Restated(rows, t) == {i \in DOMAIN rows : rows[i].kind = "claim" /\ rows[i].text = t}
ActiveTwin(rows, t) == First({i \in Restated(rows, t) : IsActive(rows[i])})
HeldTwin(rows, t) == First({i \in Restated(rows, t) : IsHeld(rows[i])})
JudgedTwin(rows, t) == First({i \in Restated(rows, t) : IsJudged(rows[i])})

RetiredTwinHeld(rows, t) == HeldTwin(rows, t)   \* mutant: judged claims are not looked up

RetiredTwinJudged(rows, t) == JudgedTwin(rows, t) \* mutant: open holds are not looked up

RetiredTwin(rows, t) ==
    IF HeldTwin(rows, t) # 0 THEN HeldTwin(rows, t) ELSE JudgedTwin(rows, t)

\* The ACTIVE claims of ids at or above the conflict floor of t.
Near(rows, t, ids) ==
    {i \in ids \cap DOMAIN rows : IsActive(rows[i]) /\ Sim[t][rows[i].text] > 0}

\* _nearest_conflict.
Nearest(rows, t, ids) ==
    LET near == Near(rows, t, ids)
        best == {i \in near : \A j \in near : Sim[t][rows[j].text] <= Sim[t][rows[i].text]}
    IN First(best)

\* search_store_under_lock: the ids a gather knew and what the journal names
\* since; the whole table when the journal cannot say what changed.
UnderLockKnown(p, known, whole) == IF whole THEN Id ELSE known  \* mutant: no journal

UnderLock(p, known, whole) == IF whole THEN Id ELSE known \cup changed[p]

--------------------------------------------------------------------------------
(* A writer: gather_reconcile, then apply_reconcile *)

\* The candidate, the cheap rungs, and the journal's marker.
Ask(w, t, s) ==
    LET settled == ActiveTwin(row, t) # 0 \/ RetiredTwin(row, t) # 0 IN
    /\ pc[w] = "idle" /\ Len(row) < MaxRows
    /\ wr' = [wr EXCEPT ![w] = [text |-> t, src |-> s, searched |-> ~settled,
                                hood |-> {}, conflict |-> 0, answer |-> "none"]]
    /\ pc' = [pc EXCEPT ![w] = IF settled THEN "apply" ELSE "load"]
    /\ UNCHANGED <<row, rv, rl, changed, retracts, withdrawn>>

\* load_active_conflict_candidates and _nearest_conflict.
Load(w) ==
    LET t == wr[w].text IN
    /\ pc[w] = "load"
    /\ wr' = [wr EXCEPT ![w].hood = Near(row, t, Id), ![w].conflict = Nearest(row, t, Id)]
    /\ pc' = [pc EXCEPT ![w] = IF Nearest(row, t, Id) = 0 THEN "apply" ELSE "probe"]
    /\ UNCHANGED <<row, rv, rl, changed, retracts, withdrawn>>

\* The model's answer: a contradiction, none, the call failed, or an update of
\* the same slot.
Probe(w) ==
    /\ pc[w] = "probe"
    /\ \E answer \in {"yes", "no", "none", "update"} : wr' = [wr EXCEPT ![w].answer = answer]
    /\ pc' = [pc EXCEPT ![w] = "apply"]
    /\ UNCHANGED <<row, rv, rl, changed, retracts, withdrawn>>

\* decide_ladder (external): the verdicts open to a pair.
Ladder(probed, answer) ==
    IF ~probed \/ (answer = "none" /\ FailClosed) THEN {"INCONSISTENT"}
    ELSE CASE answer = "yes" -> Verdicts
           [] answer = "update" -> Verdicts \cap {"UPDATE_SUPERSEDES", "UPDATE_SUPERSEDED_BY_EXISTING"}
           [] OTHER -> {"CORROBORATES"}

\* plan_quarantine: the candidate held behind a record pairing it with e.
Quarantine(t, s, e, twin) ==
    LET held == Append(row, NewClaim(t, s, "PROVENANCE_STALE", "CONFLICT_PENDING", 0))
    IN Append(held, NewRecord(held, e, Len(held), twin))

Demoted == [v \in AllVerdicts |->
    CASE v \in {"SUPERSEDES", "SUPERSEDED_BY_EXISTING"} -> "LOWER_TRUST_SOURCE"
      [] v \in {"DOCUMENT_SUPERSEDES", "DOCUMENT_SUPERSEDED_BY_EXISTING"} -> "DOCUMENT_SUPERSEDED"
      [] OTHER -> "SUPERSEDED_BY_UPDATE"]

\* plan_conflict_writes and _apply_conflict_plan on the pair (e, candidate); an
\* update names the claim it replaces.
Resolved(t, s, e, verdict) ==
    LET new == Append(row, NewClaim(t, s, "ACTIVE", "NONE", 0)) IN
    CASE verdict = "CORROBORATES" -> new
      [] verdict \in {"SUPERSEDES", "DOCUMENT_SUPERSEDES", "UPDATE_SUPERSEDES"} ->
           Append(Set(row, e, "PROVENANCE_STALE", Demoted[verdict]),
                  NewClaim(t, s, "ACTIVE", "NONE", IF verdict = "UPDATE_SUPERSEDES" THEN e ELSE 0))
      [] verdict \in {"DOCUMENT_SUPERSEDED_BY_EXISTING", "UPDATE_SUPERSEDED_BY_EXISTING"} ->
           Set(new, Len(new), "PROVENANCE_STALE", Demoted[verdict])
      [] verdict = "SUPERSEDED_BY_EXISTING" -> row
      [] OTHER -> Quarantine(t, s, e, FALSE)

Done(w) == pc' = [pc EXCEPT ![w] = "idle"] /\ wr' = [wr EXCEPT ![w] = NoGather]

SettledAtGather(w) == ~wr[w].searched   \* mutant: the gathered route is trusted

\* The cheap rungs, read again under the lock.
SettledNow(w) == ActiveTwin(row, wr[w].text) # 0 \/ RetiredTwin(row, wr[w].text) # 0

ApplySettled(w) ==
    LET t == wr[w].text
        dup == ActiveTwin(row, t)
        old == RetiredTwin(row, t)
        i == IF dup # 0 THEN dup ELSE old
    IN
    /\ pc[w] = "apply" /\ SettledNow(w) /\ i # 0
    /\ Done(w)
    /\ IF dup # 0 \/ IsHeld(row[i])
       THEN Commit(Observe(row, i, Sole(wr[w].src)))
       ELSE Commit(Quarantine(t, Sole(wr[w].src), i, TRUE))
    /\ UNCHANGED <<rv, rl, retracts, withdrawn>>

\* The search again; the gathered answer counts only for the same ACTIVE claim.
ApplySearched(w, whole) ==
    LET t == wr[w].text
        known == wr[w].hood \cup {wr[w].conflict}
        found == Nearest(row, t, UnderLock(w, known, whole))
        probed == wr[w].searched /\ found = wr[w].conflict
    IN
    /\ pc[w] = "apply"
    /\ ~SettledNow(w)
    /\ ~wr[w].searched => whole
    /\ Done(w)
    /\ IF found = 0
       THEN Commit(Append(row, NewClaim(t, Sole(wr[w].src), "ACTIVE", "NONE", 0)))
       ELSE \E verdict \in Ladder(probed, wr[w].answer) :
              Commit(Resolved(t, Sole(wr[w].src), found, verdict))
    /\ UNCHANGED <<rv, rl, retracts, withdrawn>>

--------------------------------------------------------------------------------
(* Closing a record *)

\* mutant: a found claim only stops the promotion
PromoteOrLeave(rows, b, found) ==
    IF found = 0
    THEN Append(Set(rows, b, "SUPERSEDED", "CONFLICT_RESOLVED"),
                NewClaim(rows[b].text, rows[b].src, "ACTIVE", "NONE", b))
    ELSE rows

\* promote_quarantined, or hold_behind when the search found a claim.
PromoteOrHold(rows, b, found) ==
    IF found = 0
    THEN Append(Set(rows, b, "SUPERSEDED", "CONFLICT_RESOLVED"),
                NewClaim(rows[b].text, rows[b].src, "ACTIVE", "NONE", b))
    ELSE Append(rows, NewRecord(rows, found, b, FALSE))

\* conflict_under_lock: the record's members and a verbatim twin left out.
HeldSearch(rows, r) ==
    LET b == rows[r].b IN
    Nearest(rows, rows[b].text,
            Id \ {rows[r].a, b, r, ActiveTwin(rows, rows[b].text)})

\* decide_demotion and apply_demotion, on a claim read as p.
Demote(rows, i, p) ==
    CASE IsHeld(p) -> [rows EXCEPT ![i].reason = "CONFLICT_RESOLVED"]
      [] p.status = "ACTIVE" -> Set(rows, i, "PROVENANCE_STALE", "CONFLICT_RESOLVED")
      [] OTHER -> rows

Discard(rows, i, p) ==
    IF Terminal(p) THEN rows ELSE Set(rows, i, "RETRACTED", "CONFLICT_RESOLVED")

\* PREFER_B demotes A before it searches.
SearchIn(r, act, a) ==
    HeldSearch(IF act = "PREFER_B" THEN Demote(row, row[r].a, a) ELSE row, r)

\* refusal_reason: the action would keep a claim it cannot restore.
Refused(r, act, a, b) ==
    \/ act = "PREFER_A" /\ a.status # "ACTIVE" /\ ~row[r].twin
    \/ act = "PREFER_B" /\ ~IsHeld(b) /\ b.status # "ACTIVE"

\* decide_resolution and the writes of resolve, on claims read as a and b; the
\* search runs on the demoted table, or was run before (found).
Resolution(r, act, a, b, found) ==
    LET ia == row[r].a
        ib == row[r].b
        demoted == Demote(row, ia, a)
        written ==
          CASE act = "PREFER_A" -> Demote(row, ib, b)
            [] act = "PREFER_B" ->
                 IF IsHeld(b) THEN PromoteOrHold(demoted, ib, found) ELSE demoted
            [] act = "BOTH_VALID" -> IF IsHeld(b) THEN PromoteOrHold(row, ib, found) ELSE row
            [] act = "DISCARD" ->
                 Discard(IF row[r].twin THEN row ELSE Discard(row, ia, a), ib, b)
            [] OTHER -> row
    IN IF act = "DEFER" THEN written ELSE Set(written, r, "RETRACTED", "CONFLICT_RESOLVED")

PermittedAlways(r, act, a, b, found) == TRUE    \* mutant: no transition table

\* The section 6.6 transition table at the writes: each row must still be in a
\* status the write may leave, or the whole resolution rolls back.
Permitted(r, act, a, b, found) ==
    LET ia == row[r].a
        ib == row[r].b
    IN
    /\ IsOpen(row[r])
    /\ act = "PREFER_A" /\ IsHeld(b) => row[ib].status = "PROVENANCE_STALE"
    /\ act = "PREFER_B" /\ a.status = "ACTIVE" => row[ia].status = "ACTIVE"
    /\ act \in {"PREFER_B", "BOTH_VALID"} /\ IsHeld(b) /\ found = 0 =>
          row[ib].status = "PROVENANCE_STALE"
    /\ act = "DISCARD" =>
          /\ ~row[r].twin /\ ~Terminal(a) => ~Terminal(row[ia])
          /\ ~Terminal(b) => ~Terminal(row[ib])

\* run_trust_cascade, capped at one record per run: record x is settled for A or
\* for B by the trust ranks (free here), or left for a person.
Cascaded(rows, x, winner) ==
    LET a == rows[x].a
        b == rows[x].b
        settled == IF winner = "A" THEN Demote(rows, b, rows[b])
                   ELSE LET demoted == Demote(rows, a, rows[a]) IN
                        IF IsHeld(rows[b])
                        THEN PromoteOrHold(demoted, b, HeldSearch(demoted, x)) ELSE demoted
    IN Set(settled, x, "RETRACTED", "CONFLICT_RESOLVED")

Cascadable(rows, x, winner) ==
    /\ IsOpen(rows[x]) /\ ~rows[x].twin /\ ~Terminal(rows[rows[x].a])
    /\ winner = "A" => rows[rows[x].a].status = "ACTIVE"

\* A resolution commits; PREFER_A and PREFER_B on a record of two live claims
\* may write a trust statement, whose cascade runs in the same transaction.
CommitResolution(r, act, a, b, found) ==
    LET rows == Resolution(r, act, a, b, found) IN
    \/ Commit(rows)
    \/ /\ act \in {"PREFER_A", "PREFER_B"} /\ ~row[r].twin
       /\ \E x \in DOMAIN rows, winner \in {"A", "B"} :
             Cascadable(rows, x, winner) /\ Commit(Cascaded(rows, x, winner))

\* The engine's review endpoint: the whole resolution under the writer lock.
EngineResolve(r, act) ==
    LET a == row[row[r].a]
        b == row[row[r].b]
    IN
    /\ IsOpen(row[r]) /\ act # "DEFER"
    /\ ~Refused(r, act, a, b)
    /\ UNCHANGED <<pc, wr, rv, rl, retracts, withdrawn>>
    /\ CommitResolution(r, act, a, b, SearchIn(r, act, a))

--------------------------------------------------------------------------------
(* The same resolution from a local CLI: session_scope without write=True.  The *)
(* first UPDATE takes SQLite's write lock; what is read before it may change.   *)

\* PREFER_B with nothing to demote searches before its first UPDATE.
Early(act, a) == act = "PREFER_B" /\ a.status # "ACTIVE"

LocalOpen(q, r, act) ==
    LET a == row[row[r].a]
        b == row[row[r].b]
    IN
    /\ pc[q] = "idle" /\ IsOpen(row[r]) /\ ~Refused(r, act, a, b)
    /\ rv' = [rv EXCEPT ![q] = [rec |-> r, act |-> act, a |-> a, b |-> b, found |-> 0]]
    /\ pc' = [pc EXCEPT ![q] =
         IF Early(act, a) THEN "search" ELSE "write"]
    /\ UNCHANGED <<row, wr, rl, changed, retracts, withdrawn>>

LocalSearch(q) ==
    /\ pc[q] = "search"
    /\ rv' = [rv EXCEPT ![q].found = HeldSearch(row, rv[q].rec)]
    /\ pc' = [pc EXCEPT ![q] = "write"]
    /\ UNCHANGED <<row, wr, rl, changed, retracts, withdrawn>>

LocalWrite(q) ==
    LET r == rv[q].rec
        act == rv[q].act
        a == rv[q].a
        b == rv[q].b
        found == IF Early(act, a) THEN rv[q].found ELSE SearchIn(r, act, a)
    IN
    /\ pc[q] = "write"
    /\ pc' = [pc EXCEPT ![q] = "idle"]
    /\ rv' = [rv EXCEPT ![q] = NoReview]
    /\ \/ Permitted(r, act, a, b, found) /\ CommitResolution(r, act, a, b, found)
       \/ ~Permitted(r, act, a, b, found) /\ Commit(row)
    /\ UNCHANGED <<wr, rl, retracts, withdrawn>>

--------------------------------------------------------------------------------
(* The release pass: a claim held behind a claim a later pass retired *)

Qualifies(r) ==
    /\ IsOpen(row[r]) /\ ~row[r].twin /\ IsHeld(row[row[r].b])
    /\ row[row[r].a].reason \in {"SUPERSEDED_BY_UPDATE", "DOCUMENT_SUPERSEDED"}

\* qualifying_records and read_conflict_watermark; one record per pass.
ReleaseTake(x, r) ==
    /\ pc[x] = "idle" /\ Qualifies(r)
    /\ rl' = [rl EXCEPT ![x] = [NoPass EXCEPT !.rec = r]]
    /\ pc' = [pc EXCEPT ![x] = "load"]
    /\ UNCHANGED <<row, wr, rv, changed, retracts, withdrawn>>

\* select_pairs: the nearest of ids, and any others that are ACTIVE (the subject-keyed
\* pool, whose keys, floor and cap are left free).
Selections(t, ids) ==
    {S \in SUBSET {i \in ids \cap DOMAIN row : IsActive(row[i])} :
        Nearest(row, t, ids) \in {0} \cup S}

\* The candidates are loaded and the pairs to ask selected, the members and a
\* verbatim twin left out.
ReleaseLoad(x) ==
    LET r == rl[x].rec
        t == row[row[r].b].text
        out == {row[r].a, row[r].b, r, ActiveTwin(row, t)}
    IN
    /\ pc[x] = "load"
    /\ \E S \in Selections(t, Id \ out) :
          rl' = [rl EXCEPT ![x] = [rec |-> r, out |-> out, asked |-> S,
                                   known |-> {i \in DOMAIN row : IsActive(row[i])}]]
    /\ pc' = [pc EXCEPT ![x] = "check"]
    /\ UNCHANGED <<row, wr, rv, changed, retracts, withdrawn>>

\* A pair is confirmed or a check fails: only an event is written.
ReleaseBlocked(x) ==
    /\ pc[x] = "check" /\ rl[x].asked # {}
    /\ pc' = [pc EXCEPT ![x] = "idle"]
    /\ rl' = [rl EXCEPT ![x] = NoPass]
    /\ Commit(row)
    /\ UNCHANGED <<wr, rv, retracts, withdrawn>>

\* _still_open.
StillOpen(r) == IsOpen(row[r]) /\ IsHeld(row[row[r].b])

\* No pair is confirmed: _still_open, _unchecked_since_load (a claim the selection
\* chooses now that was neither asked about nor loaded), then the record closes and
\* restore_held_claim folds or mints, all under the lock.
Release(x, whole) ==
    LET r == rl[x].rec
        b == row[r].b
        closed == Set(row, r, "RETRACTED", "CONFLICT_RESOLVED")
        twin == ActiveTwin(row, row[b].text)
        ids == UnderLock(x, rl[x].asked, whole) \ rl[x].out
    IN
    /\ pc[x] = "check"
    /\ pc' = [pc EXCEPT ![x] = "idle"]
    /\ rl' = [rl EXCEPT ![x] = NoPass]
    /\ \E S \in Selections(row[b].text, ids) :
          LET unchecked == S \ (rl[x].asked \cup rl[x].known) IN
          Commit(IF ~StillOpen(r) \/ unchecked # {} THEN row
                 ELSE IF twin = 0 THEN PromoteOrHold(closed, b, 0)
                 ELSE Set(Observe(closed, twin, row[b].src), b,
                          "SUPERSEDED", "CONFLICT_RESOLVED"))
    /\ UNCHANGED <<wr, rv, retracts, withdrawn>>

--------------------------------------------------------------------------------
(* Operators *)

RetractClaim(i) ==
    /\ retracts < MaxRetracts /\ retracts' = retracts + 1
    /\ IsActive(row[i])
    /\ UNCHANGED <<pc, wr, rv, rl, withdrawn>>
    /\ Commit(Set(row, i, "RETRACTED", "EXPLICIT_RETRACTION"))

\* retract_entry: every live particle of the entry, records included.
RetractEntry(s) ==
    LET Live(p) == p.status \in {"ACTIVE", "INCONSISTENCY"} /\ From(p, s) IN
    /\ \E i \in DOMAIN row : Live(row[i])
    /\ withdrawn < MaxWithdrawn /\ withdrawn' = withdrawn + 1
    /\ UNCHANGED <<pc, wr, rv, rl, retracts>>
    /\ Commit([i \in DOMAIN row |->
         IF Live(row[i]) THEN [row[i] EXCEPT !.status = "RETRACTED", !.reason = "SOURCE_RETRACTED"]
         ELSE row[i]])

Next ==
    \/ \E w \in Writer :
          \/ \E t \in Text, s \in Source : Ask(w, t, s)
          \/ Load(w) \/ Probe(w) \/ ApplySettled(w)
          \/ \E whole \in BOOLEAN : ApplySearched(w, whole)
    \/ \E r \in DOMAIN row, act \in Action :
          \/ EngineResolve(r, act)
          \/ \E q \in Reviewer : LocalOpen(q, r, act)
    \/ \E q \in Reviewer : LocalSearch(q) \/ LocalWrite(q)
    \/ \E x \in Releaser :
          \/ \E r \in DOMAIN row : ReleaseTake(x, r)
          \/ ReleaseLoad(x) \/ ReleaseBlocked(x)
          \/ \E whole \in BOOLEAN : Release(x, whole)
    \/ \E i \in DOMAIN row : RetractClaim(i)
    \/ \E s \in Source : RetractEntry(s)

Spec == Init /\ [][Next]_vars
--------------------------------------------------------------------------------
Gathered ==
    [text : Text, src : Source, searched : BOOLEAN, hood : SUBSET Id,
     conflict : {0} \cup Id, answer : {"yes", "no", "none", "update"}]
Selection ==
    [rec : {0} \cup Id, out : SUBSET ({0} \cup Id), asked : SUBSET Id, known : SUBSET Id]
Reviewed ==
    [rec : Id, act : Action, a : Particle, b : Particle, found : {0} \cup Id]

TypeOK ==
    /\ row \in Seq(Particle) /\ Len(row) <= MaxRows
    /\ pc \in [Proc -> {"idle", "load", "probe", "apply", "search", "write", "check"}]
    /\ wr \in [Writer -> Gathered \cup {NoGather}]
    /\ rv \in [Reviewer -> Reviewed \cup {NoReview}]
    /\ rl \in [Releaser -> Selection]
    /\ changed \in [Writer \cup Releaser -> SUBSET Id]
    /\ retracts \in 0..MaxRetracts /\ withdrawn \in 0..MaxWithdrawn

\* A claim held for review is what exactly one open record would release, and an
\* open record holds its claim B: no hold is stranded where no review reaches it,
\* and no review acts on a claim that left the quarantine (plan_quarantine,
\* hold_behind, resolve, run_trust_cascade, _release).
RecordMatchesHold ==
    /\ \A i \in DOMAIN row : IsHeld(row[i]) => \E r \in DOMAIN row : IsOpen(row[r]) /\ row[r].b = i
    /\ \A r \in DOMAIN row : IsOpen(row[r]) => IsHeld(row[row[r].b])
    /\ \A r, q \in DOMAIN row : IsOpen(row[r]) /\ IsOpen(row[q]) /\ row[r].b = row[q].b => r = q

\* One claim stands at most once, ACTIVE or held: racing assertions of the same
\* text fold into one row (the cheap rungs are read again under the lock).
OneStanding ==
    \A i, j \in DOMAIN row :
        /\ row[i].kind = "claim" /\ row[j].kind = "claim" /\ row[i].text = row[j].text
        /\ IsActive(row[i]) \/ IsHeld(row[i])
        /\ IsActive(row[j]) \/ IsHeld(row[j])
        => i = j

\* A held claim is minted at most once: two reviewers, or a reviewer and a
\* release pass, never both promote it (promote_quarantined, validate_transition).
OneSuccessor ==
    \A i, j \in DOMAIN row : row[i].sup # 0 /\ row[i].sup = row[j].sup => i = j

Enters(i) == i \in DOMAIN row' /\ IsActive(row'[i]) /\ ~(i \in DOMAIN row /\ IsActive(row[i]))

Ended(p) == pc[p] # "idle" /\ pc'[p] = "idle"

\* The claims a hold on b was recorded against.
Firsts(b) == {row[r].a : r \in {r \in DOMAIN row : row[r].b = b}}

\* What a release pass vouches for: the claims it asked about, and once one of those
\* is retired any claim it had loaded.
Vetted(x) ==
    rl[x].asked \cup (IF \E m \in rl[x].asked : ~IsActive(row[m]) THEN rl[x].known ELSE {})

\* A claim becomes ACTIVE only beside claims it was checked against.  An asserted
\* claim's nearest ACTIVE claim is the one its gather asked the model about; a
\* released claim's is one the release pass asked about, or one it had loaded when a
\* claim it asked about was retired meanwhile; a claim a review or the cascade
\* promotes has no ACTIVE neighbour but the ones its holds were recorded against
\* (apply_reconcile, _unchecked_since_load, promote_unless_contradicted).
EntersChecked ==
    [][\A i \in Id : Enters(i) =>
          LET t == row'[i].text IN
          /\ \A w \in Writer : Ended(w) => Nearest(row, t, Id) \in {0, wr[w].conflict}
          /\ \A x \in Releaser : Ended(x) =>
                Nearest(row', t, Id \ {i, row[rl[x].rec].a}) \in {0} \cup Vetted(x)
          /\ (\A p \in Writer \cup Releaser : ~Ended(p)) =>
                Near(row', t, Id \ ({i} \cup Firsts(row'[i].sup))) = {}]_vars

\* A claim a review or an operator judged becomes ACTIVE again only as the successor
\* of a hold: never by being asserted once more (_hold_retired_reassertion).
ReassertionIsReviewed ==
    [][\A i \in Id : Enters(i) /\ JudgedTwin(row, row'[i].text) # 0
          /\ ActiveTwin(row, row'[i].text) = 0 =>
             row'[i].sup # 0 /\ \A w \in Writer : ~Ended(w)]_vars

\* A claim that left the read surface never returns to it under its own id, and a
\* retracted or superseded row is never rewritten: history is append-only
\* (validate_transition, whatever a stale reader believed of the row).
HistoryStands ==
    [][\A i \in DOMAIN row :
          /\ i \in DOMAIN row' /\ row'[i].text = row[i].text
          /\ Terminal(row[i]) => row'[i].status = row[i].status
          /\ IsActive(row'[i]) => IsActive(row[i])]_vars
================================================================================
