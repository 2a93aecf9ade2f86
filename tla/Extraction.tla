------------------------------ MODULE Extraction ------------------------------
(***************************************************************************)
(* How a deposited snapshot becomes beliefs.  Runners (extract              *)
(* --all-pending, the daemon's catch-up, an operator naming one snapshot)   *)
(* share the corpus and the store and take their steps in any order.  A     *)
(* runner resets stale claims, collapses superseded snapshots, lists what   *)
(* is pending and takes the list one snapshot at a time: it claims it,      *)
(* reads it through the model, gathers from the store what it will act on,  *)
(* and writes under the writer lock.  Everything before the write phase is  *)
(* read without the lock and may be stale when the write phase uses it.     *)
(*                                                                         *)
(* Sources: particles/ingest/pipeline.py, ingest/generation.py,             *)
(* ingest/pending_collapse.py, ingest/absence.py, corpus/store.py and       *)
(* api/cli/extract.py.  The section 6.6 ladder between different claims is  *)
(* the module Reconcile's; here two candidates meet only as the same claim. *)
(***************************************************************************)
EXTENDS Naturals, Sequences

CONSTANTS
    Entry,        \* corpus entries
    Mutable,      \* those whose newer snapshot replaces the older
    MemoryFile,   \* memory files of one project
    Snap,         \* generation records: RESPONSE or ABSENT
    EntryOf,      \* the entry each belongs to
    Captured,     \* capture time
    Absent,       \* records that the source was looked for and not found
    Claim,        \* claims, up to the exact-duplicate identity key
    Says,         \* the claims a RESPONSE states
    Unchanged,    \* claims in chunks no edit touches (carry-forward)
    Runner,
    NoSnap,
    SlowRunners,  \* a living runner may outlast stale_in_progress_minutes
    MaxFaults,    \* bound: crashes, interrupted or refused calls, lost blobs
    MaxExplicit,  \* bound: snapshots an operator names
    MaxRetracts   \* bound: claims an operator retracts

ASSUME ExtractionAssumption ==
    /\ Mutable \subseteq Entry /\ MemoryFile \subseteq Mutable
    /\ EntryOf \in [Snap -> Entry]
    /\ Captured \in [Snap -> Nat]
    /\ \A s, t \in Snap : Captured[s] = Captured[t] => s = t
    /\ Absent \subseteq Snap /\ \A s \in Absent : EntryOf[s] \in Mutable
    /\ Says \in [Snap -> SUBSET Claim] /\ \A s \in Absent : Says[s] = {}
    /\ Unchanged \subseteq Claim
    /\ NoSnap \notin Snap
    /\ SlowRunners \in BOOLEAN
    /\ {MaxFaults, MaxExplicit, MaxRetracts} \subseteq Nat

VARIABLES
    st,        \* SnapshotRow.extraction_status; "NONE" before the deposit
    by,        \* SnapshotRow.superseded_by_snapshot_id
    age,       \* SnapshotRow.extraction_started_at against the stale cutoff
    blob,      \* the snapshots whose blob is on disk
    refused,   \* those a current row of extraction_refusals holds
    part,      \* per claim, the particles minted for it, in order
    pc, todo, job, plan,   \* per runner: place, work list, snapshot, collapses
    carried,   \* per runner: particles the extractor carried forward
    seen,      \* per runner: the indexes its gather built
    faults, explicits, retracts

corpus == <<st, by, age, blob>>
local  == <<pc, todo, job, plan, carried, seen>>
counts == <<refused, faults, explicits, retracts>>
vars   == <<corpus, part, local, counts>>

Status == {"ACTIVE", "PROVENANCE_STALE", "RETRACTED"}
Reason == {"NONE", "RETRACTED_DEPENDENCY", "CONFLICT_PENDING", "EXPLICIT_RETRACTION"}
Particle == [status : Status, reason : Reason, edges : SUBSET Snap, refs : SUBSET Snap]

\* A claim and a position in part[claim]: a particle id.
Index == [Claim -> Nat]
NoIndex == [c \in Claim |-> 0]
NothingSeen == [dup |-> NoIndex, retired |-> NoIndex, hold |-> {}, mark |-> NoIndex]

Init ==
    /\ st = [s \in Snap |-> "NONE"]
    /\ by = [s \in Snap |-> NoSnap]
    /\ age = [s \in Snap |-> "none"]
    /\ blob = {} /\ refused = {}
    /\ part = [c \in Claim |-> <<>>]
    /\ pc = [r \in Runner |-> "idle"]
    /\ todo = [r \in Runner |-> {}]
    /\ job = [r \in Runner |-> NoSnap]
    /\ plan = [r \in Runner |-> {}]
    /\ carried = [r \in Runner |-> {}]
    /\ seen = [r \in Runner |-> NothingSeen]
    /\ faults = 0 /\ explicits = 0 /\ retracts = 0

--------------------------------------------------------------------------------
(* Generations *)

Deposited == {s \in Snap : st[s] # "NONE"}
Newer(s, t) == EntryOf[s] = EntryOf[t] /\ Captured[t] < Captured[s]

\* get_entry_currency: the latest processed, uncollapsed record of the entry.
Processed(e) ==
    {s \in Snap : EntryOf[s] = e /\ st[s] = "COMPLETE" /\ by[s] = NoSnap}
Latest(S) == CHOOSE s \in S : \A t \in S : Captured[t] <= Captured[s]
Currency(e) == IF Processed(e) = {} THEN NoSnap ELSE Latest(Processed(e))

CurrentGenerationIsLast(s) == s     \* mutant: the snapshot just extracted is current

\* current_generation: the snapshot just extracted is not COMPLETE yet.
CurrentGeneration(s) ==
    LET held == Currency(EntryOf[s]) IN
    IF held = NoSnap \/ Captured[held] <= Captured[s] THEN s ELSE held

\* attests: whether a ref to snapshot s is a current statement by its entry.
Attests(s) ==
    LET held == Currency(EntryOf[s]) IN
    \/ EntryOf[s] \notin Mutable
    \/ held \notin Absent /\ held \in {NoSnap, s}

\* mutant: only the entry's own refs count
AttestedBySelf(p, e, current) == current \in p.refs

\* _unattested, for one particle, entry e and its current generation.
Attested(p, e, current) ==
    \E s \in p.refs : IF EntryOf[s] = e THEN s = current ELSE Attests(s)

\* cascade_superseded_generation over parts, once snapshot s was processed;
\* spared are the ids the pass carried forward or suppressed into.
Cascade(parts, s, spared) ==
    LET e == EntryOf[s]
        current == CurrentGeneration(s)
        Retired(c, i) ==
            LET p == parts[c][i] IN
            /\ e \in Mutable /\ <<c, i>> \notin spared
            /\ p.status = "ACTIVE"
            /\ \E x \in p.edges : EntryOf[x] = e /\ x # current
            /\ ~Attested(p, e, current)
    IN [c \in Claim |-> [i \in DOMAIN parts[c] |->
          IF Retired(c, i)
          THEN [parts[c][i] EXCEPT !.status = "PROVENANCE_STALE",
                                   !.reason = "RETRACTED_DEPENDENCY"]
          ELSE parts[c][i]]]

AppendRefDropped(p, s) == p         \* mutant: a suppressed duplicate leaves no ref

\* append_provenance_ref: append-only; one edge per entry, never re-pointed.
AppendRef(p, s) ==
    [p EXCEPT !.refs = @ \cup {s},
              !.edges = IF \E x \in @ : EntryOf[x] = EntryOf[s] THEN @ ELSE @ \cup {s}]

--------------------------------------------------------------------------------
(* Deposits, operators and faults *)

\* mutant: an absence keeps a blob too
DepositWithBlob(s) ==
    /\ st[s] = "NONE"
    /\ \A t \in Snap : Captured[t] < Captured[s] => st[t] # "NONE"
    /\ st' = [st EXCEPT ![s] = "PENDING"]
    /\ blob' = blob \cup {s}
    /\ UNCHANGED <<by, age, part, local, counts>>

\* A snapshot is captured and deposited; captures are deposited in order.
Deposit(s) ==
    /\ st[s] = "NONE"
    /\ \A t \in Snap : Captured[t] < Captured[s] => st[t] # "NONE"
    /\ st' = [st EXCEPT ![s] = "PENDING"]
    /\ blob' = IF s \in Absent THEN blob ELSE blob \cup {s}
    /\ UNCHANGED <<by, age, part, local, counts>>

Fault == faults < MaxFaults /\ faults' = faults + 1 /\ UNCHANGED <<explicits, retracts>>

LoseBlob(s) ==
    /\ Fault
    /\ s \in blob /\ blob' = blob \ {s}
    /\ UNCHANGED <<st, by, age, refused, part, local>>

\* An operator retracts a belief: a judgment about its value.
Retract(c, i) ==
    /\ retracts < MaxRetracts /\ retracts' = retracts + 1
    /\ i \in DOMAIN part[c] /\ part[c][i].status = "ACTIVE"
    /\ part' = [part EXCEPT ![c][i].status = "RETRACTED",
                            ![c][i].reason = "EXPLICIT_RETRACTION"]
    /\ UNCHANGED <<corpus, refused, local, faults, explicits>>

\* Time passes the stale cutoff of a claim.
Working(r, s) == pc[r] \in {"read", "gather", "apply"} /\ job[r] = s

Age(s) ==
    /\ age[s] = "fresh"
    /\ SlowRunners \/ ~\E r \in Runner : Working(r, s)
    /\ age' = [age EXCEPT ![s] = "old"]
    /\ UNCHANGED <<st, by, blob, part, local, counts>>

\* refusal_retry_days pass, the model changes, or a run says --retry-refused.
Expire(s) ==
    /\ s \in refused /\ refused' = refused \ {s}
    /\ UNCHANGED <<corpus, part, local, faults, explicits, retracts>>

--------------------------------------------------------------------------------
(* One run of extract --all-pending, up to its work list *)

\* A runner puts down its snapshot and goes on with its list.
NextItem(r, rest) ==
    /\ pc' = [pc EXCEPT ![r] = IF rest = {} THEN "idle" ELSE "next"]
    /\ todo' = [todo EXCEPT ![r] = rest]
    /\ job' = [job EXCEPT ![r] = NoSnap]
    /\ carried' = [carried EXCEPT ![r] = {}]
    /\ seen' = [seen EXCEPT ![r] = NothingSeen]
    /\ plan' = [plan EXCEPT ![r] = {}]

\* mutant: only rows that never got a claim time
StaleUnstamped == {s \in Snap : st[s] = "IN_PROGRESS" /\ age[s] = "none"}

\* reset_stale_in_progress, committed.
Stale == {s \in Snap : st[s] = "IN_PROGRESS" /\ age[s] # "fresh"}

ResetStale(r) ==
    /\ pc[r] = "idle"
    /\ st' = [s \in Snap |-> IF s \in Stale THEN "PENDING" ELSE st[s]]
    /\ age' = [s \in Snap |-> IF s \in Stale THEN "none" ELSE age[s]]
    /\ pc' = [pc EXCEPT ![r] = "plan"]
    /\ UNCHANGED <<by, blob, part, todo, job, plan, carried, seen, counts>>

\* plan_collapse: each unextracted record of a MUTABLE entry is superseded by
\* the entry's newest record that can still become its current generation.
Superseders(e) ==
    {s \in Snap : /\ EntryOf[s] = e /\ by[s] = NoSnap
                  /\ st[s] \in {"PENDING", "IN_PROGRESS", "COMPLETE"}
                  /\ s \in Absent \cup blob}
\* mutant: the superseder may be no newer
CollapsibleByAny(s, t) ==
    /\ EntryOf[s] = EntryOf[t] /\ EntryOf[t] \in Mutable
    /\ t \in Superseders(EntryOf[t]) /\ t = Latest(Superseders(EntryOf[t]))
    /\ st[s] \in {"PENDING", "FAILED"} /\ by[s] = NoSnap

Collapsible(s, t) ==
    /\ Newer(t, s) /\ EntryOf[t] \in Mutable
    /\ t \in Superseders(EntryOf[t]) /\ t = Latest(Superseders(EntryOf[t]))
    /\ st[s] \in {"PENDING", "FAILED"} /\ by[s] = NoSnap
Collapses == {x \in Snap \X Snap : Collapsible(x[1], x[2])}

PlanCollapse(r) ==
    /\ pc[r] = "plan"
    /\ plan' = [plan EXCEPT ![r] = Collapses]
    /\ pc' = [pc EXCEPT ![r] = IF Collapses = {} THEN "list" ELSE "mark"]
    /\ UNCHANGED <<corpus, part, todo, job, carried, seen, counts>>

\* mark_snapshot_superseded for each planned pair, under the writer lock and
\* conditional on the row still owing work.
MarkCollapsed(r) ==
    LET Marked(s) == /\ \E t \in Snap : <<s, t>> \in plan[r]
                     /\ st[s] \in {"PENDING", "FAILED"} /\ by[s] = NoSnap
    IN
    /\ pc[r] = "mark"
    /\ st' = [s \in Snap |-> IF Marked(s) THEN "COMPLETE" ELSE st[s]]
    /\ age' = [s \in Snap |-> IF Marked(s) THEN "none" ELSE age[s]]
    /\ by' = [s \in Snap |->
                IF Marked(s) THEN CHOOSE t \in Snap : <<s, t>> \in plan[r] ELSE by[s]]
    /\ plan' = [plan EXCEPT ![r] = {}]
    /\ pc' = [pc EXCEPT ![r] = "list"]
    /\ UNCHANGED <<blob, part, todo, job, carried, seen, counts>>

\* The PENDING snapshots but the ones a refusal holds (list_held_snapshots).
ListPending(r) ==
    /\ pc[r] = "list"
    /\ NextItem(r, {s \in Snap : st[s] = "PENDING"} \ refused)
    /\ UNCHANGED <<corpus, part, counts>>

--------------------------------------------------------------------------------
(* Taking one snapshot: skip_if_superseded, absences last *)

Listed(r, s) ==
    /\ pc[r] = "next" /\ s \in todo[r]
    /\ s \in Absent => todo[r] \subseteq Absent

TakeUp(r, s, place) ==
    /\ pc' = [pc EXCEPT ![r] = place]
    /\ todo' = [todo EXCEPT ![r] = @ \ {s}]
    /\ job' = [job EXCEPT ![r] = s]
    /\ UNCHANGED <<plan, carried, seen, corpus, part, counts>>

TakeResponse(r, s) ==
    /\ Listed(r, s) /\ s \notin Absent /\ by[s] = NoSnap
    /\ TakeUp(r, s, "claim")

\* memory_absence_holder: a memory file's absence waits for every uncollapsed
\* RESPONSE of another memory file captured before it that owes extraction,
\* unless that file was itself deleted later.
Holders(s) ==
    {t \in Snap \ Absent :
        /\ {EntryOf[s], EntryOf[t]} \subseteq MemoryFile /\ EntryOf[s] # EntryOf[t]
        /\ st[t] \in {"PENDING", "IN_PROGRESS", "FAILED"} /\ by[t] = NoSnap
        /\ Captured[t] <= Captured[s]
        /\ ~\E a \in Absent : st[a] # "NONE" /\ Newer(a, t)}

TakeAbsence(r, s) ==
    /\ Listed(r, s) /\ s \in Absent /\ by[s] = NoSnap
    /\ st[s] # "COMPLETE" /\ Holders(s) = {}
    /\ TakeUp(r, s, "absence")

SkipListed(r, s) ==
    /\ Listed(r, s)
    /\ \/ by[s] # NoSnap
       \/ s \in Absent /\ (st[s] = "COMPLETE" \/ Holders(s) # {})
    /\ NextItem(r, todo[r] \ {s})
    /\ UNCHANGED <<corpus, part, counts>>

\* extract <entry> --snapshot-id --force: no list and no superseded check.
NameSnapshot(r, s) ==
    /\ pc[r] = "idle" /\ s \in Deposited \ Absent
    /\ explicits < MaxExplicit /\ explicits' = explicits + 1
    /\ pc' = [pc EXCEPT ![r] = "claim"]
    /\ job' = [job EXCEPT ![r] = s]
    /\ UNCHANGED <<corpus, refused, part, todo, plan, carried, seen, faults, retracts>>

--------------------------------------------------------------------------------
(* Extracting it *)

\* mutant: the claim leaves the superseded mark
ClaimKeepsMark(r) ==
    /\ pc[r] = "claim"
    /\ st' = [st EXCEPT ![job[r]] = "IN_PROGRESS"]
    /\ age' = [age EXCEPT ![job[r]] = "fresh"]
    /\ pc' = [pc EXCEPT ![r] = "read"]
    /\ UNCHANGED <<by, blob, part, todo, job, plan, carried, seen, counts>>

\* claim_snapshot_for_extraction, whatever the row says now; it un-collapses.
ClaimSnapshot(r) ==
    /\ pc[r] = "claim"
    /\ st' = [st EXCEPT ![job[r]] = "IN_PROGRESS"]
    /\ age' = [age EXCEPT ![job[r]] = "fresh"]
    /\ by' = [by EXCEPT ![job[r]] = NoSnap]
    /\ pc' = [pc EXCEPT ![r] = "read"]
    /\ UNCHANGED <<blob, part, todo, job, plan, carried, seen, counts>>

\* mutant: the claim time outlives the claim
SetStatusKeepsTime(s, status) ==
    /\ st' = [st EXCEPT ![s] = status]
    /\ UNCHANGED <<by, age, blob>>

\* update_extraction_status is unconditional.
SetStatus(s, status) ==
    /\ st' = [st EXCEPT ![s] = status]
    /\ age' = [age EXCEPT ![s] = "none"]
    /\ UNCHANGED <<by, blob>>

BlobMissing(r) ==
    /\ pc[r] = "read" /\ job[r] \notin blob
    /\ SetStatus(job[r], "FAILED")
    /\ NextItem(r, todo[r])
    /\ UNCHANGED <<part, counts>>

\* The extractor reads the blob; a chunk whose hash an ACTIVE particle of the
\* entry carries is not read again.
Carries(s) ==
    UNION {{<<c, i>> : i \in {i \in DOMAIN part[c] :
                /\ part[c][i].status = "ACTIVE"
                /\ \E x \in part[c][i].edges : EntryOf[x] = EntryOf[s]}}
            : c \in Says[s] \cap Unchanged}

Read(r) ==
    /\ pc[r] = "read" /\ job[r] \in blob
    /\ carried' = [carried EXCEPT ![r] = Carries(job[r])]
    /\ pc' = [pc EXCEPT ![r] = "gather"]
    /\ UNCHANGED <<corpus, part, todo, job, plan, seen, counts>>

\* A call failed: the whole read is dropped and the snapshot is owed again; the
\* refusal is recorded when the model refused every call.
TransientError(r) ==
    /\ pc[r] = "read" /\ job[r] \in blob
    /\ Fault
    /\ refused' \in {refused, refused \cup {job[r]}}
    /\ SetStatus(job[r], "PENDING")
    /\ NextItem(r, todo[r])
    /\ UNCHANGED part

\* build_duplicate_index, build_retired_value_index and the change watermark,
\* all read before the lock.  An index keeps the first particle of a key, and
\* an open hold before a judged one.
First(S) == IF S = {} THEN 0 ELSE CHOOSE i \in S : \A j \in S : i <= j
IsHold(p) == p.status = "PROVENANCE_STALE" /\ p.reason = "CONFLICT_PENDING"
IsJudged(p) == p.status = "RETRACTED" /\ p.reason = "EXPLICIT_RETRACTION"

Gather(r) ==
    LET Having(c, Test(_)) == {i \in DOMAIN part[c] : Test(part[c][i])}
        IsActive(p) == p.status = "ACTIVE"
        Held == {c \in Claim : Having(c, IsHold) # {}}
    IN
    /\ pc[r] = "gather"
    /\ seen' = [seen EXCEPT ![r] =
         [dup |-> [c \in Claim |-> First(Having(c, IsActive))],
          hold |-> Held,
          retired |-> [c \in Claim |->
             First(IF c \in Held THEN Having(c, IsHold) ELSE Having(c, IsJudged))],
          mark |-> [c \in Claim |-> Len(part[c])]]]
    /\ pc' = [pc EXCEPT ![r] = "apply"]
    /\ UNCHANGED <<corpus, part, todo, job, plan, carried, counts>>

\* Anything raised after the claim: release_extraction_claim.  An account-level
\* refusal (bad key, no credit) ends the whole run.
Interrupted(r) ==
    /\ pc[r] \in {"read", "gather", "apply"}
    /\ Fault
    /\ IF st[job[r]] = "IN_PROGRESS"
       THEN SetStatus(job[r], "PENDING") ELSE UNCHANGED corpus
    /\ \E rest \in {todo[r], {}} : NextItem(r, rest)
    /\ UNCHANGED <<part, refused>>

\* The process dies, or its cleanup fails too: the claim is stranded.
Crash(r) ==
    /\ pc[r] # "idle"
    /\ Fault
    /\ NextItem(r, {})
    /\ UNCHANGED <<corpus, part, refused>>

--------------------------------------------------------------------------------
(* The write phase, one transaction under the writer lock *)

\* The candidates: what the snapshot says and no carried chunk holds.
Candidates(r) == Says[job[r]] \ {x[1] : x \in carried[r]}

\* search_store_under_lock, then _nearest_conflict: the same claim became
\* ACTIVE after the gather's watermark.
FoundLate(r, c) ==
    \E i \in DOMAIN part[c] : i > seen[r].mark[c] /\ part[c][i].status = "ACTIVE"

ReassertedNever(r) == {}            \* mutant: the retired index is not consulted

\* route_particle on the gathered indexes.
Suppressed(r) == {c \in Candidates(r) : seen[r].dup[c] # 0}
Reasserted(r) == {c \in Candidates(r) : seen[r].dup[c] = 0 /\ seen[r].retired[c] # 0}
Absorbed(r) == {c \in Reasserted(r) : c \in seen[r].hold}
Fresh(r) == Candidates(r) \ (Suppressed(r) \cup Reasserted(r))
Quarantined(r) == {c \in Fresh(r) : FoundLate(r, c)} \cup (Reasserted(r) \ Absorbed(r))

\* The stored particles that gain a ref naming the snapshot.
Observed(r) ==
    {<<c, seen[r].dup[c]>> : c \in Suppressed(r)}
        \cup {<<c, seen[r].retired[c]>> : c \in Absorbed(r)}
        \cup carried[r]

Minted(r, c) ==
    [status |-> IF c \in Quarantined(r) THEN "PROVENANCE_STALE" ELSE "ACTIVE",
     reason |-> IF c \in Quarantined(r) THEN "CONFLICT_PENDING" ELSE "NONE",
     edges |-> {job[r]}, refs |-> {job[r]}]

\* The write loop over the candidates.
Written(r) ==
    [c \in Claim |->
        LET old == [i \in DOMAIN part[c] |->
                      IF <<c, i>> \in Observed(r)
                      THEN AppendRef(part[c][i], job[r]) ELSE part[c][i]]
        IN IF c \in Fresh(r) \cup Quarantined(r) THEN Append(old, Minted(r, c)) ELSE old]

Apply(r) ==
    /\ pc[r] = "apply"
    /\ part' = Cascade(Written(r), job[r],
                 carried[r] \cup {<<c, seen[r].dup[c]>> : c \in Suppressed(r)})
    /\ SetStatus(job[r], "COMPLETE")
    /\ refused' = refused \ {job[r]}
    /\ NextItem(r, todo[r])
    /\ UNCHANGED <<faults, explicits, retracts>>

\* process_absence: no claim and no model call.
ProcessAbsence(r) ==
    /\ pc[r] = "absence"
    /\ part' = Cascade(part, job[r], {})
    /\ SetStatus(job[r], "COMPLETE")
    /\ NextItem(r, todo[r])
    /\ UNCHANGED counts

--------------------------------------------------------------------------------
\* What a run does by itself once started.
Step(r) ==
    \/ PlanCollapse(r) \/ MarkCollapsed(r) \/ ListPending(r)
    \/ \E s \in Snap : TakeResponse(r, s) \/ TakeAbsence(r, s) \/ SkipListed(r, s)
    \/ ClaimSnapshot(r) \/ BlobMissing(r) \/ Read(r) \/ Gather(r)
    \/ Apply(r) \/ ProcessAbsence(r)

Next ==
    \/ \E s \in Snap : Deposit(s) \/ LoseBlob(s) \/ Age(s) \/ Expire(s)
    \/ \E c \in Claim : \E i \in DOMAIN part[c] : Retract(c, i)
    \/ \E r \in Runner :
          \/ ResetStale(r) \/ Step(r)
          \/ \E s \in Snap : NameSnapshot(r, s)
          \/ TransientError(r) \/ Interrupted(r) \/ Crash(r)

Spec == Init /\ [][Next]_vars

\* Runs are started again and again (the daemon's interval, the operator), a
\* started run goes on, deposits arrive and time passes.
FairSpec ==
    /\ Spec
    /\ \A r \in Runner : WF_vars(ResetStale(r)) /\ WF_vars(Step(r))
    /\ \A s \in Snap : WF_vars(Age(s)) /\ WF_vars(Expire(s)) /\ WF_vars(Deposit(s))

--------------------------------------------------------------------------------
ExtractionStatus == {"NONE", "PENDING", "IN_PROGRESS", "COMPLETE", "FAILED"}
Place == {"idle", "plan", "mark", "list", "next", "claim", "read", "gather",
          "apply", "absence"}

TypeOK ==
    /\ st \in [Snap -> ExtractionStatus]
    /\ by \in [Snap -> Snap \cup {NoSnap}]
    /\ age \in [Snap -> {"none", "fresh", "old"}]
    /\ blob \subseteq Snap \ Absent /\ refused \subseteq Snap
    /\ part \in [Claim -> Seq(Particle)]
    /\ pc \in [Runner -> Place]
    /\ todo \in [Runner -> SUBSET Snap]
    /\ job \in [Runner -> Snap \cup {NoSnap}]
    /\ plan \in [Runner -> SUBSET (Snap \X Snap)]
    /\ carried \in [Runner -> SUBSET (Claim \X Nat)]
    /\ seen \in [Runner -> [dup : Index, retired : Index, hold : SUBSET Claim, mark : Index]]
    /\ {faults, explicits, retracts} \subseteq Nat

\* A collapsed snapshot is superseded by a newer snapshot of its own entry, so no
\* chain of collapses leads back to it and the entry keeps a live generation,
\* though the plan is computed before the lock its marks are written under
\* (plan_collapse, mark_snapshot_superseded).
CollapsedByNewer ==
    \A s \in Snap : by[s] # NoSnap => by[s] \in Snap /\ Newer(by[s], s)

\* A snapshot is collapsed if and only if superseded_by is set; its status is
\* then COMPLETE, no extraction work is owed (SnapshotRow).
CollapsedIsComplete == \A s \in Snap : by[s] # NoSnap => st[s] = "COMPLETE"

\* A row carries a claim time exactly while it is IN_PROGRESS, whoever wrote it
\* last: a row without one would be reset at once and one that kept it would be
\* reset early (claim_snapshot_for_extraction, update_extraction_status,
\* release_extraction_claim, mark_snapshot_superseded).
ClaimStamped == \A s \in Snap : st[s] = "IN_PROGRESS" <=> age[s] # "none"

\* No unfinished work anywhere.
Quiet ==
    /\ \A r \in Runner : pc[r] = "idle"
    /\ \A s \in Deposited : st[s] = "COMPLETE"

\* When all deposited work is done, every belief on the read surface is still
\* stated by a current generation of one of its sources, in whatever order the
\* generations were extracted (cascade_superseded_generation).
BelievedIsStated ==
    Quiet => \A c \in Claim : \A i \in DOMAIN part[c] :
        part[c][i].status = "ACTIVE" => \E s \in part[c][i].refs : Attests(s)

\* When all deposited work is done, a claim the current generation of some entry
\* states is on the read surface, or held for review, or was retracted by an
\* operator: suppression and retirement never lose it (route_particle,
\* append_provenance_ref, cascade_superseded_generation).
Current(s) == s \in Deposited /\ st[s] = "COMPLETE" /\ by[s] = NoSnap /\ Attests(s)

NoClaimLost ==
    Quiet => \A s \in Snap : Current(s) =>
        \A c \in Says[s] : \E i \in DOMAIN part[c] :
            part[c][i].status = "ACTIVE" \/ IsHold(part[c][i]) \/ IsJudged(part[c][i])

\* A step retires a belief for a lost source only when none of its refs is a
\* current statement after the step: an older snapshot that is extracted late
\* never retires what a newer one said (current_generation, _unattested).
Retires(c, i) ==
    /\ part[c][i].status = "ACTIVE"
    /\ part'[c][i].reason = "RETRACTED_DEPENDENCY"

StandingBeliefsStay ==
    [][\A c \in Claim : \A i \in DOMAIN part[c] :
          Retires(c, i) => ~\E s \in part[c][i].refs : Attests(s)']_vars

\* A value an operator retracted comes back only as a hold for review: no new
\* ACTIVE particle of the claim is minted (build_retired_value_index,
\* _hold_retired_reassertion).
JudgedStaysOut ==
    [][\A c \in Claim :
          (/\ \E i \in DOMAIN part[c] : IsJudged(part[c][i])
           /\ \A i \in DOMAIN part[c] : part[c][i].status # "ACTIVE")
          => \A i \in DOMAIN part'[c] : part'[c][i].status # "ACTIVE"]_vars

\* Every deposited snapshot is eventually settled for good: extracted, collapsed
\* or failed, over crashes, interruptions, refusals and stale claims, unless it is an
\* absence held behind a memory file that failed (reset_stale_in_progress,
\* release_extraction_claim, list_held_snapshots, memory_absence_holder).
Settled(s) ==
    \/ st[s] \in {"COMPLETE", "FAILED"} \/ by[s] # NoSnap
    \/ s \in Absent /\ \E t \in Holders(s) : st[t] = "FAILED"

EverythingSettles == \A s \in Snap : <>[]Settled(s)
================================================================================
