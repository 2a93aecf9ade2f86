# TLA+ models of the particles engine

The engine keeps two stores. The *corpus* holds captured source material: one
entry per source, one snapshot per capture, one blob per snapshot. The *particle
store* holds the beliefs extracted from it, each with a status, a reason and
provenance refs to snapshots. Everything that writes does so in one SQLite
database, from several processes (the engine, direct-I/O CLI verbs, hooks, the
daemon) and from several asyncio tasks of each. Calls to a language model take
seconds or minutes and run outside the writer lock, so almost every operation has
the same shape: read, ask the model, take the lock, write. What was read may be
stale when it is used. That window is what these models are about.

## Inventory

| Component | State it keeps | Operations | What makes it correct |
|---|---|---|---|
| writer lock (`db.py`) | per-process `asyncio.Lock`, one file lock, open transaction | `write_lock`, `write_transaction` | one write block at a time, commit before release, every waiter is answered |
| corpus rows (`corpus/store.py`) | snapshot status, claim time, superseded mark | claim, release, set status, reset stale claims, mark superseded | status, claim time and mark agree whoever wrote last |
| deposit (`corpus/deposit.py`, `corpus/blob_io.py`) | blobs, entry and snapshot rows | write blob, match, write rows, load | a row names content that exists, whoever else writes it |
| blob check (`corpus/blob_fsck.py`) | blobs | audit, re-home a stray | a row's blob is where the row says |
| corpus delete (`operations/corpus_delete.py`), lint | rows and particles of an entry | preview, plan again, delete, under no lock; retire what cites missing rows | only what the entry alone supports goes; nothing keeps citing it but what was written late |
| partial reads (`ingest/append_base.py`, `partial_read.py`) | offset and whole-read marker of a snapshot | plan a delta, wait, keep a partly failed read | an offset vouches for its text; nothing is read twice |
| reindex (`operations/reindex.py`) | particles of an entry | replay in capture order, then retire | no claim is retired before its replacement is written |
| consolidation (`operations/consolidation.py`) | cycle lock, run records | passes over a window, record | no belief falls between two windows but what a pass left uncompared or was committed late |
| bulk run (`api/cli/extract.py`) | a work list in memory | reset, collapse, list, extract each | everything deposited is settled in the end |
| pending collapse (`ingest/pending_collapse.py`) | the superseded mark | plan (no lock), mark (lock) | only replaced by something newer of the same entry |
| extraction pipeline (`ingest/pipeline.py`) | candidates and gathered indexes in memory | claim, read, gather, write phase | no claim lost, nothing judged comes back unreviewed |
| generation cascade (`ingest/generation.py`) | particle status | retire what no current generation states | order of extraction does not matter |
| refusal hold (`corpus/refusals.py`) | rows of refused content | record, hold, clear | a hold lapses |
| absence (`ingest/absence.py`) | snapshot status | process an absence, wait for other memory files | a moved file is not lost, an absence does not wait for ever |
| duplicate suppression (`ingest/duplicate_suppression.py`) | none | lookups by identity key | one standing copy of a claim |
| conflict reconciliation (`pipeline.py`, `ingest/conflict_plan.py`) | particles and INCONSISTENCY records | gather, apply | a claim becomes ACTIVE only beside claims it was checked against |
| quarantine, review, trust cascade, release | held claims and their records | five review actions, promotion, demotion, release | a hold has exactly one open record; nothing is promoted twice |
| source retraction (`operations/retract.py`) | particle status | retract all of an entry | nothing is stranded |
| change journal (`store/change_journal.py`) | ids changed after a marker, newest 100,000 | read after a marker, or "cannot say" | no change is missed |
| candidate cache (`store/candidate_cache.py`) | in-process copy of the candidates | bring up to date, search | answers what the table would |
| subjects and relations (`store/subject_store.py`) | subject graph | merge, split, restore | not modelled |
| daemon, API, MCP, curation, events | front ends, schedules, an audit log | | |

Interactions: the bulk run, the daemon's catch-up and an operator's forced
extraction all enter the pipeline. The pipeline's write phase, `apply_reconcile`,
the review endpoint and the release pass all write particles under the writer
lock. The cascade runs at the end of a write phase; the trust cascade at the end
of a review. The reviewer at a local CLI is the one writer that reads before it
holds the lock.

Hard behaviours: two runners on one corpus; reads before the lock used under it;
process death between two commits; claims of a dead or slow runner; cancellation
of a task whose pool thread goes on; snapshots extracted out of order; reviews,
releases and retractions crossing on one record; a cache kept current through
rollbacks and pruning; reads that fail in some of their calls; a delete beside
writers; nights that do part of their work. `PROJECT.json` lists them as
hazards, each at its line.

## Modules

`WriteLock` is the bottom layer. It implements `ExclusiveStore`, in which write
transactions happen one after the other; every other module takes a write phase as
one atomic step, or a transaction as the one open transaction, on that ground.
`Candidates` implements `FreshReads`, in which every reader gets rows as they were
during its question; `Reconcile` reads the table directly on that ground, and its
`changed` and `whole` are what `Candidates` shows of the journal. `Extraction` has
the MUTABLE sources, `AppendReads` the APPEND_ONLY ones, `Corpus` what lies under
both on disk and in the corpus tables, `Consolidation` the cycle above them all.
`MC*` modules give the constants values. `*Proofs` modules hold the theorems.

### WriteLock: `db.py`

`pc[t]` is where a task stands in `write_transaction`: `waitAsync` at the
`asyncio.Lock`, `waitFile` while a pool thread polls the file lock, `block` inside,
`settled` after commit or rollback, `freed` after the file lock is released.
`alock`/`aqueue` are the process's lock and its FIFO of waiters; `fowner`/`fcount`
the file lock, re-entrant within a process because the lock object is shared
across threads (`thread_local=False`). `orphans` counts pool threads whose task
was cancelled. `Crash` is the death of a process. The asyncio and filelock
libraries are external, modelled from how `db.py` uses them.

### Extraction: from snapshot to beliefs

`refused` are the snapshots held off the work lists because the model refused every
call; `Expire` is whatever ends the hold. `st`, `by` and `age` are the three columns
of a snapshot row (`age` is the claim time seen against the stale cutoff: none, fresh or old). `part[c]` is the sequence
of particles minted for claim `c`; a claim stands for a content up to the
exact-duplicate identity key. A particle has `edges` (one per entry, as the
provenance edge table) and `refs` (all its provenance refs). A runner goes through
`idle, plan, mark, list, next, claim, read, gather, apply` (or `absence`); each
arrow is one transaction of the code or one unlocked read. `Apply` is the whole
write phase: write loop, carry-forward refs, generation cascade, COMPLETE.

Abstractions: the section 6.6 ladder between *different* claims is `Reconcile`'s;
here two candidates meet only as the same claim, and a claim that became ACTIVE
after the gather is met unprobed and so quarantined. Every entry of the instance
is a memory file, so MUTABLE; `Attests` and the cascade have the other case too.
Restatements in another wording, narrative and stance edges, budgets and
statistics are left out; the partial reads of APPEND_ONLY sources are
`AppendReads`'s.

### Reconcile: how one claim meets the store

`row` is the particles table in insertion order, claims and INCONSISTENCY records
together; a record names claims `a` and `b`, and `twin` marks one that holds a
reassertion of a judged claim. A writer's `Ask`, `Load` and `Probe` are
`gather_reconcile`; `ApplySettled` and `ApplySearched` are `apply_reconcile`.
`changed[p]` is what the change journal would name after the marker `p` took, and
`whole` the journal's "cannot say". `EngineResolve` is the review endpoint, one
transaction under the lock. `LocalOpen`, `LocalSearch`, `LocalWrite` are the same
`resolve` from `api/client/local.py`, whose session takes SQLite's write lock only
at its first UPDATE; `Permitted` is the transition table that every status write
checks against the row as it then is. `ReleaseTake`, `ReleaseLoad`,
`ReleaseBlocked`, `Release` are the release pass. It asks about the nearest ACTIVE
claim and some others (`Selections`) and keeps what it asked and all it had loaded
(`asked`, `known`). Under the lock it selects again, over the asked claims and what the journal names,
and leaves the record open only for a claim in neither set.

Abstractions: the ladder's decision (`particles.core`, external) is free among
`Verdicts`, the trust ranks are free, the model answers anything. The release pass's
subject-keyed pool is any set of ACTIVE claims: its keys, floor and cap are left free,
and a pass takes one record. Left out:
observer scopes, the candidate cache (the search reads the table), an agent's
explicit supersede, records of more than two claims, and a trust cascade settling
more than one record in one run. `update_particle_status` is taken to read the
row again, since a session keeps no strong reference to rows it has let go.

### ExclusiveStore, FreshReads: the promises

`ExclusiveStore` has two sets, the tasks in a block and the tasks with an open
transaction; a transaction begins with its block when both sets are empty and is
over with it. `WriteLock` maps `writing` to the tasks at `block` and `open` to
`dirty`. `FreshReads` has a view of the table per session, which changes freely,
and a question that remembers every value each row had since it was asked; each
row of the answer is one of them. It promises nothing of two rows together, because
a session outside a transaction runs each SELECT on its own.

### Candidates: journal, cache and the search under the lock

`db` is the committed store (rows, journal, newest sequence number), `txn` the one
open write transaction with its own store; a session inside it reads that one.
`RowWrite` is a row change with both triggers, insertion of an entry with a fresh
random token and pruning to `Retention`. A rollback gives sequence numbers back, so
the same number may name another change later: that is what tokens are for. `Take`,
`ReadHead`, `TokenAt`, `Since`, `Reread`, `Build`, `Publish` are the SELECTs of
`load_active_candidates`, one step each. `Judge` is `search_store_under_lock`.
Whether a query may build the cache is free (`Direct`).

### AppendReads: one APPEND_ONLY entry

`rows` has a snapshot's content, status, `extracted_through` and whole-read marker;
a text is a sequence of units, and a claim stands for all that one answered chunk
yielded. A read is `BulkClaim` (or `ReindexClaim`), `Plan`, `Read`, `Apply`; in
`Read` any subset of the calls may fail. `PartialKeep` is `decide_partial_keep`.
Chunking and the call cap belong to the extractors and are external. A reindex goes
`ReindexStart`, `ReindexItem`, then per snapshot the same read, and `Retire`.
`calm` is history for `ReadOnce`: nothing was rewritten or reindexed, no two readers
overlapped, and no plan began behind a recorded read of its text (`Behind`).
Abstractions: one entry; the chunk hash is the chunk; what the ladder would make of
the claims is left out, and so is the lint a reindex ends with.

### Corpus: blobs, rows and the delete

`file` is what lies at each blob's name. `Look`, `Holds`, `Link`, `Judge`, `Unlink`
are the file-system calls of `write_blob`; `Match` and `Insert` the reads and the
writes of `write_entry_and_snapshot` under the lock. An extraction is `Gather` and
`Write`, with only what it shares with a delete. `Preview`, `Replan`, `Delete` are
the command, `Lint` the operator's `lint --fix`, at any time or never. Rows are
numbered and stay in the sequence when deleted, marked as gone.
None of the delete's steps takes the writer lock, so anything may come between them;
`late` is history, the particles an extraction wrote between the second plan and the
statements. The constant `SameName` names what the run leaves out, because the code
does not hold then: two writers on one torn file.

### Consolidation: windows and run records

`now` moves with every stamp. A run is `Begin`, `Acquire`, `Extract`, `Sweep`,
`Census`, `Record`, `Release`. A pass priced in model calls runs, fails, is skipped
by the budget, is cut by it or is switched off, and on a night without a provider it
is skipped. A pass that runs compares any part of its scope (`Compared`): a probe
without an answer keeps both claims, and a cap or a lost batch ends the probing. The
other passes are one free outcome in `Record`. `Raise` is an exception outside every
pass, the record's own transaction included: the `finally` frees the lock and there is
no record. `swept` and `probed` are history, the beliefs compared since they last
changed; `unswept` and `unprobed` those that a pass which ended well, or was off, passed
over; `late` those committed behind a window that was open or about to be. The windows
are `asserted_at`, the deposit time of a source and the time of a reclassification
against the `started_at` of the run that counts. `Kinds` are the ways a belief is
written, by the stamps it gets.

## Runs

Passing:

| Run | Instance | Properties |
|---|---|---|
| `write_lock` | 2 processes, 3 tasks, 2 cancellations per process, crashes unbounded; 7,065 states | TypeOK, OneWriter, CommitInsideLock, ImplementsExclusiveStore, EveryWriterIsAnswered |
| `extraction_one` | 1 runner, 2 entries, 4 snapshots, 2 claims, 2 faults, 1 forced extraction, 1 retraction; 285,088 states | TypeOK, CollapsedIsComplete, BelievedIsStated, NoClaimLost, StandingBeliefsStay, JudgedStaysOut, EverythingSettles |
| `extraction_two` | 2 runners that may outlast the stale cutoff; 688,653 states | CollapsedByNewer, ClaimStamped, BelievedIsStated |
| `reconcile_locked` | 2 writers, 1 release pass, the engine's reviewer, 1 retraction, 5 rows; 920,384 states | RecordMatchesHold, OneStanding, EntersChecked, ReassertionIsReviewed |
| `reconcile_local` | 1 writer, 2 local reviewers, 1 release pass, 1 retracted entry, 5 rows; 288,359 states | TypeOK, OneStanding, OneSuccessor, HistoryStands |
| `candidates` | 2 sessions, 2 rows, 4 changes, a journal of 2 entries; 836,552 states | TypeOK, DifferencesAreJournaled, JudgedOnTheTable, ImplementsFreshReads |
| `append_reads` | 1 reader, 3 snapshots of at most 5 units, 2 faults, 1 lost blob, 1 broken promise, 1 reindex; 1,073,395 states | TypeOK, RecordedIsBelieved, ReadOnce, EveryReadEnds |
| `corpus` | 2 depositors, 1 extraction, 2 addresses, 2 contents (1 torn, 1 stray), 1 crash, 1 delete; 689,648 states | TypeOK, RowsAreReadable, RowsHaveEntries, OnlySoleSourceAsPlanned, OnlyLateWritesDangle |
| `consolidation` | 2 runners, 1 belief, 5 instants, 2 run records kept, 1 audit, 1 kill or exception; 5,141,006 states | TypeOK, OnlyLateFallBetween, SweepMissesNothing, RecordedWhateverFails |

The corpus of the Extraction runs is chosen so that each hard case occurs: `e1`
is rewritten (`s1`, then `s2`) and deleted (`gone`); `s2` keeps `d` in a chunk the
edit did not touch, and drops `c`; `e2`'s only snapshot states `c`, captured before
the deletion, so that `c` moves from one file to the other and the absence has a
file to wait for. The Reconcile runs have three texts that are all near each other
at two different distances, so the nearest claim can change under a writer. Five
rows hold two standing claims, a held one with its record, and one more row: what
a promotion mints, or the record a refused promotion is held behind. The case
`EntersChecked` excepts (`Vetted`) needs six rows, which two writers do not explore within the
time of a run: a search at six rows found it, one writer with six rows passes
(57,144 states), and the theorem `ClaimsEnterChecked` covers every size. `Ask` stops when the table is full and a commit
that would not fit is not taken; `ta` and `tb` are interchangeable. Deadlock is not
checked where a bound on rows, snapshots or instants ends every behaviour.

`candidates` prunes to so few entries that markers vanish between a gather and its
judgement, and re-reads at most one row before it rebuilds. `append_reads` cuts a
whole read into chunks of one unit and a delta into chunks of two with a unit of
context, two calls at most: a read can fail in its first or its last chunk and can be
capped, a capped COMPLETE snapshot can record less than an earlier one, and three
snapshots give an earlier base, a further read and a waiting one. `ReadOnce` was also
checked with eight other choices of the chunk sizes.
`corpus` has two contents that share a claim, so that one entry's delete meets a
claim of two sources. `consolidation` keeps two records, so that the one that
counts can fall off the end; five instants are two runs, an audit, and a belief's
two stamps; one belief is enough because the windows judge each by itself.

Violations, one property each, all of statements the repository makes:

| Run | What it shows |
|---|---|
| `append_reindex` | `reindex --extractor-version` over an entry with a COMPLETE and a PENDING snapshot replays the entry, then dispatches the pending one as a replay of its own, which retires what the first has just written; the offsets go on vouching for it |
| `corpus_delete` | an extraction gives a claim a second source between the delete's second plan and its first statement; the claim is deleted |
| `consolidation_gap` | a belief extracted beside the cycle from an older entry is drafted before a run starts and committed after the run read its scope; it is in no window, then or later |

Further disagreements that other values of the constants show:

| Model and change | Property that fails | What happens |
|---|---|---|
| `WriteLock`, any cancellation | "the file lock's owner has a task in its block" (`db.write_lock`: "Hold the per-store writer lock for the duration of the block") | the pool thread of a cancelled task acquires the file lock for nobody and keeps it until the process ends |
| `Extraction`, 2 runners, `SlowRunners = FALSE`, 1 fault | CollapsedIsComplete | a runner gives back a snapshot another one collapsed: the row is collapsed and PENDING |
| `Extraction`, 2 runners | NoClaimLost, JudgedStaysOut | a candidate is suppressed into a particle another runner retired after the gather; the retired-value index has the same window |
| `Extraction`, 2 runners, `SlowRunners = FALSE`, no faults, the absence captured between two responses of its entry | StandingBeliefsStay | one runner takes the absence up, another collapses it under the newer response, then the first processes it and retires what the older response, still the entry's current generation, states |
| `Reconcile`, 2 sources, `MaxWithdrawn = 1` | RecordMatchesHold | retracting the source of a held claim closes its record and strands the hold |
| `Reconcile`, `Reviewer = {q1}`, 6 rows | EntersChecked | a local PREFER_B with nothing to demote searches before it holds a lock |
| `AppendReads`, `Scopes = {"pending"}` or `{"partial"}` | RecordedIsBelieved | an ordinary pair retires the claims that cite its snapshot while other offsets vouch for them |
| `AppendReads`, 2 runners, `Overlap = TRUE`, 1 fault | RecordedIsBelieved | a reindex retires what a reader beside it counted on |
| `AppendReads` as run, `calm` without `Behind` | ReadOnce | a snapshot cut by the call cap is COMPLETE at a lesser offset than an earlier one and becomes the next one's base, as the latest COMPLETE one, though `append_base.py:14` says "The base is the snapshot that records the furthest read": a unit is read twice under other chunking |
| `Candidates`, `PruneRace = TRUE` | ImplementsFreshReads | a commit prunes past the marker between `token_at` and `changed_since` (it would take 100,000 entries at once) |
| `Corpus`, `SameName = TRUE` | RowsAreReadable | a writer unlinks the good blob another one installed after it judged the torn file |
| `Corpus` as run | "no snapshot row is without its entry" | a snapshot is deposited into an entry deleted after the lookup; `RowsHaveEntries` says what such a row may be |
| `Reconcile`, 2 writers, 6 rows | EntersChecked with `asked` for `Vetted` | a release pass asks about one claim and has another loaded; the asked one is retracted, the other is now the nearest, and the hold is released beside it unasked, though `_release` says it "Leaves the record open, counted incomplete, when the selection under the lock chooses a claim no check asked about" (`held_release.py:498-499`) |
| `Consolidation` as run | `Believed \ swept \subseteq Window(Watermark)` | a sweep that leaves a belief uncompared, or is switched off, moves the watermark past it, though `_event_degraded` says that when "some of its delta was not probed" "the next run's window must still open before it" (`consolidation.py:1200-1202`) and `latest_run_event` warns of turning "not probed this run" into "never probed" (`:1226-1228`) |

A FAILED snapshot that holds the whole-read marker makes later ones wait
until its blob is restored: a reindex of the entry, which the log line recommends
(`consolidation.py:2668`), releases the wait only when the entry also has a
COMPLETE snapshot to replay. `EveryReadEnds` excepts that wait.

## Fairness

`WriteLock`: weak fairness of each task's own steps once it has asked to write.
The event loop runs every ready task, a block is database work only, and an
acquire ends by success or by `timeout_seconds`. No fairness is assumed of
cancellations, orphaned threads, crashes, restarts or of asking at all.
`EveryWriterIsAnswered` counts the timeout as an answer.

`Extraction`: weak fairness of starting a run (the daemon's interval, or an
operator who runs it again), of a started run's own steps, of deposits, and of
time passing the stale cutoff and the refusal's retry window. Faults are bounded, and no fairness is assumed of
them. `EverythingSettles` excepts an absence that waits for a memory file whose
extraction FAILED (its blob is lost), because nothing in the code retries that file by itself.

`AppendReads`: weak fairness of freeing stale claims and of each runner's taking and
working on snapshots, as in `Extraction`; none of captures, faults or of starting a
reindex. The other modules assume no fairness and state no liveness: when an
operator lints or a night runs is free.

## Proofs

All by TLAPS, for every value of the constants under the modules' `ASSUME`s: types
of the constants, a bound is a natural number, distinct capture times, absences only
of MUTABLE entries and without claims (`Extraction`), finitely many claims of a
content (`Corpus`), a symmetric similarity and three disjoint kinds of process
(`Reconcile`). Each invariant was an invariant of the component's TLC runs before it
was proved.

A theorem with a hypothesis says where the code's promise ends. Every hypothesis
excludes one race, and a run or a row of the table above shows a property of the
group failing without it. (The type invariant of `Candidates` is proved as part of the
same invariant and so carries its hypothesis.) What a property itself excepts is the
behaviour of the code at its limit, and is in the model: a delete's unlocked
statements, beliefs committed behind a window, probes without an answer, a release beside a claim
that was loaded and not asked about.

| Hypothesis | Theorems | Without it |
|---|---|---|
| none | all of `WriteLockProofs` and `ExtractionProofs`; `BeliefInvariance`, `BeliefsAreStated`; `Typed`, `TypeCorrect`; all of `ConsolidationProofs`; all of `CorpusProofs` but `RowsStayReadable`; `ReconcileTyped`, `ClaimsStandOnce`, `MintedOnce`, `HistoryIsKept`, `JudgmentsHold` | |
| `Alone`: one runner | `SoloInvariance`, `CollapsedOwesNothing`, `ClaimsAreKept`, `JudgedStayOut`, `StandingBeliefsAreKept` | the three `Extraction` rows with 2 runners |
| `Named`: reindexes by name only, and alone | `OffsetsStand`, `OffsetsVouch` | run `append_reindex`, and the `AppendReads` rows with other scopes and with `Overlap` |
| `~PruneRace` | all of `CandidatesProofs` | the journal is pruned past a marker between two SELECTs |
| `~SameName` | `RowsStayReadable` | two writers on one torn file |
| `MaxWithdrawn = 0` | `HoldsMatchRecords` | an entry's retraction strands a hold |
| `Reviewer = {}` | `ClaimsEnterChecked` | a local reviewer's unlocked search |

`WriteLockProofs`: `SingleWriter`, `TransactionsInsideLock` and `LockTyped`, from
`LockInvariance`. `OneWriter` is not inductive: two tasks of different processes
could be in their blocks if the file lock's owner were not tied to them. `LockInv`
adds three links. `HolderRecorded`: a task between acquire and release is the one
its process's `asyncio.Lock` names. `LockHeld`: a task in `block` or `settled` has
its process as the file lock's owner with at least one level of it, whatever the
orphans of the process have added. `DirtyInBlock`: an open transaction is a task's in `block`.
`DeadTogether`: a process's tasks die together, which `Restart` needs.
`LocksImplementExclusiveStore` is the refinement, for any processes and tasks: a
`FileAcquire` is `Begin` because `LockHeld` leaves no other task in a block,
`Settle` and the crash of the writing process are `End` because `DirtyInBlock` ties
the open transaction to that task, and every other step leaves both sets alone
(`QuietSteps`).

`ExtractionProofs`: `ExtractionTyped`, `CollapsesPointForward` and
`ClaimsAreStamped`, from `ExtractionInvariance`. `CollapsedByNewer` needs the plan
that a runner carries from its unlocked read to its marks to hold only pairs that
point forward in capture time, and the claim needs a working runner to have a
snapshot at all (`RunnersOK`). `PartOK` types the particles through the write
phase, where the gathered positions must be natural numbers (`FirstTyped`, by the
well-ordering of the naturals).

`ExtractionBeliefProofs` goes on from there to what extraction does to the beliefs.
`BelievedIsStated` speaks of the moment when no work is left, so its invariant must say
what holds while work is owed, when no entry has a settled current generation. What
holds is that the newest deposited record of an entry is never collapsed (a plan points
forward, deposits come in capture order: `Latests`) and that the cascade which settles the
entry is still to come as long as that record is not COMPLETE (`Awaits`). `Stated`:
every belief has a ref that is the newest of its entry or whose entry awaits its
settling (`Stands`). `PartsSourced` and `Known` carry it through suppression and
provenance appends: what a particle cites is deposited, with an edge per entry.
`BeliefsAreStated` holds for any number of runners, stale ones too, because the cascade reads its
tables in the transaction that writes.

The other properties need that what was gathered is still true when it is written, which one
runner at a time gives (`Alone`); `SoloInv` says so. `OwnClaim`: what a runner works on is
not collapsed under it. `CarriedHolds`, `SeenHolds`: a particle carried or known to the
index as a duplicate is believed or was judged by an operator meanwhile (`Upheld`), a
claim the index does not know is still unknown. `AllKept`: each claim of a record that
counts (`Speaks`) is believed on that record's word, held, or judged. `PassOld` is the
lemma on which both ends rest: a stored particle comes out of a write phase with its
refs, and is retired only when nothing attests it (`Unattested`). `PassCurrency` says
what the entry's current generation is after the pass, which turns that into
`StandingBeliefsAreKept`. The whole of `BeliefInv` and `SoloInv` was an invariant of
a TLC run first (one runner 285,088 states; `BeliefInv` with two runners and faults 3.6
million).

`AppendReadsProofs`: `IndType` types rows with their offset inside their text and the
runners with what they carry (`Shaped`): a plan `Fits` its snapshot, the chunks are the
plan's, and a result lies within them. The lemmas under it are about the operators: the
chunks of a plan cover the text from its start (`ChunksCover`), any way of failing leaves a
result whose offset its chunks reach (`PartialKeeps`, `ResultFacts`), a plan starts
inside its text and where some snapshot was read to (`AutoPlanFits`), and every chunk written
is a claim's afterwards (`Ranks`, `WrittenFacts`). `OffsetsVouch` follows from `BeliefInd`.
`RecordedIsBelieved` alone is not inductive: a delta trusts the text before its start,
and a reindex retires the claims that held when it began. `Backed` says of each runner that the text
before its plan is in claims that outlast the read, that what it will record is carried
over or about to be written, and that a replay has still in its list every COMPLETE row
its new claims do not cover. `Lonely` says that a reindex has no reader beside it.
Any number of bulk readers may run beside each other. `BeliefInd` was an invariant of TLC
runs first, with whole chunks of two units and delta chunks of one (one runner 458,873 states, two runners 338,188).

`CandidatesProofs`: `CandidatesTyped`, `CacheIsJournaled`, `JudgedOnTheTransaction`
and the refinement `AnswersAreFresh`, from `CacheInv`. `Shape`: both stores have a
journal without gaps up to their newest number, and every marker has a token
drawn already. `Ahead`: an open transaction is ahead of the committed store by
what its journal names. `Covered` is the heart: whoever finds a marker's token in a
journal holds, for every row, the row or one that the journal names after the
marker. It has to be said of the cache, of every copy of it and of every half-built
answer, against both stores, because a commit makes the one the other and a
rollback drops it. The tokens carry it across rollbacks: a number given out again has another
token, so an old marker is not found. `Marked` and `Listed` follow a query from one
SELECT to the next, `Judged` the judgement, and `Seen` is the history
that the refinement needs.

`ConsolidationProofs`: `ConsolidationTyped`, `CensusMissesNothing`,
`SweepsMissNothing` and `CyclesAreRecorded`, from `CycleInv`. The two window
properties speak of the next run, so they are not inductive without what the run under
way has done: `WindowOK` (until its sweep its window, and then its scope, holds all the sweeps
owe, but for what changed since it started), `WorkDone` (a run whose sweep or census counts owes
only what changed since it started), `OnRecord` (who is about to give the lock back is in
the log), `OwnDrafts` (a draft of the cycle's own extraction is stamped later than every
run on record), `Stamped` (nothing is stamped later than now) and `LockOK` (one
cycle at a time). What the passes owe (`SweepOwes`, `CensusOwes`) leaves out what a
pass that ended well passed over and what was committed late, because the record of
the run moves the window all the same.

`CorpusProofs`: `CorpusTyped` from `StoreInv`, the types with `Named` (the entry in
hand exists, and what a plan strips keeps a source elsewhere).
`RowsStayReadable` needs `BlobInv`: only the old torn files are torn and no two writers
are at one of them (`TornAlone`); who is about to unlink does it to a torn file, and a
written blob is in place until its row is committed (`BlobStays`). The other three need
`RowInv`, which says what an unlocked plan and a match are still worth when they are
used: of the particles no extraction has written since, the plan's are as planned
(`PlanHolds`), and an entry found by a deposit has other content or, if it was deleted
meanwhile, no row (`MatchHolds`).

`ReconcileProofs` has `TableInv` for the table that writers, reviewers, cascades,
releases and retractions share: a record names two claims, the first not held
(`Named`); an open record's B is held, by that record alone (`Holds`); a text stands
once (`Single`); a minted row names a superseded row, each its own (`Minted`). Of the
processes it says what a stale local reviewer can still be sure of: the B it read was
held, the A was not, and what its search found is a claim that is not held
(`InHand`). That is enough because no row enters a hold twice and the
status write reads the row again. Every operation is a composition of rewrites in
place that move rows only along the transition table (`Kept`, `Grows`) and of appends;
the lemmas about these are proved once, and `ResolutionSound` and `CascadedSound`
compose them for a review and for the cascade after it. `HoldsMatchRecords` adds
`Reached`: every held claim has an open record. `ClaimsEnterChecked` adds
`Journaled`: what is near the candidate now was near when the process looked, or the
journal names it, and of the claims a release pass loaded a nearest one was asked
about (`Selected`). With the existence of a nearest claim, the search under the lock
then misses none: it finds an asked claim, a journaled one, or, when the asked ones that
came first are retired, one that was loaded.

The proofs found three definitions that TLC read otherwise than TLA+ does: a `CASE` whose guards
overlap may be any of its arms, and TLC takes the first. They are `IF`s now.

Looking for these invariants also found the last two `Extraction` and `AppendReads` rows of the
disagreements above: TLC refuted a stronger claim on an instance the runs do not have.

Only model-checked: the liveness properties (`EveryWriterIsAnswered`, `EverythingSettles`,
`EveryReadEnds`), which are out of the prover's reach, and `ReadOnce` of `AppendReads`, which
was checked for the chunk sizes above and is not proved.

## Not modelled

Ranking and retrieval, embeddings, subject resolution, extractors and prompts,
network fetching, authentication, export and rendering: they compute answers or
call out and keep no state shared between actors. They are most of the code by
size. Of what does keep shared state these are left out: the subject graph (merge,
split and restore are single transactions under the lock), the store-wide
reconcile's selection of pairs, reindex of entries that are not append-only, the
daemon's loops, the cycle's `--if-due` gate (read before the lock, it costs at most a
second night) and the
cycle lock's fallback where flock is missing. The
components table of `PROJECT.json` says it part by part.

## Plan

1. *Done*: `WriteLock`, `Extraction`, `Reconcile`, their runs, the first proofs.
2. *Done*: `Candidates`, `AppendReads`, `Corpus`, `Consolidation`; the abstract
   specifications `ExclusiveStore` and `FreshReads`; the first refinement proof.
3. *Done*: proofs for `Consolidation`, `Candidates` with its refinement, `Corpus` and
   `Reconcile`.
4. *Done*: proofs for `AppendReads` (types, `RecordedIsBelieved`) and for what
   `Extraction` does to the beliefs.
5. *Done*: the delete without a lock, passes that leave part of their scope uncompared,
   cycles that raise, and the release pass's selection, with their proofs.
6. Left: a proof of `ReadOnce` for every chunk size; the two hazards about statements outside a transaction that only a change of the
   code would close; the parts under *Not modelled*.
