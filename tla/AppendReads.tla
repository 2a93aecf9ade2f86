----------------------------- MODULE AppendReads ------------------------------
(***************************************************************************)
(* How one APPEND_ONLY entry is read: the base a snapshot is read as a      *)
(* delta from (ingest/append_base.py), what a partly failed read keeps      *)
(* (ingest/partial_read.py), the claim, read and write of a snapshot        *)
(* (ingest/pipeline.py, corpus/store.py) and the reindex of the entry        *)
(* (operations/reindex.py).                                                *)
(*                                                                         *)
(* A text is a sequence of units; the unit at a place changes only when the  *)
(* source breaks its promise to append.  A claim stands for everything one    *)
(* answered chunk yielded.  Snapshots are numbered in capture order.          *)
(***************************************************************************)
EXTENDS Naturals, Sequences, FiniteSets

CONSTANTS
    Runner,      \* processes that extract or reindex
    WholeChunk,  \* units per chunk of a whole read (html_chunk_size)
    DeltaChunk,  \* units per chunk of a delta (append_chunk_chars)
    Context,     \* units before a delta's chunk in its prompt
    Calls,       \* calls one read may make before it is cut short
    Scopes,      \* the reindex scopes an operator uses
    Overlap,     \* may a reindex run beside other readers?
    MaxLen,      \* bound: units of the text
    MaxSnap,     \* bound: snapshots
    MaxFault,    \* bound: failed reads, interruptions and crashes
    MaxLost,     \* bound: blobs that go missing
    MaxRewrite,  \* bound: broken promises
    MaxReindex   \* bound: reindex runs

ASSUME AppendReadsAssumption ==
    /\ {WholeChunk, DeltaChunk, Calls} \subseteq Nat \ {0}
    /\ Context \in Nat
    /\ Scopes \subseteq {"named", "partial", "pending", "version"}
    /\ Overlap \in BOOLEAN
    /\ {MaxLen, MaxSnap, MaxFault, MaxLost, MaxRewrite, MaxReindex} \subseteq Nat

VARIABLES
    rows,     \* snapshot rows in capture order: content, status and offsets
    claims,   \* the particles: their chunk, the snapshots they cite, ACTIVE or not
    lost,     \* snapshots whose blob is missing
    run,      \* what each runner is doing
    calm,     \* history: one reader at a time, no reindex, the promise kept, and no
              \* read begun before a recorded one ended
    used      \* faults, rewrites and reindexes so far

vars == <<rows, claims, lost, run, calm, used>>

Smaller(a, b) == IF a < b THEN a ELSE b
Last(S) == CHOOSE m \in S : \A n \in S : n <= m
Snap == DOMAIN rows
Live == {c \in DOMAIN claims : claims[c].active}

--------------------------------------------------------------------------------
\* The chunks a text is cut into from unit `from` on, in reading order.
Cut(content, from, size, context) ==
    [k \in 1..((Len(content) - from + size - 1) \div size) |->
        LET at == from + (k - 1) * size IN
        [text |-> SubSeq(content, at + 1, Smaller(at + size, Len(content))),
         ctx  |-> IF context = 0 THEN <<>>
                  ELSE SubSeq(content, at + 1 - Smaller(context, at), at)]]

\* The read a plan asks for, as far as the call cap lets it go.
Chunks(content, plan) ==
    LET all == IF plan.delta THEN Cut(content, plan.from, DeltaChunk, Context)
               ELSE Cut(content, 0, WholeChunk, 0)
    IN  SubSeq(all, 1, Smaller(Len(all), Calls))

Starts(plan, k) == plan.from + (k - 1) * (IF plan.delta THEN DeltaChunk ELSE WholeChunk)

\* Carry-forward: an ACTIVE claim that is not being replaced has this chunk.
Carriers(chunk, old) == {c \in Live \ old : claims[c].chunk = chunk}

--------------------------------------------------------------------------------
Whole == [delta |-> FALSE, from |-> 0]
Delta(n) == [delta |-> TRUE, from |-> n]

Shares(x, y, n) == n <= Len(x) /\ n <= Len(y) /\ SubSeq(x, 1, n) = SubSeq(y, 1, n)

\* _plan_from: read snapshot i after what base b has read; b = 0 is no base.
PlanFrom(i, b) ==
    LET off == Smaller(rows[b].through, Len(rows[b].content)) IN
    IF b # 0 /\ b \notin lost /\ Shares(rows[b].content, rows[i].content, off)
    THEN Delta(off) ELSE Whole

\* _records_further_read, _further_read: how far any other recorded read covers
\* snapshot i, when that is past the earlier base's offset.
Further(i, ignoreOwn) ==
    {Smaller(rows[j].through, Len(rows[i].content)) :
        j \in {j \in Snap :
            /\ rows[j].through # 0
            /\ rows[j].status = "COMPLETE" => j > i
            /\ j = i => ~ignoreOwn
            /\ \/ j = i
               \/ /\ j \notin lost
                  /\ Shares(rows[j].content, rows[i].content,
                            Smaller(rows[j].through, Len(rows[i].content)))}}

\* plan_append with AUTO_BASE.
AutoPlan(i, ignoreOwn) ==
    LET done  == {j \in 1..(i - 1) : rows[j].status = "COMPLETE"}
        early == PlanFrom(i, IF done = {} THEN 0 ELSE Last(done))
        more  == {n \in Further(i, ignoreOwn) : early.delta => n > early.from}
    IN  IF rows[i].whole /\ ~ignoreOwn THEN Whole
        ELSE IF more = {} THEN early ELSE Delta(Last(more))

\* plan_append with the base a replay names: the snapshot before, or none.
ReplayPlan(i, b) ==
    PlanFrom(i, IF b # 0 /\ rows[b].status = "COMPLETE" THEN b ELSE 0)

\* mutant: the holder of the marker waits for itself
WaitsOnItself(i) == \E j \in 1..i : rows[j].whole

\* waiting_on: an earlier snapshot holds the whole-read marker.
Waits(i) == \E j \in 1..(i - 1) : rows[j].whole

EarlierComplete(i) == \A j \in 1..(i - 1) : rows[j].status = "COMPLETE"

--------------------------------------------------------------------------------
\* mutant: every answered chunk of a delta is kept
PartialKeepAll(chunks, plan, failed, asked, earlier) ==
    LET stop == CHOOSE k \in failed : \A n \in failed : k <= n
        kept == asked \ failed
    IN  [kept |-> kept, marker |-> ~plan.delta /\ earlier,
         offset |-> IF kept = {} \/ (~plan.delta /\ earlier) THEN 0 ELSE Starts(plan, stop)]

\* decide_partial_keep: the chunks of a partly failed read that are written,
\* and where the next read starts.  A read of a single call keeps nothing.
PartialKeep(chunks, plan, failed, asked, earlier) ==
    LET stop     == CHOOSE k \in failed : \A n \in failed : k <= n
        answered == asked \ failed
        leading  == {k \in answered : k < stop}
        later    == {k \in answered : stop < k /\ k < Len(chunks)}
        marker   == ~plan.delta /\ earlier
        kept     == IF ~plan.delta /\ Len(chunks) = 1 THEN {}
                    ELSE IF marker THEN answered
                    ELSE IF plan.delta /\ earlier THEN leading \cup later
                    ELSE leading
    IN  [kept   |-> kept,
         marker |-> marker /\ kept # {},
         offset |-> IF kept = {} \/ marker THEN 0 ELSE Starts(plan, stop)]

\* mutant: the last chunk counts as full
ThroughPast(content, plan) == Starts(plan, Len(Chunks(content, plan)) + 1)

\* _extracted_through: the whole content, unless the call cap cut the read.
Through(content, plan) ==
    Smaller(Len(content),
            Starts(plan, Len(Chunks(content, plan)) + 1))

Idle == [pc |-> "idle", bulk |-> TRUE, snap |-> 0, base |-> 0, early |-> FALSE,
         plan |-> Whole, chunks |-> <<>>,
         got |-> <<>>, pairs |-> {}, replays |-> FALSE, todo |-> <<>>, old |-> {},
         kept |-> {}]

Init ==
    /\ rows = <<>> /\ claims = <<>> /\ lost = {}
    /\ run = [r \in Runner |-> Idle]
    /\ calm = TRUE
    /\ used = [fault |-> 0, rewrite |-> 0, reindex |-> 0]

Fault == used.fault < MaxFault /\ used' = [used EXCEPT !.fault = @ + 1]

Busy == {r \in Runner : run[r].pc # "idle"}
Reindexing == {r \in Busy : ~run[r].bulk}

\* update_extraction_status and release_extraction_claim, status alone.
StatusTo(i, status) == [rows EXCEPT ![i].status = status]

--------------------------------------------------------------------------------
\* The source grew, or broke its promise at its last unit, and was deposited.
Capture ==
    LET text == IF rows = <<>> THEN <<>> ELSE rows[Len(rows)].content
        Row(content) == [content |-> content, status |-> "PENDING",
                         through |-> 0, whole |-> FALSE]
    IN
    /\ Len(rows) < MaxSnap
    /\ \/ /\ \E n \in 1..(MaxLen - Len(text)) :
                rows' = Append(rows, Row(text \o [k \in 1..n |-> <<Len(text) + k, 0>>]))
          /\ UNCHANGED <<calm, used>>
       \/ /\ text # <<>> /\ used.rewrite < MaxRewrite
          /\ rows' = Append(rows, Row([text EXCEPT ![Len(text)] = <<@[1], @[2] + 1>>]))
          /\ used' = [used EXCEPT !.rewrite = @ + 1]
          /\ calm' = FALSE
    /\ UNCHANGED <<claims, lost, run>>

LoseBlob ==
    /\ Cardinality(lost) < MaxLost
    /\ \E i \in Snap \ lost : lost' = lost \cup {i}
    /\ calm' = FALSE
    /\ UNCHANGED <<rows, claims, run, used>>

\* reset_stale_in_progress frees what no runner works on any more.
ResetStale ==
    LET stale == {i \in Snap : /\ rows[i].status = "IN_PROGRESS"
                               /\ \A r \in Busy : run[r].snap # i}
    IN  /\ stale # {}
        /\ rows' = [i \in Snap |->
               IF i \in stale THEN [rows[i] EXCEPT !.status = "PENDING"] ELSE rows[i]]
        /\ UNCHANGED <<claims, lost, run, calm, used>>

\* A bulk run takes a pending snapshot up: the wait and what a partial read may
\* keep are decided before the claim.
BulkClaim(r, i) ==
    /\ run[r].pc = "idle" /\ (Overlap \/ Reindexing = {})
    /\ rows[i].status = "PENDING" /\ ~Waits(i)
    /\ rows' = StatusTo(i, "IN_PROGRESS")
    /\ run' = [run EXCEPT ![r] = [Idle EXCEPT !.pc = "claimed", !.snap = i,
                                              !.early = EarlierComplete(i)]]
    /\ calm' = (calm /\ Busy = {})
    /\ UNCHANGED <<claims, lost, used>>

\* The plan of the snapshot a runner has claimed.
PlanOf(me) ==
    IF ~me.bulk /\ me.replays THEN ReplayPlan(me.snap, me.base)
    ELSE AutoPlan(me.snap, ~me.bulk)

\* Some recorded read covers more of snapshot i than the plan starts after.
Behind(i, plan) ==
    \E j \in Snap :
        LET off == Smaller(rows[j].through, Len(rows[i].content)) IN
        plan.from < off /\ Shares(rows[j].content, rows[i].content, off)

\* plan_append, and the cut of the snapshot into the chunks of the read.
Plan(r) ==
    LET me == run[r] IN
    /\ me.pc = "claimed" /\ me.snap \notin lost
    /\ \E plan \in {PlanOf(me)} :
          /\ run' = [run EXCEPT ![r].pc = "planned", ![r].plan = plan,
                                ![r].chunks = Chunks(rows[me.snap].content, plan)]
          /\ calm' = (calm /\ ~Behind(me.snap, plan))
    /\ UNCHANGED <<rows, claims, lost, used>>

\* The chunks the model is asked about; the others are carried forward.
Asked(me) == {k \in DOMAIN me.chunks : Carriers(me.chunks[k], me.old) = {}}

\* What the read yields when the calls of `failed` fail.
Result(me, asked, failed) ==
    LET keep == IF failed = {}
                THEN [kept |-> asked, marker |-> FALSE,
                      offset |-> Through(rows[me.snap].content, me.plan)]
                ELSE IF me.bulk THEN PartialKeep(me.chunks, me.plan, failed, asked, me.early)
                ELSE [kept |-> {}, marker |-> FALSE, offset |-> 0]
    IN  [write   |-> [k \in keep.kept |-> me.chunks[k]],
         carry   |-> UNION {Carriers(me.chunks[k], me.old) : k \in DOMAIN me.chunks},
         failed  |-> failed # {},
         kept    |-> failed = {} \/ keep.kept # {},
         whole   |-> keep.marker,
         through |-> keep.offset]

\* The carry-forward lookup and the extractor's calls.
Read(r) ==
    LET me == run[r] IN
    /\ me.pc = "planned"
    /\ \E asked \in {Asked(me)} : \E failed \in SUBSET asked :
          /\ failed # {} => used.fault < MaxFault
          /\ used' = [used EXCEPT !.fault = @ + (IF failed = {} THEN 0 ELSE 1)]
          /\ run' = [run EXCEPT ![r].pc = "read", ![r].got = Result(me, asked, failed)]
    /\ UNCHANGED <<rows, claims, lost, calm>>

\* The runner goes on: a bulk run with another snapshot, a reindex with its next
\* step, or with its next item when this one failed.
Onward(me, failed, carried) ==
    IF me.bulk THEN Idle
    ELSE IF failed THEN [me EXCEPT !.pc = "item", !.snap = 0, !.plan = Whole,
                                   !.chunks = <<>>, !.got = <<>>, !.todo = <<>>]
    ELSE [me EXCEPT !.pc = IF Len(me.todo) = 1 THEN "retire" ELSE "step",
                    !.base = me.snap, !.snap = 0, !.plan = Whole,
                    !.chunks = <<>>, !.got = <<>>,
                    !.todo = Tail(@), !.kept = @ \cup carried]

\* load_blob finds nothing: FAILED, whatever the row recorded so far.
BlobMissing(r) ==
    /\ run[r].pc = "claimed" /\ run[r].snap \in lost
    /\ rows' = StatusTo(run[r].snap, "FAILED")
    /\ run' = [run EXCEPT ![r] = Onward(run[r], TRUE, {})]
    /\ UNCHANGED <<claims, lost, calm, used>>

\* An exception after the claim gives it back; a kill leaves it to ResetStale.
Interrupted(r) ==
    /\ run[r].pc \in {"claimed", "planned", "read"} /\ Fault
    /\ \/ /\ rows' = IF rows[run[r].snap].status = "IN_PROGRESS"
                     THEN StatusTo(run[r].snap, "PENDING") ELSE rows
          /\ run' = [run EXCEPT ![r] = Onward(run[r], TRUE, {})]
       \/ /\ run' = [run EXCEPT ![r] = Idle]
          /\ UNCHANGED rows
    /\ UNCHANGED <<claims, lost, calm>>

\* A whole read cites this snapshot on what it carried; a delta does not.
Cited(cs, ids, i) == [c \in DOMAIN cs |->
    IF c \in ids THEN [cs[c] EXCEPT !.cites = @ \cup {i}] ELSE cs[c]]

\* The new claims in chunk order.
Written(write, i) ==
    LET nth(k) == Cardinality({j \in DOMAIN write : j <= k})
    IN  [n \in 1..Cardinality(DOMAIN write) |->
            [chunk  |-> write[CHOOSE k \in DOMAIN write : nth(k) = n],
             cites  |-> {i},
             active |-> TRUE]]

\* The write phase: the claims, the refs and the row in one transaction.
Apply(r) ==
    LET me == run[r] got == me.got row == rows[me.snap] IN
    /\ me.pc = "read"
    /\ claims' = IF got.kept
                 THEN Cited(claims, IF me.plan.delta THEN {} ELSE got.carry, me.snap)
                        \o Written(got.write, me.snap)
                 ELSE claims
    /\ rows' = [rows EXCEPT ![me.snap] =
          [row EXCEPT !.status = IF got.failed THEN "PENDING" ELSE "COMPLETE",
                      !.through = IF got.through = 0 THEN @ ELSE got.through,
                      !.whole = IF got.failed THEN @ \/ got.whole ELSE FALSE]]
    /\ run' = [run EXCEPT ![r] = Onward(me, got.failed, got.carry)]
    /\ UNCHANGED <<lost, calm, used>>

--------------------------------------------------------------------------------
Complete == {i \in Snap : rows[i].status = "COMPLETE"}
Partial == {i \in Snap \ Complete : rows[i].through # 0 \/ rows[i].whole}

\* What a reindex is asked for, as far as it reaches this entry: its latest
\* COMPLETE snapshot when it is named, else its latest partial read; without
\* names every snapshot that is not done, and with --extractor-version also
\* every snapshot an ACTIVE claim cites.
Scope(kind) ==
    LET owed == {i \in Snap : rows[i].status \in {"PENDING", "FAILED"}} IN
    CASE kind = "named" -> IF Complete = {} THEN {} ELSE {Last(Complete)}
      [] kind = "partial" -> IF Complete # {} \/ Partial = {} THEN {} ELSE {Last(Partial)}
      [] kind = "pending" -> owed
      [] kind = "version" -> owed \cup UNION {claims[c].cites : c \in Live}

InOrder(S) == [n \in 1..Cardinality(S) |->
    CHOOSE i \in S : Cardinality({j \in S : j <= i}) = n]

\* resolve_reindex_work, _group_append_only: a scope with a COMPLETE snapshot of
\* the entry replays all of them, before the other pairs.
ReindexStart(r, kind) ==
    LET scope == Scope(kind) replays == scope \cap Complete # {} IN
    /\ run[r].pc = "idle" /\ (Overlap \/ Busy = {})
    /\ scope # {} /\ used.reindex < MaxReindex
    /\ run' = [run EXCEPT ![r] =
          [Idle EXCEPT !.bulk = FALSE, !.replays = replays, !.pairs = scope \ Complete,
                       !.pc = IF replays THEN "step" ELSE "item",
                       !.todo = IF replays THEN InOrder(Complete) ELSE <<>>,
                       !.old = IF replays THEN Live ELSE {}]]
    /\ used' = [used EXCEPT !.reindex = @ + 1]
    /\ calm' = FALSE
    /\ UNCHANGED <<rows, claims, lost>>

\* reindex takes up its next pair; an entry among the replays is replayed for it.
\* What is to be replaced is read here, before the first call.
ReindexItem(r) ==
    LET me == run[r] IN
    /\ me.pc = "item"
    /\ \/ \E i \in me.pairs :
             run' = [run EXCEPT ![r] =
                [me EXCEPT !.pc = "step", !.pairs = @ \ {i}, !.todo = <<i>>, !.base = 0,
                           !.kept = {},
                           !.old = IF me.replays THEN Live
                                   ELSE {c \in Live : i \in claims[c].cites}]]
       \/ /\ me.pairs = {}
          /\ run' = [run EXCEPT ![r] = Idle]
    /\ UNCHANGED <<rows, claims, lost, calm, used>>

\* The claim of a replay step, whatever the status of the row.
ReindexClaim(r) ==
    /\ run[r].pc = "step"
    /\ rows' = StatusTo(Head(run[r].todo), "IN_PROGRESS")
    /\ run' = [run EXCEPT ![r].pc = "claimed", ![r].snap = Head(run[r].todo)]
    /\ UNCHANGED <<claims, lost, calm, used>>

\* mutant: unfinished snapshots go on vouching for what was retired
RetireOnly(r) ==
    LET me == run[r] IN
    /\ me.pc = "retire"
    /\ claims' = [c \in DOMAIN claims |->
           [claims[c] EXCEPT !.active = @ /\ c \notin me.old \ me.kept]]
    /\ run' = [run EXCEPT ![r] = [me EXCEPT !.pc = "item", !.todo = <<>>]]
    /\ UNCHANGED <<rows, lost, calm, used>>

\* The old claims go last; after a replay no unfinished snapshot vouches for
\* them any more (clear_partial_reads), in the same transaction.
Retire(r) ==
    LET me == run[r] IN
    /\ me.pc = "retire"
    /\ claims' = [c \in DOMAIN claims |->
           [claims[c] EXCEPT !.active = @ /\ c \notin me.old \ me.kept]]
    /\ rows' = IF ~me.replays THEN rows
               ELSE [i \in Snap |-> IF rows[i].status = "COMPLETE" THEN rows[i]
                                    ELSE [rows[i] EXCEPT !.through = 0, !.whole = FALSE]]
    /\ run' = [run EXCEPT ![r] = [me EXCEPT !.pc = "item", !.todo = <<>>]]
    /\ UNCHANGED <<lost, calm, used>>

--------------------------------------------------------------------------------
Take(r) == \E i \in Snap : BulkClaim(r, i)

Work(r) ==
    \/ Plan(r) \/ Read(r) \/ BlobMissing(r) \/ Apply(r)
    \/ ReindexItem(r) \/ ReindexClaim(r) \/ Retire(r)

Next ==
    \/ Capture \/ LoseBlob \/ ResetStale
    \/ \E r \in Runner :
          \/ Take(r) \/ Work(r) \/ Interrupted(r)
          \/ \E kind \in Scopes : ReindexStart(r, kind)

\* Runs are started again and again and each goes on with what it began.
Spec ==
    /\ Init /\ [][Next]_vars
    /\ WF_vars(ResetStale)
    /\ \A r \in Runner : WF_vars(Take(r) \/ Work(r))

--------------------------------------------------------------------------------
TypeOK ==
    /\ \A i \in Snap :
          /\ rows[i].status \in {"PENDING", "IN_PROGRESS", "COMPLETE", "FAILED"}
          /\ rows[i].through \in 0..Len(rows[i].content)
          /\ rows[i].whole \in BOOLEAN
    /\ \A c \in DOMAIN claims :
          claims[c].cites \in (SUBSET Snap) \ {{}} /\ claims[c].active \in BOOLEAN
    /\ lost \subseteq Snap
    /\ \A r \in Runner : /\ run[r].pc \in {"idle", "item", "step", "claimed", "planned", "read", "retire"}
                         /\ run[r].snap \in Snap \cup {0}
                         /\ run[r].old \cup run[r].kept \subseteq DOMAIN claims

UnitsOf(c) == {claims[c].chunk.text[k] : k \in DOMAIN claims[c].chunk.text}
Believed == UNION {UnitsOf(c) : c \in Live}

\* An offset vouches for its text: whatever failed, crashed, was read out of
\* order or was replayed, every unit before a row's extracted_through is in an
\* ACTIVE claim (append_base: "which means the claims of the text before it are
\* written"), so no delta ever skips text nobody read.
RecordedIsBelieved ==
    \A i \in Snap : \A k \in 1..rows[i].through : rows[i].content[k] \in Believed

\* As long as the source only grew, one reader ran at a time, nothing was reindexed
\* and every read began where the furthest recorded one ended, no unit is in two
\* ACTIVE claims: a retry repeats no chunk under other words (decide_partial_keep,
\* waiting_on).
ReadOnce ==
    calm => \A a, b \in Live : a # b => UnitsOf(a) \cap UnitsOf(b) = {}

\* A snapshot is done, has lost its blob, or waits for one that has.
Settled(i) ==
    \/ rows[i].status \in {"COMPLETE", "FAILED"}
    \/ \E j \in 1..(i - 1) : rows[j].whole /\ rows[j].status = "FAILED"

\* Every snapshot is read to its end or fails for good: neither the marker's
\* wait nor the retries of partial reads hold it up for ever.
EveryReadEnds ==
    <>[](\A i \in Snap : Settled(i))
================================================================================
