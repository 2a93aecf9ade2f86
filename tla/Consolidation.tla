----------------------------- MODULE Consolidation -----------------------------
(***************************************************************************)
(* The nightly cycle of operations/consolidation.py.  A run takes the cycle  *)
(* lock (flock: the kernel frees it however the holder ends), reads from the *)
(* log of run records the instant its window opens, runs its passes one by   *)
(* one, and records itself.  A pass that fails is reported and the cycle     *)
(* goes on; a night without a provider, or over its budget, leaves work      *)
(* undone and says so in its record.  A pass that runs may still leave some  *)
(* of its scope uncompared (its probes fail open, stop at a cap or are lost  *)
(* with a batch), and a pass may be switched off: the record says nothing of *)
(* either that moves a window.                                              *)
(*                                                                         *)
(* Two passes probe only what changed since an earlier run: the update sweep *)
(* since the last run that did all of its work, the census (not run every    *)
(* night) since the last census that probed in full.  Both windows open at   *)
(* that run's started_at.  Writers work beside the cycle: a belief is         *)
(* stamped when its draft is built and committed after the model calls that  *)
(* check it.                                                                *)
(***************************************************************************)
EXTENDS Naturals, Sequences, FiniteSetsExt

CONSTANTS
    Runner,    \* processes that start a cycle: cron, the daemon, an operator
    Claim,     \* the beliefs written during a behaviour
    Kinds,     \* the ways they are written
    NoRunner,  \* nobody holds the cycle lock
    Limit,     \* how many run records latest_run_event looks at (100)
    MaxTime,   \* bound: instants that are stamped
    MaxAudit,  \* bound: interactive audits
    MaxAbort   \* bound: cycles killed, or ended by an exception outside every pass

\* "fresh": asserted with a source of its own, deposited in the same transaction.
\* "own": extracted by the cycle's pass 1 from an entry deposited long before.
\* "beside": extracted by another process from an entry deposited long before.
ASSUME ConsolidationAssumption ==
    /\ Kinds \subseteq {"fresh", "own", "beside"}
    /\ NoRunner \notin Runner
    /\ {Limit, MaxTime, MaxAudit, MaxAbort} \subseteq Nat

VARIABLES
    now,     \* the clock, moved by every stamp
    holder,  \* the runner that holds the cycle lock
    run,     \* per runner: its report
    log,     \* the CONSOLIDATION_RUN events, oldest first
    claim,   \* per belief: not there, drafted in one of Kinds or in; its stamps
    probed,  \* history: the beliefs a census compared since they last changed
    unprobed, \* history: those one that ended well passed over instead
    swept,   \* history: the beliefs an update sweep compared since they last changed
    unswept, \* history: those one that ended well, or was off, passed over instead
    late,    \* history: beliefs committed behind a window, unchanged since
    kills,   \* cycles killed so far
    raised,  \* cycles ended by an exception so far
    audits   \* interactive audits so far

compared == <<probed, unprobed, swept, unswept>>
vars == <<now, holder, run, log, claim, compared, late, kills, raised, audits>>

\* ok: no pass failed.  limited: the budget left work undone.  cut: it declined
\* requests of a pass that ran.  census: a census ran and was not kept from probing.
NoReport == [pc |-> "idle", start |-> 0, store |-> FALSE, sem |-> FALSE, mark |-> 0,
             scope |-> {}, ok |-> TRUE, limited |-> FALSE, cut |-> FALSE,
             census |-> FALSE]

Init ==
    /\ now = 1 /\ holder = NoRunner
    /\ run = [r \in Runner |-> NoReport]
    /\ log = <<>>
    /\ claim = [c \in Claim |-> [st |-> "none", at |-> 0, entry |-> 0, redone |-> 0]]
    /\ probed = {} /\ unprobed = {} /\ swept = {} /\ unswept = {}
    /\ late = {}
    /\ kills = 0 /\ raised = 0 /\ audits = 0

Believed == {c \in Claim : claim[c].st = "in"}

--------------------------------------------------------------------------------
\* The delta scope: asserted, sourced or reclassified at or after t.  No record
\* to open the window at is instant 0: the whole store.
Window(t) ==
    {c \in Believed : \/ claim[c].at >= t
                      \/ claim[c].entry >= t
                      \/ claim[c].redone >= t}

\* list_events: the run records among the newest Limit, by position.
Newest == {i \in 1..Len(log) : i + Limit > Len(log)}

\* The start of the newest of the records that qualify.
StartOf(eligible) == IF eligible = {} THEN 0 ELSE log[Max(eligible)].start

WatermarkSuccessful(e) == e.mine /\ e.ok    \* mutant: a degraded night counts

Watermarks(e) == e.mine /\ e.ok /\ ~e.degraded

\* Where the night's window opens: the start of the last run by this actor that
\* failed nowhere and left nothing undone.
Watermark == StartOf({i \in Newest : Watermarks(log[i])})

CensusByAnyone(e) == e.census               \* mutant: an audit's census counts

\* A census that could probe in full; other passes of its run may have failed.
CensusProbed(e) == e.mine /\ e.census

CensusMark == StartOf({i \in Newest : CensusProbed(log[i])})

--------------------------------------------------------------------------------
\* run_consolidation builds its report, which stamps started_at, and finds itself
\* due; then it takes the cycle lock or reports the holder and ends.
Begin(r) ==
    /\ run[r].pc = "idle" /\ now < MaxTime
    /\ run' = [run EXCEPT ![r].pc = "asked", ![r].start = now]
    /\ now' = now + 1
    /\ UNCHANGED <<holder, log, claim, compared, late, kills, raised, audits>>

\* acquire_cycle_lock; behind it, whether a provider is there and the watermark.
Acquire(r) ==
    /\ run[r].pc = "asked"
    /\ IF holder = NoRunner
       THEN /\ holder' = r
            /\ \E store, sem \in BOOLEAN :
                  run' = [run EXCEPT ![r].pc = "extract", ![r].mark = Watermark,
                                     ![r].store = store, ![r].sem = sem]
       ELSE run' = [run EXCEPT ![r] = NoReport] /\ UNCHANGED holder
    /\ UNCHANGED <<now, log, claim, compared, late, kills, raised, audits>>

\* What _run_pass makes of a pass that is priced in model calls: it runs, it
\* fails, the budget skips it ("over") or declines some of its requests ("cut"),
\* or the configuration or the egress policy keeps it from running ("off").
Outcomes(r) == IF run[r].sem THEN {"ran", "failed", "over", "cut", "off"} ELSE {"skipped"}

\* What a pass may have compared of its scope when it ends so: a probe without an
\* answer keeps both claims, and the cap or the batch-wait budget ends the probing.
Compared(o, scope) == IF o \in {"ran", "failed", "cut"} THEN SUBSET scope ELSE {{}}

\* mutant: an exception of the pass escapes to the finally
EndPassRaising(r, o, pc) ==
    [run[r] EXCEPT !.pc = IF o = "failed" THEN "recorded" ELSE pc,
                   !.limited = @ \/ o \in {"over", "cut"}, !.cut = @ \/ o = "cut"]

\* A failure is caught and recorded, and the cycle goes on with the next pass.
EndPass(r, o, pc) ==
    [run[r] EXCEPT !.pc = pc, !.ok = @ /\ o # "failed",
                   !.limited = @ \/ o \in {"over", "cut"}, !.cut = @ \/ o = "cut"]

\* The night's scope: store-wide on demand and on a first run.
Scope(r) == Window(IF run[r].store THEN 0 ELSE run[r].mark)

\* Pass 1 ends, whatever it extracted, and the night's scope is read after it.
Extract(r) ==
    /\ run[r].pc = "extract"
    /\ \A c \in Claim : claim[c].st # "own"
    /\ \E o \in Outcomes(r) :
          run' = [run EXCEPT ![r] = [EndPass(r, o, "sweep") EXCEPT !.scope = Scope(r)]]
    /\ UNCHANGED <<now, holder, log, claim, compared, late, kills, raised, audits>>

\* Pass 2b compares the beliefs of the night's scope.
Sweep(r) ==
    /\ run[r].pc = "sweep"
    /\ \E o \in Outcomes(r) : \E S \in Compared(o, run[r].scope) :
          /\ run' = [run EXCEPT ![r] = EndPass(r, o, "census")]
          /\ swept' = swept \cup S
          /\ unswept' = (IF o \in {"ran", "off"} THEN unswept \cup run[r].scope ELSE unswept) \ swept'
    /\ UNCHANGED <<now, holder, log, claim, probed, unprobed, late, kills, raised, audits>>

\* Where the census's window opens; it takes the night's scope when both windows
\* open at the same instant.
CensusScope(r) ==
    IF run[r].store \/ CensusMark = 0 THEN Believed
    ELSE IF run[r].mark = CensusMark THEN run[r].scope
    ELSE Window(CensusMark)

\* Pass 3.  Its cadence or the configuration may skip it (decide_census); without a
\* provider, or when the budget skips its probe ("over"), it runs structurally and
\* compares nothing.
Census(r) ==
    /\ run[r].pc = "census"
    /\ \/ run' = [run EXCEPT ![r].pc = "rest"] /\ UNCHANGED <<probed, unprobed>>
       \/ \E o \in IF run[r].sem THEN Outcomes(r) \ {"off"} ELSE {"skipped", "failed"} :
          \E S \in Compared(o, CensusScope(r)) :
             /\ run' = [run EXCEPT ![r] =
                   [EndPass(r, o, "rest") EXCEPT !.census = o \in {"ran", "cut"}]]
             /\ probed' = probed \cup S
             /\ unprobed' = (IF o = "ran" THEN unprobed \cup CensusScope(r) ELSE unprobed) \ probed'
    /\ UNCHANGED <<now, holder, log, claim, swept, unswept, late, kills, raised, audits>>

\* mutant: the record carries the instant the run completed
RecordAtEnd(rep) ==
    [mine |-> TRUE, start |-> now, ok |-> rep.ok,
     degraded |-> ~rep.sem \/ rep.limited, census |-> rep.census /\ ~rep.cut]

RecordOf(rep) ==
    [mine |-> TRUE, start |-> rep.start, ok |-> rep.ok,
     degraded |-> ~rep.sem \/ rep.limited, census |-> rep.census /\ ~rep.cut]

\* The passes that remain, each under the same contract (together they end well,
\* one of them fails, or the budget stops one), and pass 7, the run record.
Record(r) ==
    /\ run[r].pc = "rest"
    /\ \E o \in {"ran", "failed"} \cup Outcomes(r) :
          log' = Append(log, RecordOf(EndPass(r, o, "recorded")))
    /\ run' = [run EXCEPT ![r] = [NoReport EXCEPT !.pc = "recorded",
                                                     !.start = run[r].start]]
    /\ UNCHANGED <<now, holder, claim, compared, late, kills, raised, audits>>

Release(r) ==
    /\ run[r].pc = "recorded"
    /\ holder' = NoRunner
    /\ run' = [run EXCEPT ![r] = NoReport]
    /\ UNCHANGED <<now, log, claim, compared, late, kills, raised, audits>>

\* A statement outside every pass raises: a read of the log or of a scope, or the
\* record's own transaction.  The finally frees the lock; there is no record.
Raise(r) ==
    /\ run[r].pc \in {"extract", "census", "rest"} /\ kills + raised < MaxAbort
    /\ \A c \in Claim : claim[c].st # "own"
    /\ run' = [run EXCEPT ![r] = NoReport]
    /\ holder' = NoRunner
    /\ raised' = raised + 1
    /\ UNCHANGED <<now, log, claim, compared, late, kills, audits>>

\* The process dies; the kernel frees its lock, and what its pass 1 was
\* extracting is lost with it.
Crash(r) ==
    /\ run[r].pc # "idle" /\ kills + raised < MaxAbort
    /\ run' = [run EXCEPT ![r] = NoReport]
    /\ holder' = IF holder = r THEN NoRunner ELSE holder
    /\ claim' = IF holder # r THEN claim
                ELSE [c \in Claim |-> IF claim[c].st # "own" THEN claim[c]
                                      ELSE [claim[c] EXCEPT !.st = "none", !.at = 0]]
    /\ kills' = kills + 1
    /\ UNCHANGED <<now, log, compared, late, raised, audits>>

--------------------------------------------------------------------------------
\* An interactive audit records a run of its own actor, which probes what it likes.
Audit ==
    /\ audits < MaxAudit /\ now < MaxTime
    /\ log' = Append(log, [mine |-> FALSE, start |-> now, ok |-> TRUE,
                           degraded |-> FALSE, census |-> TRUE])
    /\ now' = now + 1 /\ audits' = audits + 1
    /\ UNCHANGED <<holder, run, claim, compared, late, kills, raised>>

\* A belief is drafted, and stamped, before the model calls that check it.
Draft(c) ==
    /\ claim[c].st = "none" /\ now < MaxTime
    /\ \E k \in Kinds :
          /\ k = "own" => \E r \in Runner : run[r].pc = "extract"
          /\ claim' = [claim EXCEPT ![c].st = k, ![c].at = now]
    /\ now' = now + 1
    /\ UNCHANGED <<holder, run, log, compared, late, kills, raised, audits>>

\* A draft stamped before an instant where a window now opens or is about to: that
\* of a mark, of a run in pass 1, or of the start of a run that has read its scope.
Behind(c) ==
    \/ claim[c].at < Watermark \/ claim[c].at < CensusMark
    \/ \E r \in Runner : /\ run[r].pc = "extract" /\ ~run[r].store
                         /\ claim[c].at < run[r].mark
    \/ \E r \in Runner : /\ run[r].pc \in {"sweep", "census", "rest"}
                         /\ claim[c].at < run[r].start

\* Its write transaction commits; a source of its own is deposited in it.
Commit(c) ==
    /\ claim[c].st \in Kinds
    /\ IF claim[c].st = "fresh"
       THEN /\ now < MaxTime
            /\ claim' = [claim EXCEPT ![c].st = "in", ![c].entry = now]
            /\ now' = now + 1
       ELSE claim' = [claim EXCEPT ![c].st = "in"] /\ UNCHANGED now
    /\ late' = IF claim[c].st = "beside" /\ Behind(c) THEN late \cup {c} ELSE late
    /\ UNCHANGED <<holder, run, log, compared, kills, raised, audits>>

\* A reclassification records an event, and the belief has to be compared anew.
Reclassify(c) ==
    /\ claim[c].st = "in" /\ claim[c].redone = 0 /\ now < MaxTime
    /\ claim' = [claim EXCEPT ![c].redone = now]
    /\ probed' = probed \ {c} /\ unprobed' = unprobed \ {c}
    /\ swept' = swept \ {c} /\ unswept' = unswept \ {c}
    /\ late' = late \ {c}
    /\ now' = now + 1
    /\ UNCHANGED <<holder, run, log, kills, raised, audits>>

Cycle(r) ==
    \/ Acquire(r) \/ Extract(r) \/ Sweep(r) \/ Census(r)
    \/ Record(r) \/ Raise(r) \/ Release(r)

Next ==
    \/ \E r \in Runner : Begin(r) \/ Cycle(r) \/ Crash(r)
    \/ \E c \in Claim : Draft(c) \/ Commit(c) \/ Reclassify(c)
    \/ Audit

Spec == Init /\ [][Next]_vars

--------------------------------------------------------------------------------
Stage == {"extract", "sweep", "census", "rest", "recorded"}

Report ==
    [pc : Stage \cup {"idle", "asked"}, start : Nat, store : BOOLEAN, sem : BOOLEAN,
     mark : Nat, scope : SUBSET Claim, ok : BOOLEAN, limited : BOOLEAN, cut : BOOLEAN,
     census : BOOLEAN]

Event == [mine : BOOLEAN, start : Nat, ok : BOOLEAN, degraded : BOOLEAN, census : BOOLEAN]

TypeOK ==
    /\ now \in Nat \ {0}
    /\ holder \in Runner \cup {NoRunner}
    /\ run \in [Runner -> Report]
    /\ log \in Seq(Event)
    /\ claim \in [Claim -> [st : Kinds \cup {"none", "in"}, at : Nat, entry : Nat, redone : Nat]]
    /\ \A r \in Runner : /\ run[r].start < now
                         /\ run[r].scope \subseteq Believed
    /\ \A i \in 1..Len(log) : log[i].start < now
    /\ probed \cup unprobed \cup swept \cup unswept \cup late \subseteq Believed
    /\ kills \in Nat /\ raised \in Nat /\ audits \in Nat

\* What the windows owe a comparison: beliefs that since they last changed no pass
\* compared, no pass that ended well passed over, and that were not committed late.
CensusOwes == Believed \ (probed \cup unprobed \cup late)
SweepOwes == Believed \ (swept \cup unswept \cup late)

\* A belief that no census has compared since it last changed is in the window the
\* next census opens: "nothing written mid-cycle ever falls between two runs'
\* windows" (consolidation.py, run_consolidation).
NothingFallsBetween == Believed \ (probed \cup unprobed) \subseteq Window(CensusMark)

\* A belief that no census has compared since it last changed is in the window the
\* next census opens, through failed, degraded, over-budget, aborted and killed
\* nights, unless a census that ended well had it in its scope and passed over it
\* or another process committed it behind that window (_census_scope,
\* latest_census_event, _event_started_at).
OnlyLateFallBetween == CensusOwes \subseteq Window(CensusMark)

\* The same for the update sweep, whose window only a night that reports no
\* failure and no omission may move (latest_run_event with exclude_degraded,
\* _delta_scope_ids); a sweep that ended well, or was switched off, may have passed
\* over the belief.
SweepMissesNothing == SweepOwes \subseteq Window(Watermark)

\* A pass that fails or is skipped never costs the record: a cycle gives the lock
\* back only once it is on record, unless it was killed or a statement outside
\* every pass raised (_run_pass, run_consolidation).
RecordedWhateverFails ==
    [][holder # NoRunner /\ holder' = NoRunner =>
          \/ kills' > kills \/ raised' > raised
          \/ \E i \in 1..Len(log) : log[i].mine /\ log[i].start = run[holder].start]_vars
================================================================================
