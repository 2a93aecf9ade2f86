------------------------------- MODULE Corpus ----------------------------------
(***************************************************************************)
(* The corpus on disk and in the store: the content-addressed blob files     *)
(* (corpus/blob_io.py), the deposits that write a blob before the row that    *)
(* names it (corpus/deposit.py), the repair of strays (corpus/blob_fsck.py), *)
(* and the operator's hard delete of an entry (operations/corpus_delete.py)   *)
(* beside running deposits and extractions, with the lint that cleans up.     *)
(*                                                                         *)
(* Only what these share is kept of an extraction: it reads the store, calls  *)
(* its model for a long time and then writes.  Entries, snapshots and         *)
(* particles are numbered in the order they were inserted.                    *)
(***************************************************************************)
EXTENDS Naturals, Sequences, FiniteSets, SequencesExt

CONSTANTS
    Uri,        \* the sources' addresses
    Body,       \* contents; a blob's name is its body's hash
    Says,       \* Says[b]: the claims content b states
    Torn,       \* bodies whose name holds a torn file from an older version
    Away,       \* bodies of old rows whose blob lies in another directory
    Depositor,  \* processes that deposit or re-home
    Runner,     \* processes that extract
    SameName,   \* may two writers meet on one torn file?
    MaxSnap,    \* bound: snapshot rows
    MaxParts,   \* bound: particles
    MaxCrash,   \* bound: crashes
    MaxDelete   \* bound: deletes

ASSUME CorpusAssumption ==
    /\ Torn \cap Away = {} /\ Torn \cup Away \subseteq Body
    /\ Uri # {} /\ Body # {} /\ IsFiniteSet(Away)
    /\ \A b \in Body : IsFiniteSet(Says[b])
    /\ SameName \in BOOLEAN
    /\ {MaxSnap, MaxParts, MaxCrash, MaxDelete} \subseteq Nat

VARIABLES
    file,     \* what lies at each blob's name: "none", "torn" or "good"
    entries,  \* corpus_entries: address, and whether the row is still there
    snaps,    \* snapshots: entry, body, status, and whether the row is there
    parts,    \* particles: claim, the snapshots they cite, status
    dep,      \* what each depositor is doing
    ext,      \* what each runner is doing
    del,      \* what the deleting operator is doing
    used,     \* crashes and deletes so far
    late      \* history: particles written between a delete's plan and its deletes

vars == <<file, entries, snaps, parts, dep, ext, del, used, late>>

Rows == {i \in DOMAIN snaps : snaps[i].there}
Of(e) == {i \in DOMAIN snaps : snaps[i].entry = e}
Active == {p \in DOMAIN parts : parts[p].status = "ACTIVE"}
Newest(S) == CHOOSE i \in S : \A j \in S : j <= i

Old == SetToSeq(Away)
NoDep == [pc |-> "idle", task |-> "deposit", uri |-> CHOOSE u \in Uri : TRUE,
          body |-> CHOOSE b \in Body : TRUE, tries |-> 0, entry |-> 0, new |-> FALSE]
NoExt == [pc |-> "idle", snap |-> 0, dup |-> <<>>]
NoDel == [pc |-> "idle", entry |-> 0, kill |-> {}, strip |-> {}]

Init ==
    /\ file = [b \in Body |-> IF b \in Torn THEN "torn" ELSE "none"]
    /\ entries = [k \in DOMAIN Old |-> [uri |-> {}, there |-> TRUE]]
    /\ snaps = [k \in DOMAIN Old |->
                   [entry |-> k, body |-> Old[k], status |-> "PENDING", there |-> TRUE]]
    /\ parts = <<>>
    /\ dep = [d \in Depositor |-> NoDep]
    /\ ext = [r \in Runner |-> NoExt]
    /\ del = NoDel
    /\ used = [crash |-> 0, delete |-> 0]
    /\ late = {}

\* The writer lock: a deposit holds it from its lookup to its commit.
Locked == {d \in Depositor : dep[d].pc = "insert"}

DepTo(d, pc) == dep' = [dep EXCEPT ![d].pc = pc]
DepEnds(d) == dep' = [dep EXCEPT ![d] = NoDep]

--------------------------------------------------------------------------------
\* write_blob, one file-system call at a time.
Meets(d, b) == b \in Torn /\ \E o \in Depositor \ {d} : dep[o].pc # "idle" /\ dep[o].body = b

Begin(d) ==
    /\ dep[d].pc = "idle" /\ Len(snaps) < MaxSnap
    /\ \E u \in Uri, b \in Body :
          /\ SameName \/ ~Meets(d, b)
          /\ dep' = [dep EXCEPT ![d] = [NoDep EXCEPT !.pc = "look", !.uri = u, !.body = b]]
    /\ UNCHANGED <<file, entries, snaps, parts, ext, del, used, late>>

\* audit_blobs, rehome_strays: a row's blob is at no place but a search directory.
BeginRehome(d) ==
    /\ dep[d].pc = "idle"
    /\ \E b \in Away :
          /\ file[b] = "none" /\ \E i \in Rows : snaps[i].body = b
          /\ dep' = [dep EXCEPT ![d] = [NoDep EXCEPT !.pc = "look", !.task = "rehome", !.body = b]]
    /\ UNCHANGED <<file, entries, snaps, parts, ext, del, used, late>>

\* The blob is in place: the deposit goes on to its row, a re-home is done.
Written(d) == IF dep[d].task = "deposit" THEN DepTo(d, "match") ELSE DepEnds(d)

Look(d) ==
    /\ dep[d].pc = "look"
    /\ DepTo(d, IF file[dep[d].body] = "none" THEN "link" ELSE "holds")
    /\ UNCHANGED <<file, entries, snaps, parts, ext, del, used, late>>

\* _holds_blob before the write: a name that vanished meanwhile is an error.
Holds(d) ==
    /\ dep[d].pc = "holds"
    /\ CASE file[dep[d].body] = "none" -> DepEnds(d)
         [] file[dep[d].body] = "torn" -> DepTo(d, "link")
         [] file[dep[d].body] = "good" -> Written(d)
    /\ UNCHANGED <<file, entries, snaps, parts, ext, del, used, late>>

\* mutant: the name is opened for writing and filled later
LinkInPlace(d) ==
    /\ dep[d].pc = "link"
    /\ IF file[dep[d].body] = "none"
       THEN file' = [file EXCEPT ![dep[d].body] = "torn"] /\ Written(d)
       ELSE DepTo(d, "judge") /\ UNCHANGED file
    /\ UNCHANGED <<entries, snaps, parts, ext, del, used, late>>

\* os.link of the complete temporary file.
Link(d) ==
    /\ dep[d].pc = "link"
    /\ IF file[dep[d].body] = "none"
       THEN file' = [file EXCEPT ![dep[d].body] = "good"] /\ Written(d)
       ELSE DepTo(d, "judge") /\ UNCHANGED file
    /\ UNCHANGED <<entries, snaps, parts, ext, del, used, late>>

\* _holds_blob after a refused link; the second refusal gives up.
Judge(d) ==
    /\ dep[d].pc = "judge"
    /\ CASE file[dep[d].body] = "good" -> Written(d)
         [] file[dep[d].body] = "torn" /\ dep[d].tries = 0 -> DepTo(d, "unlink")
         [] OTHER -> DepEnds(d)
    /\ UNCHANGED <<file, entries, snaps, parts, ext, del, used, late>>

Unlink(d) ==
    /\ dep[d].pc = "unlink"
    /\ IF file[dep[d].body] = "none" THEN DepEnds(d)
       ELSE dep' = [dep EXCEPT ![d].pc = "link", ![d].tries = 1]
    /\ file' = [file EXCEPT ![dep[d].body] = "none"]
    /\ UNCHANGED <<entries, snaps, parts, ext, del, used, late>>

--------------------------------------------------------------------------------
\* write_entry_and_snapshot, its reads: the entry by address, else by content;
\* unchanged content needs no row.
ByUri(u) == {e \in DOMAIN entries : entries[e].there /\ entries[e].uri = {u}}
ByBody(b) == {e \in DOMAIN entries : entries[e].there /\ \E i \in Of(e) \cap Rows : snaps[i].body = b}

Unchanged(e, b) ==
    Of(e) \cap Rows # {} /\ snaps[Newest(Of(e) \cap Rows)].body = b

\* mutant: the lookup runs before the lock is taken
MatchUnlocked(d) ==
    LET me    == dep[d]
        found == IF ByUri(me.uri) # {} THEN ByUri(me.uri) ELSE ByBody(me.body)
    IN
    /\ me.pc = "match"
    /\ IF found = {}
       THEN dep' = [dep EXCEPT ![d].pc = "insert", ![d].new = TRUE]
       ELSE \E e \in found :
               IF Unchanged(e, me.body) THEN DepEnds(d)
               ELSE dep' = [dep EXCEPT ![d].pc = "insert", ![d].entry = e]
    /\ UNCHANGED <<file, entries, snaps, parts, ext, del, used, late>>

Match(d) ==
    LET me    == dep[d]
        found == IF ByUri(me.uri) # {} THEN ByUri(me.uri) ELSE ByBody(me.body)
    IN
    /\ me.pc = "match" /\ Locked = {}
    /\ IF found = {}
       THEN dep' = [dep EXCEPT ![d].pc = "insert", ![d].new = TRUE]
       ELSE \E e \in found :
               IF Unchanged(e, me.body) THEN DepEnds(d)
               ELSE dep' = [dep EXCEPT ![d].pc = "insert", ![d].entry = e]
    /\ UNCHANGED <<file, entries, snaps, parts, ext, del, used, late>>

\* Its writes, and the commit.
Insert(d) ==
    LET me == dep[d]
        e  == IF me.new THEN Len(entries) + 1 ELSE me.entry
    IN
    /\ me.pc = "insert"
    /\ entries' = IF me.new THEN Append(entries, [uri |-> {me.uri}, there |-> TRUE]) ELSE entries
    /\ snaps' = Append(snaps, [entry |-> e, body |-> me.body, status |-> "PENDING", there |-> TRUE])
    /\ DepEnds(d)
    /\ UNCHANGED <<file, parts, ext, del, used, late>>

CrashDeposit(d) ==
    /\ dep[d].pc # "idle" /\ used.crash < MaxCrash
    /\ used' = [used EXCEPT !.crash = @ + 1]
    /\ DepEnds(d)
    /\ UNCHANGED <<file, entries, snaps, parts, ext, del, late>>

--------------------------------------------------------------------------------
\* An extraction gathers what the store holds already and then calls its model.
Gather(r) ==
    /\ ext[r].pc = "idle"
    /\ \E i \in Rows :
          /\ snaps[i].status = "PENDING" /\ entries[snaps[i].entry].there
          /\ IF file[snaps[i].body] = "good"
             THEN /\ ext' = [ext EXCEPT ![r] = [pc |-> "read", snap |-> i,
                        dup |-> [t \in Says[snaps[i].body] |->
                                    {p \in Active : parts[p].text = t}]]]
                  /\ UNCHANGED snaps
             ELSE /\ snaps' = [snaps EXCEPT ![i].status = "FAILED"]
                  /\ UNCHANGED ext
    /\ UNCHANGED <<file, entries, parts, dep, del, used, late>>

\* append_provenance_ref: a particle that is gone is passed over.
Observed(ids, i) ==
    [p \in DOMAIN parts |-> IF p \in ids /\ parts[p].status # "DELETED"
                            THEN [parts[p] EXCEPT !.refs = @ \cup {i}] ELSE parts[p]]

\* The write phase, whether or not the rows it is about are still there.
Write(r) ==
    LET me   == ext[r]
        i    == me.snap
        into == {CHOOSE p \in me.dup[t] : TRUE : t \in {t \in DOMAIN me.dup : me.dup[t] # {}}}
        new  == SetToSeq({t \in DOMAIN me.dup : me.dup[t] = {}})
    IN
    /\ me.pc = "read" /\ Locked = {}
    /\ Len(parts) + Len(new) <= MaxParts
    /\ parts' = Observed(into, i) \o
                [k \in DOMAIN new |-> [text |-> new[k], refs |-> {i}, status |-> "ACTIVE"]]
    /\ snaps' = [snaps EXCEPT ![i].status = IF snaps[i].there THEN "COMPLETE" ELSE @]
    /\ ext' = [ext EXCEPT ![r] = NoExt]
    /\ late' = IF del.pc = "planned" THEN late \cup into \cup (DOMAIN parts' \ DOMAIN parts) ELSE late
    /\ UNCHANGED <<file, entries, dep, del, used>>

--------------------------------------------------------------------------------
\* decide_entry_deletion over get_particles_for_entry.
Doomed(e) == {p \in DOMAIN parts : parts[p].status # "DELETED" /\ parts[p].refs \subseteq Of(e)}
Shared(e) == {p \in DOMAIN parts : parts[p].status # "DELETED"
                                   /\ parts[p].refs \cap Of(e) # {} /\ ~(parts[p].refs \subseteq Of(e))}

\* _corpus_delete: the preview, shown before the operator confirms.
Preview ==
    /\ del.pc = "idle" /\ used.delete < MaxDelete
    /\ \E e \in {e \in DOMAIN entries : entries[e].there} :
          del' = [pc |-> "asked", entry |-> e, kill |-> Doomed(e), strip |-> Shared(e)]
    /\ used' = [used EXCEPT !.delete = @ + 1]
    /\ UNCHANGED <<file, entries, snaps, parts, dep, ext, late>>

\* mutant: the preview is good enough
ReplanSkipped ==
    /\ del.pc = "asked"
    /\ del' = [del EXCEPT !.pc = "planned"]
    /\ late' = {}
    /\ UNCHANGED <<file, entries, snaps, parts, dep, ext, used>>

\* delete_entry plans again, by reads that take no lock.
Replan ==
    /\ del.pc = "asked"
    /\ del' = [del EXCEPT !.pc = "planned", !.kill = Doomed(del.entry), !.strip = Shared(del.entry)]
    /\ late' = {}
    /\ UNCHANGED <<file, entries, snaps, parts, dep, ext, used>>

\* mutant: the snapshots stay behind
DeleteLeavesSnapshots ==
    /\ del.pc = "planned"
    /\ parts' = [p \in DOMAIN parts |->
          IF p \in del.kill THEN [parts[p] EXCEPT !.status = "DELETED", !.refs = {}]
          ELSE IF p \in del.strip THEN [parts[p] EXCEPT !.refs = @ \ Of(del.entry)]
          ELSE parts[p]]
    /\ entries' = [entries EXCEPT ![del.entry].there = FALSE]
    /\ del' = NoDel
    /\ UNCHANGED <<file, snaps, dep, ext, used, late>>

\* mutant: the refs of a claim with other sources are not stripped
DeleteKeepsRefs ==
    /\ del.pc = "planned"
    /\ parts' = [p \in DOMAIN parts |->
          IF p \in del.kill THEN [parts[p] EXCEPT !.status = "DELETED", !.refs = {}]
          ELSE parts[p]]
    /\ snaps' = [i \in DOMAIN snaps |-> [snaps[i] EXCEPT !.there = @ /\ i \notin Of(del.entry)]]
    /\ entries' = [entries EXCEPT ![del.entry].there = FALSE]
    /\ del' = NoDel
    /\ UNCHANGED <<file, dep, ext, used, late>>

\* Its writes, in one transaction from the first DELETE to the commit.
Delete ==
    /\ del.pc = "planned"
    /\ parts' = [p \in DOMAIN parts |->
          IF p \in del.kill THEN [parts[p] EXCEPT !.status = "DELETED", !.refs = {}]
          ELSE IF p \in del.strip THEN [parts[p] EXCEPT !.refs = @ \ Of(del.entry)]
          ELSE parts[p]]
    /\ snaps' = [i \in DOMAIN snaps |-> [snaps[i] EXCEPT !.there = @ /\ i \notin Of(del.entry)]]
    /\ entries' = [entries EXCEPT ![del.entry].there = FALSE]
    /\ del' = NoDel
    /\ UNCHANGED <<file, dep, ext, used, late>>

Dangling == {p \in Active : ~(parts[p].refs \subseteq Rows)}

\* lint --fix, _check_corpus_link_integrity; when an operator runs it is free.
Lint ==
    /\ Dangling # {} /\ Locked = {}
    /\ parts' = [p \in DOMAIN parts |->
          IF p \in Dangling THEN [parts[p] EXCEPT !.status = "STALE"] ELSE parts[p]]
    /\ UNCHANGED <<file, entries, snaps, dep, ext, del, used, late>>

--------------------------------------------------------------------------------
Deposit(d) ==
    \/ Look(d) \/ Holds(d) \/ Link(d) \/ Judge(d) \/ Unlink(d) \/ Match(d) \/ Insert(d)

Next ==
    \/ \E d \in Depositor : Begin(d) \/ BeginRehome(d) \/ Deposit(d) \/ CrashDeposit(d)
    \/ \E r \in Runner : Gather(r) \/ Write(r)
    \/ Preview \/ Replan \/ Delete \/ Lint

Spec == Init /\ [][Next]_vars

--------------------------------------------------------------------------------
EntryRow == [uri : SUBSET Uri, there : BOOLEAN]

SnapRow ==
    [entry : Nat, body : Body, status : {"PENDING", "COMPLETE", "FAILED"}, there : BOOLEAN]

Particle ==
    [text : UNION {Says[b] : b \in Body}, refs : SUBSET Nat, status : {"ACTIVE", "STALE", "DELETED"}]

DepState ==
    [pc : {"idle", "look", "holds", "link", "judge", "unlink", "match", "insert"},
     task : {"deposit", "rehome"}, uri : Uri, body : Body, tries : {0, 1}, entry : Nat,
     new : BOOLEAN]

TypeOK ==
    /\ file \in [Body -> {"none", "torn", "good"}]
    /\ entries \in Seq(EntryRow) /\ snaps \in Seq(SnapRow) /\ parts \in Seq(Particle)
    /\ dep \in [Depositor -> DepState]
    /\ del \in [pc : {"idle", "asked", "planned"}, entry : Nat, kill : SUBSET Nat, strip : SUBSET Nat]
    /\ \A i \in DOMAIN snaps : snaps[i].entry \in DOMAIN entries
    /\ \A p \in DOMAIN parts : /\ parts[p].refs \subseteq DOMAIN snaps
                               /\ parts[p].refs = {} <=> parts[p].status = "DELETED"
    /\ DOMAIN ext = Runner
    /\ \A r \in Runner : \/ ext[r] = NoExt
                         \/ /\ ext[r].pc = "read" /\ ext[r].snap \in DOMAIN snaps
                            /\ ext[r].dup \in [Says[snaps[ext[r].snap].body] -> SUBSET DOMAIN parts]
    /\ \A c, d \in Locked : c = d
    /\ used \in [crash : Nat, delete : Nat]
    /\ late \subseteq DOMAIN parts

\* The blob is there before the row that names it and stays: whatever crashed
\* and whatever was deleted, every row a deposit committed names content an
\* extraction can read (write_blob: "a write that returns leaves its blob readable
\* whatever another writer did"), as long as SameName keeps two writers from
\* meeting on one torn file.
RowsAreReadable ==
    \A i \in Rows : i > Len(Old) => file[snaps[i].body] = "good"

\* No two generations of an entry in a row hold the same bytes.
GenerationsDiffer ==
    \A i, j \in Rows :
        (j < i /\ snaps[j].entry = snaps[i].entry
         /\ \A k \in (j + 1)..(i - 1) : snaps[k].entry # snaps[i].entry)
        => snaps[j].body # snaps[i].body

Orphans == {i \in Rows : ~entries[snaps[i].entry].there}

\* No snapshot row outlives its entry: a row without one is inserted by the one
\* deposit that had found the entry before the delete took it away, and stands
\* alone.  And no two generations of an entry in a row hold the same bytes.
RowsHaveEntries ==
    [][/\ GenerationsDiffer'
       /\ \A i \in Orphans' \ Orphans :
             LET e == snaps'[i].entry IN
             /\ i \notin DOMAIN snaps /\ Of(e) \cap Rows = {} /\ e \in DOMAIN entries
             /\ \E d \in Depositor : dep[d].pc = "insert" /\ dep[d].entry = e]_vars

\* The hard delete removes only claims whose every source is the entry.
OnlySoleSource ==
    [][\A p \in DOMAIN parts :
          parts[p].status # "DELETED" /\ parts'[p].status = "DELETED"
             => parts[p].refs \subseteq Of(del.entry)]_vars

\* The hard delete removes only claims whose every source is the entry, and claims
\* an extraction wrote between its second plan and its deletes: one that gained a
\* second source while the operator was asked is stripped, not deleted.
OnlySoleSourceAsPlanned ==
    [][\A p \in DOMAIN parts :
          parts[p].status # "DELETED" /\ parts'[p].status = "DELETED"
             => parts[p].refs \subseteq Of(del.entry) \/ p \in late]_vars

\* A delete leaves no claim citing the rows it removed, whatever was extracted
\* between the preview and the second plan: a claim comes to cite a missing
\* snapshot by the write of an extraction that had read the snapshot before, or
\* was written by one between the second plan and the deletes (delete_entry,
\* strip_entry_provenance_refs).
OnlyLateWritesDangle ==
    [][\A p \in Dangling' \ Dangling :
          \/ \E r \in Runner : /\ ext[r].pc = "read" /\ ext'[r].pc = "idle"
                               /\ ext[r].snap \in parts'[p].refs \ Rows
          \/ p \in late /\ del.pc = "planned" /\ parts'[p].refs \cap Of(del.entry) # {}]_vars
================================================================================
