--------------------------- MODULE EvidenceLedger ---------------------------
(***************************************************************************)
(* The evidence ledger of one run (evidence/ledger.py): a directory with   *)
(* the JSONL file events.jsonl, whose lines form a hash chain, and a       *)
(* shared store of content-addressed blobs.                                *)
(*                                                                         *)
(* A writer is a process holding an EvidenceLedger handle; a reader is a   *)
(* process that opens the ledger for inspection.  Every append runs under  *)
(* an exclusive flock on the run directory, every read of the file under a *)
(* shared one.  An append without a deadline writes the line in place; an  *)
(* append with one stages the whole new file, renames it over the old one  *)
(* and renames the old content back when the clock or the disk says no.    *)
(*                                                                         *)
(* Digests are ideal.  The digest of an event stands for the body it       *)
(* hashes, and a body contains its predecessor's digest, so a digest is    *)
(* represented by the sequence of contents it commits to; GENESIS_DIGEST,  *)
(* which no event hashes to, is the empty one.                             *)
(***************************************************************************)
EXTENDS Naturals, Sequences, FiniteSets

CONSTANTS
    Writers,     \* processes that create, resume and append
    Readers,     \* processes that open the ledger read-only
    Blobs,       \* blob contents; a blob is named by its content
    AppendStates,\* the frozen states the callers append
    Tears,       \* what an interrupted in-place write can leave on disk
    MaxEvents,   \* bound: no append starts on a file of this many lines
    None         \* no process

FROZEN_STATES ==
    {"VALIDATED", "BUILDING", "VERIFYING", "RELEASE_READY", "HALTED", "STOPPED"}

TERMINAL_STATES == {"RELEASE_READY", "HALTED", "STOPPED"}

\* "prefix": a proper prefix of the line.  "noeol": all but the newline.
\* "whole": the line is complete but the call never reported it.
AllTears == {"prefix", "noeol", "whole"}

ASSUME LedgerAssumption ==
    /\ MaxEvents \in Nat \ {0}
    /\ None \notin Writers
    /\ AppendStates \subseteq FROZEN_STATES
    /\ Tears \subseteq AllTears

VARIABLES
    created,     \* events.jsonl exists
    log,         \* its lines, and whether the last one ends in a newline
    blobs,       \* blobs linked into the blob directory
    lock,        \* the writer that holds LOCK_EX on the run directory
    handle,      \* per writer: where its current call is
    late,        \* writers whose commit deadline has passed
    returned,    \* history: the events some append call returned
    seen         \* history: per reader, the file it last verified

vars == <<created, log, blobs, lock, handle, late, returned, seen>>

-----------------------------------------------------------------------------
(* Events *)

Content == [seq : Nat, state : FROZEN_STATES, refs : SUBSET Blobs]

Digests == Seq(Content)

GENESIS_DIGEST == <<>>

\* canonical_digest of an event's body.
CanonicalDigest(prev, seq, state, refs) ==
    Append(prev, [seq |-> seq, state |-> state, refs |-> refs])

\* A line that strict_loads or the schema rejects: a torn line, or two
\* events run together on one line.
Garbage ==
    [seq |-> 0, prev |-> GENESIS_DIGEST, state |-> "unreadable",
     refs |-> {}, digest |-> GENESIS_DIGEST]

Lines ==
    [seq : Nat, prev : Digests, state : FROZEN_STATES \cup {"unreadable"},
     refs : SUBSET Blobs, digest : Digests]

HeadDigest(lines, i) == IF i = 0 THEN GENESIS_DIGEST ELSE lines[i].digest

\* The event append builds on top of the lines it has just verified.
NextEvent(lines, state, refs) ==
    LET n == Len(lines) IN
    [seq |-> n + 1, prev |-> HeadDigest(lines, n), state |-> state, refs |-> refs,
     digest |-> CanonicalDigest(HeadDigest(lines, n), n + 1, state, refs)]

\* One line passes: schema, sequence, previous digest, own digest.
LinkOK(lines, i) ==
    LET e == lines[i] IN
    /\ e.state \in FROZEN_STATES
    /\ e.seq = i
    /\ e.prev = HeadDigest(lines, i - 1)
    /\ e.digest = CanonicalDigest(e.prev, e.seq, e.state, e.refs)

\* Every blob a line names can be read back.
RefsReadable(lines, i, stored) == lines[i].refs \subseteq stored

VerifyPayload(lines, stored) ==
    \A i \in 1..Len(lines) : LinkOK(lines, i) /\ RefsReadable(lines, i, stored)

-----------------------------------------------------------------------------
(* The file *)

EmptyFile == [lines |-> <<>>, eol |-> TRUE]

\* The bytes of line appended to file.  Without a newline at the end of the
\* file the two lines run together.
Extend(file, line, eol) ==
    [lines |-> IF file.eol
               THEN Append(file.lines, line)
               ELSE [file.lines EXCEPT ![Len(file.lines)] = Garbage],
     eol   |-> eol]

\* What is on disk after a write of event that stopped part-way.
Torn(file, event, tear) ==
    CASE tear = "prefix" -> Extend(file, Garbage, FALSE)
      [] tear = "noeol"  -> Extend(file, event, FALSE)
      [] tear = "whole"  -> Extend(file, event, TRUE)

-----------------------------------------------------------------------------
(* Handles *)

Idle(pc) == [pc |-> pc, base |-> EmptyFile, event |-> Garbage, guarded |-> FALSE]

Files == [lines : Seq(Lines), eol : BOOLEAN]

\* pc: "closed" no handle; "open" between calls; "locked" append holds the
\* lock and has verified base; "staged" both temporary files are written and
\* the deadline was met; "published" the staged file has been renamed over
\* events.jsonl.
Handles ==
    [pc : {"closed", "open", "locked", "staged", "published"},
     base : Files, event : Lines, guarded : BOOLEAN]

Init ==
    /\ created = FALSE
    /\ log = EmptyFile
    /\ blobs = {}
    /\ lock = None
    /\ handle = [w \in Writers |-> Idle("closed")]
    /\ late = {}
    /\ returned = {}
    /\ seen = [r \in Readers |-> EmptyFile]

\* The call of w ends and releases the lock.
Leave(w, pc) ==
    /\ handle' = [handle EXCEPT ![w] = Idle(pc)]
    /\ lock' = IF lock = w THEN None ELSE lock

\* EvidenceLedger(root, run_id): O_CREAT | O_EXCL.
Create(w) ==
    /\ handle[w].pc = "closed"
    /\ ~created
    /\ created' = TRUE
    /\ handle' = [handle EXCEPT ![w] = Idle("open")]
    /\ UNCHANGED <<log, blobs, lock, late, returned, seen>>

\* EvidenceLedger(root, run_id, resume=True): the file verifies, has an
\* event, and its last event is not terminal.
Resume(w) ==
    /\ handle[w].pc = "closed"
    /\ created
    /\ lock = None
    /\ VerifyPayload(log.lines, blobs)
    /\ Len(log.lines) > 0
    /\ log.lines[Len(log.lines)].state \notin TERMINAL_STATES
    /\ handle' = [handle EXCEPT ![w] = Idle("open")]
    /\ UNCHANGED <<created, log, blobs, lock, late, returned, seen>>

\* Variant: inspection reads the file without the shared lock.
OpenExistingUnlocked(r) ==
    /\ created
    /\ VerifyPayload(log.lines, blobs)
    /\ seen' = [seen EXCEPT ![r] = log]
    /\ UNCHANGED <<created, log, blobs, lock, handle, late, returned>>

\* open_existing / verify: one read under LOCK_SH, then the whole check.
OpenExisting(r) ==
    /\ created
    /\ lock = None
    /\ VerifyPayload(log.lines, blobs)
    /\ seen' = [seen EXCEPT ![r] = log]
    /\ UNCHANGED <<created, log, blobs, lock, handle, late, returned>>

\* put_blob: a temporary file is linked to the content's name; an existing
\* file of that name holds the same content.
PutBlob(w, b) ==
    /\ handle[w].pc = "open"
    /\ blobs' = blobs \cup {b}
    /\ UNCHANGED <<created, log, lock, handle, late, returned, seen>>

\* Variant: append trusts the file instead of verifying it again.
BeginAppendUnverified(w, state, refs, guarded) ==
    /\ handle[w].pc = "open"
    /\ lock = None
    /\ refs \subseteq blobs
    /\ Len(log.lines) < MaxEvents
    /\ lock' = w
    /\ handle' = [handle EXCEPT ![w] =
                    [pc |-> "locked", base |-> log, guarded |-> guarded,
                     event |-> NextEvent(log.lines, state, refs)]]
    /\ UNCHANGED <<created, log, blobs, late, returned, seen>>

\* Variant: append takes a shared lock, so two calls can build on one base.
BeginAppendShared(w, state, refs, guarded) ==
    /\ handle[w].pc = "open"
    /\ refs \subseteq blobs
    /\ Len(log.lines) < MaxEvents
    /\ VerifyPayload(log.lines, blobs)
    /\ lock' = w
    /\ handle' = [handle EXCEPT ![w] =
                    [pc |-> "locked", base |-> log, guarded |-> guarded,
                     event |-> NextEvent(log.lines, state, refs)]]
    /\ UNCHANGED <<created, log, blobs, late, returned, seen>>

\* append up to the point where the encoded event is ready: arguments,
\* LOCK_EX, read, verify.  The digests passed are those put_blob returned.
BeginAppend(w, state, refs, guarded) ==
    /\ handle[w].pc = "open"
    /\ lock = None
    /\ refs \subseteq blobs
    /\ Len(log.lines) < MaxEvents
    /\ VerifyPayload(log.lines, blobs)
    /\ lock' = w
    /\ handle' = [handle EXCEPT ![w] =
                    [pc |-> "locked", base |-> log, guarded |-> guarded,
                     event |-> NextEvent(log.lines, state, refs)]]
    /\ UNCHANGED <<created, log, blobs, late, returned, seen>>

\* append without a deadline: write, flush, fsync, return.
CommitPlain(w) ==
    /\ handle[w].pc = "locked"
    /\ ~handle[w].guarded
    /\ log' = Extend(log, handle[w].event, TRUE)
    /\ returned' = returned \cup {handle[w].event}
    /\ Leave(w, "open")
    /\ UNCHANGED <<created, blobs, late, seen>>

\* The in-place write or its fsync fails: the exception leaves the bytes.
FailPlain(w) ==
    /\ handle[w].pc = "locked"
    /\ ~handle[w].guarded
    /\ \E tear \in Tears : log' = Torn(log, handle[w].event, tear)
    /\ Leave(w, "open")
    /\ UNCHANGED <<created, blobs, late, returned, seen>>

\* append with a deadline: both temporary files written, the clock read once.
Stage(w) ==
    /\ handle[w].pc = "locked"
    /\ handle[w].guarded
    /\ w \notin late
    /\ handle' = [handle EXCEPT ![w].pc = "staged"]
    /\ UNCHANGED <<created, log, blobs, lock, late, returned, seen>>

\* The clock is past the deadline, or a temporary file cannot be written.
AbortStage(w) ==
    /\ handle[w].pc = "locked"
    /\ handle[w].guarded
    /\ Leave(w, "open")
    /\ UNCHANGED <<created, log, blobs, late, returned, seen>>

\* os.replace(staged, events.jsonl).
Publish(w) ==
    /\ handle[w].pc = "staged"
    /\ log' = Extend(handle[w].base, handle[w].event, TRUE)
    /\ handle' = [handle EXCEPT ![w].pc = "published"]
    /\ UNCHANGED <<created, blobs, lock, late, returned, seen>>

\* The directory is synced and the clock, read again, is within the deadline.
Confirm(w) ==
    /\ handle[w].pc = "published"
    /\ w \notin late
    /\ returned' = returned \cup {handle[w].event}
    /\ Leave(w, "open")
    /\ UNCHANGED <<created, log, blobs, late, seen>>

\* The sync failed or the deadline passed: the old content is renamed back.
Rollback(w) ==
    /\ handle[w].pc = "published"
    /\ log' = handle[w].base
    /\ Leave(w, "open")
    /\ UNCHANGED <<created, blobs, late, returned, seen>>

\* The process of w dies; the kernel drops its flock.  Staged files are
\* temporary names nobody reads.  An in-place write may stop anywhere.
Crash(w) ==
    /\ handle[w].pc # "closed"
    /\ \/ log' = log
       \/ /\ handle[w].pc = "locked"
          /\ ~handle[w].guarded
          /\ \E tear \in Tears : log' = Torn(log, handle[w].event, tear)
    /\ Leave(w, "closed")
    /\ late' = late \ {w}
    /\ UNCHANGED <<created, blobs, returned, seen>>

\* trusted_monotonic passes the deadline the caller of w chose.
DeadlinePasses(w) ==
    /\ handle[w].pc # "closed"
    /\ w \notin late
    /\ late' = late \cup {w}
    /\ UNCHANGED <<created, log, blobs, lock, handle, returned, seen>>

\* The steps of a call that holds the lock.
HolderStep(w) ==
    \/ CommitPlain(w) \/ FailPlain(w)
    \/ Stage(w) \/ AbortStage(w) \/ Publish(w)
    \/ Confirm(w) \/ Rollback(w)

Next ==
    \/ \E w \in Writers :
         \/ Create(w) \/ Resume(w)
         \/ \E b \in Blobs : PutBlob(w, b)
         \/ \E s \in AppendStates, refs \in SUBSET Blobs, g \in BOOLEAN :
              BeginAppend(w, s, refs, g)
         \/ HolderStep(w) \/ Crash(w) \/ DeadlinePasses(w)
    \/ \E r \in Readers : OpenExisting(r)

\* A process that holds the lock is not waiting for anything: it is running.
Fairness == \A w \in Writers : WF_vars(HolderStep(w))

Spec == Init /\ [][Next]_vars /\ Fairness
-----------------------------------------------------------------------------
(* Properties *)

\* Type invariant of the ledger: the file, the lock, the blobs and each call in
\* progress stay in their ranges.
TypeOK ==
    /\ created \in BOOLEAN
    /\ log \in Files
    /\ blobs \subseteq Blobs
    /\ lock \in Writers \cup {None}
    /\ handle \in [Writers -> Handles]
    /\ late \subseteq Writers
    /\ returned \subseteq Lines
    /\ seen \in [Readers -> Files]

\* Whatever crashes and write errors happen, damage is confined to the last
\* line: every line before it still passes the whole check, so the history a
\* verifier can recover from the file is a hash chain (_verify_payload).
DamageOnlyAtTail ==
    \A i \in 1..Len(log.lines) :
        \/ LinkOK(log.lines, i) /\ RefsReadable(log.lines, i, blobs)
        \/ i = Len(log.lines) /\ log.lines[i] = Garbage

\* No inspection ever sees an event that is later withdrawn: a file that was
\* read and verified (and ended in a newline) stays a prefix of the ledger.
\* A guarded append publishes and may roll back, but only under LOCK_EX.
InspectedIsPermanent ==
    \A r \in Readers :
        seen[r].eol =>
            /\ Len(seen[r].lines) <= Len(log.lines)
            /\ \A i \in 1..Len(seen[r].lines) : seen[r].lines[i] = log.lines[i]

\* An event that append returned to its caller is in the ledger at its
\* sequence number for good, with everything it commits to.
ReturnedIsDurable ==
    \A e \in returned :
        /\ e.seq \in 1..Len(log.lines)
        /\ log.lines[e.seq] = e

=============================================================================
