---------------------------- MODULE LedgerProofs -----------------------------
(***************************************************************************)
(* Proofs about the evidence ledger, and about the recorded tool agent     *)
(* that writes one.                                                        *)
(***************************************************************************)
EXTENDS RecordedToolAgent, TLAPS

-----------------------------------------------------------------------------
(***************************************************************************)
(* Proofs about EvidenceLedger, for any set of writers, readers and blobs  *)
(* and any length of ledger.  The inductive invariant says what a call     *)
(* that holds the lock knows: nobody has touched the file since it was     *)
(* read (or since the call itself renamed the staged file over it).        *)
(***************************************************************************)

Busy == {"locked", "staged", "published"}

\* A file without a final newline has a line that lacks it.
FileOK(f) == ~f.eol => Len(f.lines) > 0

TailOK(lines, stored) ==
    \A i \in 1..Len(lines) :
        \/ LinkOK(lines, i) /\ RefsReadable(lines, i, stored)
        \/ i = Len(lines) /\ lines[i] = Garbage

\* Exactly the holder of the flock is inside append.
LockInv ==
    \A w \in Writers : lock = w <=> handle[w].pc \in Busy

\* What the call of w knows while it holds the lock.
HolderInv(w) ==
    handle[w].pc \in Busy =>
        /\ FileOK(handle[w].base)
        /\ VerifyPayload(handle[w].base.lines, blobs)
        /\ handle[w].event.state \in FROZEN_STATES
        /\ handle[w].event.refs \subseteq blobs
        /\ handle[w].event = NextEvent(handle[w].base.lines,
                                       handle[w].event.state,
                                       handle[w].event.refs)
        /\ handle[w].pc = "published" =>
              log = Extend(handle[w].base, handle[w].event, TRUE)
        /\ handle[w].pc # "published" => log = handle[w].base

LedgerInv ==
    /\ TypeOK
    /\ LockInv
    /\ FileOK(log)
    /\ TailOK(log.lines, blobs)
    /\ \A w \in Writers : HolderInv(w)

-----------------------------------------------------------------------------
(* Facts about events and files *)

\* The digest of a body is a digest.
LEMMA DigestType ==
    ASSUME NEW prev \in Digests, NEW seq \in Nat, NEW state \in FROZEN_STATES,
           NEW refs \in SUBSET Blobs
    PROVE  CanonicalDigest(prev, seq, state, refs) \in Digests
<1>1. [seq |-> seq, state |-> state, refs |-> refs] \in Content
  BY DEF Content
<1> QED  BY <1>1 DEF CanonicalDigest, Digests

\* The head of a file is a digest.
LEMMA HeadType ==
    ASSUME NEW lines \in Seq(Lines), NEW i \in 0..Len(lines)
    PROVE  HeadDigest(lines, i) \in Digests
<1>1. CASE i = 0
  BY <1>1 DEF HeadDigest, GENESIS_DIGEST, Digests
<1>2. CASE i # 0
  <2>1. lines[i] \in Lines  BY <1>2
  <2> QED  BY <2>1, <1>2 DEF HeadDigest, Lines
<1> QED  BY <1>1, <1>2

\* The event append builds is a well-formed line.
LEMMA NextEventType ==
    ASSUME NEW lines \in Seq(Lines), NEW state \in FROZEN_STATES,
           NEW refs \in SUBSET Blobs
    PROVE  NextEvent(lines, state, refs) \in Lines
<1> DEFINE n == Len(lines)
<1>1. n \in Nat /\ n + 1 \in Nat  OBVIOUS
<1>2. HeadDigest(lines, n) \in Digests  BY <1>1, HeadType
<1>3. CanonicalDigest(HeadDigest(lines, n), n + 1, state, refs) \in Digests
  BY <1>1, <1>2, DigestType
<1> QED  BY <1>1, <1>2, <1>3 DEF NextEvent, Lines

\* An unreadable line has the type of a line.
LEMMA GarbageType == Garbage \in Lines
BY DEF Garbage, Lines, GENESIS_DIGEST, Digests

\* Writing a line at the end of a file gives a file.
LEMMA ExtendType ==
    ASSUME NEW f \in Files, FileOK(f), NEW line \in Lines, NEW eol \in BOOLEAN
    PROVE  /\ Extend(f, line, eol) \in Files
           /\ FileOK(Extend(f, line, eol))
           /\ Extend(f, line, eol).eol = eol
<1>1. f.lines \in Seq(Lines) /\ f.eol \in BOOLEAN  BY DEF Files
<1>2. CASE f.eol
  <2>1. Append(f.lines, line) \in Seq(Lines) /\ Len(Append(f.lines, line)) > 0
    BY <1>1
  <2>2. Extend(f, line, eol) = [lines |-> Append(f.lines, line), eol |-> eol]
    BY <1>2 DEF Extend
  <2> QED  BY <2>1, <2>2 DEF Files, FileOK
<1>3. CASE ~f.eol
  <2> DEFINE g == [f.lines EXCEPT ![Len(f.lines)] = Garbage]
  <2>1. Len(f.lines) \in 1..Len(f.lines)  BY <1>1, <1>3 DEF FileOK
  <2>2. g \in Seq(Lines) /\ Len(g) > 0  BY <1>1, <2>1, GarbageType
  <2>3. Extend(f, line, eol) = [lines |-> g, eol |-> eol]
    BY <1>3 DEF Extend
  <2> QED  BY <2>2, <2>3 DEF Files, FileOK
<1> QED  BY <1>1, <1>2, <1>3

\* Writing a line at the end of a file keeps the lines before the last one
\* and, when the file ended in a newline, all of them.
LEMMA ExtendKeeps ==
    ASSUME NEW f \in Files, FileOK(f), NEW line \in Lines, NEW eol \in BOOLEAN
    PROVE  /\ f.eol => Len(Extend(f, line, eol).lines) = Len(f.lines) + 1
           /\ f.eol => Extend(f, line, eol).lines[Len(f.lines) + 1] = line
           /\ f.eol => \A i \in 1..Len(f.lines) :
                         Extend(f, line, eol).lines[i] = f.lines[i]
           /\ ~f.eol => Len(Extend(f, line, eol).lines) = Len(f.lines)
           /\ ~f.eol => Extend(f, line, eol).lines[Len(f.lines)] = Garbage
           /\ ~f.eol => \A i \in 1..(Len(f.lines) - 1) :
                         Extend(f, line, eol).lines[i] = f.lines[i]
<1>1. f.lines \in Seq(Lines) /\ f.eol \in BOOLEAN  BY DEF Files
<1>2. CASE f.eol
  <2>2. Extend(f, line, eol) = [lines |-> Append(f.lines, line), eol |-> eol]
    BY <1>2 DEF Extend
  <2> QED  BY <1>1, <1>2, <2>2
<1>3. CASE ~f.eol
  <2> DEFINE g == [f.lines EXCEPT ![Len(f.lines)] = Garbage]
  <2>1. Len(f.lines) \in 1..Len(f.lines)  BY <1>1, <1>3 DEF FileOK
  <2>3. Extend(f, line, eol) = [lines |-> g, eol |-> eol]
    BY <1>3 DEF Extend
  <2> QED  BY <1>1, <1>3, <2>1, <2>3
<1> QED  BY <1>1, <1>2, <1>3

\* The event built on a verified file passes the check in the extended file.
LEMMA ExtendTail ==
    ASSUME NEW stored \in SUBSET Blobs,
           NEW f \in Files, FileOK(f), VerifyPayload(f.lines, stored),
           NEW state \in FROZEN_STATES, NEW refs \in SUBSET stored,
           NEW line, line \in {NextEvent(f.lines, state, refs), Garbage},
           NEW eol \in BOOLEAN
    PROVE  TailOK(Extend(f, line, eol).lines, stored)
<1> DEFINE g == Extend(f, line, eol).lines
           n == Len(f.lines)
<1>1. f.lines \in Seq(Lines) /\ f.eol \in BOOLEAN /\ n \in Nat  BY DEF Files
<1>2. line \in Lines  BY <1>1, NextEventType, GarbageType
<1>3. SUFFICES ASSUME NEW i \in 1..Len(g)
               PROVE  \/ LinkOK(g, i) /\ RefsReadable(g, i, stored)
                      \/ i = Len(g) /\ g[i] = Garbage
  BY DEF TailOK
<1> HIDE DEF g
<1>4. CASE f.eol
  <2>1. /\ Len(g) = n + 1
        /\ g[n + 1] = line
        /\ \A j \in 1..n : g[j] = f.lines[j]
    BY <1>2, <1>4, ExtendKeeps DEF g
  <2>2. CASE i \in 1..n
    <3>1. LinkOK(f.lines, i) /\ RefsReadable(f.lines, i, stored)
      BY <2>2 DEF VerifyPayload
    <3>2. g[i] = f.lines[i] /\ HeadDigest(g, i - 1) = HeadDigest(f.lines, i - 1)
      BY <1>1, <2>1, <2>2 DEF HeadDigest
    <3> QED  BY <3>1, <3>2 DEF LinkOK, RefsReadable
  <2>3. CASE i = n + 1
    <3>1. CASE line = Garbage  BY <2>1, <2>3, <3>1
    <3>2. CASE line = NextEvent(f.lines, state, refs)
      <4>1. HeadDigest(g, i - 1) = HeadDigest(f.lines, n)
        BY <1>1, <2>1, <2>3 DEF HeadDigest
      <4>2. /\ g[i].seq = i
            /\ g[i].prev = HeadDigest(g, i - 1)
            /\ g[i].state = state
            /\ g[i].refs = refs
            /\ g[i].digest = CanonicalDigest(HeadDigest(f.lines, n), n + 1, state, refs)
        BY <2>1, <2>3, <3>2, <4>1 DEF NextEvent
      <4> QED  BY <2>3, <4>1, <4>2 DEF LinkOK, RefsReadable
    <3> QED  BY <3>1, <3>2
  <2> QED  BY <1>1, <2>1, <2>2, <2>3
<1>5. CASE ~f.eol
  <2>1. /\ Len(g) = n
        /\ g[n] = Garbage
        /\ \A j \in 1..(n - 1) : g[j] = f.lines[j]
    BY <1>2, <1>5, ExtendKeeps DEF g
  <2>2. CASE i \in 1..(n - 1)
    <3>1. LinkOK(f.lines, i) /\ RefsReadable(f.lines, i, stored)
      BY <1>1, <2>2 DEF VerifyPayload
    <3>2. g[i] = f.lines[i] /\ HeadDigest(g, i - 1) = HeadDigest(f.lines, i - 1)
      BY <1>1, <2>1, <2>2 DEF HeadDigest
    <3> QED  BY <3>1, <3>2 DEF LinkOK, RefsReadable
  <2>3. CASE i = n  BY <2>1, <2>3
  <2> QED  BY <1>1, <2>1, <2>2, <2>3
<1> QED  BY <1>1, <1>4, <1>5

\* Reading blobs back only gets easier as the blob directory grows.
LEMMA MoreBlobs ==
    ASSUME NEW lines, NEW few, NEW many, few \subseteq many
    PROVE  /\ VerifyPayload(lines, few) => VerifyPayload(lines, many)
           /\ TailOK(lines, few) => TailOK(lines, many)
BY DEF VerifyPayload, TailOK, RefsReadable

-----------------------------------------------------------------------------
(* The inductive invariant *)

\* The initial state satisfies the inductive invariant.
LEMMA LedgerInvInit == Init => LedgerInv
<1> SUFFICES ASSUME Init PROVE LedgerInv  OBVIOUS
<1>1. EmptyFile \in Files  BY DEF EmptyFile, Files
<1>2. Idle("closed") \in Handles
  BY <1>1, GarbageType DEF Idle, Handles
<1>3. TypeOK  BY <1>1, <1>2 DEF Init, TypeOK
<1>4. LockInv  BY LedgerAssumption DEF Init, LockInv, Busy, Idle
<1>5. FileOK(log) /\ TailOK(log.lines, blobs)
  BY DEF Init, EmptyFile, FileOK, TailOK
<1>6. \A w \in Writers : HolderInv(w)
  BY DEF Init, HolderInv, Busy, Idle
<1> QED  BY <1>3, <1>4, <1>5, <1>6 DEF LedgerInv

\* What holds for a file holds for the file an interrupted write leaves.
LEMMA TornFile ==
    ASSUME NEW stored \in SUBSET Blobs,
           NEW f \in Files, FileOK(f), VerifyPayload(f.lines, stored),
           NEW state \in FROZEN_STATES, NEW refs \in SUBSET stored,
           NEW tear \in AllTears
    PROVE  LET g == Torn(f, NextEvent(f.lines, state, refs), tear) IN
           /\ g \in Files
           /\ FileOK(g)
           /\ TailOK(g.lines, stored)
<1> DEFINE e == NextEvent(f.lines, state, refs)
<1>1. f.lines \in Seq(Lines)  BY DEF Files
<1>2. e \in Lines /\ Garbage \in Lines  BY <1>1, NextEventType, GarbageType
<1> HIDE DEF e
<1>3. CASE tear = "prefix"
  <2>1. Torn(f, e, tear) = Extend(f, Garbage, FALSE)  BY <1>3 DEF Torn
  <2> QED  BY <1>2, <2>1, ExtendType, ExtendTail DEF e
<1>4. CASE tear = "noeol"
  <2>1. Torn(f, e, tear) = Extend(f, e, FALSE)  BY <1>4 DEF Torn
  <2> QED  BY <1>2, <2>1, ExtendType, ExtendTail DEF e
<1>5. CASE tear = "whole"
  <2>1. Torn(f, e, tear) = Extend(f, e, TRUE)  BY <1>5 DEF Torn
  <2> QED  BY <1>2, <2>1, ExtendType, ExtendTail DEF e
<1> QED  BY <1>3, <1>4, <1>5 DEF AllTears, e

\* While w holds the lock and has not published, its in-place write, complete
\* or not, extends the verified file.
LEMMA InPlaceWrite ==
    ASSUME LedgerInv, NEW w \in Writers, handle[w].pc = "locked"
    PROVE  /\ log \in Files /\ FileOK(log) /\ VerifyPayload(log.lines, blobs)
           /\ handle[w].event \in Lines
           /\ handle[w].base \in Files
           /\ \A eol \in BOOLEAN :
                /\ Extend(log, handle[w].event, eol) \in Files
                /\ FileOK(Extend(log, handle[w].event, eol))
                /\ TailOK(Extend(log, handle[w].event, eol).lines, blobs)
           /\ \A tear \in Tears :
                /\ Torn(log, handle[w].event, tear) \in Files
                /\ FileOK(Torn(log, handle[w].event, tear))
                /\ TailOK(Torn(log, handle[w].event, tear).lines, blobs)
<1> DEFINE e == handle[w].event
<1>1. /\ FileOK(log) /\ VerifyPayload(log.lines, blobs)
      /\ e.state \in FROZEN_STATES /\ e.refs \in SUBSET blobs
      /\ e = NextEvent(log.lines, e.state, e.refs)
  BY DEF LedgerInv, HolderInv, Busy
<1>2. log \in Files /\ blobs \in SUBSET Blobs /\ handle[w] \in Handles
  BY DEF LedgerInv, TypeOK
<1>3. e \in Lines /\ handle[w].base \in Files  BY <1>2 DEF Handles
<1> HIDE DEF e
<1>4. ASSUME NEW eol \in BOOLEAN
      PROVE  /\ Extend(log, e, eol) \in Files
             /\ FileOK(Extend(log, e, eol))
             /\ TailOK(Extend(log, e, eol).lines, blobs)
  BY <1>1, <1>2, <1>3, ExtendType, ExtendTail
<1>5. ASSUME NEW tear \in Tears
      PROVE  /\ Torn(log, e, tear) \in Files
             /\ FileOK(Torn(log, e, tear))
             /\ TailOK(Torn(log, e, tear).lines, blobs)
  BY <1>1, <1>2, TornFile, LedgerAssumption
<1> QED  BY <1>1, <1>2, <1>3, <1>4, <1>5 DEF e

\* A call that ends hands the lock back and forgets its base.
LEMMA LeaveKeeps ==
    ASSUME LedgerInv, NEW w \in Writers, NEW pc \in {"open", "closed"},
           Leave(w, pc), blobs' = blobs,
           \A v \in Writers \ {w} : handle[v].pc \in Busy => log' = log
    PROVE  /\ handle' \in [Writers -> Handles]
           /\ lock' \in Writers \cup {None}
           /\ LockInv'
           /\ \A v \in Writers : HolderInv(v)'
<1>1. handle \in [Writers -> Handles] /\ lock \in Writers \cup {None}
  BY DEF LedgerInv, TypeOK
<1>2. Idle(pc) \in Handles
  BY GarbageType DEF Idle, Handles, EmptyFile, Files
<1>3. handle' \in [Writers -> Handles]  BY <1>1, <1>2 DEF Leave
<1>4. /\ handle'[w].pc \notin Busy
      /\ \A v \in Writers \ {w} : handle'[v] = handle[v]
  BY <1>1 DEF Leave, Idle, Busy
<1>5. lock' # w /\ (\A v \in Writers \ {w} : lock' = v <=> lock = v)
  BY <1>1, LedgerAssumption DEF Leave
<1>6. LockInv'  BY <1>4, <1>5 DEF LedgerInv, LockInv
<1>7. ASSUME NEW v \in Writers PROVE HolderInv(v)'
  <2>1. CASE v = w  BY <2>1, <1>4 DEF HolderInv
  <2>2. CASE v # w
    <3>1. handle'[v] = handle[v] /\ HolderInv(v)
      BY <2>2, <1>4 DEF LedgerInv
    <3>2. CASE handle[v].pc \notin Busy  BY <3>1, <3>2 DEF HolderInv
    <3>3. CASE handle[v].pc \in Busy
      <4>1. log' = log  BY <2>2, <3>3
      <4> QED  BY <3>1, <3>3, <4>1 DEF HolderInv
    <3> QED  BY <3>2, <3>3
  <2> QED  BY <2>1, <2>2
<1> QED  BY <1>1, <1>3, <1>6, <1>7 DEF Leave

\* Only one call holds the lock.
LEMMA OneHolder ==
    ASSUME LedgerInv, NEW w \in Writers, handle[w].pc \in Busy
    PROVE  lock = w /\ \A v \in Writers \ {w} : handle[v].pc \notin Busy
BY DEF LedgerInv, LockInv

\* Every step preserves the inductive invariant.
LEMMA LedgerInvStep == LedgerInv /\ [Next]_vars => LedgerInv'
<1> SUFFICES ASSUME LedgerInv, [Next]_vars PROVE LedgerInv'  OBVIOUS
<1> USE LedgerAssumption
<1>ty. TypeOK  BY DEF LedgerInv
<1>1. ASSUME NEW w \in Writers, Create(w) PROVE LedgerInv'
  <2>1. Idle("open") \in Handles
    BY GarbageType DEF Idle, Handles, EmptyFile, Files
  <2>2. TypeOK'  BY <1>ty, <1>1, <2>1 DEF Create, TypeOK
  <2>3. /\ handle'[w].pc = "open"
        /\ \A v \in Writers \ {w} : handle'[v] = handle[v]
    BY <1>ty, <1>1 DEF Create, TypeOK, Idle
  <2>4. LockInv'  BY <1>1, <2>3 DEF Create, LedgerInv, LockInv, Busy
  <2>5. ASSUME NEW v \in Writers PROVE HolderInv(v)'
    BY <1>1, <2>3 DEF Create, LedgerInv, HolderInv, Busy
  <2> QED  BY <1>1, <2>2, <2>4, <2>5 DEF Create, LedgerInv
<1>2. ASSUME NEW w \in Writers, Resume(w) PROVE LedgerInv'
  <2>1. Idle("open") \in Handles
    BY GarbageType DEF Idle, Handles, EmptyFile, Files
  <2>2. TypeOK'  BY <1>ty, <1>2, <2>1 DEF Resume, TypeOK
  <2>3. /\ handle'[w].pc = "open"
        /\ \A v \in Writers \ {w} : handle'[v] = handle[v]
    BY <1>ty, <1>2 DEF Resume, TypeOK, Idle
  <2>4. LockInv'  BY <1>2, <2>3 DEF Resume, LedgerInv, LockInv, Busy
  <2>5. ASSUME NEW v \in Writers PROVE HolderInv(v)'
    BY <1>2, <2>3 DEF Resume, LedgerInv, HolderInv, Busy
  <2> QED  BY <1>2, <2>2, <2>4, <2>5 DEF Resume, LedgerInv
<1>3. ASSUME NEW w \in Writers, NEW b \in Blobs, PutBlob(w, b) PROVE LedgerInv'
  <2>1. blobs \subseteq blobs' /\ TypeOK'  BY <1>ty, <1>3 DEF PutBlob, TypeOK
  <2>2. TailOK(log.lines, blobs')
    BY <2>1, MoreBlobs DEF LedgerInv
  <2>3. ASSUME NEW v \in Writers PROVE HolderInv(v)'
    <3>1. HolderInv(v) /\ handle' = handle /\ log' = log
      BY <1>3 DEF LedgerInv, PutBlob
    <3>2. CASE handle[v].pc \notin Busy  BY <3>1, <3>2 DEF HolderInv
    <3>3. CASE handle[v].pc \in Busy
      <4>1. VerifyPayload(handle[v].base.lines, blobs')
        BY <2>1, <3>1, <3>3, MoreBlobs DEF HolderInv
      <4> QED  BY <2>1, <3>1, <3>3, <4>1 DEF HolderInv
    <3> QED  BY <3>2, <3>3
  <2> QED  BY <1>3, <2>1, <2>2, <2>3 DEF PutBlob, LedgerInv, LockInv
<1>4. ASSUME NEW w \in Writers, NEW state \in AppendStates,
             NEW refs \in SUBSET Blobs, NEW g \in BOOLEAN,
             BeginAppend(w, state, refs, g)
      PROVE  LedgerInv'
  <2> DEFINE e == NextEvent(log.lines, state, refs)
             h == [pc |-> "locked", base |-> log, guarded |-> g, event |-> e]
  <2>1. log \in Files /\ log.lines \in Seq(Lines) /\ state \in FROZEN_STATES
    BY <1>ty DEF TypeOK, Files
  <2>2. e \in Lines  BY <2>1, NextEventType
  <2>3. e.state = state /\ e.refs = refs  BY DEF NextEvent
  <2> HIDE DEF e
  <2>4. h \in Handles  BY <2>1, <2>2 DEF Handles
  <2>5. handle' = [handle EXCEPT ![w] = h] /\ lock' = w /\ lock = None
    BY <1>4 DEF BeginAppend, e
  <2>6. handle'[w] = h /\ \A v \in Writers \ {w} : handle'[v] = handle[v]
    BY <1>ty, <2>5 DEF TypeOK
  <2>7. TypeOK'  BY <1>ty, <1>4, <2>4, <2>5 DEF TypeOK, BeginAppend
  <2>8. LockInv'  BY <2>5, <2>6 DEF LedgerInv, LockInv, Busy
  <2>9. ASSUME NEW v \in Writers PROVE HolderInv(v)'
    <3>1. CASE v = w
      <4>1. /\ FileOK(log) /\ VerifyPayload(log.lines, blobs)
            /\ refs \subseteq blobs /\ blobs' = blobs /\ log' = log
        BY <1>4 DEF BeginAppend, LedgerInv
      <4>2. e = NextEvent(log.lines, e.state, e.refs)  BY <2>3 DEF e
      <4>3. /\ handle'[v].pc = "locked" /\ handle'[v].base = log
            /\ handle'[v].event = e
        BY <2>6, <3>1
      <4> QED  BY <2>1, <2>3, <4>1, <4>2, <4>3 DEF HolderInv
    <3>2. CASE v # w
      <4>1. handle[v].pc \notin Busy  BY <2>5 DEF LedgerInv, LockInv
      <4> QED  BY <2>6, <3>2, <4>1 DEF HolderInv
    <3> QED  BY <3>1, <3>2
  <2> QED  BY <1>4, <2>7, <2>8, <2>9 DEF LedgerInv, BeginAppend
<1>5. ASSUME NEW w \in Writers, CommitPlain(w) PROVE LedgerInv'
  <2>1. handle[w].pc = "locked" /\ handle[w].pc \in Busy /\ blobs' = blobs
    BY <1>5 DEF CommitPlain, Busy
  <2>2. log' \in Files /\ FileOK(log') /\ TailOK(log'.lines, blobs)
    BY <1>5, <2>1, InPlaceWrite DEF CommitPlain
  <2>3. returned' \subseteq Lines
    BY <1>ty, <1>5, <2>1, InPlaceWrite DEF CommitPlain, TypeOK
  <2>4. /\ handle' \in [Writers -> Handles] /\ lock' \in Writers \cup {None}
        /\ LockInv' /\ \A v \in Writers : HolderInv(v)'
    BY <1>5, <2>1, OneHolder, LeaveKeeps DEF CommitPlain
  <2> QED  BY <1>ty, <1>5, <2>1, <2>2, <2>3, <2>4 DEF LedgerInv, TypeOK, CommitPlain
<1>6. ASSUME NEW w \in Writers, FailPlain(w) PROVE LedgerInv'
  <2>1. handle[w].pc = "locked" /\ handle[w].pc \in Busy /\ blobs' = blobs
    BY <1>6 DEF FailPlain, Busy
  <2>2. log' \in Files /\ FileOK(log') /\ TailOK(log'.lines, blobs)
    BY <1>6, <2>1, InPlaceWrite DEF FailPlain
  <2>4. /\ handle' \in [Writers -> Handles] /\ lock' \in Writers \cup {None}
        /\ LockInv' /\ \A v \in Writers : HolderInv(v)'
    BY <1>6, <2>1, OneHolder, LeaveKeeps DEF FailPlain
  <2> QED  BY <1>ty, <1>6, <2>1, <2>2, <2>4 DEF LedgerInv, TypeOK, FailPlain
<1>7. ASSUME NEW w \in Writers, Stage(w) PROVE LedgerInv'
  <2>1. /\ handle[w].pc = "locked"
        /\ handle' = [handle EXCEPT ![w].pc = "staged"]
    BY <1>7 DEF Stage
  <2>2. /\ handle' \in [Writers -> Handles]
        /\ handle'[w] = [handle[w] EXCEPT !.pc = "staged"]
        /\ \A v \in Writers \ {w} : handle'[v] = handle[v]
    BY <1>ty, <2>1 DEF TypeOK, Handles
  <2>3. /\ handle'[w].pc = "staged" /\ handle'[w].base = handle[w].base
        /\ handle'[w].event = handle[w].event
    BY <1>ty, <2>2 DEF TypeOK, Handles
  <2>4. LockInv'  BY <1>7, <2>1, <2>2, <2>3 DEF Stage, LedgerInv, LockInv, Busy
  <2>5. ASSUME NEW v \in Writers PROVE HolderInv(v)'
    <3>1. HolderInv(v) /\ log' = log /\ blobs' = blobs
      BY <1>7 DEF Stage, LedgerInv
    <3>2. CASE v = w  BY <2>1, <2>3, <3>1, <3>2 DEF HolderInv, Busy
    <3>3. CASE v # w
      <4>1. handle'[v] = handle[v]  BY <2>2, <3>3
      <4> QED  BY <3>1, <4>1 DEF HolderInv
    <3> QED  BY <3>2, <3>3
  <2> QED  BY <1>ty, <1>7, <2>2, <2>4, <2>5 DEF Stage, LedgerInv, TypeOK
<1>8. ASSUME NEW w \in Writers, AbortStage(w) PROVE LedgerInv'
  <2>1. /\ handle' \in [Writers -> Handles] /\ lock' \in Writers \cup {None}
        /\ LockInv' /\ \A v \in Writers : HolderInv(v)'
    BY <1>8, LeaveKeeps DEF AbortStage
  <2> QED  BY <1>ty, <1>8, <2>1 DEF LedgerInv, TypeOK, AbortStage
<1>9. ASSUME NEW w \in Writers, Publish(w) PROVE LedgerInv'
  <2>1. /\ handle[w].pc = "staged" /\ handle[w].pc \in Busy
        /\ handle' = [handle EXCEPT ![w].pc = "published"]
        /\ log' = Extend(handle[w].base, handle[w].event, TRUE)
    BY <1>9 DEF Publish, Busy
  <2>2. /\ handle' \in [Writers -> Handles]
        /\ handle'[w] = [handle[w] EXCEPT !.pc = "published"]
        /\ \A v \in Writers \ {w} : handle'[v] = handle[v]
    BY <1>ty, <2>1 DEF TypeOK, Handles
  <2>3. /\ handle'[w].pc = "published" /\ handle'[w].base = handle[w].base
        /\ handle'[w].event = handle[w].event
        /\ handle[w].base \in Files /\ handle[w].event \in Lines
    BY <1>ty, <2>2 DEF TypeOK, Handles
  <2>4. LockInv'  BY <1>9, <2>1, <2>2, <2>3 DEF Publish, LedgerInv, LockInv, Busy
  <2>5. HolderInv(w) /\ \A v \in Writers \ {w} : handle[v].pc \notin Busy
    BY <2>1, OneHolder DEF LedgerInv
  <2>6. ASSUME NEW v \in Writers PROVE HolderInv(v)'
    <3>1. CASE v = w
      BY <1>9, <2>1, <2>3, <2>5, <3>1 DEF Publish, HolderInv, Busy
    <3>2. CASE v # w  BY <2>2, <2>5, <3>2 DEF HolderInv
    <3> QED  BY <3>1, <3>2
  <2>7. log' \in Files /\ FileOK(log') /\ TailOK(log'.lines, blobs)
    <3>1. blobs \in SUBSET Blobs  BY <1>ty DEF TypeOK
    <3>2. /\ FileOK(handle[w].base) /\ VerifyPayload(handle[w].base.lines, blobs)
          /\ handle[w].event.state \in FROZEN_STATES
          /\ handle[w].event.refs \in SUBSET blobs
          /\ handle[w].event = NextEvent(handle[w].base.lines,
                                handle[w].event.state, handle[w].event.refs)
      BY <2>1, <2>5 DEF HolderInv
    <3>3. log' \in Files /\ FileOK(log')  BY <2>1, <2>3, <3>2, ExtendType
    <3>4. TailOK(log'.lines, blobs)  BY <2>1, <2>3, <3>1, <3>2, ExtendTail
    <3> QED  BY <3>3, <3>4
  <2> QED  BY <1>ty, <1>9, <2>2, <2>4, <2>6, <2>7 DEF Publish, LedgerInv, TypeOK
<1>10. ASSUME NEW w \in Writers, Confirm(w) PROVE LedgerInv'
  <2>1. /\ handle' \in [Writers -> Handles] /\ lock' \in Writers \cup {None}
        /\ LockInv' /\ \A v \in Writers : HolderInv(v)'
    BY <1>10, LeaveKeeps DEF Confirm
  <2>2. handle[w].event \in Lines  BY <1>ty DEF TypeOK, Handles
  <2> QED  BY <1>ty, <1>10, <2>1, <2>2 DEF LedgerInv, TypeOK, Confirm
<1>11. ASSUME NEW w \in Writers, Rollback(w) PROVE LedgerInv'
  <2>1. /\ handle[w].pc \in Busy /\ blobs' = blobs
        /\ log' = handle[w].base
    BY <1>11 DEF Rollback, Busy
  <2>2. /\ handle' \in [Writers -> Handles] /\ lock' \in Writers \cup {None}
        /\ LockInv' /\ \A v \in Writers : HolderInv(v)'
    BY <1>11, <2>1, OneHolder, LeaveKeeps DEF Rollback
  <2>3. handle[w].base \in Files  BY <1>ty DEF TypeOK, Handles
  <2>4. FileOK(log') /\ TailOK(log'.lines, blobs)
    BY <2>1 DEF LedgerInv, HolderInv, VerifyPayload, TailOK
  <2> QED  BY <1>ty, <1>11, <2>1, <2>2, <2>3, <2>4 DEF LedgerInv, TypeOK, Rollback
<1>12. ASSUME NEW w \in Writers, Crash(w) PROVE LedgerInv'
  <2>1. \/ log' = log
        \/ /\ handle[w].pc = "locked" /\ handle[w].pc \in Busy
           /\ \E tear \in Tears : log' = Torn(log, handle[w].event, tear)
    BY <1>12 DEF Crash, Busy
  <2>2. log' \in Files /\ FileOK(log') /\ TailOK(log'.lines, blobs)
    <3>1. CASE log' = log  BY <1>ty, <3>1 DEF LedgerInv, TypeOK
    <3>2. CASE log' # log  BY <2>1, <3>2, InPlaceWrite
    <3> QED  BY <3>1, <3>2
  <2>3. \A v \in Writers \ {w} : handle[v].pc \in Busy => log' = log
    BY <2>1, OneHolder
  <2>4. /\ handle' \in [Writers -> Handles] /\ lock' \in Writers \cup {None}
        /\ LockInv' /\ \A v \in Writers : HolderInv(v)'
    BY <1>12, <2>3, LeaveKeeps DEF Crash
  <2> QED  BY <1>ty, <1>12, <2>2, <2>4 DEF LedgerInv, TypeOK, Crash
<1>13. ASSUME NEW w \in Writers, DeadlinePasses(w) PROVE LedgerInv'
  BY <1>13 DEF DeadlinePasses, LedgerInv, TypeOK, LockInv, HolderInv
<1>14. ASSUME NEW r \in Readers, OpenExisting(r) PROVE LedgerInv'
  BY <1>14 DEF OpenExisting, LedgerInv, TypeOK, LockInv, HolderInv
<1>15. CASE UNCHANGED vars
  BY <1>15 DEF vars, LedgerInv, TypeOK, LockInv, HolderInv
<1> QED
  BY <1>1, <1>2, <1>3, <1>4, <1>5, <1>6, <1>7, <1>8, <1>9, <1>10, <1>11,
     <1>12, <1>13, <1>14, <1>15 DEF Next, HolderStep

\* Every reachable state satisfies the inductive invariant.
THEOREM LedgerInvariant == Spec => []LedgerInv
BY LedgerInvInit, LedgerInvStep, PTL DEF Spec

\* The ledger's state is well typed: in particular append never builds an
\* event outside the schema (evidence/ledger.py, append and __init__).
THEOREM LedgerTypeCorrect == Spec => []TypeOK
<1>1. LedgerInv => TypeOK  BY DEF LedgerInv
<1> QED  BY <1>1, LedgerInvariant, PTL

\* Whatever crash or write error happens, every line but possibly the last is
\* a link of the hash chain whose blobs can be read (append, _verify_payload).
THEOREM DamageConfined == Spec => []DamageOnlyAtTail
<1>1. LedgerInv => DamageOnlyAtTail  BY DEF LedgerInv, TailOK, DamageOnlyAtTail
<1> QED  BY <1>1, LedgerInvariant, PTL

-----------------------------------------------------------------------------
(* What was inspected stays *)

\* s was read as a complete file and is a prefix of f; a line of f that lost
\* its newline is not one of the lines read.
KeptBy(s, f) ==
    s.eol =>
        /\ Len(s.lines) <= Len(f.lines)
        /\ \A i \in 1..Len(s.lines) : s.lines[i] = f.lines[i]
        /\ ~f.eol => Len(s.lines) < Len(f.lines)

SeenInv ==
    \A r \in Readers :
        /\ KeptBy(seen[r], log)
        /\ \A w \in Writers : handle[w].pc \in Busy => KeptBy(seen[r], handle[w].base)

\* Writing at the end of a file keeps what was inspected.
LEMMA ExtendKept ==
    ASSUME NEW s \in Files, NEW f \in Files, FileOK(f), KeptBy(s, f),
           NEW line \in Lines, NEW eol \in BOOLEAN
    PROVE  KeptBy(s, Extend(f, line, eol))
<1> DEFINE g == Extend(f, line, eol)
<1>1. SUFFICES ASSUME s.eol
               PROVE  /\ Len(s.lines) <= Len(g.lines)
                      /\ \A i \in 1..Len(s.lines) : s.lines[i] = g.lines[i]
                      /\ ~g.eol => Len(s.lines) < Len(g.lines)
  BY DEF KeptBy
<1>2. /\ f.lines \in Seq(Lines) /\ s.lines \in Seq(Lines)
      /\ Len(f.lines) \in Nat /\ Len(s.lines) \in Nat /\ f.eol \in BOOLEAN
  BY DEF Files
<1>3. /\ Len(s.lines) <= Len(f.lines)
      /\ \A i \in 1..Len(s.lines) : s.lines[i] = f.lines[i]
      /\ ~f.eol => Len(s.lines) < Len(f.lines)
  BY <1>1 DEF KeptBy
<1> HIDE DEF g
<1>4. CASE f.eol
  <2>1. Len(g.lines) = Len(f.lines) + 1
        /\ \A i \in 1..Len(f.lines) : g.lines[i] = f.lines[i]
    BY <1>4, ExtendKeeps DEF g
  <2> QED  BY <1>2, <1>3, <2>1
<1>5. CASE ~f.eol
  <2>1. Len(g.lines) = Len(f.lines)
        /\ \A i \in 1..(Len(f.lines) - 1) : g.lines[i] = f.lines[i]
    BY <1>5, ExtendKeeps DEF g
  <2> QED  BY <1>2, <1>3, <1>5, <2>1
<1> QED  BY <1>2, <1>4, <1>5

\* So does a write that stops part-way.
LEMMA TornKept ==
    ASSUME NEW s \in Files, NEW f \in Files, FileOK(f), KeptBy(s, f),
           NEW line \in Lines, NEW tear \in AllTears
    PROVE  KeptBy(s, Torn(f, line, tear))
<1>1. CASE tear = "prefix"
  <2>1. Torn(f, line, tear) = Extend(f, Garbage, FALSE)  BY <1>1 DEF Torn
  <2> QED  BY <2>1, GarbageType, ExtendKept
<1>2. CASE tear = "noeol"
  <2>1. Torn(f, line, tear) = Extend(f, line, FALSE)  BY <1>2 DEF Torn
  <2> QED  BY <2>1, ExtendKept
<1>3. CASE tear = "whole"
  <2>1. Torn(f, line, tear) = Extend(f, line, TRUE)  BY <1>3 DEF Torn
  <2> QED  BY <2>1, ExtendKept
<1> QED  BY <1>1, <1>2, <1>3 DEF AllTears

\* Steps that read, wait or end a call without touching the file.
LEMMA SeenInvQuiet ==
    ASSUME LedgerInv, SeenInv, log' = log, seen' = seen,
           \A w \in Writers : handle'[w].pc \in Busy =>
               \/ handle[w].pc \in Busy /\ handle'[w].base = handle[w].base
               \/ handle'[w].base = log
    PROVE  SeenInv'
BY DEF SeenInv

\* Every step keeps what was inspected.
LEMMA SeenInvStep == LedgerInv /\ SeenInv /\ [Next]_vars => SeenInv'
<1> SUFFICES ASSUME LedgerInv, SeenInv, [Next]_vars PROVE SeenInv'  OBVIOUS
<1> USE LedgerAssumption
<1>ty. TypeOK /\ handle \in [Writers -> Handles] /\ seen \in [Readers -> Files]
       /\ log \in Files
  BY DEF LedgerInv, TypeOK
<1>a. ASSUME NEW w \in Writers, NEW pc, pc \notin Busy,
             handle' = [handle EXCEPT ![w] = Idle(pc)]
      PROVE  /\ handle'[w].pc \notin Busy
             /\ \A v \in Writers \ {w} : handle'[v] = handle[v]
  BY <1>ty, <1>a DEF Idle
<1>1. ASSUME NEW w \in Writers, Create(w) \/ Resume(w) PROVE SeenInv'
  <2>1. handle' = [handle EXCEPT ![w] = Idle("open")] /\ "open" \notin Busy
        /\ log' = log /\ seen' = seen
    BY <1>1 DEF Create, Resume, Busy
  <2> QED  BY <1>a, <2>1, SeenInvQuiet
<1>2. ASSUME NEW w \in Writers, NEW b \in Blobs, PutBlob(w, b) PROVE SeenInv'
  BY <1>2, SeenInvQuiet DEF PutBlob
<1>3. ASSUME NEW w \in Writers, NEW state \in AppendStates,
             NEW refs \in SUBSET Blobs, NEW g \in BOOLEAN,
             BeginAppend(w, state, refs, g)
      PROVE  SeenInv'
  <2>1. /\ handle'[w].base = log
        /\ \A v \in Writers \ {w} : handle'[v] = handle[v]
    BY <1>ty, <1>3 DEF BeginAppend
  <2> QED  BY <1>3, <2>1, SeenInvQuiet DEF BeginAppend
<1>4. ASSUME NEW w \in Writers, NEW pc \in {"open", "closed"},
             Leave(w, pc), seen' = seen,
             \A r \in Readers : KeptBy(seen[r], log'),
             \A v \in Writers \ {w} : handle[v].pc \in Busy => log' = log
      PROVE  SeenInv'
  <2>1. /\ handle'[w].pc \notin Busy
        /\ \A v \in Writers \ {w} : handle'[v] = handle[v]
    BY <1>ty, <1>4, <1>a DEF Leave, Busy
  <2> QED  BY <1>4, <2>1 DEF SeenInv
<1>5. ASSUME NEW w \in Writers, handle[w].pc = "locked"
      PROVE  /\ \A v \in Writers \ {w} : handle[v].pc \notin Busy
             /\ \A r \in Readers : KeptBy(seen[r], Extend(log, handle[w].event, TRUE))
             /\ \A r \in Readers, tear \in Tears :
                    KeptBy(seen[r], Torn(log, handle[w].event, tear))
  <2>1. FileOK(log) /\ handle[w].event \in Lines  BY <1>5, InPlaceWrite
  <2>2. ASSUME NEW r \in Readers
        PROVE  /\ KeptBy(seen[r], Extend(log, handle[w].event, TRUE))
               /\ \A tear \in Tears : KeptBy(seen[r], Torn(log, handle[w].event, tear))
    BY <1>ty, <2>1, ExtendKept, TornKept DEF SeenInv
  <2>3. handle[w].pc \in Busy  BY <1>5 DEF Busy
  <2> QED  BY <2>2, <2>3, OneHolder
<1>6. ASSUME NEW w \in Writers, CommitPlain(w) \/ FailPlain(w) PROVE SeenInv'
  <2>1. CASE CommitPlain(w)  BY <2>1, <1>4, <1>5 DEF CommitPlain
  <2>2. CASE FailPlain(w)  BY <2>2, <1>4, <1>5 DEF FailPlain
  <2> QED  BY <1>6, <2>1, <2>2
<1>7. ASSUME NEW w \in Writers, Stage(w) PROVE SeenInv'
  <2>1. /\ handle[w].pc \in Busy
        /\ handle'[w].base = handle[w].base
        /\ \A v \in Writers \ {w} : handle'[v] = handle[v]
    BY <1>ty, <1>7 DEF Stage, Busy, Handles
  <2> QED  BY <1>7, <2>1, SeenInvQuiet DEF Stage
<1>8. ASSUME NEW w \in Writers, AbortStage(w) \/ Confirm(w) PROVE SeenInv'
  <2>1. Leave(w, "open") /\ seen' = seen /\ log' = log
    BY <1>8 DEF AbortStage, Confirm
  <2> QED  BY <1>4, <2>1 DEF SeenInv
<1>9. ASSUME NEW w \in Writers, Publish(w) PROVE SeenInv'
  <2>1. /\ handle[w].pc \in Busy
        /\ handle'[w].base = handle[w].base
        /\ \A v \in Writers \ {w} : handle'[v] = handle[v]
        /\ log' = Extend(handle[w].base, handle[w].event, TRUE)
        /\ seen' = seen
    BY <1>ty, <1>9 DEF Publish, Busy, Handles
  <2>2. /\ FileOK(handle[w].base) /\ handle[w].base \in Files
        /\ handle[w].event \in Lines
    BY <1>ty, <2>1 DEF LedgerInv, HolderInv, Handles
  <2>3. \A r \in Readers : KeptBy(seen[r], log')
    BY <1>ty, <2>1, <2>2, ExtendKept DEF SeenInv
  <2>4. \A v \in Writers \ {w} : handle[v].pc \notin Busy  BY <2>1, OneHolder
  <2> QED  BY <2>1, <2>3, <2>4 DEF SeenInv
<1>10. ASSUME NEW w \in Writers, Rollback(w) PROVE SeenInv'
  <2>1. handle[w].pc \in Busy /\ log' = handle[w].base /\ Leave(w, "open")
        /\ seen' = seen
    BY <1>10 DEF Rollback, Busy
  <2> QED  BY <1>4, <2>1, OneHolder DEF SeenInv
<1>11. ASSUME NEW w \in Writers, Crash(w) PROVE SeenInv'
  <2>1. CASE log' = log  BY <1>4, <1>11, <2>1 DEF Crash, SeenInv
  <2>2. CASE log' # log  BY <1>4, <1>5, <1>11, <2>2 DEF Crash
  <2> QED  BY <2>1, <2>2
<1>12. ASSUME NEW w \in Writers, DeadlinePasses(w) PROVE SeenInv'
  BY <1>12, SeenInvQuiet DEF DeadlinePasses
<1>13. ASSUME NEW r \in Readers, OpenExisting(r) PROVE SeenInv'
  <2>1. /\ seen'[r] = log /\ \A q \in Readers \ {r} : seen'[q] = seen[q]
        /\ lock = None /\ handle' = handle /\ log' = log
    BY <1>ty, <1>13 DEF OpenExisting
  <2>2. \A w \in Writers : handle[w].pc \notin Busy
    BY <2>1 DEF LedgerInv, LockInv
  <2>3. KeptBy(log, log)  BY <1>ty DEF KeptBy, Files
  <2> QED  BY <2>1, <2>2, <2>3 DEF SeenInv
<1>14. CASE UNCHANGED vars  BY <1>14, SeenInvQuiet DEF vars
<1> QED
  BY <1>1, <1>2, <1>3, <1>6, <1>7, <1>8, <1>9, <1>10, <1>11, <1>12, <1>13,
     <1>14 DEF Next, HolderStep

\* An inspection (open_existing, verify) never reports an event that a
\* guarded append of another process later withdraws, for any number of
\* writers, readers, crashes and write errors.
THEOREM InspectionIsPermanent == Spec => []InspectedIsPermanent
<1>1. Init => SeenInv
  BY DEF Init, SeenInv, KeptBy, EmptyFile, Busy, Idle
<1>2. SeenInv => InspectedIsPermanent
  BY DEF SeenInv, KeptBy, InspectedIsPermanent
<1> QED  BY <1>1, <1>2, LedgerInvariant, SeenInvStep, PTL DEF Spec

-----------------------------------------------------------------------------
(* What was returned stays *)

HoldsIn(e, f) ==
    /\ e.seq \in 1..Len(f.lines)
    /\ f.lines[e.seq] = e

\* When no write stops exactly before its newline, a file that lacks the final
\* newline ends in an unreadable line.
NewlineInv == ~log.eol => log.lines[Len(log.lines)] = Garbage

ReturnedInv ==
    /\ NewlineInv
    /\ \A w \in Writers : handle[w].pc \in Busy => handle[w].base.eol
    /\ \A e \in returned :
        /\ HoldsIn(e, log) /\ e # Garbage
        /\ \A w \in Writers : handle[w].pc \in Busy => HoldsIn(e, handle[w].base)

\* A complete file keeps every event it holds when a line is written after it.
LEMMA ExtendHolds ==
    ASSUME NEW f \in Files, FileOK(f), f.eol, NEW line \in Lines,
           NEW eol \in BOOLEAN, NEW e, HoldsIn(e, f)
    PROVE  HoldsIn(e, Extend(f, line, eol))
<1>1. /\ Len(Extend(f, line, eol).lines) = Len(f.lines) + 1
      /\ \A i \in 1..Len(f.lines) : Extend(f, line, eol).lines[i] = f.lines[i]
  BY ExtendKeeps
<1>2. Len(f.lines) \in Nat  BY DEF Files
<1> QED  BY <1>1, <1>2 DEF HoldsIn

\* The event built on a complete file is in the extended file.
LEMMA ExtendAdds ==
    ASSUME NEW f \in Files, FileOK(f), f.eol,
           NEW state \in FROZEN_STATES, NEW refs \in SUBSET Blobs,
           NEW eol \in BOOLEAN
    PROVE  LET e == NextEvent(f.lines, state, refs) IN
           HoldsIn(e, Extend(f, e, eol)) /\ e # Garbage
<1> DEFINE e == NextEvent(f.lines, state, refs)
<1>1. f.lines \in Seq(Lines) /\ Len(f.lines) \in Nat  BY DEF Files
<1>2. e \in Lines  BY <1>1, NextEventType
<1>3. e.seq = Len(f.lines) + 1  BY DEF NextEvent
<1> HIDE DEF e
<1>4. /\ Len(Extend(f, e, eol).lines) = Len(f.lines) + 1
      /\ Extend(f, e, eol).lines[Len(f.lines) + 1] = e
  BY <1>2, ExtendKeeps
<1>5. e # Garbage  BY <1>1, <1>3 DEF Garbage
<1> QED  BY <1>1, <1>3, <1>4, <1>5 DEF HoldsIn, e

\* A verified file is complete when newlines are not lost.
LEMMA VerifiedIsComplete ==
    ASSUME NewlineInv, log \in Files, FileOK(log), VerifyPayload(log.lines, blobs)
    PROVE  log.eol
<1>1. log.lines \in Seq(Lines) /\ Len(log.lines) \in Nat /\ log.eol \in BOOLEAN
  BY DEF Files
<1>2. SUFFICES ASSUME ~log.eol PROVE FALSE  BY <1>1
<1>3. Len(log.lines) \in 1..Len(log.lines)  BY <1>1, <1>2 DEF FileOK
<1>4. LinkOK(log.lines, Len(log.lines))  BY <1>3 DEF VerifyPayload
<1>5. Garbage.state \notin FROZEN_STATES  BY DEF Garbage, FROZEN_STATES
<1> QED  BY <1>2, <1>4, <1>5 DEF NewlineInv, LinkOK

\* Every step keeps what append returned.
LEMMA ReturnedInvStep ==
    ASSUME "noeol" \notin Tears
    PROVE  LedgerInv /\ ReturnedInv /\ [Next]_vars => ReturnedInv'
<1> SUFFICES ASSUME LedgerInv, ReturnedInv, [Next]_vars PROVE ReturnedInv'
  OBVIOUS
<1> USE LedgerAssumption
<1>ty. /\ TypeOK /\ handle \in [Writers -> Handles]
       /\ log \in Files /\ FileOK(log) /\ blobs \in SUBSET Blobs
  BY DEF LedgerInv, TypeOK
<1>a. ASSUME NEW w \in Writers, NEW pc, pc \notin Busy,
             handle' = [handle EXCEPT ![w] = Idle(pc)]
      PROVE  /\ handle'[w].pc \notin Busy
             /\ \A v \in Writers \ {w} : handle'[v] = handle[v]
  BY <1>ty, <1>a DEF Idle
<1>b. ASSUME log' = log, returned' = returned,
             \A w \in Writers : handle'[w].pc \in Busy =>
               handle[w].pc \in Busy /\ handle'[w].base = handle[w].base
      PROVE  ReturnedInv'
  BY <1>b DEF ReturnedInv, NewlineInv
<1>1. ASSUME NEW w \in Writers, Create(w) \/ Resume(w) PROVE ReturnedInv'
  <2>1. handle' = [handle EXCEPT ![w] = Idle("open")] /\ "open" \notin Busy
        /\ log' = log /\ returned' = returned
    BY <1>1 DEF Create, Resume, Busy
  <2> QED  BY <1>a, <1>b, <2>1
<1>2. ASSUME NEW w \in Writers, NEW b \in Blobs, PutBlob(w, b) PROVE ReturnedInv'
  BY <1>2, <1>b DEF PutBlob
<1>3. ASSUME NEW w \in Writers, NEW state \in AppendStates,
             NEW refs \in SUBSET Blobs, NEW g \in BOOLEAN,
             BeginAppend(w, state, refs, g)
      PROVE  ReturnedInv'
  <2>1. /\ handle'[w].base = log
        /\ \A v \in Writers \ {w} : handle'[v] = handle[v]
        /\ log' = log /\ returned' = returned
    BY <1>ty, <1>3 DEF BeginAppend
  <2>2. log.eol  BY <1>ty, <1>3, VerifiedIsComplete DEF BeginAppend, ReturnedInv
  <2> QED  BY <2>1, <2>2 DEF ReturnedInv, NewlineInv
<1>4. ASSUME NEW w \in Writers, NEW pc \in {"open", "closed"}, Leave(w, pc),
             ~log'.eol => log'.lines[Len(log'.lines)] = Garbage,
             \A e \in returned' : HoldsIn(e, log') /\ e # Garbage,
             \A v \in Writers \ {w} : handle[v].pc \notin Busy
      PROVE  ReturnedInv'
  <2>1. /\ handle'[w].pc \notin Busy
        /\ \A v \in Writers \ {w} : handle'[v] = handle[v]
    BY <1>ty, <1>4, <1>a DEF Leave, Busy
  <2> QED  BY <1>4, <2>1 DEF ReturnedInv, NewlineInv
<1>5. ASSUME NEW w \in Writers, handle[w].pc = "locked"
      PROVE  /\ handle[w].event \in Lines
             /\ log.eol /\ handle[w].pc \in Busy
             /\ HoldsIn(handle[w].event, Extend(log, handle[w].event, TRUE))
             /\ handle[w].event # Garbage
             /\ \A e \in returned :
                   HoldsIn(e, Extend(log, handle[w].event, TRUE)) /\ e # Garbage
             /\ \A e \in returned : HoldsIn(e, Extend(log, Garbage, FALSE))
  <2>1. /\ handle[w].event \in Lines /\ handle[w].pc \in Busy
        /\ handle[w].event.state \in FROZEN_STATES
        /\ handle[w].event.refs \in SUBSET Blobs
        /\ log = handle[w].base
        /\ handle[w].event = NextEvent(log.lines, handle[w].event.state,
                                       handle[w].event.refs)
    BY <1>ty, <1>5 DEF LedgerInv, HolderInv, Busy, Handles
  <2>2. log.eol  BY <2>1 DEF ReturnedInv
  <2>3. /\ HoldsIn(handle[w].event, Extend(log, handle[w].event, TRUE))
        /\ handle[w].event # Garbage
    BY <1>ty, <2>1, <2>2, ExtendAdds
  <2>4. ASSUME NEW e \in returned
        PROVE  /\ HoldsIn(e, Extend(log, handle[w].event, TRUE)) /\ e # Garbage
               /\ HoldsIn(e, Extend(log, Garbage, FALSE))
    BY <1>ty, <2>1, <2>2, ExtendHolds, GarbageType DEF ReturnedInv
  <2> QED  BY <2>1, <2>2, <2>3, <2>4
<1>6. ASSUME NEW w \in Writers, CommitPlain(w) PROVE ReturnedInv'
  <2>1. /\ handle[w].pc = "locked" /\ Leave(w, "open")
        /\ log' = Extend(log, handle[w].event, TRUE)
        /\ returned' = returned \cup {handle[w].event}
    BY <1>6 DEF CommitPlain
  <2>2. log'.eol  BY <1>ty, <1>5, <2>1, ExtendType
  <2>3. \A v \in Writers \ {w} : handle[v].pc \notin Busy
    BY <1>5, <2>1, OneHolder
  <2> QED  BY <1>4, <1>5, <2>1, <2>2, <2>3
<1>7. ASSUME NEW w \in Writers, NEW pc \in {"open", "closed"}, NEW tear \in Tears,
             handle[w].pc = "locked", Leave(w, pc), returned' = returned,
             log' = Torn(log, handle[w].event, tear)
      PROVE  ReturnedInv'
  <2>1. \A v \in Writers \ {w} : handle[v].pc \notin Busy
    BY <1>5, <1>7, OneHolder
  <2>2. CASE tear = "prefix"
    <3>1. log' = Extend(log, Garbage, FALSE)  BY <1>7, <2>2 DEF Torn
    <3>2. log'.lines[Len(log'.lines)] = Garbage
      <4>1. log.eol  BY <1>5, <1>7
      <4>2. /\ Len(Extend(log, Garbage, FALSE).lines) = Len(log.lines) + 1
            /\ Extend(log, Garbage, FALSE).lines[Len(log.lines) + 1] = Garbage
        BY <1>ty, <4>1, ExtendKeeps, GarbageType
      <4> QED  BY <3>1, <4>2
    <3> QED  BY <1>4, <1>5, <1>7, <2>1, <3>1, <3>2
  <2>3. CASE tear = "whole"
    <3>1. log' = Extend(log, handle[w].event, TRUE)  BY <1>7, <2>3 DEF Torn
    <3>2. log'.eol  BY <1>ty, <1>5, <1>7, <3>1, ExtendType
    <3> QED  BY <1>4, <1>5, <1>7, <2>1, <3>1, <3>2
  <2> QED  BY <1>7, <2>2, <2>3 DEF AllTears
<1>8. ASSUME NEW w \in Writers, FailPlain(w) PROVE ReturnedInv'
  BY <1>7, <1>8 DEF FailPlain
<1>9. ASSUME NEW w \in Writers, Stage(w) PROVE ReturnedInv'
  <2>1. /\ handle[w].pc \in Busy
        /\ handle'[w].base = handle[w].base
        /\ \A v \in Writers \ {w} : handle'[v] = handle[v]
    BY <1>ty, <1>9 DEF Stage, Busy, Handles
  <2> QED  BY <1>9, <1>b, <2>1 DEF Stage
<1>10. ASSUME NEW w \in Writers, AbortStage(w) PROVE ReturnedInv'
  <2>1. handle[w].pc \in Busy  BY <1>10 DEF AbortStage, Busy
  <2> QED  BY <1>4, <1>10, <2>1, OneHolder DEF AbortStage, ReturnedInv, NewlineInv
<1>11. ASSUME NEW w \in Writers, handle[w].pc \in Busy
       PROVE  /\ handle[w].base \in Files /\ FileOK(handle[w].base)
              /\ handle[w].base.eol /\ handle[w].event \in Lines
              /\ HoldsIn(handle[w].event,
                         Extend(handle[w].base, handle[w].event, TRUE))
              /\ handle[w].event # Garbage
              /\ \A e \in returned :
                   HoldsIn(e, Extend(handle[w].base, handle[w].event, TRUE))
  <2>1. /\ handle[w].base \in Files /\ FileOK(handle[w].base)
        /\ handle[w].base.eol /\ handle[w].event \in Lines
        /\ handle[w].event.state \in FROZEN_STATES
        /\ handle[w].event.refs \in SUBSET Blobs
        /\ handle[w].event = NextEvent(handle[w].base.lines,
                              handle[w].event.state, handle[w].event.refs)
    BY <1>ty, <1>11 DEF LedgerInv, HolderInv, ReturnedInv, Handles
  <2>2. /\ HoldsIn(handle[w].event,
                   Extend(handle[w].base, handle[w].event, TRUE))
        /\ handle[w].event # Garbage
    BY <2>1, ExtendAdds
  <2>3. ASSUME NEW e \in returned
        PROVE  HoldsIn(e, Extend(handle[w].base, handle[w].event, TRUE))
    BY <1>11, <2>1, ExtendHolds DEF ReturnedInv
  <2> QED  BY <2>1, <2>2, <2>3
<1>12. ASSUME NEW w \in Writers, Publish(w) PROVE ReturnedInv'
  <2>1. /\ handle[w].pc \in Busy
        /\ handle'[w].base = handle[w].base
        /\ \A v \in Writers \ {w} : handle'[v] = handle[v]
        /\ log' = Extend(handle[w].base, handle[w].event, TRUE)
        /\ returned' = returned
    BY <1>ty, <1>12 DEF Publish, Busy, Handles
  <2>2. log'.eol  BY <1>11, <2>1, ExtendType
  <2>3. \A v \in Writers \ {w} : handle[v].pc \notin Busy  BY <2>1, OneHolder
  <2>4. \A e \in returned : HoldsIn(e, log')  BY <1>11, <2>1
  <2> QED  BY <2>1, <2>2, <2>3, <2>4 DEF ReturnedInv, NewlineInv
<1>13. ASSUME NEW w \in Writers, Confirm(w) PROVE ReturnedInv'
  <2>1. /\ handle[w].pc \in Busy /\ Leave(w, "open") /\ log' = log
        /\ returned' = returned \cup {handle[w].event}
        /\ log = Extend(handle[w].base, handle[w].event, TRUE)
    BY <1>13 DEF Confirm, Busy, LedgerInv, HolderInv
  <2>2. \A e \in returned' : HoldsIn(e, log') /\ e # Garbage
    BY <1>11, <2>1 DEF ReturnedInv
  <2> QED  BY <1>4, <2>1, <2>2, OneHolder DEF ReturnedInv, NewlineInv
<1>14. ASSUME NEW w \in Writers, Rollback(w) PROVE ReturnedInv'
  <2>1. /\ handle[w].pc \in Busy /\ Leave(w, "open") /\ log' = handle[w].base
        /\ returned' = returned
    BY <1>14 DEF Rollback, Busy
  <2> QED  BY <1>4, <1>11, <2>1, OneHolder DEF ReturnedInv
<1>15. ASSUME NEW w \in Writers, Crash(w) PROVE ReturnedInv'
  <2>1. Leave(w, "closed") /\ returned' = returned  BY <1>15 DEF Crash
  <2>2. CASE log' = log
    <3>1. /\ handle'[w].pc \notin Busy
          /\ \A v \in Writers \ {w} : handle'[v] = handle[v]
      BY <1>a, <2>1 DEF Leave, Busy
    <3> QED  BY <1>b, <2>1, <2>2, <3>1
  <2>3. CASE log' # log  BY <1>7, <1>15, <2>1, <2>3 DEF Crash
  <2> QED  BY <2>2, <2>3
<1>16. ASSUME NEW w \in Writers, DeadlinePasses(w) PROVE ReturnedInv'
  BY <1>16, <1>b DEF DeadlinePasses
<1>17. ASSUME NEW r \in Readers, OpenExisting(r) PROVE ReturnedInv'
  BY <1>17, <1>b DEF OpenExisting
<1>18. CASE UNCHANGED vars  BY <1>18, <1>b DEF vars
<1> QED
  BY <1>1, <1>2, <1>3, <1>6, <1>8, <1>9, <1>10, <1>12, <1>13, <1>14, <1>15,
     <1>16, <1>17, <1>18 DEF Next, HolderStep

\* If no write stops exactly before its newline, an event append returned is
\* in the ledger for good, whatever else crashes, fails or is rolled back.
\* (Without the hypothesis it is false: the next append then runs the complete
\* line and its own together.)
THEOREM ReturnedStays ==
    ASSUME "noeol" \notin Tears
    PROVE  Spec => []ReturnedIsDurable
<1>1. Init => ReturnedInv
  BY DEF Init, ReturnedInv, NewlineInv, EmptyFile, Busy, Idle
<1>2. ReturnedInv => ReturnedIsDurable
  BY DEF ReturnedInv, HoldsIn, ReturnedIsDurable
<1>3. LedgerInv /\ ReturnedInv /\ [Next]_vars => ReturnedInv'
  BY ReturnedInvStep
<1> QED  BY <1>1, <1>2, <1>3, LedgerInvariant, PTL DEF Spec

-----------------------------------------------------------------------------
(***************************************************************************)
(* Proofs about RecordedToolAgent, for transcripts of any length and any   *)
(* number of inspecting readers.  Every step of the agent is a step of its *)
(* ledger, so what is shown of the ledger above holds of the agent's file; *)
(* the agent's own invariant says which terminal event the file can hold   *)
(* at each point of the run.                                               *)
(***************************************************************************)

Verdicts == {"RELEASE_READY", "HALTED"}

Running == {"start", "run", "halting"}

Appending == {"appending", "halting_append"}

Ended == {"returned", "raised", "dead"}

\* A complete file without a terminal event of the agent.
Undecided(f) == f.eol /\ StatesIn(f.lines) \cap Verdicts = {}

AgentTypeOK ==
    /\ apc \in Running \cup Appending \cup Ended
    /\ done \in Nat
    /\ apc \notin Ended => done < Steps + 3
    /\ outcome \in Verdicts \cup {"none"}

\* Where the agent is in its ledger's append.
CallInv ==
    /\ apc \notin Appending => handle[agent].pc \notin Busy
    /\ apc = "appending" =>
        /\ handle[agent].pc \in Busy
        /\ handle[agent].event.state = Plan[done + 1]
        /\ handle[agent].guarded <=> done = Steps + 2
        /\ handle[agent].pc # "locked" => handle[agent].guarded
    /\ apc = "halting_append" =>
        /\ handle[agent].pc = "locked"
        /\ handle[agent].event.state = "HALTED"
        /\ ~handle[agent].guarded

\* The file before the terminal event, and the event after it.
VerdictInv ==
    /\ apc \in Running => Undecided(log)
    /\ apc \in Appending => Undecided(handle[agent].base)
    /\ ~(Verdicts \subseteq StatesIn(log.lines))
    /\ apc = "raised" => "RELEASE_READY" \notin StatesIn(log.lines)
    /\ IF apc = "returned"
       THEN /\ Len(log.lines) > 0
            /\ log.lines[Len(log.lines)].state = outcome
            /\ outcome \in Verdicts
       ELSE outcome = "none"

\* A reader that has seen the release saw it after the agent's last append.
ReaderInv ==
    \A r \in Readers :
        "RELEASE_READY" \in StatesIn(seen[r].lines) =>
            apc \in {"returned", "dead"} /\ outcome # "HALTED"

\* What append returned to the agent is in the file, and in the file a call
\* builds on.
KeptInv ==
    \A e \in returned :
        /\ HoldsIn(e, log)
        /\ handle[agent].pc \in Busy => HoldsIn(e, handle[agent].base)

AgentInv ==
    /\ LedgerInv
    /\ AgentTypeOK
    /\ CallInv
    /\ VerdictInv
    /\ ReaderInv
    /\ KeptInv

-----------------------------------------------------------------------------
(* Facts about the plan and the file *)

\* The plan ends in the release event and holds no other terminal event.
LEMMA PlanShape ==
    ASSUME NEW i \in 1..(Steps + 3)
    PROVE  /\ Plan[i] \in AppendStates
           /\ Plan[i] = "RELEASE_READY" <=> i = Steps + 3
           /\ Plan[i] # "HALTED"
<1> USE AgentAssumption
<1> DEFINE mid == [k \in 1..Steps |-> "BUILDING"]
<1>1. mid \in Seq({"BUILDING"}) /\ Len(mid) = Steps  OBVIOUS
<1>2. \A k \in 1..Steps : mid[k] = "BUILDING"  OBVIOUS
<1> HIDE DEF mid
<1>3. Plan = <<"VALIDATED">> \o mid \o <<"VERIFYING", "RELEASE_READY">>
  BY DEF Plan, mid
<1>4. Len(<<"VALIDATED">> \o mid) = Steps + 1  BY <1>1
<1>5. CASE i = 1  BY <1>1, <1>3, <1>5
<1>6. CASE i \in 2..(Steps + 1)
  <2>1. Plan[i] = mid[i - 1]  BY <1>1, <1>3, <1>6
  <2> QED  BY <1>2, <1>6, <2>1
<1>7. CASE i = Steps + 2  BY <1>1, <1>3, <1>4, <1>7
<1>8. CASE i = Steps + 3  BY <1>1, <1>3, <1>4, <1>8
<1> QED  BY <1>5, <1>6, <1>7, <1>8

\* Writing a line after a complete file adds the state of that line.
LEMMA StatesExtend ==
    ASSUME NEW f \in Files, FileOK(f), f.eol, NEW line \in Lines, NEW eol \in BOOLEAN
    PROVE  /\ StatesIn(Extend(f, line, eol).lines) = StatesIn(f.lines) \cup {line.state}
           /\ Len(Extend(f, line, eol).lines) > 0
           /\ Extend(f, line, eol).lines[Len(Extend(f, line, eol).lines)] = line
           /\ Extend(f, line, eol).eol = eol
<1> DEFINE g == Extend(f, line, eol).lines
<1>1. /\ Len(g) = Len(f.lines) + 1
      /\ g[Len(f.lines) + 1] = line
      /\ \A i \in 1..Len(f.lines) : g[i] = f.lines[i]
  BY ExtendKeeps
<1>2. Len(f.lines) \in Nat  BY DEF Files
<1>3. Extend(f, line, eol).eol = eol  BY ExtendType
<1> HIDE DEF g
<1>4. 1..Len(g) = (1..Len(f.lines)) \cup {Len(f.lines) + 1}  BY <1>1, <1>2
<1>5. StatesIn(g) = StatesIn(f.lines) \cup {line.state}
  BY <1>1, <1>4 DEF StatesIn
<1> QED  BY <1>1, <1>2, <1>3, <1>5 DEF g

\* An interrupted write adds at most the state of its event.
LEMMA StatesTorn ==
    ASSUME NEW f \in Files, FileOK(f), f.eol, NEW line \in Lines, NEW tear \in Tears
    PROVE  /\ StatesIn(Torn(f, line, tear).lines)
                \subseteq StatesIn(f.lines) \cup {line.state, "unreadable"}
           /\ \A e : HoldsIn(e, f) => HoldsIn(e, Torn(f, line, tear))
<1>0. Garbage.state = "unreadable" /\ Garbage \in Lines
  BY GarbageType DEF Garbage
<1>a. ASSUME NEW l \in Lines, NEW eol \in BOOLEAN, l = line \/ l = Garbage,
             Torn(f, line, tear) = Extend(f, l, eol)
      PROVE  /\ StatesIn(Torn(f, line, tear).lines)
                  \subseteq StatesIn(f.lines) \cup {line.state, "unreadable"}
             /\ \A e : HoldsIn(e, f) => HoldsIn(e, Torn(f, line, tear))
  <2>1. StatesIn(Extend(f, l, eol).lines) = StatesIn(f.lines) \cup {l.state}
    <3>1. /\ StatesIn(Extend(f, l, eol).lines) = StatesIn(f.lines) \cup {l.state}
          /\ Len(Extend(f, l, eol).lines) > 0
          /\ Extend(f, l, eol).lines[Len(Extend(f, l, eol).lines)] = l
          /\ Extend(f, l, eol).eol = eol
      BY StatesExtend
    <3> QED  BY <3>1
  <2>2. ASSUME NEW e, HoldsIn(e, f) PROVE HoldsIn(e, Extend(f, l, eol))
    BY <2>2, ExtendHolds
  <2> QED  BY <1>0, <1>a, <2>1, <2>2
<1>1. CASE tear = "prefix"
  <2>1. Torn(f, line, tear) = Extend(f, Garbage, FALSE)  BY <1>1 DEF Torn
  <2> QED  BY <1>0, <1>a, <2>1
<1>2. CASE tear = "noeol"
  <2>1. Torn(f, line, tear) = Extend(f, line, FALSE)  BY <1>2 DEF Torn
  <2> QED  BY <1>a, <2>1
<1>3. CASE tear = "whole"
  <2>1. Torn(f, line, tear) = Extend(f, line, TRUE)  BY <1>3 DEF Torn
  <2> QED  BY <1>a, <2>1
<1> QED  BY <1>1, <1>2, <1>3, LedgerAssumption DEF AllTears

-----------------------------------------------------------------------------
(* Every step of the agent is a step of its ledger *)

\* The agent's calls are calls the ledger allows: states, blobs and writer are
\* in the ledger's sets, so the agent's run is a run of the ledger.
LEMMA AgentStepsLedger ==
    ASSUME AgentTypeOK, [AgentNext]_allVars
    PROVE  [Next]_vars
<1> USE AgentAssumption
<1>1. CASE AppendNext
  <2>1. done + 1 \in 1..(Steps + 3)
    BY <1>1 DEF AppendNext, AgentTypeOK, Ended
  <2>2. Plan[done + 1] \in AppendStates  BY <2>1, PlanShape
  <2>3. {plan_blob} \in SUBSET Blobs /\ (Plan[done + 1] = "RELEASE_READY") \in BOOLEAN
    OBVIOUS
  <2> QED  BY <1>1, <2>2, <2>3 DEF AppendNext, Next
<1>2. CASE Halt
  <2>1. "HALTED" \in AppendStates /\ {} \in SUBSET Blobs  OBVIOUS
  <2> QED  BY <1>2, <2>1 DEF Halt, Next
<1>3. CASE Begin  BY <1>3 DEF Begin, Next
<1>4. CASE StoreBlob  BY <1>4 DEF StoreBlob, Next
<1>5. CASE AppendReturns  BY <1>5 DEF AppendReturns, Next, HolderStep
<1>6. CASE AppendProceeds  BY <1>6 DEF AppendProceeds, Next, HolderStep
<1>7. CASE AppendTimesOut  BY <1>7 DEF AppendTimesOut, Next, HolderStep
<1>8. CASE AppendRaises  BY <1>8 DEF AppendRaises, Next, HolderStep
<1>9. CASE HaltReturns  BY <1>9 DEF HaltReturns, Next, HolderStep
<1>10. CASE ExecutionHalt  BY <1>10 DEF ExecutionHalt, vars
<1>11. CASE Dies  BY <1>11 DEF Dies, Next
<1>12. CASE TimePasses  BY <1>12 DEF TimePasses, Next
<1>13. CASE Inspect  BY <1>13 DEF Inspect, Next
<1>14. CASE UNCHANGED allVars  BY <1>14 DEF allVars
<1> QED
  BY <1>1, <1>2, <1>3, <1>4, <1>5, <1>6, <1>7, <1>8, <1>9, <1>10, <1>11,
     <1>12, <1>13, <1>14 DEF AgentNext, AgentStep

-----------------------------------------------------------------------------
(* The invariant of the agent *)

\* The agent's invariant holds before the run.
LEMMA AgentInvInit == AgentInit => AgentInv
<1> SUFFICES ASSUME AgentInit PROVE AgentInv  OBVIOUS
<1> USE AgentAssumption
<1>1. LedgerInv  BY LedgerInvInit DEF AgentInit
<1>2. AgentTypeOK  BY DEF AgentInit, AgentTypeOK, Running, Appending, Ended
<1>3. handle[agent].pc = "closed" /\ log.lines = <<>> /\ log.eol
  BY DEF AgentInit, Init, Idle, EmptyFile
<1>4. CallInv  BY <1>3 DEF AgentInit, CallInv, Busy, Appending
<1>5. StatesIn(<<>>) = {}  BY DEF StatesIn
<1>6. VerdictInv
  BY <1>3, <1>5 DEF AgentInit, VerdictInv, Undecided, Verdicts, Running, Appending
<1>7. ReaderInv  BY <1>5 DEF AgentInit, Init, ReaderInv, EmptyFile
<1>8. KeptInv  BY DEF AgentInit, Init, KeptInv
<1> QED  BY <1>1, <1>2, <1>4, <1>6, <1>7, <1>8 DEF AgentInv

\* What the agent knows while one of its appends holds the lock.
LEMMA InAppend ==
    ASSUME AgentInv, handle[agent].pc \in Busy
    PROVE  /\ apc \in Appending
           /\ handle[agent].base \in Files /\ FileOK(handle[agent].base)
           /\ handle[agent].event \in Lines
           /\ Undecided(handle[agent].base)
           /\ handle[agent].pc = "published" =>
                log = Extend(handle[agent].base, handle[agent].event, TRUE)
           /\ handle[agent].pc # "published" => log = handle[agent].base
           /\ HoldsIn(handle[agent].event,
                      Extend(handle[agent].base, handle[agent].event, TRUE))
           /\ apc = "appending" =>
                (handle[agent].event.state = "RELEASE_READY" <=> handle[agent].guarded)
           /\ apc = "appending" => handle[agent].event.state # "HALTED"
<1> USE AgentAssumption
<1>1. apc \in Appending  BY DEF AgentInv, CallInv
<1>2. /\ handle[agent] \in Handles /\ HolderInv(agent) /\ blobs \subseteq Blobs
  BY DEF AgentInv, LedgerInv, TypeOK
<1>3. /\ handle[agent].base \in Files /\ FileOK(handle[agent].base)
      /\ handle[agent].event \in Lines
      /\ handle[agent].pc = "published" =>
           log = Extend(handle[agent].base, handle[agent].event, TRUE)
      /\ handle[agent].pc # "published" => log = handle[agent].base
      /\ handle[agent].event.state \in FROZEN_STATES
      /\ handle[agent].event.refs \in SUBSET Blobs
      /\ handle[agent].event = NextEvent(handle[agent].base.lines,
                       handle[agent].event.state, handle[agent].event.refs)
  BY <1>2 DEF HolderInv, Handles
<1>4. Undecided(handle[agent].base)  BY <1>1 DEF AgentInv, VerdictInv
<1>5. HoldsIn(handle[agent].event,
              Extend(handle[agent].base, handle[agent].event, TRUE))
  BY <1>3, <1>4, ExtendAdds DEF Undecided
<1>6. apc = "appending" => done + 1 \in 1..(Steps + 3)
  BY DEF AgentInv, AgentTypeOK, Ended
<1>7. apc = "appending" =>
        /\ handle[agent].event.state = "RELEASE_READY" <=> handle[agent].guarded
        /\ handle[agent].event.state # "HALTED"
  BY <1>6, PlanShape DEF AgentInv, CallInv, AgentTypeOK
<1> QED  BY <1>1, <1>3, <1>4, <1>5, <1>7

\* A step that leaves the file, the readers and what was returned alone, and
\* keeps the agent outside append, keeps the last two parts.
LEMMA QuietKeeps ==
    ASSUME AgentInv, log' = log, seen' = seen, returned' = returned,
           handle'[agent].pc \in Busy =>
             handle[agent].pc \in Busy /\ handle'[agent].base = handle[agent].base,
           apc \in {"returned", "dead"} => apc' \in {"returned", "dead"},
           outcome' = outcome
    PROVE  ReaderInv' /\ KeptInv'
<1>1. ReaderInv'  BY DEF AgentInv, ReaderInv
<1>2. KeptInv'  BY DEF AgentInv, KeptInv
<1> QED  BY <1>1, <1>2

\* Every step preserves the agent's invariant.
LEMMA AgentInvStep == AgentInv /\ [AgentNext]_allVars => AgentInv'
<1> SUFFICES ASSUME AgentInv, [AgentNext]_allVars PROVE AgentInv'  OBVIOUS
<1> USE AgentAssumption
<1>ty. /\ LedgerInv /\ TypeOK /\ handle \in [Writers -> Handles]
       /\ handle[agent] \in Handles /\ log \in Files /\ FileOK(log)
  BY DEF AgentInv, LedgerInv, TypeOK
<1>led. LedgerInv'
  BY AgentStepsLedger, LedgerInvStep DEF AgentInv
<1>at. AgentTypeOK /\ CallInv /\ VerdictInv /\ ReaderInv /\ KeptInv
  BY DEF AgentInv
<1>lv. ASSUME NEW pc \in {"open", "closed"}, Leave(agent, pc)
       PROVE  handle'[agent].pc = pc /\ handle'[agent].pc \notin Busy
  BY <1>ty, <1>lv DEF Leave, Idle, Busy
<1>1. CASE Begin
  <2>1. /\ apc = "start" /\ apc' = "run" /\ done' = done /\ outcome' = outcome
        /\ log' = log /\ seen' = seen /\ returned' = returned
        /\ handle'[agent].pc = "open"
    BY <1>1, <1>ty DEF Begin, Create, Idle
  <2>2. AgentTypeOK' /\ CallInv'
    BY <2>1, <1>at DEF AgentTypeOK, CallInv, Busy, Running, Appending, Ended
  <2>3. VerdictInv'  BY <2>1, <1>at DEF VerdictInv, Running, Appending
  <2>4. ReaderInv' /\ KeptInv'  BY <2>1, QuietKeeps DEF Busy
  <2> QED  BY <1>led, <2>2, <2>3, <2>4 DEF AgentInv
<1>2. CASE StoreBlob \/ TimePasses \/ UNCHANGED allVars
  <2>1. /\ apc' = apc /\ done' = done /\ outcome' = outcome
        /\ log' = log /\ seen' = seen /\ returned' = returned /\ handle' = handle
    BY <1>2 DEF StoreBlob, PutBlob, TimePasses, DeadlinePasses, allVars, vars, agentVars
  <2>2. AgentTypeOK' /\ CallInv'  BY <2>1, <1>at DEF AgentTypeOK, CallInv
  <2>3. VerdictInv'  BY <2>1, <1>at DEF VerdictInv
  <2>4. ReaderInv' /\ KeptInv'  BY <2>1, QuietKeeps
  <2> QED  BY <1>led, <2>2, <2>3, <2>4 DEF AgentInv
<1>3. ASSUME NEW state, NEW refs, NEW g, BeginAppend(agent, state, refs, g)
      PROVE  /\ log' = log /\ seen' = seen /\ returned' = returned
             /\ handle'[agent].pc = "locked" /\ handle'[agent].base = log
             /\ handle'[agent].event.state = state /\ handle'[agent].guarded = g
             /\ KeptInv'
  <2>1. handle'[agent] = [pc |-> "locked", base |-> log, guarded |-> g,
                          event |-> NextEvent(log.lines, state, refs)]
    BY <1>ty, <1>3 DEF BeginAppend
  <2>2. log' = log /\ seen' = seen /\ returned' = returned  BY <1>3 DEF BeginAppend
  <2>3. handle'[agent].event.state = state  BY <2>1 DEF NextEvent
  <2>4. KeptInv'  BY <1>at, <2>1, <2>2 DEF KeptInv
  <2> QED  BY <2>1, <2>2, <2>3, <2>4
<1>4. CASE AppendNext
  <2>1. /\ apc = "run" /\ apc' = "appending" /\ done' = done /\ outcome' = outcome
        /\ BeginAppend(agent, Plan[done + 1], {plan_blob}, Plan[done + 1] = "RELEASE_READY")
    BY <1>4 DEF AppendNext
  <2>2. done + 1 \in 1..(Steps + 3)  BY <1>at, <2>1 DEF AgentTypeOK, Ended
  <2>3. (Plan[done + 1] = "RELEASE_READY") <=> done = Steps + 2
    BY <1>at, <2>2, PlanShape DEF AgentTypeOK
  <2>4. /\ log' = log /\ seen' = seen /\ returned' = returned
        /\ handle'[agent].pc = "locked" /\ handle'[agent].base = log
        /\ handle'[agent].event.state = Plan[done + 1]
        /\ handle'[agent].guarded = (Plan[done + 1] = "RELEASE_READY")
        /\ KeptInv'
    BY <1>3, <2>1
  <2>5. AgentTypeOK'
    BY <2>1, <1>at DEF AgentTypeOK, Running, Appending, Ended
  <2>6. CallInv'  BY <2>1, <2>3, <2>4 DEF CallInv, Busy, Appending
  <2>7. VerdictInv'
    BY <2>1, <2>4, <1>at DEF VerdictInv, Running, Appending
  <2>8. ReaderInv'  BY <2>1, <2>4, <1>at DEF ReaderInv
  <2> QED  BY <1>led, <2>4, <2>5, <2>6, <2>7, <2>8 DEF AgentInv
<1>5. CASE ExecutionHalt
  <2>1. /\ apc = "run" /\ apc' = "halting" /\ done' = done /\ outcome' = outcome
        /\ log' = log /\ seen' = seen /\ returned' = returned /\ handle' = handle
    BY <1>5 DEF ExecutionHalt, vars
  <2>2. AgentTypeOK' /\ CallInv'
    BY <2>1, <1>at DEF AgentTypeOK, CallInv, Running, Appending, Ended
  <2>3. VerdictInv'  BY <2>1, <1>at DEF VerdictInv, Running, Appending
  <2>4. ReaderInv' /\ KeptInv'  BY <2>1, QuietKeeps
  <2> QED  BY <1>led, <2>2, <2>3, <2>4 DEF AgentInv
<1>6. CASE Halt
  <2>1. /\ apc = "halting" /\ apc' = "halting_append" /\ done' = done
        /\ outcome' = outcome /\ BeginAppend(agent, "HALTED", {}, FALSE)
    BY <1>6 DEF Halt
  <2>4. /\ log' = log /\ seen' = seen /\ returned' = returned
        /\ handle'[agent].pc = "locked" /\ handle'[agent].base = log
        /\ handle'[agent].event.state = "HALTED"
        /\ handle'[agent].guarded = FALSE
        /\ KeptInv'
    BY <1>3, <2>1
  <2>5. AgentTypeOK'
    BY <2>1, <1>at DEF AgentTypeOK, Running, Appending, Ended
  <2>6. CallInv'  BY <2>1, <2>4 DEF CallInv, Busy, Appending
  <2>7. VerdictInv'
    BY <2>1, <2>4, <1>at DEF VerdictInv, Running, Appending
  <2>8. ReaderInv'  BY <2>1, <2>4, <1>at DEF ReaderInv
  <2> QED  BY <1>led, <2>4, <2>5, <2>6, <2>7, <2>8 DEF AgentInv
<1>7. ASSUME CommitPlain(agent)
      PROVE  /\ handle[agent].pc = "locked" /\ handle[agent].pc \in Busy
             /\ ~handle[agent].guarded
             /\ Undecided(log)
             /\ StatesIn(log'.lines) = StatesIn(log.lines) \cup {handle[agent].event.state}
             /\ Len(log'.lines) > 0
             /\ log'.lines[Len(log'.lines)].state = handle[agent].event.state
             /\ log'.eol /\ seen' = seen
             /\ handle'[agent].pc = "open" /\ handle'[agent].pc \notin Busy
             /\ KeptInv'
  <2>1. /\ handle[agent].pc = "locked" /\ handle[agent].pc \in Busy
        /\ ~handle[agent].guarded /\ seen' = seen /\ Leave(agent, "open")
        /\ log' = Extend(log, handle[agent].event, TRUE)
        /\ returned' = returned \cup {handle[agent].event}
    BY <1>7 DEF CommitPlain, Busy
  <2>2. /\ log = handle[agent].base /\ handle[agent].event \in Lines
        /\ Undecided(log) /\ HoldsIn(handle[agent].event, log')
    BY <2>1, InAppend
  <2>3. /\ StatesIn(Extend(log, handle[agent].event, TRUE).lines)
             = StatesIn(log.lines) \cup {handle[agent].event.state}
        /\ Len(Extend(log, handle[agent].event, TRUE).lines) > 0
        /\ Extend(log, handle[agent].event, TRUE).lines
             [Len(Extend(log, handle[agent].event, TRUE).lines)] = handle[agent].event
        /\ Extend(log, handle[agent].event, TRUE).eol = TRUE
    BY <1>ty, <2>2, StatesExtend DEF Undecided
  <2>4. handle'[agent].pc = "open" /\ handle'[agent].pc \notin Busy
    BY <1>lv, <2>1
  <2>5. ASSUME NEW e \in returned PROVE HoldsIn(e, log')
    BY <1>ty, <1>at, <2>1, <2>2, ExtendHolds DEF KeptInv, Undecided
  <2>6. KeptInv'  BY <2>1, <2>2, <2>4, <2>5 DEF KeptInv
  <2> QED  BY <2>1, <2>2, <2>3, <2>4, <2>6
<1>8. CASE AppendReturns /\ CommitPlain(agent)
  <2>1. apc = "appending"  BY <1>8 DEF AppendReturns
  <2>2. ~Confirm(agent)  BY <1>7, <1>8 DEF Confirm
  <2>3. apc' = "run" /\ done' = done + 1 /\ outcome' = outcome
    BY <1>8, <2>2 DEF AppendReturns
  <2>4. /\ handle[agent].event.state \notin Verdicts
        /\ done < Steps + 2
    <3>1. ~handle[agent].guarded /\ handle[agent].pc \in Busy  BY <1>7, <1>8
    <3>2. handle[agent].event.state \notin Verdicts
      BY <2>1, <3>1, InAppend DEF Verdicts
    <3>3. done # Steps + 2  BY <1>at, <2>1, <3>1 DEF CallInv
    <3>4. done \in Nat /\ done < Steps + 3  BY <1>at, <2>1 DEF AgentTypeOK, Ended
    <3> QED  BY <3>2, <3>3, <3>4
  <2>5. AgentTypeOK'
    BY <2>3, <2>4, <1>at DEF AgentTypeOK, Running, Appending, Ended
  <2>6. CallInv'  BY <2>3, <1>7, <1>8 DEF CallInv, Appending
  <2>7. VerdictInv'
    BY <1>7, <1>8, <1>at, <2>1, <2>3, <2>4
       DEF VerdictInv, Undecided, Verdicts, Running, Appending
  <2>8. ReaderInv'  BY <1>7, <1>8, <1>at, <2>1, <2>3 DEF ReaderInv
  <2> QED  BY <1>led, <1>7, <1>8, <2>5, <2>6, <2>7, <2>8 DEF AgentInv
<1>9. CASE AppendReturns /\ Confirm(agent)
  <2>0. /\ handle[agent].pc = "published" /\ handle[agent].pc \in Busy
        /\ returned' = returned \cup {handle[agent].event}
        /\ Leave(agent, "open") /\ log' = log /\ seen' = seen
    BY <1>9 DEF Confirm, Busy
  <2>1. apc = "appending" /\ ~CommitPlain(agent)
    BY <1>9, <2>0 DEF AppendReturns, CommitPlain
  <2>2. apc' = "returned" /\ done' = done + 1 /\ outcome' = "RELEASE_READY"
    BY <1>9, <2>1 DEF AppendReturns
  <2>3. /\ handle[agent].event.state = "RELEASE_READY"
        /\ handle[agent].base \in Files /\ FileOK(handle[agent].base)
        /\ handle[agent].event \in Lines
        /\ Undecided(handle[agent].base)
        /\ log = Extend(handle[agent].base, handle[agent].event, TRUE)
        /\ HoldsIn(handle[agent].event, log)
    BY <1>at, <2>0, <2>1, InAppend DEF CallInv
  <2>4. /\ StatesIn(Extend(handle[agent].base, handle[agent].event, TRUE).lines)
             = StatesIn(handle[agent].base.lines) \cup {handle[agent].event.state}
        /\ Len(Extend(handle[agent].base, handle[agent].event, TRUE).lines) > 0
        /\ Extend(handle[agent].base, handle[agent].event, TRUE).lines
             [Len(Extend(handle[agent].base, handle[agent].event, TRUE).lines)]
               = handle[agent].event
        /\ Extend(handle[agent].base, handle[agent].event, TRUE).eol = TRUE
    BY <2>3, StatesExtend DEF Undecided
  <2>5. handle'[agent].pc = "open" /\ handle'[agent].pc \notin Busy
    BY <1>lv, <2>0
  <2>6. AgentTypeOK'
    BY <2>2, <1>at DEF AgentTypeOK, Verdicts, Running, Appending, Ended
  <2>7. CallInv'  BY <2>2, <2>5 DEF CallInv, Appending
  <2>8. VerdictInv'
    BY <2>0, <2>2, <2>3, <2>4
       DEF VerdictInv, Undecided, Verdicts, Running, Appending
  <2>9. ReaderInv'  BY <2>0, <2>2, <1>at DEF ReaderInv
  <2>10. KeptInv'  BY <2>0, <2>3, <2>5, <1>at DEF KeptInv
  <2> QED  BY <1>led, <2>6, <2>7, <2>8, <2>9, <2>10 DEF AgentInv
<1>10. CASE AppendProceeds /\ Stage(agent)
  <2>1. /\ apc = "appending" /\ apc' = apc /\ done' = done /\ outcome' = outcome
        /\ log' = log /\ seen' = seen /\ returned' = returned
        /\ handle[agent].pc \in Busy /\ handle[agent].guarded
        /\ handle'[agent] = [handle[agent] EXCEPT !.pc = "staged"]
    BY <1>10, <1>ty DEF AppendProceeds, Stage, agentVars, Busy, Publish
  <2>2. /\ handle'[agent].pc = "staged"
        /\ handle'[agent].base = handle[agent].base
        /\ handle'[agent].event = handle[agent].event
        /\ handle'[agent].guarded = handle[agent].guarded
    BY <1>ty, <2>1 DEF Handles
  <2>3. AgentTypeOK' /\ CallInv'
    BY <2>1, <2>2, <1>at DEF AgentTypeOK, CallInv, Busy, Appending
  <2>4. VerdictInv'  BY <2>1, <2>2, <1>at DEF VerdictInv
  <2>5. ReaderInv' /\ KeptInv'  BY <2>1, <2>2, QuietKeeps
  <2> QED  BY <1>led, <2>3, <2>4, <2>5 DEF AgentInv
<1>11. CASE AppendProceeds /\ Publish(agent)
  <2>1. /\ apc = "appending" /\ apc' = apc /\ done' = done /\ outcome' = outcome
        /\ log' = Extend(handle[agent].base, handle[agent].event, TRUE)
        /\ seen' = seen /\ returned' = returned
        /\ handle[agent].pc \in Busy /\ handle[agent].pc = "staged"
        /\ handle'[agent] = [handle[agent] EXCEPT !.pc = "published"]
    BY <1>11, <1>ty DEF AppendProceeds, Publish, agentVars, Busy
  <2>2. /\ handle'[agent].pc = "published"
        /\ handle'[agent].base = handle[agent].base
        /\ handle'[agent].event = handle[agent].event
        /\ handle'[agent].guarded = handle[agent].guarded
    BY <1>ty, <2>1 DEF Handles
  <2>3. /\ handle[agent].event.state = "RELEASE_READY"
        /\ handle[agent].base \in Files /\ FileOK(handle[agent].base)
        /\ handle[agent].event \in Lines
        /\ Undecided(handle[agent].base) /\ log = handle[agent].base
    BY <1>at, <2>1, InAppend DEF CallInv
  <2>4. /\ StatesIn(Extend(handle[agent].base, handle[agent].event, TRUE).lines)
             = StatesIn(handle[agent].base.lines) \cup {handle[agent].event.state}
        /\ Len(Extend(handle[agent].base, handle[agent].event, TRUE).lines) > 0
        /\ Extend(handle[agent].base, handle[agent].event, TRUE).lines
             [Len(Extend(handle[agent].base, handle[agent].event, TRUE).lines)]
               = handle[agent].event
        /\ Extend(handle[agent].base, handle[agent].event, TRUE).eol = TRUE
    BY <2>3, StatesExtend DEF Undecided
  <2>5. AgentTypeOK' /\ CallInv'
    BY <2>1, <2>2, <1>at DEF AgentTypeOK, CallInv, Busy, Appending
  <2>6. ~(Verdicts \subseteq StatesIn(log'.lines))
    BY <2>1, <2>3, <2>4 DEF Undecided, Verdicts
  <2>7. VerdictInv'
    BY <2>1, <2>2, <2>3, <2>6, <1>at DEF VerdictInv, Running, Appending
  <2>8. ReaderInv'  BY <2>1, <1>at DEF ReaderInv
  <2>9. ASSUME NEW e \in returned PROVE HoldsIn(e, log')
    BY <2>1, <2>3, <1>at, ExtendHolds DEF KeptInv, Undecided
  <2>10. KeptInv'  BY <2>1, <2>2, <2>9, <1>at DEF KeptInv
  <2> QED  BY <1>led, <2>5, <2>7, <2>8, <2>10 DEF AgentInv
<1>12. ASSUME AbortStage(agent) \/ Rollback(agent)
       PROVE  /\ log' = handle[agent].base /\ seen' = seen /\ returned' = returned
              /\ Undecided(log') /\ handle[agent].pc \in Busy
              /\ handle'[agent].pc \notin Busy
              /\ KeptInv'
  <2>1. /\ handle[agent].pc \in Busy /\ Leave(agent, "open")
        /\ seen' = seen /\ returned' = returned
    BY <1>12 DEF AbortStage, Rollback, Busy
  <2>2. log' = handle[agent].base /\ Undecided(log')
    BY <1>12, <2>1, InAppend DEF AbortStage, Rollback
  <2>3. handle'[agent].pc \notin Busy  BY <1>lv, <2>1
  <2>4. KeptInv'  BY <1>at, <2>1, <2>2, <2>3 DEF KeptInv
  <2> QED  BY <2>1, <2>2, <2>3, <2>4
<1>13. CASE AppendTimesOut
  <2>1. /\ apc = "appending" /\ apc' = "halting" /\ done' = done /\ outcome' = outcome
        /\ AbortStage(agent) \/ Rollback(agent)
    BY <1>13 DEF AppendTimesOut
  <2>2. AgentTypeOK' /\ CallInv'
    BY <1>12, <1>at, <2>1 DEF AgentTypeOK, CallInv, Running, Appending, Ended
  <2>3. VerdictInv'
    BY <1>12, <1>at, <2>1 DEF VerdictInv, Undecided, Verdicts, Running, Appending
  <2>4. ReaderInv'  BY <1>12, <1>at, <2>1 DEF ReaderInv
  <2> QED  BY <1>led, <1>12, <2>1, <2>2, <2>3, <2>4 DEF AgentInv
<1>14. ASSUME NEW tear \in Tears, log' = Torn(log, handle[agent].event, tear),
              handle[agent].pc = "locked", ~handle[agent].guarded,
              handle'[agent].pc \notin Busy, returned' = returned
       PROVE  /\ ~(Verdicts \subseteq StatesIn(log'.lines))
              /\ "RELEASE_READY" \notin StatesIn(log'.lines)
              /\ KeptInv'
  <2>0. handle[agent].pc \in Busy /\ handle[agent].pc # "published"
    BY <1>14 DEF Busy
  <2>1. /\ log = handle[agent].base /\ handle[agent].event \in Lines
        /\ Undecided(log)
        /\ apc \in Appending
        /\ apc = "appending" =>
             (handle[agent].event.state = "RELEASE_READY" <=> handle[agent].guarded)
    BY <2>0, InAppend
  <2>2. handle[agent].event.state # "RELEASE_READY"
    BY <1>14, <2>1, <1>at DEF CallInv, Appending
  <2>3. /\ StatesIn(log'.lines)
             \subseteq StatesIn(log.lines) \cup {handle[agent].event.state, "unreadable"}
        /\ \A e : HoldsIn(e, log) => HoldsIn(e, log')
    BY <1>ty, <1>14, <2>1, StatesTorn DEF Undecided
  <2>4. "RELEASE_READY" \notin StatesIn(log'.lines)
    BY <2>1, <2>2, <2>3 DEF Undecided, Verdicts
  <2>5. KeptInv'  BY <1>14, <1>at, <2>3 DEF KeptInv
  <2> QED  BY <2>4, <2>5 DEF Verdicts
<1>15. CASE AppendRaises
  <2>1. /\ apc \in Appending /\ apc' = "raised" /\ done' = done /\ outcome' = outcome
        /\ FailPlain(agent) \/ AbortStage(agent) \/ Rollback(agent)
    BY <1>15 DEF AppendRaises, Appending
  <2>2. /\ ~(Verdicts \subseteq StatesIn(log'.lines)) /\ seen' = seen
        /\ "RELEASE_READY" \notin StatesIn(log'.lines)
        /\ handle'[agent].pc \notin Busy /\ KeptInv'
    <3>1. CASE AbortStage(agent) \/ Rollback(agent)
      BY <1>12, <3>1 DEF Undecided, Verdicts
    <3>2. CASE FailPlain(agent)
      <4>1. Leave(agent, "open") /\ seen' = seen  BY <3>2 DEF FailPlain
      <4>2. handle'[agent].pc \notin Busy  BY <1>lv, <4>1
      <4> QED  BY <1>14, <3>2, <4>1, <4>2 DEF FailPlain
    <3> QED  BY <2>1, <3>1, <3>2
  <2>3. AgentTypeOK' /\ CallInv'
    BY <1>at, <2>1, <2>2 DEF AgentTypeOK, CallInv, Running, Appending, Ended
  <2>4. outcome = "none"  BY <1>at, <2>1 DEF VerdictInv, Appending
  <2>5. VerdictInv'
    BY <2>1, <2>2, <2>4 DEF VerdictInv, Running, Appending
  <2>6. ReaderInv'  BY <1>at, <2>1, <2>2 DEF ReaderInv, Appending
  <2> QED  BY <1>led, <2>2, <2>3, <2>5, <2>6 DEF AgentInv
<1>16. CASE HaltReturns
  <2>1. /\ apc = "halting_append" /\ CommitPlain(agent) /\ apc' = "returned"
        /\ outcome' = "HALTED" /\ done' = done
    BY <1>16 DEF HaltReturns
  <2>2. handle[agent].event.state = "HALTED"  BY <1>at, <2>1 DEF CallInv
  <2>3. AgentTypeOK' /\ CallInv'
    BY <1>7, <1>at, <2>1 DEF AgentTypeOK, CallInv, Verdicts, Running, Appending, Ended
  <2>4. VerdictInv'
    BY <1>7, <2>1, <2>2 DEF VerdictInv, Undecided, Verdicts, Running, Appending
  <2>5. ReaderInv'  BY <1>7, <1>at, <2>1 DEF ReaderInv
  <2> QED  BY <1>led, <1>7, <2>1, <2>3, <2>4, <2>5 DEF AgentInv
<1>17. CASE Dies
  <2>1. /\ apc \notin Ended /\ apc' = "dead" /\ done' = done /\ outcome' = outcome
        /\ Crash(agent) /\ seen' = seen /\ returned' = returned
        /\ Leave(agent, "closed")
    BY <1>17, <1>at DEF Dies, Crash, Ended
  <2>2. handle'[agent].pc \notin Busy  BY <1>lv, <2>1
  <2>3. ~(Verdicts \subseteq StatesIn(log'.lines)) /\ KeptInv'
    <3>1. CASE log' = log  BY <1>at, <2>1, <2>2, <3>1 DEF VerdictInv, KeptInv
    <3>2. CASE log' # log  BY <1>14, <2>1, <2>2, <3>2 DEF Crash
    <3> QED  BY <3>1, <3>2
  <2>4. AgentTypeOK' /\ CallInv'
    BY <1>at, <2>1, <2>2 DEF AgentTypeOK, CallInv, Running, Appending, Ended
  <2>5. VerdictInv'
    BY <1>at, <2>1, <2>3 DEF VerdictInv, Running, Appending, Ended
  <2>6. ReaderInv'  BY <1>at, <2>1 DEF ReaderInv, Ended
  <2> QED  BY <1>led, <2>3, <2>4, <2>5, <2>6 DEF AgentInv
<1>18. CASE Inspect
  <2>0. PICK r \in Readers : OpenExisting(r)  BY <1>18 DEF Inspect
  <2>1. /\ apc' = apc /\ done' = done /\ outcome' = outcome
        /\ log' = log /\ returned' = returned /\ handle' = handle /\ lock = None
        /\ seen' = [seen EXCEPT ![r] = log]
    BY <1>18, <2>0 DEF Inspect, OpenExisting, agentVars
  <2>2. AgentTypeOK' /\ CallInv'  BY <2>1, <1>at DEF AgentTypeOK, CallInv
  <2>3. VerdictInv' /\ KeptInv'  BY <2>1, <1>at DEF VerdictInv, KeptInv
  <2>4. handle[agent].pc \notin Busy
    BY <1>ty, <2>1, LedgerAssumption DEF LedgerInv, LockInv
  <2>5. "RELEASE_READY" \in StatesIn(log.lines) =>
          apc \in {"returned", "dead"} /\ outcome # "HALTED"
    <3>1. SUFFICES ASSUME "RELEASE_READY" \in StatesIn(log.lines)
                   PROVE  apc \in {"returned", "dead"} /\ outcome # "HALTED"
      OBVIOUS
    <3>2. apc \in {"returned", "dead"}
      <4>1. apc \notin Appending  BY <1>at, <2>4 DEF CallInv, Busy, Appending
      <4>2. apc \notin Running /\ apc # "raised"
        BY <1>at, <3>1 DEF VerdictInv, Undecided, Verdicts
      <4> QED  BY <1>at, <4>1, <4>2 DEF AgentTypeOK, Ended
    <3>3. CASE apc = "dead"  BY <1>at, <3>2, <3>3 DEF VerdictInv
    <3>4. CASE apc = "returned"
      <4>1. Len(log.lines) \in 1..Len(log.lines) /\ Len(log.lines) > 0
        BY <1>ty, <1>at, <3>4 DEF VerdictInv, Files
      <4>2. outcome \in StatesIn(log.lines)
        BY <1>at, <3>4, <4>1 DEF VerdictInv, StatesIn
      <4> QED  BY <1>at, <3>1, <3>2, <4>2 DEF VerdictInv, Verdicts
    <3> QED  BY <3>2, <3>3, <3>4
  <2>6. seen \in [Readers -> Files]  BY <1>ty DEF TypeOK
  <2>7. ReaderInv'  BY <2>1, <2>5, <2>6, <1>at DEF ReaderInv
  <2> QED  BY <1>led, <2>2, <2>3, <2>7 DEF AgentInv
<1> QED
  BY <1>1, <1>2, <1>4, <1>5, <1>6, <1>8, <1>9, <1>10, <1>11, <1>13, <1>15,
     <1>16, <1>17, <1>18 DEF AgentNext, AgentStep, AppendReturns, AppendProceeds

-----------------------------------------------------------------------------
(* Theorems *)

\* The agent's invariant, with the ledger's, holds throughout every run.
THEOREM AgentInvariant == AgentSpec => []AgentInv
BY AgentInvInit, AgentInvStep, PTL DEF AgentSpec

\* run_recorded_tool_agent never reports a result its ledger contradicts, for
\* transcripts of any length, any number of readers and whatever fails: the
\* result is the last event, the ledger never holds both a release and a halt,
\* and no reader has seen the release of a run that reports a halt.
THEOREM ResultIsRecorded == AgentSpec => []ResultMatchesLedger
<1>1. AgentInv => ResultMatchesLedger
  BY DEF AgentInv, VerdictInv, ReaderInv, Verdicts, ResultMatchesLedger
<1> QED  BY <1>1, AgentInvariant, PTL

\* The file of a run is damaged at its last line at most and an inspection of
\* it is never withdrawn: the agent's steps are ledger steps (_verify_payload,
\* open_existing).
THEOREM AgentKeepsLedger == AgentSpec => [](DamageOnlyAtTail /\ InspectedIsPermanent)
<1>1. AgentInit => SeenInv
  BY DEF AgentInit, Init, SeenInv, KeptBy, EmptyFile, Busy, Idle
<1>2. AgentInv /\ SeenInv /\ [AgentNext]_allVars => SeenInv'
  BY AgentStepsLedger, SeenInvStep DEF AgentInv
<1>3. AgentInv /\ SeenInv => DamageOnlyAtTail /\ InspectedIsPermanent
  BY DEF AgentInv, LedgerInv, TailOK, DamageOnlyAtTail, SeenInv, KeptBy,
         InspectedIsPermanent
<1> QED  BY <1>1, <1>2, <1>3, AgentInvariant, PTL DEF AgentSpec

\* Unlike ledgers that are resumed, the agent's keeps every event its append
\* returned even when a write stops just before the newline: the agent never
\* appends after an append that failed.
THEOREM AgentKeepsReturned == AgentSpec => []ReturnedIsDurable
<1>1. AgentInv => ReturnedIsDurable
  BY DEF AgentInv, KeptInv, HoldsIn, ReturnedIsDurable
<1> QED  BY <1>1, AgentInvariant, PTL

=============================================================================
