--------------------------- MODULE AtomicProofs ---------------------------
(***************************************************************************)
(* What is proved of AtomicImplementation.                                  *)
(*                                                                          *)
(* Only one operation makes writes at a time, so what may happen is in      *)
(* op.todo.  Each write there is good: no state to be saved has a published *)
(* head whose results are not on record, and either the pull request is a   *)
(* draft and stays one, or nothing that a ready pull request rests on       *)
(* changes.                                                                 *)
(***************************************************************************)
EXTENDS AtomicImplementation, FiniteSetTheorems, TLAPS

-----------------------------------------------------------------------------
(* The inductive invariant *)

StateShape(s) ==
  /\ DOMAIN s = {"saved", "candidate", "base", "admitted", "leases", "results", "published",
                 "repair", "cancelled", "revocation"}
  /\ DOMAIN s.admitted = {"plan", "blocked", "pull"}
PullShape(p) == DOMAIN p = {"head", "draft", "blocked", "body"} /\ p.draft \in BOOLEAN
RemoteShape(r) ==
  /\ DOMAIN r = {"made", "blocked", "plans", "pull", "keys"}
  /\ PullShape(r.pull)

\* Every result of a state is on record as observed, with the commit handed in.
Recorded(s) ==
  \A t \in DOMAIN s.results :
    /\ IsObserved(ResultKey(t, Epoch(s)))
    /\ log[ResultKey(t, Epoch(s))].subject = s.results[t]

\* What a pull request that is ready rests on.
Fresh(s) ==
  /\ s.published = Integrated(s.base, s.results)
  /\ Recorded(s)
  /\ \A t \in DOMAIN s.results : ResultKey(t, Epoch(s)) \notin RetiredKeys

Sound(s) ==
  /\ StateShape(s)
  /\ s.published # None => Recorded(s) /\ s.admitted.plan # 0
  /\ s.admitted.plan # 0 => s.saved

\* mode: the pull request stays a draft, or what it shows stays published.
\* pub: a saved state may have a published head; if not, results are admitted.
GoodSave(s, mode, pub) ==
  /\ Sound(s)
  /\ ~pub => s.published = None
  /\ mode = "ready" => Fresh(s) /\ s.published = st.published
GoodCall(r, mode) ==
  /\ RemoteShape(r)
  /\ mode = "draft" => r.pull.draft
  /\ mode = "ready" => r.pull.head = st.published
GoodKey(k, mode, pub) ==
  /\ pub => k[1] # "result"
  /\ mode = "ready" => k[1] # "retire"
GoodWrite(w, mode, pub) ==
  /\ w.do = "save" => GoodSave(w.state, mode, pub)
  /\ w.do = "call" => GoodCall(w.remote, mode)
  /\ w.do = "plan" => GoodKey(w.key, mode, pub)

IsSeq(s) == \E W : s \in Seq(W)
GoodWrites(s, mode, pub) == \A i \in 1 .. Len(s) : GoodWrite(s[i], mode, pub)

Guarded(mode, pub) ==
  /\ ~pub => st.published = None
  /\ mode = "draft" => remote.pull.draft
  /\ mode = "ready" => Fresh(st)

OpInv ==
  /\ DOMAIN op = {"call", "todo"} /\ IsSeq(op.todo)
  /\ op.todo # <<>> =>
       \E mode \in {"draft", "ready"}, pub \in BOOLEAN :
         GoodWrites(op.todo, mode, pub) /\ Guarded(mode, pub)

LogInv ==
  /\ IsFiniteSet(DOMAIN log)
  /\ \A k \in DOMAIN log : DOMAIN log[k] = {"status", "subject", "result"}
                           /\ log[k].status \in {"PLANNED", "OBSERVED"}

ReadyInv == ~remote.pull.draft => Fresh(st) /\ st.published = remote.pull.head

AtomicInv == LogInv /\ Sound(st) /\ RemoteShape(remote) /\ OpInv /\ ReadyInv

-----------------------------------------------------------------------------
(* Sequences of writes *)

LEMMA NoWrites == \A mode, pub : IsSeq(<<>>) /\ GoodWrites(<<>>, mode, pub)
<1>1. <<>> \in Seq({})
  OBVIOUS
<1> QED BY <1>1 DEF IsSeq, GoodWrites

LEMMA OneWrite ==
  ASSUME NEW w, NEW mode, NEW pub, GoodWrite(w, mode, pub)
  PROVE  IsSeq(<<w>>) /\ GoodWrites(<<w>>, mode, pub)
<1>1. <<w>> \in Seq({w}) /\ Len(<<w>>) = 1 /\ <<w>>[1] = w
  OBVIOUS
<1>2. \A i \in 1 .. Len(<<w>>) : i = 1
  BY <1>1
<1>3. GoodWrites(<<w>>, mode, pub)
  BY <1>1, <1>2 DEF GoodWrites
<1> QED BY <1>1, <1>3 DEF IsSeq

LEMMA Both ==
  ASSUME NEW s, NEW t, NEW mode, NEW pub, IsSeq(s), IsSeq(t),
         GoodWrites(s, mode, pub), GoodWrites(t, mode, pub)
  PROVE  IsSeq(s \o t) /\ GoodWrites(s \o t, mode, pub)
<1>1. PICK V : s \in Seq(V)
  BY DEF IsSeq
<1>2. PICK W : t \in Seq(W)
  BY DEF IsSeq
<1>3. s \in Seq(V \cup W) /\ t \in Seq(V \cup W)
  BY <1>1, <1>2
<1>4. s \o t \in Seq(V \cup W)
  BY <1>3
<1>5. ASSUME NEW i \in 1 .. Len(s \o t) PROVE GoodWrite((s \o t)[i], mode, pub)
  <2>1. CASE i <= Len(s)
    BY <1>3, <2>1 DEF GoodWrites
  <2>2. CASE i > Len(s)
    <3>1. i - Len(s) \in 1 .. Len(t) /\ (s \o t)[i] = t[i - Len(s)]
      BY <1>3, <2>2
    <3> QED BY <3>1 DEF GoodWrites
  <2> QED BY <1>3, <2>1, <2>2
<1> QED BY <1>4, <1>5 DEF IsSeq, GoodWrites

LEMMA Rest ==
  ASSUME NEW s, NEW mode, NEW pub, IsSeq(s), GoodWrites(s, mode, pub), s # <<>>
  PROVE  /\ GoodWrite(Head(s), mode, pub)
         /\ IsSeq(Tail(s)) /\ GoodWrites(Tail(s), mode, pub)
<1>1. PICK W : s \in Seq(W)
  BY DEF IsSeq
<1>2. Head(s) = s[1] /\ Tail(s) \in Seq(W) /\ Len(s) \in Nat \ {0}
  BY <1>1
<1>3. ASSUME NEW i \in 1 .. Len(Tail(s)) PROVE GoodWrite(Tail(s)[i], mode, pub)
  <2>1. i + 1 \in 1 .. Len(s) /\ Tail(s)[i] = s[i + 1]
    BY <1>1, <1>2
  <2> QED BY <2>1 DEF GoodWrites
<1>4. 1 \in 1 .. Len(s)
  BY <1>2
<1> QED BY <1>2, <1>3, <1>4 DEF IsSeq, GoodWrites

\* The elements of a finite set in some order.
LEMMA InSomeOrder ==
  ASSUME NEW S, IsFiniteSet(S)
  PROVE  SetToSeq(S) \in Seq(S) /\ \A i \in 1 .. Len(SetToSeq(S)) : SetToSeq(S)[i] \in S
<1>1. Cardinality(S) \in Nat /\ ExistsBijection(1 .. Cardinality(S), S)
  BY FS_CardinalityType
<1>2. PICK f : f \in Bijection(1 .. Cardinality(S), S)
  BY <1>1 DEF ExistsBijection
<1>3. f \in [1 .. Cardinality(S) -> S] /\ IsInjective(f)
  BY <1>2 DEF Bijection, Injection, IsInjective
<1>4. SetToSeq(S) \in [1 .. Cardinality(S) -> S]
  BY <1>3 DEF SetToSeq
<1> QED BY <1>1, <1>4

LEMMA FiniteImage ==
  ASSUME NEW D, NEW f, IsFiniteSet(D), f = [x \in D |-> f[x]]
  PROVE  IsFiniteSet({f[x] : x \in D})
<1>1. f \in Surjection(D, {f[x] : x \in D})
  BY DEF Surjection
<1> QED BY <1>1, FS_Surjection

\* The two facts every list of writes is shown to have.
GoodList(s, mode, pub) == IsSeq(s) /\ GoodWrites(s, mode, pub)

LEMMA Lists ==
  ASSUME NEW mode, NEW pub
  PROVE  /\ GoodList(<<>>, mode, pub)
         /\ \A w : GoodWrite(w, mode, pub) => GoodList(<<w>>, mode, pub)
         /\ \A s, t : GoodList(s, mode, pub) /\ GoodList(t, mode, pub) => GoodList(s \o t, mode, pub)
BY NoWrites, OneWrite, Both DEF GoodList

LEMMA Planning ==
  ASSUME NEW mode, NEW pub, NEW k, NEW subject, NEW result, GoodKey(k, mode, pub)
  PROVE  GoodList(Plan(k, subject, result), mode, pub)
<1> DEFINE w == [do |-> "plan", key |-> k, subject |-> subject, result |-> result]
<1>1. GoodWrite(w, mode, pub)
  BY DEF GoodWrite
<1> QED BY <1>1, Lists DEF Plan

LEMMA Observing ==
  ASSUME NEW mode, NEW pub, NEW k, NEW result
  PROVE  GoodList(Observe(k, result), mode, pub)
<1> DEFINE w == [do |-> "observe", key |-> k, result |-> result]
<1>1. GoodWrite(w, mode, pub)
  BY DEF GoodWrite
<1> QED BY <1>1, Lists DEF Observe

LEMMA Saving ==
  ASSUME NEW mode, NEW pub, NEW s, GoodSave([s EXCEPT !.saved = TRUE], mode, pub)
  PROVE  GoodList(Save(s), mode, pub)
<1> DEFINE w == [do |-> "save", state |-> [s EXCEPT !.saved = TRUE]]
<1>1. GoodWrite(w, mode, pub)
  BY DEF GoodWrite
<1> QED BY <1>1, Lists DEF Save

LEMMA Refusing ==
  ASSUME NEW mode, NEW pub
  PROVE  GoodList(Refuse, mode, pub) /\ GoodList(<<[do |-> "clear"]>>, mode, pub)
<1>1. GoodWrite([do |-> "raise"], mode, pub) /\ GoodWrite([do |-> "clear"], mode, pub)
  BY DEF GoodWrite
<1> QED BY <1>1, Lists DEF Refuse

LEMMA Effecting ==
  ASSUME NEW mode, NEW pub, NEW k, NEW subject, NEW allowed \in BOOLEAN, NEW after, NEW result,
         GoodKey(k, mode, pub), allowed => GoodCall(after, mode)
  PROVE  GoodList(Effect(k, subject, allowed, after, result), mode, pub)
<1> DEFINE w == [do |-> "call", remote |-> after]
           called == <<w>> \o Observe(k, result)
           rest == IF ~allowed \/ (IsObserved(k) /\ log[k].result # result) THEN Refuse ELSE called
<1>1. GoodList(Plan(k, subject, None), mode, pub) /\ GoodList(Observe(k, result), mode, pub)
  BY Planning, Observing
<1>2. ASSUME allowed PROVE GoodList(called, mode, pub)
  <2>1. GoodWrite(w, mode, pub)
    BY <1>2 DEF GoodWrite
  <2> QED BY <1>1, <2>1, Lists
<1>3. GoodList(rest, mode, pub)
  BY <1>2, Refusing
<1>4. GoodList(Plan(k, subject, None) \o rest, mode, pub)
  BY <1>1, <1>3, Lists
<1> QED BY <1>4, Refusing DEF Effect

LEMMA PlanningEach ==
  ASSUME NEW pub, NEW keys, IsFiniteSet(keys), \A k \in keys : k[1] = "retire"
  PROVE  GoodList(PlanEach(keys), "draft", pub)
<1> DEFINE write(k) == [do |-> "plan", key |-> k, subject |-> None, result |-> None]
           new == {r \in keys : ~Known(r)}
           S == {write(k) : k \in new}
<1>1. IsFiniteSet(S)
  <2>1. IsFiniteSet(new)
    BY FS_Subset
  <2>2. DEFINE f == [k \in new |-> write(k)]
  <2>3. IsFiniteSet({f[x] : x \in new})
    <3>1. f = [x \in new |-> f[x]]
      OBVIOUS
    <3> HIDE DEF f, new
    <3> QED BY <2>1, <3>1, FiniteImage
  <2>4. {f[x] : x \in new} = S
    OBVIOUS
  <2> QED BY <2>3, <2>4
<1>2. SetToSeq(S) \in Seq(S) /\ \A i \in 1 .. Len(SetToSeq(S)) : SetToSeq(S)[i] \in S
  BY <1>1, InSomeOrder
<1>3. \A w \in S : GoodWrite(w, "draft", pub)
  BY DEF GoodWrite, GoodKey
<1> QED BY <1>2, <1>3 DEF PlanEach, GoodList, GoodWrites, IsSeq

LEMMA ObservingEach ==
  ASSUME NEW mode, NEW pub, NEW keys, IsFiniteSet(keys)
  PROVE  GoodList(ObserveEach(keys), mode, pub)
<1> DEFINE write(k) == [do |-> "observe", key |-> k, result |-> None]
           new == {r \in keys : ~IsObserved(r)}
           S == {write(k) : k \in new}
<1>1. IsFiniteSet(S)
  <2>1. IsFiniteSet(new)
    BY FS_Subset
  <2>2. DEFINE f == [k \in new |-> write(k)]
  <2>3. IsFiniteSet({f[x] : x \in new})
    <3>1. f = [x \in new |-> f[x]]
      OBVIOUS
    <3> HIDE DEF f, new
    <3> QED BY <2>1, <3>1, FiniteImage
  <2>4. {f[x] : x \in new} = S
    OBVIOUS
  <2> QED BY <2>3, <2>4
<1>2. SetToSeq(S) \in Seq(S) /\ \A i \in 1 .. Len(SetToSeq(S)) : SetToSeq(S)[i] \in S
  BY <1>1, InSomeOrder
<1>3. \A w \in S : GoodWrite(w, mode, pub)
  BY DEF GoodWrite
<1> QED BY <1>2, <1>3 DEF ObserveEach, GoodList, GoodWrites, IsSeq

-----------------------------------------------------------------------------
(* The writes, one at a time *)

\* What the writes still to be made need of the one that is made.
Kept(mode, pub) ==
  /\ pub => \A s : Recorded(s) => Recorded(s)'
  /\ mode = "ready" => RetiredKeys' = RetiredKeys /\ st'.published = st.published

LEMMA ReadyPublishes ==
  ASSUME NEW pub \in BOOLEAN, Guarded("ready", pub)
  PROVE  pub
BY DEF Guarded, Fresh, Integrated, None

\* What is said of the state on file stays true of it when the file stays.
LEMMA SameState ==
  ASSUME NEW mode, NEW pub, Guarded(mode, pub), pub \/ st.published = None, Kept(mode, pub),
         UNCHANGED st, Sound(st)
  PROVE  /\ Sound(st)'
         /\ mode = "ready" /\ pub => Fresh(st)'
<1>1. PICK s : s = st
  OBVIOUS
<1>2. pub /\ Recorded(s) => Recorded(s)'
  BY DEF Kept
<1>3. Sound(s) /\ (mode = "ready" => Fresh(s))
  BY <1>1 DEF Guarded
<1>4. Sound(s)'
  BY <1>1, <1>2, <1>3 DEF Sound, StateShape
<1>5. mode = "ready" /\ pub => Fresh(s)'
  BY <1>2, <1>3 DEF Fresh, Kept
<1>6. s = st'
  BY <1>1
<1>7. Sound(s)' = Sound(st)' /\ Fresh(s)' = Fresh(st)'
  BY <1>6 DEF Sound, StateShape, Fresh, Recorded, Epoch
<1> QED BY <1>4, <1>5, <1>7

LEMMA StaysGood ==
  ASSUME NEW w, NEW mode, NEW pub \in BOOLEAN, GoodWrite(w, mode, pub), Guarded(mode, pub),
         Kept(mode, pub)
  PROVE  GoodWrite(w, mode, pub)'
<1>1. mode = "ready" => pub
  BY DEF Guarded, Fresh, Integrated, None
<1>2. ASSUME w.do = "save" PROVE GoodSave(w.state, mode, pub)'
  <2>1. GoodSave(w.state, mode, pub)
    BY <1>2 DEF GoodWrite
  <2>2. Sound(w.state)'
    BY <2>1 DEF GoodSave, Sound, StateShape, Kept
  <2>3. ASSUME mode = "ready" PROVE Fresh(w.state)' /\ w.state.published = st'.published
    BY <1>1, <2>1, <2>3 DEF GoodSave, Fresh, Kept, Integrated, ResultKey, Epoch
  <2> QED BY <2>1, <2>2, <2>3 DEF GoodSave
<1>3. ASSUME w.do = "call" PROVE GoodCall(w.remote, mode)'
  BY <1>3 DEF GoodWrite, GoodCall, RemoteShape, PullShape, Kept
<1> QED BY <1>2, <1>3 DEF GoodWrite, GoodKey

LEMMA Continues ==
  ASSUME NEW t, NEW mode \in {"draft", "ready"}, NEW pub \in BOOLEAN, GoodList(t, mode, pub),
         Guarded(mode, pub), Kept(mode, pub), Guarded(mode, pub)',
         DOMAIN op' = {"call", "todo"}, op'.todo = t
  PROVE  OpInv'
<1>1. \A i \in 1 .. Len(t) : GoodWrite(t[i], mode, pub)'
  BY StaysGood DEF GoodList, GoodWrites
<1>2. GoodWrites(op.todo, mode, pub)'
  BY <1>1 DEF GoodWrites
<1>3. IsSeq(op.todo)'
  BY DEF GoodList, IsSeq
<1> QED BY <1>2, <1>3 DEF OpInv

LEMMA Stops == ASSUME op' = Idle PROVE OpInv'
<1>1. IsSeq(<<>>)
  BY NoWrites
<1> QED BY <1>1 DEF OpInv, Idle, IsSeq

\* An operation under way, with its next write.
LEMMA Under ==
  ASSUME OpInv, op.todo # <<>>
  PROVE  \E mode \in {"draft", "ready"}, pub \in BOOLEAN, t \in {Tail(op.todo)} :
           /\ GoodWrite(Head(op.todo), mode, pub) /\ GoodList(t, mode, pub)
           /\ Guarded(mode, pub)
           /\ Done => op' = Idle \/ (DOMAIN op' = {"call", "todo"} /\ op'.todo = t)
<1>1. PICK mode \in {"draft", "ready"}, pub \in BOOLEAN :
        GoodWrites(op.todo, mode, pub) /\ Guarded(mode, pub)
  BY DEF OpInv
<1>2. /\ GoodWrite(Head(op.todo), mode, pub)
      /\ GoodList(Tail(op.todo), mode, pub)
  BY <1>1, Rest DEF OpInv, GoodList
<1>3. Done => op' = Idle \/ (DOMAIN op' = {"call", "todo"} /\ op'.todo = Tail(op.todo))
  BY DEF Done, OpInv
<1> QED BY <1>1, <1>2, <1>3

LEMMA PlannedKeeps ==
  ASSUME AtomicInv, AppendPlanned
  PROVE  AtomicInv'
<1>1. op.todo # <<>> /\ Head(op.todo).do = "plan"
  BY DEF AppendPlanned, Next1
<1>2. PICK mode \in {"draft", "ready"}, pub \in BOOLEAN, t \in {Tail(op.todo)} :
           /\ GoodWrite(Head(op.todo), mode, pub) /\ GoodList(t, mode, pub)
           /\ Guarded(mode, pub)
           /\ Done => op' = Idle \/ (DOMAIN op' = {"call", "todo"} /\ op'.todo = t)
  BY <1>1, Under DEF AtomicInv
<1>3. PICK w : w = Head(op.todo)
  OBVIOUS
<1>4. GoodKey(w.key, mode, pub)
  BY <1>1, <1>2, <1>3 DEF GoodWrite
<1>5. /\ log' = [k \in DOMAIN log \cup {w.key} |->
                   IF k = w.key THEN [status |-> "PLANNED", subject |-> w.subject, result |-> None]
                   ELSE log[k]]
      /\ UNCHANGED <<st, remote>> /\ Done
  BY <1>3 DEF AppendPlanned
<1>6. LogInv'
  <2>1. IsFiniteSet(DOMAIN log \cup {w.key})
    BY FS_AddElement DEF AtomicInv, LogInv
  <2> QED BY <1>5, <2>1 DEF AtomicInv, LogInv
<1>7. pub => \A s : Recorded(s) => Recorded(s)'
  <2> SUFFICES ASSUME pub, NEW s, Recorded(s), NEW u \in DOMAIN s.results
               PROVE  /\ IsObserved(ResultKey(u, Epoch(s)))'
                      /\ log'[ResultKey(u, Epoch(s))].subject = s.results[u]
    BY DEF Recorded, Epoch
  <2>1. PICK k : k = ResultKey(u, Epoch(s))
    OBVIOUS
  <2>2. k # w.key
    BY <1>4, <2>1 DEF GoodKey, ResultKey
  <2>3. k \in DOMAIN log /\ log[k].status = "OBSERVED" /\ log[k].subject = s.results[u]
    BY <2>1 DEF Recorded, IsObserved, Known
  <2>4. k \in DOMAIN log' /\ log'[k] = log[k]
    BY <1>5, <2>2, <2>3
  <2> QED BY <2>1, <2>3, <2>4 DEF IsObserved, Known, ResultKey, Epoch
<1>8. mode = "ready" => RetiredKeys' = RetiredKeys
  <2> SUFFICES ASSUME mode = "ready" PROVE RetiredKeys' = RetiredKeys
    OBVIOUS
  <2>1. RetireKeys' = RetireKeys
    BY <1>4, <1>5 DEF RetireKeys, GoodKey
  <2> QED BY <2>1 DEF RetiredKeys
<1>9. Kept(mode, pub)
  BY <1>5, <1>7, <1>8 DEF Kept
<1>10. Guarded(mode, pub) /\ (mode = "ready" => pub) /\ (pub \/ st.published = None)
  BY <1>2, ReadyPublishes DEF Guarded
<1>11. Sound(st)' /\ (mode = "ready" => Fresh(st)')
  BY <1>5, <1>9, <1>10, SameState DEF AtomicInv
<1>12. Guarded(mode, pub)'
  BY <1>5, <1>10, <1>11 DEF Guarded
<1>13. OpInv'
  BY <1>2, <1>5, <1>9, <1>12, Continues, Stops
<1>14. ReadyInv'
  BY <1>5, <1>10, <1>11 DEF AtomicInv, ReadyInv, Guarded
<1> QED BY <1>5, <1>6, <1>11, <1>13, <1>14 DEF AtomicInv, RemoteShape, PullShape

LEMMA ObservedKeeps ==
  ASSUME AtomicInv, AppendObserved
  PROVE  AtomicInv'
<1>1. op.todo # <<>> /\ Head(op.todo).do = "observe"
  BY DEF AppendObserved, Next1
<1>2. PICK mode \in {"draft", "ready"}, pub \in BOOLEAN, t \in {Tail(op.todo)} :
           /\ GoodWrite(Head(op.todo), mode, pub) /\ GoodList(t, mode, pub)
           /\ Guarded(mode, pub)
           /\ Done => op' = Idle \/ (DOMAIN op' = {"call", "todo"} /\ op'.todo = t)
  BY <1>1, Under DEF AtomicInv
<1>3. PICK w : w = Head(op.todo)
  OBVIOUS
<1>4. /\ log' = [log EXCEPT ![w.key] = [@ EXCEPT !.status = "OBSERVED", !.result = w.result]]
      /\ UNCHANGED <<st, remote>> /\ Done
  BY <1>3 DEF AppendObserved
<1>5. /\ DOMAIN log' = DOMAIN log
      /\ \A k \in DOMAIN log :
           /\ DOMAIN log'[k] = {"status", "subject", "result"}
           /\ log'[k].status \in {"OBSERVED", log[k].status}
           /\ log'[k].subject = log[k].subject
  BY <1>4 DEF AtomicInv, LogInv
<1>6. LogInv'
  BY <1>5 DEF AtomicInv, LogInv
<1>7. \A s : Recorded(s) => Recorded(s)'
  BY <1>5 DEF Recorded, IsObserved, Known, ResultKey, Epoch
<1>8. RetiredKeys' = RetiredKeys
  BY <1>5 DEF RetiredKeys, RetireKeys
<1>9. Kept(mode, pub)
  BY <1>4, <1>7, <1>8 DEF Kept
<1>10. Guarded(mode, pub) /\ (mode = "ready" => pub) /\ (pub \/ st.published = None)
  BY <1>2, ReadyPublishes DEF Guarded
<1>11. Sound(st)' /\ (mode = "ready" => Fresh(st)')
  BY <1>4, <1>9, <1>10, SameState DEF AtomicInv
<1>12. Guarded(mode, pub)'
  BY <1>4, <1>10, <1>11 DEF Guarded
<1>13. OpInv'
  BY <1>2, <1>4, <1>9, <1>12, Continues, Stops
<1>14. ReadyInv'
  BY <1>4, <1>10, <1>11 DEF AtomicInv, ReadyInv, Guarded
<1> QED BY <1>4, <1>6, <1>11, <1>13, <1>14 DEF AtomicInv, RemoteShape, PullShape

\* Steps that leave the ledger and the state file alone.
LEMMA SameFiles ==
  ASSUME AtomicInv, UNCHANGED <<st, log>>
  PROVE  /\ LogInv' /\ Sound(st)' /\ (Fresh(st)' <=> Fresh(st))
         /\ \A mode, pub : Kept(mode, pub)
<1>1. \A s : Recorded(s)' <=> Recorded(s)
  BY DEF Recorded, IsObserved, Known, ResultKey, Epoch
<1>2. RetiredKeys' = RetiredKeys
  BY DEF RetiredKeys, RetireKeys
<1>3. Recorded(st)' <=> Recorded(st)
  BY DEF Recorded, IsObserved, Known, ResultKey, Epoch
<1>4. LogInv' /\ Sound(st)' /\ (Fresh(st)' <=> Fresh(st))
  BY <1>2, <1>3 DEF AtomicInv, LogInv, Sound, StateShape, Fresh, Integrated, ResultKey, Epoch
<1>5. \A mode, pub : Kept(mode, pub)
  BY <1>1, <1>2 DEF Kept
<1> QED BY <1>4, <1>5

LEMMA CallKeeps ==
  ASSUME AtomicInv, CallRepository
  PROVE  AtomicInv'
<1>1. op.todo # <<>> /\ Head(op.todo).do = "call"
  BY DEF CallRepository, Next1
<1>2. PICK mode \in {"draft", "ready"}, pub \in BOOLEAN, t \in {Tail(op.todo)} :
           /\ GoodWrite(Head(op.todo), mode, pub) /\ GoodList(t, mode, pub)
           /\ Guarded(mode, pub)
           /\ Done => op' = Idle \/ (DOMAIN op' = {"call", "todo"} /\ op'.todo = t)
  BY <1>1, Under DEF AtomicInv
<1>3. remote' = Head(op.todo).remote /\ UNCHANGED <<st, log>> /\ Done
  BY DEF CallRepository
<1>4. GoodCall(remote', mode)
  BY <1>1, <1>2, <1>3 DEF GoodWrite
<1>5. LogInv' /\ Sound(st)' /\ (Fresh(st)' <=> Fresh(st)) /\ Kept(mode, pub)
  BY <1>3, SameFiles
<1>6. Guarded(mode, pub)'
  BY <1>2, <1>3, <1>4, <1>5 DEF Guarded, GoodCall
<1>7. OpInv'
  BY <1>2, <1>3, <1>5, <1>6, Continues, Stops
<1>8. RemoteShape(remote)' /\ ReadyInv'
  BY <1>2, <1>3, <1>4, <1>5, <1>6 DEF ReadyInv, GoodCall, Guarded, RemoteShape, PullShape
<1> QED BY <1>5, <1>7, <1>8 DEF AtomicInv

LEMMA SaveKeeps ==
  ASSUME AtomicInv, SaveState
  PROVE  AtomicInv'
<1>1. op.todo # <<>> /\ Head(op.todo).do = "save"
  BY DEF SaveState, Next1
<1>2. PICK mode \in {"draft", "ready"}, pub \in BOOLEAN, t \in {Tail(op.todo)} :
           /\ GoodWrite(Head(op.todo), mode, pub) /\ GoodList(t, mode, pub)
           /\ Guarded(mode, pub)
           /\ Done => op' = Idle \/ (DOMAIN op' = {"call", "todo"} /\ op'.todo = t)
  BY <1>1, Under DEF AtomicInv
<1>3. PICK s : s = Head(op.todo).state
  OBVIOUS
<1>4. st' = s /\ UNCHANGED <<log, remote>> /\ Done
  BY <1>3 DEF SaveState
<1>5. GoodSave(s, mode, pub)
  BY <1>1, <1>2, <1>3 DEF GoodWrite
<1>6. \A x : Recorded(x)' <=> Recorded(x)
  BY <1>4 DEF Recorded, IsObserved, Known, ResultKey, Epoch
<1>7. RetiredKeys' = RetiredKeys
  BY <1>4 DEF RetiredKeys, RetireKeys
<1>8. Kept(mode, pub)
  BY <1>4, <1>5, <1>6, <1>7 DEF Kept, GoodSave
<1>9. (Sound(st)' <=> Sound(s)) /\ (Fresh(st)' <=> Fresh(s))
  <2>1. Recorded(st)' <=> Recorded(s)
    BY <1>4 DEF Recorded, IsObserved, Known, ResultKey, Epoch
  <2> QED BY <1>4, <1>7, <2>1 DEF Sound, StateShape, Fresh, Integrated, ResultKey, Epoch
<1>10. Guarded(mode, pub)'
  BY <1>2, <1>4, <1>5, <1>9 DEF Guarded, GoodSave
<1>11. OpInv'
  BY <1>2, <1>4, <1>8, <1>10, Continues, Stops
<1>12. ReadyInv' /\ Sound(st)'
  BY <1>2, <1>4, <1>5, <1>9 DEF AtomicInv, ReadyInv, GoodSave, Guarded
<1>13. LogInv' /\ RemoteShape(remote)'
  BY <1>4 DEF AtomicInv, LogInv, RemoteShape, PullShape
<1> QED BY <1>11, <1>12, <1>13 DEF AtomicInv

\* Clearing the registry, a refusal, a death, and what happens to worktrees.
LEMMA OthersKeep ==
  ASSUME AtomicInv, ClearRegistry \/ Raise \/ Crash \/ UNCHANGED vars
                    \/ \E t \in Tasks : OpenWorktree(t) \/ CloseWorktree(t)
  PROVE  AtomicInv'
<1>1. UNCHANGED <<st, log, remote>>
  BY DEF ClearRegistry, Raise, Crash, vars, OpenWorktree, CloseWorktree
<1>2. LogInv' /\ Sound(st)' /\ (Fresh(st)' <=> Fresh(st)) /\ \A mode, pub : Kept(mode, pub)
  BY <1>1, SameFiles
<1>3. RemoteShape(remote)' /\ ReadyInv'
  BY <1>1, <1>2 DEF AtomicInv, RemoteShape, PullShape, ReadyInv
<1>4. \A mode, pub : Guarded(mode, pub)' <=> Guarded(mode, pub)
  BY <1>1, <1>2 DEF Guarded
<1>5. OpInv'
  <2>1. CASE op' = Idle
    BY <2>1, Stops
  <2>2. CASE op' = op
    <3>1. CASE op.todo = <<>>
      BY <2>2, <3>1 DEF AtomicInv, OpInv, IsSeq
    <3>2. CASE op.todo # <<>>
      <4>1. PICK mode \in {"draft", "ready"}, pub \in BOOLEAN, t \in {op.todo} :
              GoodList(t, mode, pub) /\ Guarded(mode, pub)
        BY <3>2 DEF AtomicInv, OpInv, GoodList
      <4>2. op'.todo = t /\ DOMAIN op' = {"call", "todo"}
        BY <2>2, <4>1 DEF AtomicInv, OpInv
      <4> QED BY <1>2, <1>4, <4>1, <4>2, Continues
    <3> QED BY <3>1, <3>2
  <2>3. CASE ClearRegistry
    <3>1. op.todo # <<>> /\ Done
      BY <2>3 DEF ClearRegistry, Next1
    <3>2. PICK mode \in {"draft", "ready"}, pub \in BOOLEAN, t \in {Tail(op.todo)} :
             /\ GoodList(t, mode, pub) /\ Guarded(mode, pub)
             /\ Done => op' = Idle \/ (DOMAIN op' = {"call", "todo"} /\ op'.todo = t)
      BY <3>1, Under DEF AtomicInv
    <3> QED BY <1>2, <1>4, <3>1, <3>2, Continues, Stops
  <2> QED BY <2>1, <2>2, <2>3 DEF Raise, Crash, vars, OpenWorktree, CloseWorktree
<1> QED BY <1>2, <1>3, <1>5 DEF AtomicInv

-----------------------------------------------------------------------------
(* The calls *)

LEMMA Begins ==
  ASSUME AtomicInv, NEW call, NEW t, NEW mode \in {"draft", "ready"}, NEW pub \in BOOLEAN,
         Begin(call, t), GoodList(t, mode, pub), Guarded(mode, pub)
  PROVE  AtomicInv'
<1>1. UNCHANGED <<st, log, remote>> /\ DOMAIN op' = {"call", "todo"} /\ op'.todo = t
  BY DEF Begin
<1>2. LogInv' /\ Sound(st)' /\ (Fresh(st)' <=> Fresh(st)) /\ Kept(mode, pub)
  BY <1>1, SameFiles
<1>3. RemoteShape(remote)' /\ ReadyInv' /\ Guarded(mode, pub)'
  BY <1>1, <1>2 DEF AtomicInv, RemoteShape, PullShape, ReadyInv, Guarded
<1>4. OpInv'
  BY <1>1, <1>2, <1>3, Continues
<1> QED BY <1>2, <1>3, <1>4 DEF AtomicInv

\* A state to be saved that has nothing published.
LEMMA SavingNone ==
  ASSUME NEW s, NEW pub, StateShape(s), s.published = None
  PROVE  GoodList(Save(s), "draft", pub)
<1>1. GoodSave([s EXCEPT !.saved = TRUE], "draft", pub)
  BY DEF GoodSave, Sound, StateShape
<1> QED BY <1>1, Saving

\* A state to be saved that has the results and the published head of another.
Alike(u, s) ==
  /\ StateShape(u)
  /\ u.published = s.published /\ u.results = s.results /\ u.base = s.base
  /\ u.repair = s.repair /\ u.admitted.plan = s.admitted.plan

LEMMA SavingAlike ==
  ASSUME NEW u, NEW mode \in {"draft", "ready"}, AtomicInv, Alike(u, st), Guarded(mode, TRUE)
  PROVE  GoodList(Save(u), mode, TRUE)
<1> DEFINE v == [u EXCEPT !.saved = TRUE]
<1>1. Alike(v, st) /\ v.saved
  BY DEF Alike, StateShape
<1> HIDE DEF v
<1>2. Epoch(v) = Epoch(st)
  BY <1>1 DEF Epoch, Alike
<1>3. (Recorded(v) <=> Recorded(st)) /\ (Fresh(v) <=> Fresh(st))
  BY <1>1, <1>2 DEF Recorded, Fresh, Alike
<1>4. GoodSave(v, mode, TRUE)
  BY <1>1, <1>3 DEF GoodSave, Sound, Alike, Guarded, AtomicInv
<1> QED BY <1>4, Saving DEF v

\* The pull request of a slice that is being changed is a draft, or rests on a
\* fresh published head.
LEMMA DraftOrReady ==
  ASSUME AtomicInv
  PROVE  /\ Guarded("draft", TRUE) \/ Guarded("ready", TRUE)
         /\ remote.pull.draft => Guarded("draft", TRUE)
         /\ remote.pull.draft /\ st.published = None => Guarded("draft", FALSE)
         /\ st.published = None => remote.pull.draft
BY DEF AtomicInv, ReadyInv, Guarded, Fresh, Integrated, None

LEMMA AdmitKeeps ==
  ASSUME AtomicInv, AdmitSlice
  PROVE  AtomicInv'
<1>1. st.published = None /\ Guarded("draft", FALSE)
  BY DraftOrReady DEF AdmitSlice, AtomicInv, Sound
<1> DEFINE issue  == [remote EXCEPT !.made = remote.made \cup {"issue"}]
           branch == [issue EXCEPT !.made = remote.made \cup {"issue", "branch"}]
           plan   == [branch EXCEPT !.plans = remote.plans \cup {1}]
           pull   == [plan EXCEPT !.pull = DraftPull(1)]
           bound  == [st EXCEPT !.candidate = 1]
           last   == [bound EXCEPT !.base = PlanHead(1),
                        !.admitted = [plan |-> 1, blocked |-> FALSE, pull |-> DraftPull(1)]]
<1>2. /\ GoodCall(issue, "draft") /\ GoodCall(branch, "draft")
      /\ GoodCall(plan, "draft") /\ GoodCall(pull, "draft")
  BY <1>1 DEF AtomicInv, GoodCall, Guarded, RemoteShape, PullShape, DraftPull, NoPull, Body
<1>3. /\ StateShape(bound) /\ bound.published = None
      /\ StateShape(last) /\ last.published = None
  BY <1>1 DEF AtomicInv, Sound, StateShape
<1>4. \A k \in {<<"issue", 1>>, <<"branch", 1>>, <<"planning", 1>>, <<"draft-pr", 1>>} :
        GoodKey(k, "draft", FALSE)
  BY DEF GoodKey
<1> HIDE DEF issue, branch, plan, pull, bound, last
<1>5. GoodList(Save(bound), "draft", FALSE) /\ GoodList(Save(last), "draft", FALSE)
  BY <1>3, SavingNone
<1>6. /\ GoodList(Effect(<<"issue", 1>>, None, TRUE, issue, <<"issue", 1>>), "draft", FALSE)
      /\ GoodList(Effect(<<"branch", 1>>, None, TRUE, branch, <<"branch", 1>>), "draft", FALSE)
      /\ GoodList(Effect(<<"planning", 1>>, None, TRUE, plan, PlanHead(1)), "draft", FALSE)
  BY <1>2, <1>4, Effecting
<1>7. GoodList(Effect(<<"draft-pr", 1>>, None, remote.pull \in {NoPull, DraftPull(1)}, pull,
                      pull.pull), "draft", FALSE)
  <2>1. (remote.pull \in {NoPull, DraftPull(1)}) \in BOOLEAN
    OBVIOUS
  <2> QED BY <1>2, <1>4, <2>1, Effecting
<1>8. GoodList(AdmitWrites(1), "draft", FALSE)
  BY <1>5, <1>6, <1>7, Lists DEF AdmitWrites, issue, branch, plan, pull, bound, last
<1>9. PICK t : t = AdmitWrites(1)
  OBVIOUS
<1>10. Begin(<<"admit">>, t)
  BY <1>9 DEF AdmitSlice
<1> QED BY <1>1, <1>8, <1>9, <1>10, Begins

LEMMA LeaseKeeps ==
  ASSUME AtomicInv, NEW u \in Tasks, IssueLease(u)
  PROVE  AtomicInv'
<1>1. st.published = None /\ Guarded("draft", FALSE)
  BY DraftOrReady DEF IssueLease
<1> DEFINE k == LeaseKey(u, Epoch(st))
           lease == [epoch |-> Epoch(st), revoked |-> FALSE]
           s == [st EXCEPT !.leases = [v \in Leased \cup {u} |-> IF v = u THEN lease ELSE st.leases[v]]]
<1>2. StateShape(s) /\ s.published = None
  BY <1>1 DEF AtomicInv, Sound, StateShape
<1>3. GoodKey(k, "draft", FALSE)
  BY DEF GoodKey
<1> HIDE DEF k, s
<1>4. GoodList(Plan(k, None, None), "draft", FALSE) /\ GoodList(Save(s), "draft", FALSE)
      /\ GoodList(Observe(k, None), "draft", FALSE)
  BY <1>2, <1>3, Planning, SavingNone, Observing
<1>5. GoodList(LeaseWrites(u), "draft", FALSE)
  BY <1>4, Lists DEF LeaseWrites, k, s
<1>6. PICK t : t = LeaseWrites(u)
  OBVIOUS
<1>7. Begin(<<"lease", u>>, t)
  BY <1>6 DEF IssueLease
<1> QED BY <1>1, <1>5, <1>6, <1>7, Begins

\* No result is admitted once a candidate is published: all are on record.
LEMMA ResultKeeps ==
  ASSUME AtomicInv, NEW u \in Tasks, NEW commit \in Commits, AdmitResult(u, commit)
  PROVE  AtomicInv'
<1>1. st.published = None
  <2> SUFFICES ASSUME st.published # None PROVE FALSE
    OBVIOUS
  <2>1. Recorded(st) /\ st.admitted.plan # 0
    BY DEF AtomicInv, Sound
  <2>2. Leased \subseteq Handed
    <3>1. st.saved => PublicationVerifies
      BY DEF AdmitResult, Live, Free, Loads
    <3>2. ~st.saved => st.published = None
      BY DEF AtomicInv, Sound
    <3> QED BY <3>1, <3>2 DEF PublicationVerifies, ManifestComplete
  <2>3. u \in Handed /\ IsPlanned(ResultKey(u, Epoch(st)))
    BY <2>2 DEF AdmitResult, LiveLease
  <2> QED BY <2>1, <2>3 DEF Recorded, IsPlanned, IsObserved, Handed
<1>2. Guarded("draft", FALSE)
  BY <1>1, DraftOrReady
<1> DEFINE k == ResultKey(u, Epoch(st))
           s == [st EXCEPT !.results = [v \in Handed \cup {u} |-> IF v = u THEN commit ELSE st.results[v]]]
<1>3. StateShape(s) /\ s.published = None
  BY <1>1 DEF AtomicInv, Sound, StateShape
<1>4. GoodKey(k, "draft", FALSE)
  BY DEF GoodKey
<1> HIDE DEF k, s
<1>5. GoodList(Plan(k, commit, None), "draft", FALSE) /\ GoodList(Save(s), "draft", FALSE)
      /\ GoodList(Observe(k, None), "draft", FALSE)
  BY <1>3, <1>4, Planning, SavingNone, Observing
<1>6. GoodList(ResultWrites(u, commit), "draft", FALSE)
  BY <1>5, Lists DEF ResultWrites, k, s
<1>7. PICK t : t = ResultWrites(u, commit)
  OBVIOUS
<1>8. Begin(<<"result", u, commit>>, t)
  BY <1>7 DEF AdmitResult
<1> QED BY <1>2, <1>6, <1>7, <1>8, Begins

\* What load() verified of the results and the leases on file.
LEMMA LoadedResults ==
  ASSUME AtomicInv, Live
  PROVE  /\ Loads
         /\ \A t \in Handed : /\ ResultKey(t, Epoch(st)) \in ResultKeys
                              /\ Known(ResultKey(t, Epoch(st)))
                              /\ log[ResultKey(t, Epoch(st))].subject = st.results[t]
                              /\ ResultKey(t, Epoch(st)) \notin GoneKeys
         /\ ResultKeys \subseteq DOMAIN log /\ LeaseKeys \subseteq DOMAIN log
<1>1. Loads /\ st.admitted.plan # 0
  BY DEF Live, Free, AtomicInv, Sound
<1>2. /\ \A t \in Leased : st.leases[t].epoch = Epoch(st) /\ Known(LeaseKey(t, Epoch(st)))
      /\ \A t \in Handed : /\ t \in Leased
                           /\ Known(ResultKey(t, Epoch(st)))
                           /\ log[ResultKey(t, Epoch(st))].subject = st.results[t]
      /\ (LeaseKeys \cup ResultKeys) \cap GoneKeys = {}
  BY <1>1 DEF Loads, LeasesVerify
<1>3. \A t \in Handed : ResultKey(t, Epoch(st)) \in ResultKeys
  BY <1>2 DEF ResultKeys
<1>4. ResultKeys \subseteq DOMAIN log /\ LeaseKeys \subseteq DOMAIN log
  BY <1>2 DEF ResultKeys, LeaseKeys, Known
<1> QED BY <1>1, <1>2, <1>3, <1>4

LEMMA PublishKeeps ==
  ASSUME AtomicInv, NEW e \in Evidence, PublishCandidate(e)
  PROVE  AtomicInv'
<1>1. Live /\ ManifestAdmissible /\ remote.pull.draft
  BY DEF PublishCandidate
<1>2. Guarded("draft", TRUE)
  BY <1>1, DraftOrReady
<1>3. Recorded(st)
  <2> SUFFICES ASSUME NEW t \in Handed PROVE IsObserved(ResultKey(t, Epoch(st)))
    BY <1>1, LoadedResults DEF Recorded, Handed
  <2>1. PICK k : k = ResultKey(t, Epoch(st))
    OBVIOUS
  <2>2. k \in ResultKeys /\ k \in DOMAIN log /\ k[1] = "result"
    BY <1>1, <2>1, LoadedResults DEF Known, ResultKey
  <2>3. k \notin PendingResults
    BY <1>1 DEF ManifestAdmissible
  <2>4. ~IsPlanned(k)
    BY <2>2, <2>3 DEF PendingResults
  <2> QED BY <2>1, <2>2, <2>4 DEF IsPlanned, IsObserved, Known, AtomicInv, LogInv
<1> DEFINE k == <<"publish", NextHead>>
           body == [plan |-> st.admitted.pull.body.plan, candidate |-> <<NextHead, e>>, stops |-> None]
           after == Updated(remote, k, NextHead, body)
           adopted == remote.pull.head = NextHead /\ remote.pull.body = body /\ IsObserved(k)
                      /\ log[k].result = remote.pull
           allowed == UpdateAllowed(remote, k, st.base, NextHead, body)
           effect == IF adopted THEN <<>> ELSE Effect(k, e, allowed, after, after.pull)
           u == [st EXCEPT !.published = NextHead,
                           !.admitted = [st.admitted EXCEPT
                                           !.pull = IF adopted THEN remote.pull ELSE after.pull]]
<1>4. GoodCall(after, "draft")
  BY <1>1 DEF AtomicInv, GoodCall, RemoteShape, PullShape, Updated
<1>5. GoodKey(k, "draft", TRUE)
  BY DEF GoodKey
<1>6. allowed \in BOOLEAN
  BY DEF UpdateAllowed
<1>7. GoodSave([u EXCEPT !.saved = TRUE], "draft", TRUE)
  <2> DEFINE v == [u EXCEPT !.saved = TRUE]
  <2>1. /\ StateShape(v) /\ v.saved /\ v.results = st.results /\ v.base = st.base
        /\ v.repair = st.repair /\ v.admitted.plan = st.admitted.plan
    BY DEF AtomicInv, Sound, StateShape
  <2> HIDE DEF v
  <2>2. Recorded(v)
    BY <1>3, <2>1 DEF Recorded, Epoch
  <2>3. v.admitted.plan # 0
    BY <1>1, <2>1 DEF Live
  <2>4. GoodSave(v, "draft", TRUE)
    BY <2>1, <2>2, <2>3 DEF GoodSave, Sound
  <2> QED BY <2>4 DEF v
<1> HIDE DEF k, after, allowed, u
<1>8. GoodList(Effect(k, e, allowed, after, after.pull), "draft", TRUE)
  BY <1>4, <1>5, <1>6, Effecting
<1>9. GoodList(effect, "draft", TRUE) /\ GoodList(Save(u), "draft", TRUE)
  BY <1>7, <1>8, Lists, Saving
<1> HIDE DEF effect
<1>10. PICK t : t = PublishWrites(e)
  OBVIOUS
<1>11. t = effect \o Save(u)
  BY <1>10 DEF PublishWrites, effect, k, after, allowed, u
<1>12. GoodList(t, "draft", TRUE)
  BY <1>9, <1>11, Lists
<1>13. Begin(<<"publish", e>>, t)
  BY <1>10 DEF PublishCandidate
<1> QED BY <1>2, <1>12, <1>13, Begins

\* Both changes of the draft flag.
LEMMA FlagKeeps ==
  ASSUME AtomicInv, NEW call, NEW k, NEW e, NEW draft \in BOOLEAN, NEW mode \in {"draft", "ready"},
         Guarded(mode, TRUE), GoodKey(k, mode, TRUE), mode = "draft" => draft,
         mode = "ready" => remote.pull.head = st.published,
         Begin(call, FlagWrites(k, e, draft))
  PROVE  AtomicInv'
<1> DEFINE after == ReadySet(remote, k, draft)
           adopted == remote.pull.draft = draft /\ IsObserved(k)
           effect == IF adopted THEN <<>> ELSE Effect(k, e, TRUE, after, after.pull)
           u == [st EXCEPT !.admitted = [st.admitted EXCEPT !.pull = after.pull]]
<1>1. GoodCall(after, mode)
  BY DEF AtomicInv, GoodCall, RemoteShape, PullShape, ReadySet
<1>2. Alike(u, st)
  BY DEF AtomicInv, Sound, StateShape, Alike
<1> HIDE DEF after, u
<1>3. GoodList(effect, mode, TRUE)
  BY <1>1, Effecting, Lists
<1>4. GoodList(Save(u), mode, TRUE)
  BY <1>2, SavingAlike
<1> HIDE DEF effect
<1>5. PICK t : t = FlagWrites(k, e, draft)
  OBVIOUS
<1>6. t = effect \o Save(u)
  BY <1>5 DEF FlagWrites, effect, after, u
<1>7. GoodList(t, mode, TRUE) /\ Begin(call, t)
  BY <1>3, <1>4, <1>5, <1>6, Lists
<1> QED BY <1>7, Begins

LEMMA MarkReadyKeeps ==
  ASSUME AtomicInv, NEW e \in Evidence, MarkReady(e)
  PROVE  AtomicInv'
<1>1. Live /\ NoneRetiring /\ st.published # None /\ remote.pull.head = st.published
  BY DEF MarkReady
<1>2. st.published = Integrated(st.base, st.results) /\ Recorded(st)
  BY <1>1, LoadedResults DEF Loads, PublicationVerifies, NextHead, AtomicInv, Sound
<1>3. \A t \in DOMAIN st.results : ResultKey(t, Epoch(st)) \notin RetiredKeys
  <2> SUFFICES ASSUME NEW t \in Handed, ResultKey(t, Epoch(st)) \in RetiredKeys PROVE FALSE
    BY DEF Handed
  <2>1. PICK r \in RetireKeys : r[2] = ResultKey(t, Epoch(st))
    BY DEF RetiredKeys
  <2>2. r[2] \in ResultKeys /\ r[2] \notin GoneKeys
    BY <1>1, <2>1, LoadedResults
  <2>3. ~IsObserved(r)
    BY <2>2 DEF GoneKeys
  <2>4. IsPlanned(r)
    BY <2>3 DEF RetireKeys, IsObserved, IsPlanned, Known, AtomicInv, LogInv
  <2> QED BY <1>1, <2>2, <2>4 DEF NoneRetiring, PendingRetirements
<1>4. Guarded("ready", TRUE)
  BY <1>2, <1>3 DEF Guarded, Fresh
<1>5. PICK k : k = <<"ready", st.published>>
  OBVIOUS
<1>6. GoodKey(k, "ready", TRUE) /\ Begin(<<"ready", e>>, FlagWrites(k, e, FALSE))
  BY <1>5 DEF GoodKey, MarkReady
<1> QED BY <1>1, <1>4, <1>6, FlagKeeps

LEMMA InvalidateKeeps ==
  ASSUME AtomicInv, NEW e \in Evidence, InvalidateReady(e)
  PROVE  AtomicInv'
<1>1. PICK k : k = <<"draft", remote.pull.head, e>>
  OBVIOUS
<1>2. Begin(<<"draft", e>>, FlagWrites(k, e, TRUE))
  BY <1>1 DEF InvalidateReady
<1>3. CASE remote.pull.draft
  <2>1. Guarded("draft", TRUE) /\ GoodKey(k, "draft", TRUE)
    BY <1>1, <1>3, DraftOrReady DEF GoodKey
  <2> QED BY <1>2, <2>1, FlagKeeps
<1>4. CASE ~remote.pull.draft
  <2>1. /\ Guarded("ready", TRUE) /\ GoodKey(k, "ready", TRUE)
        /\ remote.pull.head = st.published
    BY <1>1, <1>4 DEF GoodKey, AtomicInv, ReadyInv, Guarded
  <2> QED BY <1>2, <2>1, FlagKeeps
<1> QED BY <1>3, <1>4

LEMMA StopKeeps ==
  ASSUME AtomicInv, NEW e \in Evidence, CancelAll(e)
  PROVE  AtomicInv'
<1> DEFINE revocation == <<st.admitted.plan, st.base, e>>
           k == <<"block", remote.pull.head, revocation>>
           after == Blocked(remote, k, revocation)
           allowed == BlockReplayed(remote, k) \/ remote.pull.draft
           stopped == [st EXCEPT !.cancelled = TRUE, !.revocation = revocation,
                         !.leases = [t \in Leased |-> [st.leases[t] EXCEPT !.revoked = TRUE]]]
           last == [stopped EXCEPT !.admitted = [st.admitted EXCEPT !.blocked = after.blocked,
                                                                    !.pull = after.pull]]
           effect == Effect(k, None, allowed, after, Answer(after))
           clear == <<[do |-> "clear"]>>
<1>1. PICK mode \in {"draft", "ready"} :
        /\ Guarded(mode, TRUE)
        /\ mode = "draft" => remote.pull.draft
        /\ mode = "ready" => ~remote.pull.draft /\ remote.pull.head = st.published
  <2>1. CASE remote.pull.draft
    BY <2>1, DraftOrReady
  <2>2. CASE ~remote.pull.draft
    BY <2>2 DEF AtomicInv, ReadyInv, Guarded
  <2> QED BY <2>1, <2>2
<1>2. allowed => GoodCall(after, mode)
  BY <1>1 DEF AtomicInv, GoodCall, RemoteShape, PullShape, Blocked
<1>3. GoodKey(k, mode, TRUE) /\ allowed \in BOOLEAN
  BY DEF GoodKey, BlockReplayed
<1>4. Alike(stopped, st)
  BY DEF AtomicInv, Sound, StateShape, Alike
<1>5. Alike(last, st)
  BY DEF AtomicInv, Sound, StateShape, Alike
<1> HIDE DEF k, after, allowed, stopped, last
<1>6. GoodList(effect, mode, TRUE)
  BY <1>2, <1>3, Effecting
<1>7. /\ GoodList(Save(stopped), mode, TRUE) /\ GoodList(Save(last), mode, TRUE)
      /\ GoodList(clear, mode, TRUE)
  BY <1>1, <1>4, <1>5, SavingAlike, Refusing
<1> HIDE DEF effect, clear
<1>8. PICK t : t = StopWrites(e)
  OBVIOUS
<1>9. t = ((clear \o Save(stopped)) \o effect) \o Save(last)
  BY <1>8 DEF StopWrites, clear, effect, k, after, allowed, stopped, last
<1>10. GoodList(t, mode, TRUE)
  BY <1>6, <1>7, <1>9, Lists
<1>11. Begin(<<"stop", e>>, t)
  BY <1>8 DEF CancelAll
<1> QED BY <1>1, <1>10, <1>11, Begins

LEMMA Retiring ==
  ASSUME AtomicInv, Live, NEW authority
  PROVE  /\ GoodList(RetireWrites(authority), "draft", TRUE)
         /\ GoodList(RetiredWrites(authority), "draft", TRUE)
<1>1. ASSUME NEW K, K \subseteq DOMAIN log
      PROVE  /\ IsFiniteSet({RetireKey(k, authority) : k \in K})
             /\ \A r \in {RetireKey(k, authority) : k \in K} : r[1] = "retire"
  <2>1. IsFiniteSet(K)
    BY <1>1, FS_Subset DEF AtomicInv, LogInv
  <2>2. DEFINE f == [k \in K |-> RetireKey(k, authority)]
  <2>3. f = [x \in K |-> f[x]] /\ {f[x] : x \in K} = {RetireKey(k, authority) : k \in K}
    OBVIOUS
  <2>4. IsFiniteSet({f[x] : x \in K})
    <3> HIDE DEF f
    <3> QED BY <2>1, <2>3, FiniteImage
  <2>5. \A r \in {RetireKey(k, authority) : k \in K} : r[1] = "retire"
    BY DEF RetireKey
  <2> QED BY <2>3, <2>4, <2>5
<1> DEFINE rs == Retirements(ResultKeys, PendingResults, authority)
           ls == Retirements(LeaseKeys, PendingLeases, authority)
<1>2. ResultKeys \cup PendingResults \subseteq DOMAIN log /\ LeaseKeys \cup PendingLeases \subseteq DOMAIN log
  BY LoadedResults DEF PendingResults, PendingLeases
<1>3. IsFiniteSet(rs) /\ IsFiniteSet(ls) /\ (\A r \in rs : r[1] = "retire") /\ (\A r \in ls : r[1] = "retire")
  BY <1>1, <1>2 DEF Retirements
<1> HIDE DEF rs, ls
<1>4. GoodList(PlanEach(rs), "draft", TRUE) /\ GoodList(PlanEach(ls), "draft", TRUE)
  BY <1>3, PlanningEach
<1>5. GoodList(ObserveEach(rs), "draft", TRUE) /\ GoodList(ObserveEach(ls), "draft", TRUE)
  BY <1>3, ObservingEach
<1> QED BY <1>4, <1>5, Lists DEF RetireWrites, RetiredWrites, rs, ls

LEMMA RepairKeeps ==
  ASSUME AtomicInv, NEW e \in Evidence, BeginRepair(e)
  PROVE  AtomicInv'
<1> DEFINE authority == <<st.published, e>>
           s == [Cleared(st) EXCEPT !.base = st.published, !.repair = authority]
<1>1. Live /\ Guarded("draft", TRUE)
  BY DraftOrReady DEF BeginRepair
<1>2. StateShape(s) /\ s.published = None
  BY DEF Cleared, AtomicInv, Sound, StateShape
<1> HIDE DEF s, authority
<1>3. /\ GoodList(RetireWrites(authority), "draft", TRUE)
      /\ GoodList(RetiredWrites(authority), "draft", TRUE)
      /\ GoodList(Save(s), "draft", TRUE)
  BY <1>1, <1>2, Retiring, SavingNone
<1>4. PICK t : t = RepairWrites(e)
  OBVIOUS
<1>5. t = (RetireWrites(authority) \o Save(s)) \o RetiredWrites(authority)
  BY <1>4 DEF RepairWrites, authority, s
<1>6. GoodList(t, "draft", TRUE)
  BY <1>3, <1>5, Lists
<1>7. Begin(<<"repair", e>>, t)
  BY <1>4 DEF BeginRepair
<1> QED BY <1>1, <1>6, <1>7, Begins

LEMMA ReadmitKeeps ==
  ASSUME AtomicInv, NEW p \in Plans, Readmit(p)
  PROVE  AtomicInv'
<1> DEFINE planned == [remote EXCEPT !.plans = remote.plans \cup {p}]
           update == <<"readmit-pr", p>>
           unblock == <<"unblock", p>>
           old == st.admitted.pull.head
           adopted == /\ ~remote.pull.blocked
                      /\ remote.pull.head = PlanHead(p) /\ remote.pull.body = Body(p)
                      /\ IsObserved(update) /\ log[update].result = [remote.pull EXCEPT !.blocked = TRUE]
           updated == IF adopted THEN planned ELSE Updated(planned, update, PlanHead(p), Body(p))
           open == Unblocked(updated, unblock)
           s == [Cleared(st) EXCEPT
                   !.candidate = p, !.base = PlanHead(p), !.repair = None,
                   !.cancelled = FALSE, !.revocation = None,
                   !.admitted = [plan |-> p, blocked |-> FALSE, pull |-> open.pull]]
           e1 == Effect(<<"readmit-planning", p>>, st.base, TRUE, planned, PlanHead(p))
           e2 == Effect(update, <<old, st.base>>,
                        UpdateAllowed(remote, update, old, PlanHead(p), Body(p)), updated, updated.pull)
           e2a == IF adopted THEN <<>> ELSE e2
           e3 == Effect(unblock, st.base, UnblockAllowed(updated, unblock), open, Answer(open))
<1>1. Live /\ remote.pull.draft /\ Guarded("draft", TRUE)
  BY DraftOrReady DEF Readmit
<1>2. GoodCall(planned, "draft")
  BY <1>1 DEF AtomicInv, GoodCall, RemoteShape, PullShape
<1>3. GoodCall(updated, "draft")
  <2> HIDE DEF planned
  <2> QED BY <1>2 DEF GoodCall, RemoteShape, PullShape, Updated
<1>4. GoodCall(open, "draft")
  <2> HIDE DEF updated
  <2> QED BY <1>3 DEF GoodCall, RemoteShape, PullShape, Unblocked
<1>5. StateShape(s) /\ s.published = None
  BY DEF Cleared, AtomicInv, Sound, StateShape
<1>6. \A k \in {<<"readmit-planning", p>>, update, unblock} : GoodKey(k, "draft", TRUE)
  BY DEF GoodKey
<1>7. /\ UpdateAllowed(remote, update, old, PlanHead(p), Body(p)) \in BOOLEAN
      /\ UnblockAllowed(updated, unblock) \in BOOLEAN
  BY DEF UpdateAllowed, UnblockAllowed
<1> HIDE DEF planned, updated, open, update, unblock, old, s
<1>8. GoodList(e1, "draft", TRUE)
  BY <1>2, <1>6, Effecting
<1>9. GoodList(e2, "draft", TRUE)
  BY <1>3, <1>6, <1>7, Effecting
<1>10. GoodList(e3, "draft", TRUE)
  BY <1>4, <1>6, <1>7, Effecting
<1>11. GoodList(e2a, "draft", TRUE)
  BY <1>9, Lists
<1>12. /\ GoodList(RetireWrites(PlanHead(p)), "draft", TRUE)
       /\ GoodList(RetiredWrites(PlanHead(p)), "draft", TRUE)
       /\ GoodList(Save(s), "draft", TRUE)
  BY <1>1, <1>5, Retiring, SavingNone
<1> HIDE DEF e1, e2a, e3
<1>13. PICK t : t = ReadmitWrites(p)
  OBVIOUS
<1>14. t = ((((e1 \o e2a) \o e3) \o RetireWrites(PlanHead(p))) \o Save(s)) \o RetiredWrites(PlanHead(p))
  BY <1>13 DEF ReadmitWrites, e1, e2a, e3, planned, updated, open, update, unblock, old, s
<1>15. GoodList(t, "draft", TRUE)
  BY <1>8, <1>10, <1>11, <1>12, <1>14, Lists
<1>16. Begin(<<"readmit", p>>, t)
  BY <1>13 DEF Readmit
<1> QED BY <1>1, <1>15, <1>16, Begins

-----------------------------------------------------------------------------
(* The theorems *)

LEMMA AtomicInit == Init => AtomicInv
<1> SUFFICES ASSUME Init PROVE AtomicInv
  OBVIOUS
<1>1. LogInv
  BY FS_EmptySet DEF Init, LogInv
<1>2. Sound(st)
  BY DEF Init, NoState, Sound, StateShape
<1>3. RemoteShape(remote) /\ remote.pull.draft
  BY DEF Init, RemoteShape, PullShape, NoPull
<1>4. OpInv
  BY NoWrites DEF Init, OpInv, Idle
<1> QED BY <1>1, <1>2, <1>3, <1>4 DEF AtomicInv, ReadyInv

LEMMA AtomicStep == AtomicInv /\ [Next]_vars => AtomicInv'
<1> SUFFICES ASSUME AtomicInv, [Next]_vars PROVE AtomicInv'
  OBVIOUS
<1>1. CASE Call
  BY <1>1, AdmitKeeps, LeaseKeeps, ResultKeeps, PublishKeeps, MarkReadyKeeps, InvalidateKeeps,
     StopKeeps, RepairKeeps, ReadmitKeeps DEF Call
<1>2. CASE Write
  BY <1>2, PlannedKeeps, CallKeeps, ObservedKeeps, SaveKeeps, OthersKeep DEF Write
<1>3. CASE Crash \/ UNCHANGED vars \/ \E t \in Tasks : OpenWorktree(t) \/ CloseWorktree(t)
  BY <1>3, OthersKeep
<1> QED BY <1>1, <1>2, <1>3 DEF Next

\* The inductive invariant of the runner: wherever an operation is, each write it
\* still makes is good.
THEOREM AtomicInvariant == Spec => []AtomicInv
BY AtomicInit, AtomicStep, PTL DEF Spec

\* A pull request that is marked ready shows the published head, and the results
\* that head integrates are on record and not retired (MarkReady, BeginRepair,
\* AdmitResult and the order of every operation's writes), whichever calls are
\* made, repeated or cut short.
THEOREM ReadyPublished == Spec => []ReadyIsPublished
<1>1. AtomicInv => ReadyIsPublished
  BY DEF AtomicInv, ReadyInv, ReadyIsPublished, Fresh, Recorded, NextHead, Handed
<1> QED BY <1>1, AtomicInvariant, PTL
=============================================================================
