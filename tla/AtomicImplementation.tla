----------------------- MODULE AtomicImplementation -----------------------
(***************************************************************************)
(* The authority over one implementation slice (engineering/atomic.py): one *)
(* issue, one branch, one draft pull request, the leases of the specialists *)
(* that work on it and the results they hand in.                            *)
(*                                                                          *)
(* Three places hold the truth: the state file (st), replaced atomically;   *)
(* the effect ledger (log), appended before and after every effect; and the *)
(* repository itself (remote).  An operation holds the run's lock, reads    *)
(* the state file and then makes its writes one after another; it may die   *)
(* between any two of them, and so may an adapter call.  The next operation *)
(* first reloads and verifies everything (Loads): what does not verify is   *)
(* refused, for good.                                                       *)
(*                                                                          *)
(* Digests are represented by what they digest.  The specialists' paths are *)
(* disjoint, and the head a candidate is published under is determined by   *)
(* the baseline and the results it integrates.                              *)
(***************************************************************************)
EXTENDS Integers, Sequences, FiniteSets, SequencesExt

CONSTANTS
  Tasks,       \* tasks of the specialists
  Commits,     \* commits a specialist may hand in
  Plans,       \* test plans of the candidate; 1 is the first one
  Evidence,    \* digests a caller presents with a stop, a publication, a repair
  MaxRepairs,  \* bound: calls that begin a repair cycle, repeats not counted
  MaxCrashes,  \* bound: operations that die between two writes
  Careful      \* callers stay within CarefulCall

ASSUME SliceAssumption ==
  /\ Plans \subseteq Nat \ {0} /\ 1 \in Plans
  /\ {MaxRepairs, MaxCrashes} \subseteq Nat
  /\ Careful \in BOOLEAN

VARIABLES
  st,        \* the state file
  log,       \* the effect ledger: [keys -> [status, subject, result]]
  latest,    \* key of the last ledger event that touches the pull request
  registry,  \* the active-worktrees file: tasks with a worktree
  remote,    \* the repository: issue, branch, planning commits, pull request
  op,        \* the call holding the lock, with the writes it still makes
  broken,    \* the call that died short of its last save and was not repeated since
  repairs, crashes

vars == <<st, log, latest, registry, remote, op, broken, repairs, crashes>>

None == <<>>
Idle == [call |-> <<"idle">>, todo |-> <<>>]
PlanHead(p) == <<"plan", p>>
Integrated(base, results) == <<"integrated", base, results>>

\* The body of the pull request: the plan, the published candidate, the stops.
Body(p) == [plan |-> p, candidate |-> None, stops |-> None]
NoPull == [head |-> None, draft |-> TRUE, blocked |-> FALSE, body |-> Body(0)]
DraftPull(p) == [NoPull EXCEPT !.head = PlanHead(p), !.body = Body(p)]

NoState ==
  [saved |-> FALSE, candidate |-> 0, base |-> None,
   admitted |-> [plan |-> 0, blocked |-> FALSE, pull |-> NoPull],   \* issue and pull request
   leases |-> [t \in {} |-> None],      \* [tasks -> [epoch, revoked]]
   results |-> [t \in {} |-> None],     \* [tasks -> commit]
   published |-> None, repair |-> None, cancelled |-> FALSE, revocation |-> None]

(***************************************************************************)
(* The ledger of effects.                                                   *)
(***************************************************************************)
Epoch(s) == <<s.admitted.plan, s.base, s.repair>>
LeaseKey(t, epoch) == <<"lease", t, epoch>>
ResultKey(t, epoch) == <<"result", t, epoch>>
RetireKey(k, authority) == <<"retire", k, authority>>

Known(k) == k \in DOMAIN log
IsObserved(k) == Known(k) /\ log[k].status = "OBSERVED"
IsPlanned(k) == Known(k) /\ log[k].status = "PLANNED"

\* The actions after which the pull request or the issue differs.
Mutable == {"draft-pr", "publish", "readmit-pr", "ready", "draft", "block", "unblock"}

Plan(k, subject, result) ==
  IF Known(k) THEN <<>>
  ELSE <<[do |-> "plan", key |-> k, subject |-> subject, result |-> result]>>
Observe(k, result) ==
  IF IsObserved(k) THEN <<>> ELSE <<[do |-> "observe", key |-> k, result |-> result]>>
Save(s) == <<[do |-> "save", state |-> [s EXCEPT !.saved = TRUE]]>>
Refuse == <<[do |-> "raise"]>>

\* _execute_repository_effect: plan, call, record what the repository answered.
Effect(k, subject, allowed, after, result) ==
  IF Known(k) /\ log[k].subject # subject THEN Refuse
  ELSE Plan(k, subject, None)
       \o IF ~allowed \/ (IsObserved(k) /\ log[k].result # result) THEN Refuse
          ELSE <<[do |-> "call", remote |-> after]>> \o Observe(k, result)

(***************************************************************************)
(* The repository.  Every call answers what it already did under the same   *)
(* key; otherwise it compares the pull request with what the caller expects.*)
(***************************************************************************)
Retried(r, k) == k \in r.keys

\* Variant: an update that was already made is not recognised.
UpdateAllowedOnce(r, k, expected, head, body) == r.pull.draft /\ r.pull.head = expected

UpdateAllowed(r, k, expected, head, body) ==
  /\ r.pull.draft
  /\ \/ r.pull.head = head /\ r.pull.body = body /\ Retried(r, k)
     \/ r.pull.head = expected
Updated(r, k, head, body) ==
  [r EXCEPT !.pull = [r.pull EXCEPT !.head = head, !.body = body], !.keys = r.keys \cup {k}]

ReadySet(r, k, draft) == [r EXCEPT !.pull = [r.pull EXCEPT !.draft = draft], !.keys = r.keys \cup {k}]

BlockReplayed(r, k) == r.blocked /\ r.pull.blocked /\ Retried(r, k)
Blocked(r, k, revocation) ==
  IF BlockReplayed(r, k) THEN r
  ELSE [r EXCEPT !.blocked = TRUE, !.keys = r.keys \cup {k},
                 !.pull = [r.pull EXCEPT !.blocked = TRUE,
                                         !.body = [r.pull.body EXCEPT !.stops = Append(@, revocation)]]]

UnblockAllowed(r, k) ==
  \/ ~r.blocked /\ ~r.pull.blocked /\ Retried(r, k)
  \/ r.blocked /\ r.pull.blocked
Unblocked(r, k) ==
  [r EXCEPT !.blocked = FALSE, !.pull = [r.pull EXCEPT !.blocked = FALSE],
            !.keys = r.keys \cup {k}]

\* What admission expects the repository to show.
Shows(r, a) == r.blocked = a.blocked /\ r.pull = a.pull

(***************************************************************************)
(* What load() verifies.                                                    *)
(***************************************************************************)
Leased == DOMAIN st.leases
Handed == DOMAIN st.results
LeaseKeys == {LeaseKey(t, st.leases[t].epoch) : t \in Leased}
ResultKeys == {ResultKey(t, st.leases[t].epoch) : t \in Handed \cap Leased}

RetireKeys == {k \in DOMAIN log : k[1] = "retire"}
RetiredKeys == {k[2] : k \in RetireKeys}
GoneKeys == {k[2] : k \in {r \in RetireKeys : IsObserved(r)}}

PendingRetirements ==
  {k \in RetireKeys : IsPlanned(k) /\ k[2] \in LeaseKeys \cup ResultKeys}
PendingLeases ==
  {k \in DOMAIN log : k[1] = "lease" /\ IsPlanned(k) /\ (k \in LeaseKeys \/ k \notin RetiredKeys)}
PendingResults ==
  {k \in DOMAIN log : k[1] = "result" /\ IsPlanned(k) /\ (k \in ResultKeys \/ k \notin RetiredKeys)}

LeasesVerify ==
  IF st.admitted.plan = 0 THEN Leased = {} /\ Handed = {} /\ st.repair = None
  ELSE /\ (st.base = PlanHead(st.admitted.plan)) = (st.repair = None)
       /\ \A t \in Leased : st.leases[t].epoch = Epoch(st) /\ Known(LeaseKey(t, Epoch(st)))
       /\ \A t \in Handed : /\ t \in Leased
                            /\ Known(ResultKey(t, Epoch(st)))
                            /\ log[ResultKey(t, Epoch(st))].subject = st.results[t]
       /\ (LeaseKeys \cup ResultKeys) \cap GoneKeys = {}
       /\ \A k \in DOMAIN log :
            k[1] \in {"lease", "result"} =>
              k \in LeaseKeys \cup ResultKeys \cup RetiredKeys \/ IsPlanned(k)

\* A change of the pull request that the state file does not have yet is the
\* one of the last event, planned or observed with exactly that result.
Matches(k, result) == k = latest /\ Known(k) /\ (IsPlanned(k) \/ log[k].result = result)

Answer(r) == <<r.blocked, r.pull>>
ManifestComplete == Handed # {} /\ Leased \subseteq Handed
ManifestAdmissible ==
  /\ PendingRetirements = {} /\ PendingLeases = {} /\ PendingResults = {}
  /\ ~st.cancelled /\ st.admitted.plan # 0
  /\ ManifestComplete
NextHead == Integrated(st.base, st.results)

ReadyMatches ==
  /\ remote.blocked = st.admitted.blocked
  /\ remote.pull = [st.admitted.pull EXCEPT !.draft = FALSE]
  /\ Matches(<<"ready", remote.pull.head>>, remote.pull)

DraftMatches ==
  /\ remote.blocked = st.admitted.blocked
  /\ remote.pull = [st.admitted.pull EXCEPT !.draft = TRUE]
  /\ latest[1] = "draft" /\ latest[2] = remote.pull.head
  /\ Matches(latest, remote.pull)

BlockMatches ==
  /\ st.cancelled /\ remote.blocked
  /\ remote.pull = [st.admitted.pull EXCEPT !.blocked = TRUE,
                                            !.body.stops = Append(@, st.revocation)]
  /\ Matches(<<"block", remote.pull.head, st.revocation>>, Answer(remote))

CandidateShown ==
  /\ remote.pull.body.candidate # None /\ remote.pull.body.stops = None
  /\ remote.pull.body.plan = st.admitted.pull.body.plan

PublishMatches ==
  /\ CandidateShown /\ ManifestAdmissible
  /\ remote.pull.body.candidate[1] = NextHead
  /\ remote.pull = [st.admitted.pull EXCEPT !.head = NextHead, !.body = remote.pull.body]
  /\ Matches(<<"publish", NextHead>>, remote.pull)

\* After the readmission's update of the pull request, and after its unblock.
ReadmissionMatches ==
  LET p == remote.pull.body.plan
      update == <<"readmit-pr", p>>
      between == [st.admitted.pull EXCEPT !.head = PlanHead(p), !.body = Body(p)]
  IN /\ remote.pull.body = Body(p) /\ p \in remote.plans /\ remote.pull.head = PlanHead(p)
     /\ Known(update) /\ log[update].subject = <<st.admitted.pull.head, st.base>>
     /\ \/ remote.pull = between /\ Matches(update, remote.pull)
        \/ /\ ~remote.blocked
           /\ [remote.pull EXCEPT !.blocked = TRUE] = between
           /\ IsObserved(update) /\ log[update].result = between
           /\ Matches(<<"unblock", p>>, Answer(remote))

RepositoryVerifies ==
  \/ st.admitted.plan = 0
  \/ Shows(remote, st.admitted)
  \/ ReadyMatches \/ DraftMatches \/ BlockMatches \/ PublishMatches
  \/ ReadmissionMatches

PublicationVerifies ==
  st.published # None =>
    LET k == <<"publish", st.published>> IN
    /\ remote.pull.head = st.published /\ ManifestComplete
    /\ remote.pull.body.candidate # None
    /\ remote.pull.body.candidate[1] = st.published /\ st.published = NextHead
    /\ IsObserved(k) /\ log[k].subject = remote.pull.body.candidate[2]
    /\ log[k].result = [remote.pull EXCEPT !.body.stops = None, !.draft = TRUE, !.blocked = FALSE]

\* load(): what an operation needs before it does anything.
Loads ==
  /\ registry \subseteq Leased
  /\ LeasesVerify
  /\ RepositoryVerifies
  /\ PublicationVerifies

(***************************************************************************)
(* The operations: each reads what is there and lists the writes to make.   *)
(***************************************************************************)

\* AdmitSlice: issue, branch, planning commit and draft pull request.
AdmitWrites(p) ==
  LET issue  == [remote EXCEPT !.made = remote.made \cup {"issue"}]
      branch == [issue EXCEPT !.made = remote.made \cup {"issue", "branch"}]
      plan   == [branch EXCEPT !.plans = remote.plans \cup {p}]
      pull   == [plan EXCEPT !.pull = DraftPull(p)]
      bound  == [st EXCEPT !.candidate = p]
  IN Save(bound)
     \o Effect(<<"issue", p>>, None, TRUE, issue, <<"issue", 1>>)
     \o Effect(<<"branch", p>>, None, TRUE, branch, <<"branch", 1>>)
     \o Effect(<<"planning", p>>, None, TRUE, plan, PlanHead(p))
     \o Effect(<<"draft-pr", p>>, None, remote.pull \in {NoPull, DraftPull(p)}, pull, pull.pull)
     \o Save([bound EXCEPT !.base = PlanHead(p),
                           !.admitted = [plan |-> p, blocked |-> FALSE, pull |-> DraftPull(p)]])

LeaseWrites(t) ==
  LET k == LeaseKey(t, Epoch(st))
      lease == [epoch |-> Epoch(st), revoked |-> FALSE]
  IN Plan(k, None, None)
     \o Save([st EXCEPT !.leases = [u \in Leased \cup {t} |-> IF u = t THEN lease ELSE st.leases[u]]])
     \o Observe(k, None)

ResultWrites(t, commit) ==
  LET k == ResultKey(t, Epoch(st)) IN
  Plan(k, commit, None)
  \o Save([st EXCEPT !.results = [u \in Handed \cup {t} |-> IF u = t THEN commit ELSE st.results[u]]])
  \o Observe(k, None)

\* The retirement of everything issued, handed in or only planned: the results
\* before the leases.
Retirements(issued, pending, authority) == {RetireKey(k, authority) : k \in issued \cup pending}
PlanEach(keys) ==
  SetToSeq({[do |-> "plan", key |-> k, subject |-> None, result |-> None] :
              k \in {r \in keys : ~Known(r)}})
ObserveEach(keys) ==
  SetToSeq({[do |-> "observe", key |-> k, result |-> None] : k \in {r \in keys : ~IsObserved(r)}})

RetireWrites(authority) ==
  PlanEach(Retirements(ResultKeys, PendingResults, authority))
  \o PlanEach(Retirements(LeaseKeys, PendingLeases, authority))
RetiredWrites(authority) ==
  ObserveEach(Retirements(ResultKeys, PendingResults, authority))
  \o ObserveEach(Retirements(LeaseKeys, PendingLeases, authority))

Cleared(s) ==
  [s EXCEPT !.leases = NoState.leases, !.results = NoState.results, !.published = None]

\* Variant: the state file is saved before the repository is called.
PublishWritesSavedFirst(e) ==
  LET k == <<"publish", NextHead>>
      body == [plan |-> st.admitted.pull.body.plan, candidate |-> <<NextHead, e>>, stops |-> None]
      after == Updated(remote, k, NextHead, body)
  IN Plan(k, e, None)
     \o Save([st EXCEPT !.admitted = [st.admitted EXCEPT !.pull = after.pull], !.published = NextHead])
     \o Effect(k, e, UpdateAllowed(remote, k, st.base, NextHead, body), after, after.pull)

PublishWrites(e) ==
  LET k == <<"publish", NextHead>>
      body == [plan |-> st.admitted.pull.body.plan, candidate |-> <<NextHead, e>>, stops |-> None]
      after == Updated(remote, k, NextHead, body)
      adopted == remote.pull.head = NextHead /\ remote.pull.body = body /\ IsObserved(k)
                 /\ log[k].result = remote.pull
  IN (IF adopted THEN <<>>
      ELSE Effect(k, e, UpdateAllowed(remote, k, st.base, NextHead, body), after, after.pull))
     \o Save([st EXCEPT !.published = NextHead,
                        !.admitted = [st.admitted EXCEPT
                                        !.pull = IF adopted THEN remote.pull ELSE after.pull]])

\* Both changes of the draft flag: adopt what was observed, else make the change.
FlagWrites(k, e, draft) ==
  LET after == ReadySet(remote, k, draft)
      adopted == remote.pull.draft = draft /\ IsObserved(k)
  IN (IF adopted THEN <<>> ELSE Effect(k, e, TRUE, after, after.pull))
     \o Save([st EXCEPT !.admitted = [st.admitted EXCEPT !.pull = after.pull]])

\* The flag may be changed, or already was by this very call.
FlagAllowed(k, e, draft) ==
  IF remote.pull.draft = draft
  THEN Known(k) /\ log[k].subject = e /\ (IsObserved(k) => log[k].result = remote.pull)
  ELSE ~remote.pull.blocked

StopWrites(e) ==
  LET revocation == <<st.admitted.plan, st.base, e>>
      k == <<"block", remote.pull.head, revocation>>
      after == Blocked(remote, k, revocation)
      stopped == [st EXCEPT !.cancelled = TRUE, !.revocation = revocation,
                            !.leases = [t \in Leased |-> [st.leases[t] EXCEPT !.revoked = TRUE]]]
  IN <<[do |-> "clear"]>>
     \o Save(stopped)
     \o Effect(k, None, BlockReplayed(remote, k) \/ remote.pull.draft, after, Answer(after))
     \o Save([stopped EXCEPT !.admitted = [st.admitted EXCEPT !.blocked = after.blocked,
                                                             !.pull = after.pull]])

ReadmitWrites(p) ==
  LET planned == [remote EXCEPT !.plans = remote.plans \cup {p}]
      update == <<"readmit-pr", p>>
      unblock == <<"unblock", p>>
      old == st.admitted.pull.head
      adopted == /\ ~remote.pull.blocked
                 /\ remote.pull.head = PlanHead(p) /\ remote.pull.body = Body(p)
                 /\ IsObserved(update) /\ log[update].result = [remote.pull EXCEPT !.blocked = TRUE]
      updated == IF adopted THEN planned ELSE Updated(planned, update, PlanHead(p), Body(p))
      open == Unblocked(updated, unblock)
  IN Effect(<<"readmit-planning", p>>, st.base, TRUE, planned, PlanHead(p))
     \o (IF adopted THEN <<>>
         ELSE Effect(update, <<old, st.base>>,
                     UpdateAllowed(remote, update, old, PlanHead(p), Body(p)), updated, updated.pull))
     \o Effect(unblock, st.base, UnblockAllowed(updated, unblock), open, Answer(open))
     \o RetireWrites(PlanHead(p))
     \o Save([Cleared(st) EXCEPT
                !.candidate = p, !.base = PlanHead(p), !.repair = None,
                !.cancelled = FALSE, !.revocation = None,
                !.admitted = [plan |-> p, blocked |-> FALSE, pull |-> open.pull]])
     \o RetiredWrites(PlanHead(p))

RepairWrites(e) ==
  LET authority == <<st.published, e>> IN
  RetireWrites(authority)
  \o Save([Cleared(st) EXCEPT !.base = st.published, !.repair = authority])
  \o RetiredWrites(authority)

(***************************************************************************)
(* Beginning an operation: the lock is free and the state verifies.         *)
(***************************************************************************)
\* What careful callers keep to: they repeat a call that died before they make
\* another one, leave the slice alone after a stop that was refused (that of a
\* ready pull request), neither return to an earlier plan nor mark a head ready
\* twice, re-admit no slice with a published candidate, and begin a repair
\* without open worktrees.
CarefulCall(call) ==
  \/ ~Careful
  \/ /\ broken \in {Idle.call, call}
     /\ broken = call \/ ~\E k \in DOMAIN log : k[1] = "block" /\ IsPlanned(k)
     /\ CASE call[1] = "ready"   -> ~(remote.pull.draft /\ IsObserved(<<"ready", remote.pull.head>>))
          [] call[1] = "readmit" -> call[2] > st.admitted.plan /\ st.published = None
          [] call[1] = "repair"  -> registry = {}
          [] OTHER               -> TRUE

Begin(call, writes) ==
  /\ CarefulCall(call)
  /\ op' = [call |-> call, todo |-> writes]
  /\ UNCHANGED <<st, log, latest, registry, remote, broken, crashes>>

Free == op = Idle /\ (st.saved => Loads)
Live == Free /\ st.admitted.plan # 0
NoneRetiring == PendingRetirements = {}

AdmitSlice ==
  /\ Free /\ st.admitted.plan = 0
  /\ st.candidate \in {0, 1}
  /\ Begin(<<"admit">>, AdmitWrites(1))
  /\ UNCHANGED repairs

IssueLease(t) ==
  /\ Live /\ NoneRetiring /\ ~st.cancelled
  /\ Shows(remote, st.admitted)
  /\ st.admitted.pull.draft /\ ~st.admitted.pull.blocked
  /\ st.published = None
  /\ t \notin Leased \/ IsPlanned(LeaseKey(t, Epoch(st)))
  /\ Begin(<<"lease", t>>, LeaseWrites(t))
  /\ UNCHANGED repairs

LiveLease(t) == NoneRetiring /\ ~st.cancelled /\ t \in Leased /\ ~st.leases[t].revoked

AdmitResult(t, commit) ==
  /\ Live /\ LiveLease(t)
  /\ t \in Handed => st.results[t] = commit /\ IsPlanned(ResultKey(t, Epoch(st)))
  /\ Known(ResultKey(t, Epoch(st))) => log[ResultKey(t, Epoch(st))].subject = commit
  /\ Begin(<<"result", t, commit>>, ResultWrites(t, commit))
  /\ UNCHANGED repairs

PublishCandidate(e) ==
  /\ Live /\ ManifestAdmissible /\ remote.pull.draft
  /\ Begin(<<"publish", e>>, PublishWrites(e))
  /\ UNCHANGED repairs

MarkReady(e) ==
  LET k == <<"ready", st.published>> IN
  /\ Live /\ NoneRetiring /\ ~st.cancelled
  /\ st.published # None /\ remote.pull.head = st.published
  /\ FlagAllowed(k, e, FALSE)
  /\ Begin(<<"ready", e>>, FlagWrites(k, e, FALSE))
  /\ UNCHANGED repairs

InvalidateReady(e) ==
  LET k == <<"draft", remote.pull.head, e>> IN
  /\ Live
  /\ FlagAllowed(k, e, TRUE)
  /\ Begin(<<"draft", e>>, FlagWrites(k, e, TRUE))
  /\ UNCHANGED repairs

CancelAll(e) ==
  /\ Live /\ NoneRetiring
  /\ Begin(<<"stop", e>>, StopWrites(e))
  /\ UNCHANGED repairs

Readmit(p) ==
  /\ Live /\ st.cancelled
  /\ p # st.admitted.plan
  /\ remote.pull.draft
  /\ Begin(<<"readmit", p>>, ReadmitWrites(p))
  /\ UNCHANGED repairs

\* Variant: a repair may begin on a pull request marked ready.
BeginRepairOfReady(e) ==
  /\ Live /\ repairs < MaxRepairs
  /\ st.published # None /\ remote.pull.head = st.published
  /\ Begin(<<"repair", e>>, RepairWrites(e))
  /\ repairs' = repairs + 1

BeginRepair(e) ==
  /\ Live
  /\ repairs < MaxRepairs \/ broken = <<"repair", e>>
  /\ remote.pull.draft /\ ~remote.pull.blocked
  /\ st.published # None /\ remote.pull.head = st.published
  /\ Begin(<<"repair", e>>, RepairWrites(e))
  /\ repairs' = IF broken = <<"repair", e>> THEN repairs ELSE repairs + 1

\* A specialist's worktree is registered before it exists and taken out after.
OpenWorktree(t) ==
  /\ Live /\ LiveLease(t) /\ t \notin registry
  /\ Careful => broken = Idle.call
  /\ registry' = registry \cup {t}
  /\ UNCHANGED <<st, log, latest, remote, op, broken, repairs, crashes>>

CloseWorktree(t) ==
  /\ op = Idle /\ t \in registry
  /\ registry' = registry \ {t}
  /\ UNCHANGED <<st, log, latest, remote, op, broken, repairs, crashes>>

(***************************************************************************)
(* Its writes, one at a time.                                               *)
(***************************************************************************)
Next1(kind) == op.todo # <<>> /\ Head(op.todo).do = kind
Done ==
  IF Len(op.todo) = 1 THEN op' = Idle /\ broken' = Idle.call
  ELSE op' = [op EXCEPT !.todo = Tail(@)] /\ UNCHANGED broken
Latest(k) == latest' = IF k[1] \in Mutable THEN k ELSE latest

AppendPlanned ==
  /\ Next1("plan")
  /\ LET w == Head(op.todo) IN
     /\ log' = [k \in DOMAIN log \cup {w.key} |->
                  IF k = w.key THEN [status |-> "PLANNED", subject |-> w.subject, result |-> None]
                  ELSE log[k]]
     /\ Latest(w.key)
  /\ Done
  /\ UNCHANGED <<st, registry, remote, repairs, crashes>>

CallRepository ==
  /\ Next1("call")
  /\ remote' = Head(op.todo).remote
  /\ Done
  /\ UNCHANGED <<st, log, latest, registry, repairs, crashes>>

AppendObserved ==
  /\ Next1("observe")
  /\ LET w == Head(op.todo) IN
     /\ log' = [log EXCEPT ![w.key] = [@ EXCEPT !.status = "OBSERVED", !.result = w.result]]
     /\ Latest(w.key)
  /\ Done
  /\ UNCHANGED <<st, registry, remote, repairs, crashes>>

SaveState ==
  /\ Next1("save")
  /\ st' = Head(op.todo).state
  /\ Done
  /\ UNCHANGED <<log, latest, registry, remote, repairs, crashes>>

ClearRegistry ==
  /\ Next1("clear")
  /\ registry' = {}
  /\ Done
  /\ UNCHANGED <<st, log, latest, remote, repairs, crashes>>

\* A refused call ends the operation where it is.
Raise ==
  /\ Next1("raise")
  /\ op' = Idle
  /\ UNCHANGED <<st, log, latest, registry, remote, broken, repairs, crashes>>

Crash ==
  /\ op # Idle /\ crashes < MaxCrashes
  /\ crashes' = crashes + 1
  /\ op' = Idle
  /\ broken' = IF \E i \in DOMAIN op.todo : op.todo[i].do \in {"save", "raise"}
               THEN op.call ELSE Idle.call
  /\ UNCHANGED <<st, log, latest, registry, remote, repairs>>

Init ==
  /\ st = NoState
  /\ log = [k \in {} |-> None]
  /\ latest = <<"nothing">>
  /\ registry = {}
  /\ remote = [made |-> {}, blocked |-> FALSE, plans |-> {}, pull |-> NoPull, keys |-> {}]
  /\ op = Idle
  /\ broken = Idle.call
  /\ repairs = 0
  /\ crashes = 0

Write == AppendPlanned \/ CallRepository \/ AppendObserved \/ SaveState \/ ClearRegistry \/ Raise

Call ==
  \/ AdmitSlice
  \/ \E t \in Tasks : IssueLease(t) \/ \E commit \in Commits : AdmitResult(t, commit)
  \/ \E e \in Evidence : \/ PublishCandidate(e) \/ MarkReady(e) \/ InvalidateReady(e)
                         \/ CancelAll(e) \/ BeginRepair(e)
  \/ \E p \in Plans : Readmit(p)

Next ==
  \/ Call
  \/ \E t \in Tasks : OpenWorktree(t) \/ CloseWorktree(t)
  \/ Write
  \/ Crash

\* An operation that does not die makes its writes, and one that died is called
\* again by whoever resumes the run.
Spec == Init /\ [][Next]_vars /\ WF_vars(Write) /\ WF_vars(Call /\ op'.call = broken)

(***************************************************************************)
(* Properties.                                                              *)
(***************************************************************************)

\* A crash between any two writes leaves a run that loads again: when no call
\* is under way, the state file, the ledger and the repository are never in a
\* combination that load() refuses.
Loadable == st.saved /\ op = Idle => Loads

\* The unblock of a re-admission is journaled and not yet made.
Unblocking ==
  /\ latest[1] = "unblock" /\ IsPlanned(latest)
  /\ remote.pull.blocked

\* Between any two writes, and so wherever a call may die, the run loads; the
\* one place where load() does not recognise what was planned is left out.
LoadableElsewhere == st.saved /\ ~Unblocking => Loads

\* A pull request that is marked ready shows the head the state file has as
\* published, and what that head integrates was handed in under leases that
\* are on record and not retired: no crash, repeat, stop or repair in between
\* leaves another head open for review.
ReadyIsPublished ==
  ~remote.pull.draft =>
    /\ st.published = remote.pull.head
    /\ st.published = NextHead
    /\ \A t \in Handed : LET k == ResultKey(t, Epoch(st)) IN
                         IsObserved(k) /\ log[k].subject = st.results[t] /\ k \notin RetiredKeys

\* The repository does not block a pull request that is marked ready.
StopOfReady == broken[1] = "stop" /\ ~remote.pull.draft

\* A call that died is completed when it is made again: what it had written
\* already is recognised, in the ledger, in the state file and in the
\* repository (except in the place named by Unblocking, and for a stop the
\* repository refuses however often it is made).
BrokenCallCompletes ==
  broken # Idle.call ~> (broken = Idle.call \/ Unblocking \/ StopOfReady)
============================================================================
