-------------------------- MODULE PersonalExecution --------------------------
(* One personal execution (personal/executor.py): a request is admitted, its  *)
(* approval policies are fixed in a contract, one worker per workflow runs in *)
(* a thread of its own behind a barrier, the joined results are verified and  *)
(* written.  A source of evidence has the facts its content records; a fact   *)
(* is what a worker looks for, as a tuple.                                    *)
EXTENDS Integers, Sequences, FiniteSets, Functions

CONSTANTS
  PersonalRequests,  \* requests that are submitted
  MaxSubmissions,    \* bound: submissions into one directory
  Vacant             \* nothing

VARIABLES
  request,   \* the request being executed, or Vacant
  progress,  \* where the execution is; while it is written, the next file
  bindings,  \* the contract's approval policy per workflow
  arrived,   \* workflows whose thread has reached the barrier
  results,   \* what each worker returned
  files,     \* the execution that wrote each file of the directory
  submissions

personalVars == <<request, progress, bindings, arrived, results, files, submissions>>

FileOrder == <<"contract", "task_graph", "results", "evidence", "approvals", "mobile_review", "report", "catalog">>

Workflows(r) == DOMAIN r.inputs
Input(r, w) == r.inputs[w]

\* The workflows whose workers are modelled; the others are packs like the
\* readiness pack.
Catalog == {"goal", "eval", "weekly", "meeting", "roadmap", "issue", "readiness"}

\* What the schema of a request asks of its inputs: lists of sources, checks and
\* cases have members, and times and latencies are numbers.
ASSUME SchemaAssumption ==
  \A r \in PersonalRequests : r.schema => \A w \in Workflows(r) :
    LET input == Input(r, w) IN
    /\ w \in Catalog
    /\ input.sources # {}
    /\ w \in {"goal", "roadmap", "issue", "readiness"} => \E c \in input.checks : c.sources # {}
    /\ w = "eval" => /\ IsFiniteSet(input.records) /\ input.records # {} /\ input.limits.latency \in Nat
                     /\ \A c \in input.records : c.sources # {} /\ c.latency \in Nat
    /\ w = "weekly" => \A e \in input.events : {e.id, e.start, e.end} \subseteq Int

PersonalInit ==
  /\ request = Vacant /\ progress = "idle" /\ bindings = <<>> /\ arrived = {} /\ results = <<>>
  /\ files = [f \in {FileOrder[i] : i \in DOMAIN FileOrder} |-> Vacant]
  /\ submissions = 0

(***************************************************************************)
(* Admission.                                                               *)
(***************************************************************************)
Unique(items) == \A x, y \in items : x.id = y.id => x = y

Cited(items) == UNION {x.sources : x \in items}

\* Every list of source identifiers inside a workflow's input.
Referenced(input) == input.sources \cup Cited(input.checks \cup input.records)

\* What validate_personal_context asks of each kind of input beyond the schema.
InputAdmitted(w, input) ==
  /\ w # "readiness" => Unique(input.checks) /\ Unique(input.records)
  /\ w = "weekly" => Unique(input.events) /\ \A e \in input.events : e.start < e.end
  /\ w = "roadmap" => input.option \in input.options

(* validate_personal_context: the inputs are those of the selected workflows, *)
(* the sources are distinct and as digested, and a workflow cites only        *)
(* sources of its own packet.                                                 *)
RequestAdmitted(r) ==
  /\ r.schema /\ r.outcome
  /\ r.selected = Workflows(r)
  /\ Unique(r.evidence) /\ \A s \in r.evidence : s.intact
  /\ \A w \in Workflows(r) :
       /\ Referenced(Input(r, w)) \subseteq {s.id : s \in r.evidence} \cap Input(r, w).sources
       /\ InputAdmitted(w, Input(r, w))

(***************************************************************************)
(* The workers.  Each gives its verdict, the checks it shows, the sources    *)
(* its provenance cites and the actions it would ask approval for.           *)
(***************************************************************************)
MatchesAnywhere(r, ids, fact) == \E s \in r.evidence : fact \in s.facts

\* _matches_admitted_result: a cited source records the fact.
Matches(r, ids, fact) == \E s \in r.evidence : s.id \in ids /\ fact \in s.facts

\* Every check is declared to pass, and a cited source records that it passed
\* for this very subject.
Declared(checks) == \A c \in checks : c.pass
BoundTo(r, checks, subject) == \A c \in checks : Matches(r, c.sources, <<"passed", c.id, subject>>)

Output(verdict, shown, refs, actions) ==
  [verdict |-> verdict, shown |-> shown, refs |-> refs, actions |-> IF verdict THEN actions ELSE {}]

GoalToVerifiedRelease(r, input) ==
  LET declared == Declared(input.checks)
      bound == BoundTo(r, input.checks, input.subject)
  IN Output(declared /\ bound, <<declared, bound, TRUE>>, Cited(input.checks), {"git.merge", "production.deploy"})

\* The latency at the rank of 95 in 100, rounded up, of the sorted latencies.
Latency95(cases) ==
  LET rank == (95 * Cardinality(cases) + 99) \div 100 IN
  CHOOSE l \in {c.latency : c \in cases} :
    /\ Cardinality({c \in cases : c.latency < l}) < rank
    /\ Cardinality({c \in cases : c.latency <= l}) >= rank

TotalCost(cases) == FoldFunction(+, 0, [c \in cases |-> c.cost])

\* Cost is in whole units, the pass rate in percent.
AiEvalReleaseGate(r, input) ==
  LET cases == input.records
      n == Cardinality(cases)
      limits == input.limits
      recorded(c) == <<"case", c.id, input.subject, c.correct, c.safe, c.latency, c.cost>>
      shown == <<\A c \in cases : Matches(r, c.sources, recorded(c)),
                 Matches(r, input.sources, <<"policy", input.subject, {c.id : c \in cases}, limits>>),
                 100 * Cardinality({c \in cases : c.correct}) >= limits.rate * n,
                 Latency95(cases) <= limits.latency,
                 TotalCost(cases) <= limits.cost * n,
                 Cardinality({c \in cases : ~c.safe}) <= limits.unsafe>>
  IN Output(\A i \in DOMAIN shown : shown[i], shown, Cited(cases), {"model.release"})

\* Events in order of their start; each is compared with the following ones
\* until one starts after its end.
Conflicts(events) ==
  LET before(x, y) == x.start < y.start \/ (x.start = y.start /\ x.id < y.id) IN
  {p \in events \X events :
     /\ before(p[1], p[2])
     /\ \A e \in events : before(p[1], e) /\ ~before(p[2], e) => e.start < p[1].end}

WeeklyPmCommandCentre(r, input) ==
  LET shown == <<TRUE, TRUE, Matches(r, input.sources, <<"calendar", input.events>>),
                 Matches(r, input.sources, <<"commitments", input.subject>>),
                 Matches(r, input.sources, <<"messages", input.subject>>)>>
  IN Output(\A i \in DOMAIN shown : shown[i], shown, input.sources,
            {"message.send"} \cup IF Conflicts(input.events) = {} THEN {} ELSE {"calendar.write"})

\* The schema gives every action an owner and a date, and a decision at least.
MeetingToDecision(r, input) ==
  LET bound == Matches(r, input.sources, <<"meeting", input.subject>>)
  IN Output(bound, <<TRUE, TRUE, bound>>, input.sources, {"task.create", "message.send"})

EvidenceToRoadmapToRelease(r, input) ==
  LET claimed == \A c \in input.records : Matches(r, c.sources, <<"claim", c.id>>)
      decided == Matches(r, input.sources, <<"decision", input.option>>)
      declared == Declared(input.checks)
      bound == BoundTo(r, input.checks, input.option)
  IN Output(declared /\ bound /\ claimed /\ decided, <<TRUE, claimed, decided, declared, bound>>,
            Cited(input.records \cup input.checks), {"roadmap.update", "release.publish"})

IssueToDraftPr(r, input) ==
  LET declared == Declared(input.checks)
      bound == BoundTo(r, input.checks, input.subject)
      contract == Matches(r, input.sources, <<"issue", input.subject>>)
  IN Output(declared /\ bound /\ contract, <<declared, bound, TRUE, contract>>, Cited(input.checks),
            {"git.pr.create"})

(* The release readiness pack, as one of the generic ones: records are merged *)
(* key by key, a key with two values is a conflict and keeps its first, and   *)
(* the declared results of the merged records have to be on record.           *)
Merged(records, key) == {x \in records : x.key = key}

VerifyExtendedPack(r, input) ==
  LET merged(key) == Merged(input.records, key)
      first(key) == CHOOSE x \in merged(key) : \A y \in merged(key) : x.id <= y.id
      ready(key) == merged(key) # {} /\ first(key).value
  IN <<ready("release_checks"), ready("risk_owners"), ready("rollback"),
       merged("release_checks") # {} =>
         /\ first("release_checks").value
         /\ Matches(r, first("release_checks").sources, <<"result", first("release_checks").id>>),
       \A x, y \in input.records : x.key = y.key => x.value = y.value>>

GenericOutcomePack(r, input) ==
  LET shown == VerifyExtendedPack(r, input)
                 \o <<input.records # {}, input.actions = {"release.publish"},
                      \A x \in input.records : Matches(r, x.sources, <<"record", x.id, x.value>>),
                      Declared(input.checks)>>
  IN Output(\A i \in DOMAIN shown : shown[i], shown, Cited(input.records \cup input.checks), input.actions)

ExecuteTask(r, w) ==
  LET input == Input(r, w) IN
  CASE w = "goal" -> GoalToVerifiedRelease(r, input)
    [] w = "eval" -> AiEvalReleaseGate(r, input)
    [] w = "weekly" -> WeeklyPmCommandCentre(r, input)
    [] w = "meeting" -> MeetingToDecision(r, input)
    [] w = "roadmap" -> EvidenceToRoadmapToRelease(r, input)
    [] w = "issue" -> IssueToDraftPr(r, input)
    [] w = "readiness" -> GenericOutcomePack(r, input)

\* compile_task_graph: the actions a workflow's packet leaves to a person.
RequiredApprovals(w) ==
  CASE w = "goal" -> {"git.merge", "production.deploy"} [] w = "eval" -> {"model.release"}
    [] w = "weekly" -> {"calendar.write", "message.send"} [] w = "meeting" -> {"task.create", "message.send"}
    [] w = "roadmap" -> {"roadmap.update", "release.publish"} [] w = "issue" -> {"git.pr.create", "git.merge"}
    [] w = "readiness" -> {"release.publish"}

(***************************************************************************)
(* The execution.                                                           *)
(***************************************************************************)
\* PersonalWorkContract: the fields, once prefixed and copied into the contract,
\* are within its limits.
ContractHolds(r) == r.fits

\* The policies are derived by a first run of every worker and fixed in the
\* contract; a contract that does not hold what was admitted raises.
SubmitRequest(r) ==
  /\ progress = "idle" /\ submissions < MaxSubmissions
  /\ submissions' = submissions + 1
  /\ IF RequestAdmitted(r) /\ ContractHolds(r)
     THEN /\ request' = r /\ progress' = "running"
          /\ bindings' = [w \in Workflows(r) |-> ExecuteTask(r, w).actions]
     ELSE UNCHANGED <<request, progress, bindings>>
  /\ arrived' = {} /\ results' = <<>>
  /\ UNCHANGED files

Arrive(w) ==
  /\ progress = "running" /\ w \in Workflows(request) \ arrived
  /\ arrived' = arrived \cup {w}
  /\ UNCHANGED <<request, progress, bindings, results, files, submissions>>

\* A thread waits for ten seconds; then the barrier breaks for all of them.
BreakBarrier ==
  /\ progress = "running" /\ arrived # {} /\ arrived # Workflows(request)
  /\ progress' = "idle" /\ request' = Vacant
  /\ UNCHANGED <<bindings, arrived, results, files, submissions>>

RunWorker(w) ==
  /\ progress = "running" /\ arrived = Workflows(request) /\ w \notin DOMAIN results
  /\ results' = [x \in DOMAIN results \cup {w} |-> IF x = w THEN ExecuteTask(request, w) ELSE results[x]]
  /\ UNCHANGED <<request, progress, bindings, arrived, files, submissions>>

\* validate_worker_output: the verdict is that of the checks shown, and the
\* provenance cites something, of the packet only.
ValidOutput(output, sources) ==
  /\ output.verdict = \A i \in DOMAIN output.shown : output.shown[i]
  /\ output.refs # {} /\ output.refs \subseteq sources

\* verify_personal_execution, on what the threads returned.
Verified ==
  \A w \in Workflows(request) :
    /\ ValidOutput(results[w], Input(request, w).sources)
    /\ results[w].actions \subseteq RequiredApprovals(w)
    /\ results[w].actions = bindings[w]
    /\ results[w].actions # {} => results[w].verdict

Join ==
  /\ progress = "running" /\ DOMAIN results = Workflows(request)
  /\ progress' = IF Verified THEN FileOrder[1] ELSE "unverified"
  /\ UNCHANGED <<request, bindings, arrived, results, files, submissions>>

\* write_personal_execution replaces one file after the other.
WriteNext ==
  \E i \in DOMAIN FileOrder :
    /\ progress = FileOrder[i]
    /\ files' = [files EXCEPT ![progress] = [request |-> request, results |-> results]]
    /\ IF i = Len(FileOrder)
       THEN progress' = "idle" /\ request' = Vacant
       ELSE progress' = FileOrder[i + 1] /\ UNCHANGED request
    /\ UNCHANGED <<bindings, arrived, results, submissions>>

ProcessStops ==
  /\ progress # "idle"
  /\ progress' = "idle" /\ request' = Vacant
  /\ UNCHANGED <<bindings, arrived, results, files, submissions>>

PersonalNext ==
  \/ \E r \in PersonalRequests : SubmitRequest(r)
  \/ request # Vacant /\ \E w \in Workflows(request) : Arrive(w) \/ RunWorker(w)
  \/ BreakBarrier \/ Join \/ WriteNext \/ ProcessStops

PersonalSpec == PersonalInit /\ [][PersonalNext]_personalVars

(***************************************************************************)
(* Properties.                                                              *)
(***************************************************************************)
\* Sources a workflow may rely on, of the request as written.
OnRecord(r, w, fact) ==
  \E s \in r.evidence : s.intact /\ s.id \in Input(r, w).sources /\ fact \in s.facts

\* An action a person finds in the approval outbox is backed by what the
\* evidence of its own packet says of the very candidate: every check of it
\* passed, nineteen in twenty evaluated cases were fast enough, and a calendar
\* change is offered exactly when two events of the week overlap.  The verdicts
\* and the checks shown with them, computed apart, never fail the verifier.
OutboxIsBacked ==
  /\ progress # "unverified"
  /\ files["approvals"] # Vacant =>
    LET r == files["approvals"].request
        asked(w) == files["approvals"].results[w].actions
        passed(w, subject) == \A c \in Input(r, w).checks : OnRecord(r, w, <<"passed", c.id, subject>>)
    IN \A w \in Workflows(r) : asked(w) # {} =>
         LET input == Input(r, w) IN
         /\ w \in {"goal", "issue"} => passed(w, input.subject)
         /\ w = "issue" => OnRecord(r, w, <<"issue", input.subject>>)
         /\ w = "roadmap" => passed(w, input.option) /\ OnRecord(r, w, <<"decision", input.option>>)
         /\ w = "eval" => 20 * Cardinality({c \in input.records : c.latency <= input.limits.latency})
                            >= 19 * Cardinality(input.records)
         /\ w = "weekly" => ("calendar.write" \in asked(w)) = \E d, e \in input.events :
                                                                d # e /\ d.start < e.end /\ e.start < d.end
=============================================================================
