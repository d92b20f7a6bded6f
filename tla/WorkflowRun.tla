----------------------------- MODULE WorkflowRun -----------------------------
(* The eighteen-step workflow (orchestration/), its resumable run state and  *)
(* the retention sweep that deletes run directories (privacy/retention.py).  *)
(* One process executes the run at a time, may die anywhere and is resumed;  *)
(* people rule on escalations; sweeps started by other processes pass over   *)
(* the directory meanwhile.                                                  *)
EXTENDS Integers, FiniteSets, Sequences

CONSTANTS
  Specs,        \* the specifications: what each stage will make of them
  LegacyStates, \* state files written before retention was recorded
  RetentionDays,
  DefaultDays,  \* the retention of a state file without one
  Tasks,        \* the number of tasks implement commits
  LastDay,      \* bound on time
  MaxResumes,   \* bound on resumptions
  MaxRulings,   \* bound on rulings
  NoState

VARIABLES
  day,
  spec,         \* the specification of this run
  place,        \* the run directory's path: "run", "gone", or "ghost" when made anew
  disk,         \* state.json at that path, or NoState
  worker,       \* the process that executes the run
  sweep,        \* where the sweep that holds the root's lock is
  tombstone,    \* the renamed directory is still there
  workspace,    \* the git repository: code committed, fixed, merged to main
  artifacts,    \* what stages leave for later ones
  escalations,  \* escalations raised, by key
  rulings,      \* escalation -> whether it was approved
  ruled,        \* rulings given, bounded by MaxRulings
  resumes       \* resumptions, bounded by MaxResumes

workflowVars == <<day, spec, place, disk, worker, sweep, tombstone, workspace, artifacts, escalations, rulings,
                  ruled, resumes>>

StepOrder ==
  <<"ingest", "validate", "plan", "architecture", "acceptance", "generate_tests", "confirm_red", "implement",
    "quality_gates", "create_pr", "review", "fix", "retest", "merge_gate", "merge", "deploy", "verify", "report">>

Steps == {StepOrder[i] : i \in DOMAIN StepOrder}

Complete == {"done", "skipped"}

TerminalOutcomes == {"blocked", "failed", "no_merge", "success"}

(* A run state: the steps' statuses, the last day a step finished, the       *)
(* outcome ("" while running), when it was first completed, and its          *)
(* retention, NoState in a file that records none.                           *)
NewState ==
  [status |-> [step \in Steps |-> "pending"], finished |-> NoState, outcome |-> "", completed |-> NoState,
   days |-> RetentionDays]

Statuses == {"pending", "running", "done", "blocked", "failed", "skipped"}

RunStates ==
  [status : [Steps -> Statuses], finished : Nat \cup {NoState}, outcome : TerminalOutcomes \cup {""},
   completed : Nat \cup {NoState}, days : Nat \cup {NoState}]

ASSUME WorkflowAssumption ==
  /\ {RetentionDays, DefaultDays, Tasks, LastDay, MaxResumes, MaxRulings} \subseteq Nat
  /\ NoState \notin Steps \cup Nat \cup RunStates
  /\ Specs \subseteq [schema : BOOLEAN, structural : BOOLEAN, questions : BOOLEAN, irreversible : BOOLEAN,
                      vacuous : BOOLEAN, findings : {"none", "safe", "blocking"}, gates : BOOLEAN, traceable : BOOLEAN]

\* An old run had stopped for a ruling on its specification.
ASSUME LegacyAssumption ==
  /\ LegacyStates \subseteq RunStates
  /\ \A state \in LegacyStates :
       /\ state.outcome = "blocked"
       /\ \A step \in Steps :
            state.status[step] = "pending" \/ (step \in {"ingest", "validate"} /\ state.status[step] # "skipped")

\* next_step: the first that is not complete; NoState when there is none.
NextStep(state) ==
  LET open == {i \in DOMAIN StepOrder : state.status[StepOrder[i]] \notin Complete} IN
  IF open = {} THEN NoState ELSE StepOrder[CHOOSE i \in open : \A j \in open : i <= j]

Mark(state, steps, status) ==
  [state EXCEPT !.status = [step \in Steps |-> IF step \in steps THEN status ELSE @[step]],
                !.finished = IF status \in {"pending", "running"} THEN @ ELSE day]

\* save stamps the completion once, with the first outcome, and binds the
\* retention.
Stamped(state) ==
  [state EXCEPT !.completed = IF state.outcome # "" /\ @ = NoState THEN day ELSE @,
                !.days = IF @ = NoState THEN DefaultDays ELSE @]

Ended == [at |-> "ended"]

\* save: a state to write under the directory's lock, and what comes after.
Save(state, then) ==
  worker' = [at |-> "open", state |-> Stamped(state), then |-> then, part |-> 0, lock |-> NoState]

Continue(at) == worker' = [worker EXCEPT !.at = at, !.part = 0]

\* A new run saves its first state; an old one is found on disk.
WorkflowInit ==
  /\ day = 0 /\ place = "run" /\ sweep = "idle" /\ tombstone = FALSE
  /\ spec \in Specs
  /\ workspace = [made |-> FALSE, code |-> 0, fixed |-> FALSE, main |-> FALSE]
  /\ artifacts = [review |-> NoState, retest |-> NoState, decision |-> NoState, healthy |-> NoState]
  /\ rulings = <<>> /\ ruled = 0 /\ resumes = 0
  /\ \/ /\ disk = NoState /\ escalations = {}
        /\ worker = [at |-> "open", state |-> Stamped(NewState), then |-> "context", part |-> 0, lock |-> NoState]
     \/ /\ disk \in LegacyStates /\ escalations = {"validate"} /\ spec.questions
        /\ worker = Ended

(***************************************************************************)
(* Saving and loading the state.                                            *)
(***************************************************************************)
SweepHolds == sweep \in {"locked", "renaming"}

\* The lock file is opened by its path, which may be the new directory's.
OpenLock ==
  /\ worker.at = "open"
  /\ worker' = IF place = "gone" THEN Ended ELSE [worker EXCEPT !.at = "waiting", !.lock = place]
  /\ UNCHANGED <<day, spec, place, disk, sweep, tombstone, workspace, artifacts, escalations, rulings, ruled, resumes>>

LockStateUnchecked ==
  /\ worker.at = "waiting"
  /\ worker.lock = "run" => ~SweepHolds
  /\ worker' = [worker EXCEPT !.at = "held"]
  /\ UNCHANGED <<day, spec, place, disk, sweep, tombstone, workspace, artifacts, escalations, rulings, ruled, resumes>>

\* Under the lock the path has to be the directory the state came from; a
\* missing or replaced one raises.
LockState ==
  /\ worker.at = "waiting"
  /\ worker.lock = "run" => ~SweepHolds
  /\ worker' = IF place = "run" THEN [worker EXCEPT !.at = "held"] ELSE Ended
  /\ UNCHANGED <<day, spec, place, disk, sweep, tombstone, workspace, artifacts, escalations, rulings, ruled, resumes>>

\* atomic_write_json makes the directory if it is not there.
WriteState ==
  /\ worker.at = "held"
  /\ disk' = worker.state
  /\ place' = IF place = "gone" THEN "ghost" ELSE place
  /\ Continue(worker.then)
  /\ UNCHANGED <<day, spec, sweep, tombstone, workspace, artifacts, escalations, rulings, ruled, resumes>>

\* resume, by a new process: load waits for the lock as well.
Resume ==
  /\ worker.at = "ended" /\ resumes < MaxResumes
  /\ place = "run" /\ disk # NoState /\ ~SweepHolds
  /\ resumes' = resumes + 1
  /\ worker' = [at |-> "context", state |-> [disk EXCEPT !.days = IF @ = NoState THEN DefaultDays ELSE @],
                then |-> NoState, part |-> 0, lock |-> NoState]
  /\ UNCHANGED <<day, spec, place, disk, sweep, tombstone, workspace, artifacts, escalations, rulings, ruled>>

\* RunContext: the artifact store and the event log make the directory anew
\* when it has been swept since the load.
MakeContext ==
  /\ worker.at = "context"
  /\ place' = IF place = "gone" THEN "ghost" ELSE place
  /\ Continue("loop")
  /\ UNCHANGED <<day, spec, disk, sweep, tombstone, workspace, artifacts, escalations, rulings, ruled, resumes>>

(***************************************************************************)
(* The loop over the steps.                                                 *)
(***************************************************************************)
Current == NextStep(worker.state)

BeginStep ==
  /\ worker.at = "loop" /\ Current # NoState
  /\ Save(Mark(worker.state, {Current}, "running"), "handler")
  /\ UNCHANGED <<day, spec, place, disk, sweep, tombstone, workspace, artifacts, escalations, rulings, ruled, resumes>>

\* Every step is complete: the outcome is the merge decision's.
FinishRun ==
  /\ worker.at = "loop" /\ Current = NoState
  /\ Save([worker.state EXCEPT !.outcome = IF artifacts.decision = "NO_MERGE" THEN "no_merge" ELSE "success"],
          "ended")
  /\ UNCHANGED <<day, spec, place, disk, sweep, tombstone, workspace, artifacts, escalations, rulings, ruled, resumes>>

Handling(step) == worker.at = "handler" /\ Current = step

Stops(status) ==
  Save([Mark(worker.state, {Current}, status) EXCEPT !.outcome = status], "ended")

\* Any handler can raise: a subprocess that times out, a full disk.
HandlerRaises ==
  /\ worker.at = "handler"
  /\ Stops("failed")
  /\ UNCHANGED <<day, spec, place, disk, sweep, tombstone, workspace, artifacts, escalations, rulings, ruled, resumes>>

\* A step that is still running when its handler returns is done.
CompleteStep ==
  /\ worker.at = "handled"
  /\ Save(Mark(worker.state, {Current}, "done"), "emit")
  /\ UNCHANGED <<day, spec, place, disk, sweep, tombstone, workspace, artifacts, escalations, rulings, ruled, resumes>>

\* The event log does not make the directory: the event fails without it.
EmitCompleted ==
  /\ worker.at = "emit"
  /\ worker' = IF place = "gone" THEN Ended ELSE [worker EXCEPT !.at = "loop"]
  /\ UNCHANGED <<day, spec, place, disk, sweep, tombstone, workspace, artifacts, escalations, rulings, ruled, resumes>>

WorkerDies ==
  /\ worker.at # "ended"
  /\ worker' = Ended
  /\ UNCHANGED <<day, spec, place, disk, sweep, tombstone, workspace, artifacts, escalations, rulings, ruled, resumes>>

(***************************************************************************)
(* The build half (steps_build.py).                                         *)
(***************************************************************************)
\* _escalate_or_pass for a decision of high risk: raised once under its key,
\* blocked until someone rules on it, failed when it is rejected.
EscalateOrPass(key) ==
  /\ escalations' = escalations \cup {key}
  /\ IF key \notin escalations \/ key \notin DOMAIN rulings THEN Stops("blocked")
     ELSE IF rulings[key] THEN Continue("handled")
     ELSE Stops("failed")

\* The stages whose products are recomputed on demand.
Produce ==
  /\ \E step \in {"plan", "acceptance", "quality_gates", "create_pr", "report"} : Handling(step)
  /\ Continue("handled")
  /\ UNCHANGED <<day, spec, place, disk, sweep, tombstone, workspace, artifacts, escalations, rulings, ruled, resumes>>

Ingest ==
  /\ Handling("ingest")
  /\ IF spec.schema THEN Continue("handled") ELSE Stops("failed")
  /\ UNCHANGED <<day, spec, place, disk, sweep, tombstone, workspace, artifacts, escalations, rulings, ruled, resumes>>

\* Structural defects cannot be approved.
ValidateSpec ==
  /\ Handling("validate")
  /\ IF spec.structural THEN Stops("failed") /\ UNCHANGED escalations
     ELSE IF spec.questions THEN EscalateOrPass("validate")
     ELSE Continue("handled") /\ UNCHANGED escalations
  /\ UNCHANGED <<day, spec, place, disk, sweep, tombstone, workspace, artifacts, rulings, ruled, resumes>>

Architecture ==
  /\ Handling("architecture")
  /\ IF spec.irreversible THEN EscalateOrPass("architecture") ELSE Continue("handled") /\ UNCHANGED escalations
  /\ UNCHANGED <<day, spec, place, disk, sweep, tombstone, workspace, artifacts, rulings, ruled, resumes>>

\* An interrupted workspace is removed and built again.
GenerateTests ==
  /\ Handling("generate_tests")
  /\ workspace' = [made |-> TRUE, code |-> 0, fixed |-> FALSE, main |-> FALSE]
  /\ Continue("handled")
  /\ UNCHANGED <<day, spec, place, disk, sweep, tombstone, artifacts, escalations, rulings, ruled, resumes>>

\* Tests that pass without an implementation are vacuous.
ConfirmRed ==
  /\ Handling("confirm_red")
  /\ IF spec.vacuous THEN Stops("failed") ELSE Continue("handled")
  /\ UNCHANGED <<day, spec, place, disk, sweep, tombstone, workspace, artifacts, escalations, rulings, ruled, resumes>>

\* One commit per task, from the first one on every attempt; git refuses an
\* empty commit.
ImplementTask ==
  /\ Handling("implement") /\ worker.part < Tasks
  /\ IF worker.part < workspace.code
     THEN Stops("failed") /\ UNCHANGED workspace
     ELSE /\ workspace' = [workspace EXCEPT !.code = @ + 1]
          /\ worker' = [worker EXCEPT !.part = @ + 1]
  /\ UNCHANGED <<day, spec, place, disk, sweep, tombstone, artifacts, escalations, rulings, ruled, resumes>>

Implemented ==
  /\ Handling("implement") /\ worker.part = Tasks
  /\ Continue("handled")
  /\ UNCHANGED <<day, spec, place, disk, sweep, tombstone, workspace, artifacts, escalations, rulings, ruled, resumes>>

(***************************************************************************)
(* The ship half (steps_ship.py).                                           *)
(***************************************************************************)
\* PrReviewer.review: "safe" findings are the ones the fixer may touch.
FindingsLeft == IF spec.findings = "safe" /\ workspace.fixed THEN "none" ELSE spec.findings

ReviewStep ==
  /\ Handling("review")
  /\ artifacts' = [artifacts EXCEPT !.review = FindingsLeft]
  /\ Continue("handled")
  /\ UNCHANGED <<day, spec, place, disk, sweep, tombstone, workspace, escalations, rulings, ruled, resumes>>

\* FixAgent applies what is allow-listed, by the review on file; fixing again
\* what is fixed leaves nothing to commit.  Blocking findings are escalated
\* without stopping the run.
Fix ==
  /\ Handling("fix")
  /\ IF artifacts.review = "safe" /\ worker.part = 0
     THEN /\ IF workspace.fixed THEN Stops("failed") ELSE worker' = [worker EXCEPT !.part = 1]
          /\ workspace' = [workspace EXCEPT !.fixed = TRUE]
          /\ UNCHANGED escalations
     ELSE /\ escalations' = IF artifacts.review = "blocking" THEN escalations \cup {"fix"} ELSE escalations
          /\ Continue("handled")
          /\ UNCHANGED workspace
  /\ UNCHANGED <<day, spec, place, disk, sweep, tombstone, artifacts, rulings, ruled, resumes>>

\* The required gates run on the workspace; tests may be flaky.
Retest ==
  /\ Handling("retest")
  /\ \E passed \in {FALSE, spec.gates} : artifacts' = [artifacts EXCEPT !.retest = passed]
  /\ Continue("handled")
  /\ UNCHANGED <<day, spec, place, disk, sweep, tombstone, workspace, escalations, rulings, ruled, resumes>>

\* MergeGate.decide.  Traceability is complete when every requirement maps to
\* code that is there.
MergeDecision ==
  IF /\ artifacts.retest
     /\ FindingsLeft # "blocking"
     /\ spec.traceable
     /\ \A key \in escalations : key \in DOMAIN rulings /\ rulings[key]
  THEN "MERGE" ELSE "NO_MERGE"

DecideMerge ==
  /\ Handling("merge_gate") /\ worker.part = 0
  /\ artifacts' = [artifacts EXCEPT !.decision = MergeDecision]
  /\ worker' = [worker EXCEPT !.part = 1]
  /\ UNCHANGED <<day, spec, place, disk, sweep, tombstone, workspace, escalations, rulings, ruled, resumes>>

Shipping == {"merge", "deploy", "verify"}

MarkShippingOnce ==
  /\ Handling("merge_gate") /\ worker.part = 1
  /\ Save(IF artifacts.decision = "NO_MERGE" THEN Mark(worker.state, Shipping, "skipped") ELSE worker.state, "handled")
  /\ UNCHANGED <<day, spec, place, disk, sweep, tombstone, workspace, artifacts, escalations, rulings, ruled, resumes>>

\* A refusal skips the rest; an admission takes back what an interrupted
\* attempt has skipped.  Either is saved before the gate itself is done.
MarkShipping ==
  /\ Handling("merge_gate") /\ worker.part = 1
  /\ Save(IF artifacts.decision = "NO_MERGE" THEN Mark(worker.state, Shipping, "skipped")
          ELSE Mark(worker.state, {step \in Shipping : worker.state.status[step] = "skipped"}, "pending"), "handled")
  /\ UNCHANGED <<day, spec, place, disk, sweep, tombstone, workspace, artifacts, escalations, rulings, ruled, resumes>>

\* Merging a merged branch changes nothing.
MergeToMain ==
  /\ Handling("merge")
  /\ workspace' = [workspace EXCEPT !.main = TRUE]
  /\ Continue("handled")
  /\ UNCHANGED <<day, spec, place, disk, sweep, tombstone, artifacts, escalations, rulings, ruled, resumes>>

\* The product is started, probed for health and walked through its journey.
Deploy ==
  /\ Handling("deploy")
  /\ \E healthy \in BOOLEAN :
       /\ artifacts' = [artifacts EXCEPT !.healthy = healthy]
       /\ IF healthy THEN Continue("handled") ELSE Stops("failed")
  /\ UNCHANGED <<day, spec, place, disk, sweep, tombstone, workspace, escalations, rulings, ruled, resumes>>

Verify ==
  /\ Handling("verify")
  /\ IF artifacts.healthy THEN Continue("handled") ELSE Stops("failed")
  /\ UNCHANGED <<day, spec, place, disk, sweep, tombstone, workspace, artifacts, escalations, rulings, ruled, resumes>>

(***************************************************************************)
(* People and time.                                                         *)
(***************************************************************************)
\* approve: a later ruling replaces an earlier one.
Approve ==
  /\ place = "run" /\ ruled < MaxRulings
  /\ \E key \in escalations, approved \in BOOLEAN :
       rulings' = [k \in DOMAIN rulings \cup {key} |-> IF k = key THEN approved ELSE rulings[k]]
  /\ ruled' = ruled + 1
  /\ UNCHANGED <<day, spec, place, disk, worker, sweep, tombstone, workspace, artifacts, escalations, resumes>>

NextDay ==
  /\ day < LastDay
  /\ day' = day + 1
  /\ UNCHANGED <<spec, place, disk, worker, sweep, tombstone, workspace, artifacts, escalations, rulings, ruled, resumes>>

(***************************************************************************)
(* The sweep (retention.py); the root's lock admits one at a time.          *)
(***************************************************************************)
\* _legacy_run_state_completion: the last step to finish, if the statuses
\* bear the outcome out.
LegacyCompletion(state) ==
  LET statuses == {state.status[step] : step \in Steps} IN
  IF /\ state.outcome \in TerminalOutcomes /\ state.finished # NoState
     /\ "running" \notin statuses
     /\ state.outcome = "blocked" => "blocked" \in statuses
     /\ state.outcome = "failed" => "failed" \in statuses
     /\ state.outcome \in {"no_merge", "success"} => "pending" \notin statuses
  THEN state.finished ELSE NoState

\* A state without retention fields is given the default ones for good.
Migrated(state) ==
  IF state.days = NoState /\ LegacyCompletion(state) # NoState
  THEN [state EXCEPT !.days = DefaultDays, !.completed = LegacyCompletion(state)] ELSE state

\* What may be deleted once its days are over: a terminal outcome with its
\* completion, and no step running.
Authenticated(state) ==
  /\ state.days # NoState /\ state.outcome \in TerminalOutcomes /\ state.completed # NoState
  /\ \A step \in Steps : state.status[step] # "running"

Expired(state) == Authenticated(state) /\ state.completed + state.days <= day

\* A tombstone that an earlier sweep left is removed; a directory with a
\* completion marker is tried.
SweepBegin ==
  /\ sweep = "idle"
  /\ tombstone \/ disk # NoState
  /\ tombstone' = FALSE
  /\ sweep' = IF disk # NoState THEN "marked" ELSE "idle"
  /\ UNCHANGED <<day, spec, place, disk, worker, workspace, artifacts, escalations, rulings, ruled, resumes>>

\* The directory's lock is only tried: a busy run is retained.
SweepLock ==
  /\ sweep = "marked"
  /\ sweep' = IF worker.at = "held" THEN "idle" ELSE "locked"
  /\ UNCHANGED <<day, spec, place, disk, worker, tombstone, workspace, artifacts, escalations, rulings, ruled, resumes>>

SweepJudge ==
  /\ sweep = "locked"
  /\ disk' = Migrated(disk)
  /\ sweep' = IF Expired(disk') THEN "renaming" ELSE "idle"
  /\ UNCHANGED <<day, spec, place, worker, tombstone, workspace, artifacts, escalations, rulings, ruled, resumes>>

SweepRename ==
  /\ sweep = "renaming"
  /\ place' = "gone" /\ disk' = NoState /\ tombstone' = TRUE
  /\ sweep' = "removing"
  /\ UNCHANGED <<day, spec, worker, workspace, artifacts, escalations, rulings, ruled, resumes>>

SweepRemove ==
  /\ sweep = "removing"
  /\ tombstone' = FALSE /\ sweep' = "idle"
  /\ UNCHANGED <<day, spec, place, disk, worker, workspace, artifacts, escalations, rulings, ruled, resumes>>

SweepDies ==
  /\ sweep # "idle"
  /\ sweep' = "idle"
  /\ UNCHANGED <<day, spec, place, disk, worker, tombstone, workspace, artifacts, escalations, rulings, ruled, resumes>>

Working ==
  \/ OpenLock \/ LockState \/ WriteState \/ Resume \/ MakeContext \/ BeginStep \/ FinishRun \/ HandlerRaises
  \/ CompleteStep \/ EmitCompleted \/ WorkerDies
  \/ Produce \/ Ingest \/ ValidateSpec \/ Architecture \/ GenerateTests \/ ConfirmRed \/ ImplementTask \/ Implemented
  \/ ReviewStep \/ Fix \/ Retest \/ DecideMerge \/ MarkShipping \/ MergeToMain \/ Deploy \/ Verify

Sweeping == SweepBegin \/ SweepLock \/ SweepJudge \/ SweepRename \/ SweepRemove \/ SweepDies

WorkflowNext == Working \/ Sweeping \/ Approve \/ NextDay

WorkflowSpec == WorkflowInit /\ [][WorkflowNext]_workflowVars

(***************************************************************************)
(* Properties.                                                              *)
(***************************************************************************)
\* A run says what became of it, however often it died and was resumed and
\* however rulings changed meanwhile: a run that succeeded was merged after a
\* decision to merge and is deployed healthily; one that did not merge left
\* main alone; and main has only code that passed its gates.
OutcomeIsTrue ==
  /\ disk # NoState /\ NextStep(disk) = NoState =>
       /\ disk.outcome = "success" => workspace.main /\ artifacts.healthy
       /\ disk.outcome = "no_merge" => ~workspace.main
  /\ workspace.main => artifacts.decision = "MERGE" /\ artifacts.retest /\ workspace.code = Tasks

\* A directory that was swept stays swept, and a step's handler works in its
\* run's directory: no process that loaded the run before, waited for its lock
\* or made the path anew writes a state there, and a sweep that passes while a
\* step starts, runs or is saved comes first and ends the run or spares it.
SweptStaysSwept ==
  /\ place # "run" => disk = NoState
  /\ worker.at \in {"handler", "handled", "held"} => place = "run"
=============================================================================
