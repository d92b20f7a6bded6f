--------------------------- MODULE WorkflowProofs ---------------------------
(* Proofs about the runs that lead work to a release, one section per        *)
(* component: the workflow run, the personal runtime, a personal execution   *)
(* and the frozen core run.  Each section states the inductive invariant its *)
(* component's properties rest on, shows that every action keeps it, and     *)
(* ends in the theorems.                                                     *)
EXTENDS WorkflowRun, PersonalRuntime, PersonalExecution, BarebonesRun,
        SequenceTheorems, FiniteSetTheorems, WellFoundedInduction, NaturalsInduction, TLAPS

-----------------------------------------------------------------------------
(* The workflow run *)

AllComplete(s) == \A step \in Steps : s.status[step] \in Complete
Done(s, step) == s.status[step] = "done"

\* next_step: the statuses decide it, and the steps before it are complete.
LEMMA StepsAre ==
  Steps = {"ingest", "validate", "plan", "architecture", "acceptance", "generate_tests", "confirm_red", "implement",
    "quality_gates", "create_pr", "review", "fix", "retest", "merge_gate", "merge", "deploy", "verify", "report"}
<1>1. DOMAIN StepOrder = {1, 2, 3, 4, 5, 6, 7, 8, 9, 10, 11, 12, 13, 14, 15, 16, 17, 18}
  BY DEF StepOrder
<1> QED BY <1>1 DEF Steps, StepOrder

LEMMA LeastIndex ==
  ASSUME NEW S, S \subseteq DOMAIN StepOrder, S # {}
  PROVE \E i \in S : \A j \in S : i <= j
<1>1. S \subseteq Nat
  BY DEF StepOrder
<1>2. PICK i \in S : \A j \in S : ~(<<j, i>> \in OpToRel(<, Nat))
  <2> HIDE DEF StepOrder
  <2> QED BY <1>1, NatLessThanWellFounded, WFMin
<1>3. \A j \in S : ~(j < i)
  BY <1>1, <1>2 DEF OpToRel
<1> QED BY <1>1, <1>3

LEMMA NextStepFacts ==
  ASSUME NEW s, s.status \in [Steps -> Statuses]
  PROVE /\ NextStep(s) = NoState => AllComplete(s)
        /\ NextStep(s) # NoState =>
             \E i \in DOMAIN StepOrder :
               /\ NextStep(s) = StepOrder[i]
               /\ s.status[StepOrder[i]] \notin Complete
               /\ \A j \in DOMAIN StepOrder : j < i => s.status[StepOrder[j]] \in Complete
<1> DEFINE open == {i \in DOMAIN StepOrder : s.status[StepOrder[i]] \notin Complete}
<1>0. \A i \in DOMAIN StepOrder : StepOrder[i] \in Steps
  BY DEF Steps
<1>d. DOMAIN StepOrder \subseteq Nat
  BY DEF StepOrder
<1>1. CASE open = {}
  <2>1. NextStep(s) = NoState
    BY <1>1 DEF NextStep
  <2>2. AllComplete(s)
    BY <1>1 DEF AllComplete, Steps
  <2> QED BY <2>1, <2>2
<1>2. CASE open # {}
  <2> DEFINE least == CHOOSE i \in open : \A j \in open : i <= j
  <2>1. least \in open /\ \A j \in open : least <= j
    BY <1>2, LeastIndex
  <2>2. NextStep(s) = StepOrder[least]
    BY <1>2 DEF NextStep
  <2> HIDE DEF least
  <2>3. NextStep(s) # NoState
    BY <1>0, <2>1, <2>2, WorkflowAssumption
  <2>4. \A j \in DOMAIN StepOrder : j < least => s.status[StepOrder[j]] \in Complete
    BY <1>d, <2>1
  <2> QED BY <2>1, <2>2, <2>3, <2>4
<1> QED BY <1>1, <1>2

LEMMA PlacesAre ==
  /\ DOMAIN StepOrder = 1..18
  /\ \A i \in 1..18 : StepOrder[i] \in Steps
  /\ \A i \in 1..18 :
       /\ StepOrder[i] = "generate_tests" => i = 6
       /\ StepOrder[i] = "implement" => i = 8
       /\ StepOrder[i] = "retest" => i = 13
       /\ StepOrder[i] = "merge_gate" => i = 14
       /\ StepOrder[i] = "merge" => i = 15
       /\ StepOrder[i] = "deploy" => i = 16
       /\ StepOrder[i] = "verify" => i = 17
  /\ StepOrder[6] = "generate_tests" /\ StepOrder[8] = "implement" /\ StepOrder[13] = "retest"
  /\ StepOrder[14] = "merge_gate"
<1>1. DOMAIN StepOrder = 1..18
  BY DEF StepOrder
<1>2. \A i \in 1..18 : i \in {1, 2, 3, 4, 5, 6, 7, 8, 9, 10, 11, 12, 13, 14, 15, 16, 17, 18}
  OBVIOUS
<1>3. \A i \in 1..18 : StepOrder[i] \in Steps
  BY <1>1 DEF Steps
<1> QED BY <1>1, <1>2, <1>3 DEF StepOrder

LEMMA NextStepFollows ==
  ASSUME NEW s, s.status \in [Steps -> Statuses]
  PROVE /\ NextStep(s) = NoState => AllComplete(s)
        /\ NextStep(s) # NoState => NextStep(s) \in Steps /\ s.status[NextStep(s)] \notin Complete
        /\ NextStep(s) = "implement" => s.status["generate_tests"] \in Complete
        /\ NextStep(s) = "merge_gate" => s.status["implement"] \in Complete /\ s.status["retest"] \in Complete
        /\ NextStep(s) \in Shipping => s.status["merge_gate"] \in Complete
<1>1. CASE NextStep(s) = NoState
  BY <1>1, NextStepFacts, StepsAre, WorkflowAssumption DEF Shipping
<1>2. CASE NextStep(s) # NoState
  <2>1. PICK i \in 1..18 :
          /\ NextStep(s) = StepOrder[i]
          /\ s.status[StepOrder[i]] \notin Complete
          /\ \A j \in 1..18 : j < i => s.status[StepOrder[j]] \in Complete
    BY <1>2, NextStepFacts, PlacesAre
  <2> QED BY <1>2, <2>1, PlacesAre DEF Shipping
<1> QED BY <1>1, <1>2

\* Steps after the next one do not count.
LEMMA NextStepStays ==
  ASSUME NEW s, s.status \in [Steps -> Statuses], NEW t, t.status \in [Steps -> Statuses],
         \A step \in Steps \ Shipping : t.status[step] = s.status[step],
         NextStep(s) = "merge_gate"
  PROVE NextStep(t) = "merge_gate"
<1>1. "merge_gate" # NoState
  BY StepsAre, WorkflowAssumption
<1>2. /\ s.status["merge_gate"] \notin Complete
      /\ \A j \in 1..18 : j < 14 => s.status[StepOrder[j]] \in Complete
  BY <1>1, NextStepFacts, PlacesAre
<1>3. \A j \in 1..14 : StepOrder[j] \in Steps \ Shipping
  BY PlacesAre DEF Shipping
<1>4. /\ t.status["merge_gate"] \notin Complete
      /\ \A j \in 1..18 : j < 14 => t.status[StepOrder[j]] \in Complete
  BY <1>2, <1>3, PlacesAre
<1>5. ~AllComplete(t)
  BY <1>4, StepsAre DEF AllComplete
<1>6. PICK i \in 1..18 :
          /\ NextStep(t) = StepOrder[i]
          /\ t.status[StepOrder[i]] \notin Complete
          /\ \A j \in 1..18 : j < i => t.status[StepOrder[j]] \in Complete
  BY <1>5, NextStepFacts, PlacesAre
<1>7. i = 14
  BY <1>4, <1>6, PlacesAre
<1> QED BY <1>6, <1>7, PlacesAre

LEMMA NextStepSame ==
  ASSUME NEW s, NEW t,
         \A step \in Steps : t.status[step] \in Complete <=> s.status[step] \in Complete
  PROVE NextStep(t) = NextStep(s)
<1>1. \A i \in DOMAIN StepOrder : StepOrder[i] \in Steps
  BY DEF Steps
<1> DEFINE Open(r) == {i \in DOMAIN StepOrder : r.status[StepOrder[i]] \notin Complete}
<1>2. Open(t) = Open(s)
  BY <1>1
<1>3. \A r : NextStep(r) = IF Open(r) = {} THEN NoState ELSE StepOrder[CHOOSE i \in Open(r) : \A j \in Open(r) : i <= j]
  BY DEF NextStep
<1> HIDE DEF Open
<1> QED BY <1>2, <1>3

\* What mark and save change of a state.
LEMMA MarkFacts ==
  ASSUME NEW s \in RunStates, NEW steps \in SUBSET Steps, NEW status \in Statuses, day \in Nat
  PROVE /\ Mark(s, steps, status) \in RunStates
        /\ Mark(s, steps, status).outcome = s.outcome
        /\ \A step \in Steps : Mark(s, steps, status).status[step] = IF step \in steps THEN status ELSE s.status[step]
BY DEF Mark, RunStates

LEMMA OutcomeFacts ==
  ASSUME NEW s \in RunStates, NEW outcome \in TerminalOutcomes
  PROVE /\ [s EXCEPT !.outcome = outcome] \in RunStates
        /\ [s EXCEPT !.outcome = outcome].outcome = outcome
        /\ [s EXCEPT !.outcome = outcome].status = s.status
BY DEF RunStates

LEMMA StampedFacts ==
  ASSUME NEW s \in RunStates, day \in Nat
  PROVE /\ Stamped(s) \in RunStates
        /\ Stamped(s).status = s.status /\ Stamped(s).outcome = s.outcome
<1>1. DefaultDays \in Nat
  BY WorkflowAssumption
<1> QED BY <1>1 DEF Stamped, RunStates

LEMMA MigratedFacts ==
  ASSUME NEW s \in RunStates, day \in Nat
  PROVE /\ Migrated(s) \in RunStates
        /\ Migrated(s).status = s.status /\ Migrated(s).outcome = s.outcome
<1>1. DefaultDays \in Nat
  BY WorkflowAssumption
<1>2. LegacyCompletion(s) \in Nat \cup {NoState}
  BY DEF LegacyCompletion, RunStates
<1> QED BY <1>1, <1>2 DEF Migrated, RunStates

\* The merge gate's marks agree with the decision on file.
Decided(s, a) ==
  \/ a.decision = "NO_MERGE" /\ s.status["merge"] = "skipped"
  \/ a.decision = "MERGE" /\ a.retest /\ s.status["merge"] # "skipped" /\ s.status["deploy"] # "skipped"

(* What a state's complete steps say of the workspace and the artifacts, on    *)
(* disk or in the worker: w and a are the workspace and the artifacts.         *)
StateInv(s, w, a) ==
  /\ \A step \in Steps : s.status[step] = "skipped" => step \in Shipping
  /\ Done(s, "implement") => Done(s, "generate_tests") /\ w.code = Tasks
  /\ Done(s, "merge_gate") => Done(s, "implement") /\ Done(s, "retest") /\ Decided(s, a)
  /\ Done(s, "merge") => Done(s, "merge_gate") /\ w.main
  /\ Done(s, "deploy") => a.healthy
  /\ w.main => Done(s, "merge_gate") /\ a.decision = "MERGE" /\ a.retest /\ w.code = Tasks
  /\ s.outcome = "success" => AllComplete(s) /\ a.decision = "MERGE"
  /\ s.outcome = "no_merge" => AllComplete(s) /\ a.decision = "NO_MERGE"

\* What the next step's handler leaves when it is handled.
HandledInv(s, w, a) ==
  /\ NextStep(s) = "implement" => w.code = Tasks
  /\ NextStep(s) = "merge" => w.main
  /\ NextStep(s) = "deploy" => a.healthy
  /\ NextStep(s) = "merge_gate" => Decided(s, a)

LEMMA StateInvSame ==
  ASSUME NEW s \in RunStates, NEW t \in RunStates, t.status = s.status, t.outcome = s.outcome,
         NEW w, NEW a, StateInv(s, w, a)
  PROVE StateInv(t, w, a)
BY DEF StateInv, Decided, Done, AllComplete

LEMMA HandledInvSame ==
  ASSUME NEW s, NEW t, t.status = s.status, NEW w, NEW a, HandledInv(s, w, a)
  PROVE HandledInv(t, w, a)
<1>1. NextStep(t) = NextStep(s)
  BY NextStepSame
<1> QED BY <1>1 DEF HandledInv, Decided

\* A step that begins or stops is no more complete than before.
LEMMA StateInvOpen ==
  ASSUME NEW s \in RunStates, NEW t \in RunStates, NEW w, NEW a, StateInv(s, w, a), NextStep(s) # NoState,
         NEW status \in {"running", "blocked", "failed"},
         \A step \in Steps : t.status[step] = IF step = NextStep(s) THEN status ELSE s.status[step],
         t.outcome \in {s.outcome, "blocked", "failed"}
  PROVE StateInv(t, w, a) /\ NextStep(t) = NextStep(s) /\ t.status[NextStep(s)] = status
<1>1. NextStep(s) \in Steps /\ s.status[NextStep(s)] \notin Complete
  BY NextStepFollows DEF RunStates
<1>2. \A step \in Steps : t.status[step] \in Complete <=> s.status[step] \in Complete
  BY <1>1 DEF Complete
<1>3. \A step \in Steps : /\ Done(t, step) <=> Done(s, step)
                          /\ t.status[step] = "skipped" <=> s.status[step] = "skipped"
  BY <1>1 DEF Complete, Done
<1>4. ~AllComplete(s)
  BY <1>1 DEF AllComplete
<1>5. s.outcome \notin {"success", "no_merge"} /\ t.outcome \notin {"success", "no_merge"}
  BY <1>4 DEF StateInv
<1>6. Decided(t, a) <=> Decided(s, a)
  BY <1>3, StepsAre DEF Decided
<1>7. StateInv(t, w, a)
  BY <1>3, <1>5, <1>6, StepsAre DEF StateInv
<1> QED BY <1>1, <1>2, <1>7, NextStepSame

\* A handled step is complete.
LEMMA StateInvDone ==
  ASSUME NEW s \in RunStates, NEW t \in RunStates, NEW w, NEW a, StateInv(s, w, a), NextStep(s) # NoState,
         HandledInv(s, w, a),
         \A step \in Steps : t.status[step] = IF step = NextStep(s) THEN "done" ELSE s.status[step],
         t.outcome = s.outcome
  PROVE StateInv(t, w, a)
<1> DEFINE next == NextStep(s)
<1>1. next \in Steps /\ s.status[next] \notin Complete
  BY NextStepFollows DEF RunStates
<1>2. /\ next = "implement" => Done(s, "generate_tests")
      /\ next = "merge_gate" => Done(s, "implement") /\ Done(s, "retest")
      /\ next \in Shipping => Done(s, "merge_gate")
  <2>1. \A step \in {"generate_tests", "implement", "retest", "merge_gate"} : s.status[step] \in Complete => Done(s, step)
    BY StepsAre DEF StateInv, Shipping, Complete, Done
  <2> QED BY <2>1, NextStepFollows DEF RunStates
<1>3. ~AllComplete(s)
  BY <1>1 DEF AllComplete
<1>4. t.outcome \notin {"success", "no_merge"}
  BY <1>3 DEF StateInv
<1> HIDE DEF next
<1>5. \A step \in Steps : /\ Done(t, step) <=> Done(s, step) \/ step = next
                          /\ t.status[step] = "skipped" <=> s.status[step] = "skipped"
  BY <1>1 DEF Complete, Done, next
<1>6. Decided(t, a) <=> Decided(s, a)
  BY <1>5, StepsAre DEF Decided
<1>7. \A step \in Steps : t.status[step] = "skipped" => step \in Shipping
  BY <1>5 DEF StateInv
<1>8. Done(t, "implement") => Done(t, "generate_tests") /\ w.code = Tasks
  BY <1>2, <1>5, StepsAre DEF StateInv, HandledInv, next
<1>9. Done(t, "merge_gate") => Done(t, "implement") /\ Done(t, "retest") /\ Decided(t, a)
  BY <1>2, <1>5, <1>6, StepsAre DEF StateInv, HandledInv, next
<1>10. Done(t, "merge") => Done(t, "merge_gate") /\ w.main
  BY <1>2, <1>5, StepsAre DEF StateInv, HandledInv, next, Shipping
<1>11. Done(t, "deploy") => a.healthy
  BY <1>5, StepsAre DEF StateInv, HandledInv, next
<1>12. w.main => Done(t, "merge_gate") /\ a.decision = "MERGE" /\ a.retest /\ w.code = Tasks
  BY <1>5, StepsAre DEF StateInv
<1> QED BY <1>4, <1>7, <1>8, <1>9, <1>10, <1>11, <1>12 DEF StateInv

\* The gate marks the steps that ship.
LEMMA StateInvShipping ==
  ASSUME NEW s \in RunStates, NEW t \in RunStates, NEW w, NEW a, StateInv(s, w, a), NextStep(s) = "merge_gate",
         NEW steps \in SUBSET Shipping, NEW status \in {"skipped", "pending"},
         \A step \in Steps : t.status[step] = IF step \in steps THEN status ELSE s.status[step],
         status = "pending" => \A step \in steps : s.status[step] = "skipped",
         t.outcome = s.outcome
  PROVE StateInv(t, w, a) /\ NextStep(t) = "merge_gate" /\ t.status["merge_gate"] = s.status["merge_gate"]
<1>0. {"merge_gate", "implement", "generate_tests", "retest"} \cap Shipping = {} /\ Shipping \subseteq Steps
  BY StepsAre DEF Shipping
<1>1. NextStep(t) = "merge_gate"
  BY NextStepStays DEF RunStates
<1>2. s.status["merge_gate"] \notin Complete
  BY NextStepFollows, StepsAre, WorkflowAssumption DEF RunStates
<1>3. ~Done(s, "merge_gate") /\ ~AllComplete(s)
  BY <1>2, StepsAre DEF AllComplete, Done, Complete
<1>4. ~w.main /\ ~Done(s, "merge") /\ s.outcome \notin {"success", "no_merge"}
  BY <1>3 DEF StateInv
<1>5. \A step \in {"merge_gate", "implement", "generate_tests", "retest"} : t.status[step] = s.status[step]
  BY <1>0, StepsAre
<1>6. \A step \in Steps : Done(t, step) => Done(s, step)
  BY DEF Done
<1>7. \A step \in Steps : t.status[step] = "skipped" => step \in Shipping
  BY DEF StateInv
<1>8. StateInv(t, w, a)
  BY <1>3, <1>4, <1>5, <1>6, <1>7, StepsAre DEF StateInv, Done
<1> QED BY <1>1, <1>5, <1>8

\* The handler of the next step changes only what its step answers for.
LEMMA StateInvHandler ==
  ASSUME NEW s \in RunStates, NEW w, NEW a, StateInv(s, w, a), NextStep(s) # NoState, NEW w2, NEW a2,
         w2.code = w.code \/ NextStep(s) \in {"generate_tests", "implement"},
         (w2.main => w.main) \/ NextStep(s) = "merge",
         (w.main => w2.main) \/ NextStep(s) = "generate_tests",
         (a.retest => a2.retest) \/ NextStep(s) = "retest",
         a2.decision = a.decision \/ NextStep(s) = "merge_gate",
         (a.healthy => a2.healthy) \/ NextStep(s) = "deploy"
  PROVE StateInv(s, w2, a2)
<1> DEFINE next == NextStep(s)
<1>1. next \in Steps /\ s.status[next] \notin Complete
  BY NextStepFollows DEF RunStates
<1>2. ~Done(s, next) /\ ~AllComplete(s) /\ s.outcome \notin {"success", "no_merge"}
  BY <1>1 DEF AllComplete, Complete, Done, StateInv
<1>3. next = "merge" => /\ Done(s, "merge_gate") /\ Done(s, "implement") /\ a.decision = "MERGE" /\ a.retest
                        /\ w.code = Tasks
  <2> SUFFICES ASSUME next = "merge"
               PROVE Done(s, "merge_gate") /\ Done(s, "implement") /\ a.decision = "MERGE" /\ a.retest /\ w.code = Tasks
    OBVIOUS
  <2>1. s.status["merge_gate"] \in Complete /\ s.status["merge_gate"] # "skipped"
    BY NextStepFollows, StepsAre DEF RunStates, Shipping, StateInv
  <2>2. Done(s, "merge_gate")
    BY <2>1 DEF Complete, Done
  <2>3. s.status["merge"] # "skipped"
    BY <1>1 DEF Complete
  <2> QED BY <2>2, <2>3 DEF StateInv, Decided
<1> HIDE DEF next
<1>4. next \in {"generate_tests", "implement", "retest", "merge_gate"} => ~Done(s, "merge_gate") /\ ~w.main /\ ~Done(s, "merge")
  BY <1>2 DEF StateInv
<1>5. next \in {"generate_tests", "implement"} => ~Done(s, "implement")
  BY <1>2 DEF StateInv
<1>6. Done(s, "merge_gate") => Decided(s, a2)
  BY <1>4 DEF StateInv, Decided, next
<1>7. Done(s, "merge") => w2.main
  BY <1>4 DEF StateInv, next
<1>8. Done(s, "deploy") => a2.healthy
  BY <1>2 DEF StateInv, next
<1>9. Done(s, "implement") => w2.code = Tasks
  BY <1>5 DEF StateInv, next
<1>10. w2.main => Done(s, "merge_gate") /\ a2.decision = "MERGE" /\ a2.retest /\ w2.code = Tasks
  <2> SUFFICES ASSUME w2.main PROVE Done(s, "merge_gate") /\ a2.decision = "MERGE" /\ a2.retest /\ w2.code = Tasks
    OBVIOUS
  <2>1. CASE next = "merge"
    BY <1>3, <2>1 DEF next
  <2>2. CASE next # "merge"
    <3>1. w.main
      BY <2>2 DEF next
    <3> QED BY <1>4, <3>1 DEF StateInv, next
  <2> QED BY <2>1, <2>2
<1> QED BY <1>2, <1>6, <1>7, <1>8, <1>9, <1>10 DEF StateInv

Workers ==
  [at : {"open", "waiting", "held", "context", "loop", "handler", "handled", "emit"}, state : RunStates,
   then : {"context", "handler", "handled", "emit", "ended", NoState}, part : Nat, lock : {"run", "ghost", NoState}]

Workspaces == [made : BOOLEAN, code : 0..Tasks, fixed : BOOLEAN, main : BOOLEAN]

Artifacts ==
  [review : {"none", "safe", "blocking", NoState}, retest : BOOLEAN \cup {NoState},
   decision : {"MERGE", "NO_MERGE", NoState}, healthy : BOOLEAN \cup {NoState}]

WorkflowTypeOK ==
  /\ day \in Nat /\ spec \in Specs
  /\ place \in {"run", "gone", "ghost"}
  /\ disk = NoState \/ disk \in RunStates
  /\ worker.at = "ended" \/ worker \in Workers
  /\ sweep \in {"idle", "marked", "locked", "renaming", "removing"}
  /\ workspace \in Workspaces
  /\ artifacts \in Artifacts

\* The lock, the directory and what a sweep has found.
LockInv ==
  /\ place # "run" => disk = NoState
  /\ sweep \in {"marked", "locked", "renaming"} => disk # NoState
  /\ sweep = "renaming" => \A step \in Steps : disk.status[step] # "running"
  /\ worker.at = "waiting" => worker.lock \in {"run", "ghost"} /\ (worker.lock = "ghost" => place # "run")
  /\ worker.at = "held" => place = "run" /\ ~SweepHolds

Saving == worker.at \in {"open", "waiting", "held"}

\* The step that is running is the next one of the state on disk.
RunningInv ==
  /\ Saving => worker.then \in {"context", "handler", "handled", "emit", "ended"}
  /\ worker.at \in {"handler", "handled"} \/ (Saving /\ worker.then \in {"handler", "handled"}) =>
       Current # NoState /\ worker.state.status[Current] = "running"
  /\ worker.at \in {"handler", "handled"} => place = "run" /\ disk # NoState /\ disk.status = worker.state.status

\* Both states are true of the workspace and the artifacts.
StatesInv ==
  /\ disk # NoState => StateInv(disk, workspace, artifacts)
  /\ worker.at # "ended" => StateInv(worker.state, workspace, artifacts)
  /\ workspace.main => artifacts.decision = "MERGE" /\ artifacts.retest /\ workspace.code = Tasks

\* A handler's own progress.
ProgressInv ==
  /\ worker.at = "handled" \/ (Saving /\ worker.then = "handled") =>
       HandledInv(worker.state, workspace, artifacts)
  /\ worker.at = "handler" /\ Current = "implement" =>
       worker.part <= Tasks /\ (worker.part = 0 \/ worker.part = workspace.code)
  /\ worker.at = "handler" /\ Current = "merge_gate" /\ worker.part = 1 =>
       artifacts.decision = "NO_MERGE" \/ (artifacts.decision = "MERGE" /\ artifacts.retest)

WorkflowInv == WorkflowTypeOK /\ LockInv /\ RunningInv /\ StatesInv /\ ProgressInv

LEMMA WorkflowInitOK == WorkflowInit => WorkflowInv
<1> SUFFICES ASSUME WorkflowInit PROVE WorkflowInv
  OBVIOUS
<1>0. RetentionDays \in Nat /\ Tasks \in Nat /\ 0 \in Nat /\ day \in Nat
  BY WorkflowAssumption DEF WorkflowInit
<1>1. NewState \in RunStates /\ NewState.outcome = "" /\ \A step \in Steps : NewState.status[step] = "pending"
  BY <1>0 DEF NewState, RunStates, Statuses, TerminalOutcomes
<1>2. /\ Stamped(NewState) \in RunStates /\ Stamped(NewState).outcome = ""
      /\ \A step \in Steps : Stamped(NewState).status[step] = "pending"
  BY <1>0, <1>1, StampedFacts
<1>3. workspace \in Workspaces /\ artifacts \in Artifacts /\ workspace.main = FALSE
  BY <1>0 DEF WorkflowInit, Workspaces, Artifacts
<1>4. \A s \in RunStates :
        /\ s.outcome \notin {"success", "no_merge"}
        /\ \A step \in Steps : s.status[step] # "skipped"
        /\ \A step \in Steps : s.status[step] = "pending" \/ step \in {"ingest", "validate"}
        => StateInv(s, workspace, artifacts)
  BY <1>3, StepsAre DEF StateInv, Done
<1>5. CASE /\ disk = NoState
           /\ worker = [at |-> "open", state |-> Stamped(NewState), then |-> "context", part |-> 0, lock |-> NoState]
  <2>1. worker \in Workers
    BY <1>2, <1>5 DEF Workers
  <2>2. WorkflowTypeOK
    BY <1>0, <1>3, <1>5, <2>1 DEF WorkflowTypeOK, WorkflowInit
  <2>3. LockInv /\ RunningInv /\ ProgressInv
    BY <1>5 DEF LockInv, RunningInv, ProgressInv, WorkflowInit, Saving
  <2>4. StateInv(Stamped(NewState), workspace, artifacts)
    BY <1>2, <1>4
  <2>5. StatesInv
    BY <1>3, <1>5, <2>4 DEF StatesInv
  <2> QED BY <2>2, <2>3, <2>5 DEF WorkflowInv
<1>6. CASE disk \in LegacyStates /\ worker = Ended
  <2>1. disk \in RunStates /\ disk.outcome = "blocked" /\ StateInv(disk, workspace, artifacts)
    BY <1>4, <1>6, LegacyAssumption
  <2>2. WorkflowTypeOK
    BY <1>0, <1>3, <1>6, <2>1 DEF WorkflowTypeOK, WorkflowInit, Ended
  <2>3. LockInv /\ RunningInv /\ ProgressInv
    BY <1>6 DEF LockInv, RunningInv, ProgressInv, WorkflowInit, Saving, Ended
  <2>5. StatesInv
    BY <1>3, <1>6, <2>1 DEF StatesInv, Ended
  <2> QED BY <2>2, <2>3, <2>5 DEF WorkflowInv
<1> QED BY <1>5, <1>6 DEF WorkflowInit

StillThere == UNCHANGED <<day, spec, place, disk, sweep>>
Kept == UNCHANGED <<workspace, artifacts>>

\* The steps of the worker, by what becomes of it.
LEMMA EndedStep ==
  ASSUME WorkflowInv, worker'.at = "ended", StillThere, Kept
  PROVE WorkflowInv'
BY DEF WorkflowInv, WorkflowTypeOK, LockInv, RunningInv, StatesInv, ProgressInv, Saving, SweepHolds, StillThere, Kept,
       Ended

\* Both states stay true of what a handler leaves.
LEMMA HandlerStep ==
  ASSUME WorkflowInv, worker.at = "handler", disk' = disk,
         workspace'.code = workspace.code \/ Current \in {"generate_tests", "implement"},
         (workspace'.main => workspace.main) \/ Current = "merge",
         (workspace.main => workspace'.main) \/ Current = "generate_tests",
         (artifacts.retest => artifacts'.retest) \/ Current = "retest",
         artifacts'.decision = artifacts.decision \/ Current = "merge_gate",
         (artifacts.healthy => artifacts'.healthy) \/ Current = "deploy"
  PROVE /\ StateInv(worker.state, workspace', artifacts')
        /\ StateInv(disk, workspace', artifacts')
        /\ workspace'.main => artifacts'.decision = "MERGE" /\ artifacts'.retest /\ workspace'.code = Tasks
<1>1. worker.state \in RunStates /\ disk \in RunStates /\ disk.status = worker.state.status
  BY DEF WorkflowInv, WorkflowTypeOK, RunningInv, Workers
<1>2. Current = NextStep(worker.state) /\ NextStep(disk) = NextStep(worker.state) /\ Current # NoState
  BY <1>1, NextStepSame DEF WorkflowInv, RunningInv, Current
<1>3. StateInv(worker.state, workspace, artifacts) /\ StateInv(disk, workspace, artifacts)
  BY DEF WorkflowInv, StatesInv, RunningInv
<1>4. StateInv(worker.state, workspace', artifacts')
  BY <1>1, <1>2, <1>3, StateInvHandler
<1>5. StateInv(disk, workspace', artifacts')
  BY <1>1, <1>2, <1>3, StateInvHandler
<1> QED BY <1>4, <1>5 DEF StateInv

LEMMA SaveStep ==
  ASSUME WorkflowInv, worker.at \in {"loop", "handler", "handled"}, StillThere,
         workspace' \in Workspaces, artifacts' \in Artifacts,
         NEW x \in RunStates, NEW then \in {"handler", "handled", "emit", "ended"}, Save(x, then),
         StateInv(x, workspace', artifacts'),
         disk # NoState => StateInv(disk, workspace', artifacts'),
         workspace'.main => artifacts'.decision = "MERGE" /\ artifacts'.retest /\ workspace'.code = Tasks,
         then \in {"handler", "handled"} => NextStep(x) # NoState /\ x.status[NextStep(x)] = "running",
         then = "handled" => HandledInv(x, workspace', artifacts')
  PROVE WorkflowInv'
<1> DEFINE y == Stamped(x)
<1>1. y \in RunStates /\ y.status = x.status /\ y.outcome = x.outcome
  BY StampedFacts DEF WorkflowInv, WorkflowTypeOK
<1>2. NextStep(y) = NextStep(x)
  BY <1>1, NextStepSame
<1>3. StateInv(y, workspace', artifacts') /\ (then = "handled" => HandledInv(y, workspace', artifacts'))
  BY <1>1, StateInvSame, HandledInvSame
<1> HIDE DEF y
<1>4. worker' = [at |-> "open", state |-> y, then |-> then, part |-> 0, lock |-> NoState]
  BY DEF Save, y
<1>5. worker' \in Workers /\ worker'.at = "open" /\ worker'.state = y /\ worker'.then = then
  BY <1>1, <1>4 DEF Workers
<1>6. WorkflowTypeOK'
  BY <1>5 DEF WorkflowInv, WorkflowTypeOK, StillThere
<1>7. LockInv'
  BY <1>5 DEF WorkflowInv, LockInv, StillThere
<1>8. RunningInv'
  BY <1>1, <1>2, <1>5 DEF WorkflowInv, RunningInv, Saving, Current
<1>9. StatesInv'
  BY <1>3, <1>5 DEF StatesInv, StillThere
<1>10. ProgressInv'
  BY <1>3, <1>5 DEF ProgressInv, Saving, Current
<1> QED BY <1>6, <1>7, <1>8, <1>9, <1>10 DEF WorkflowInv

LEMMA HandledStep ==
  ASSUME WorkflowInv, worker.at = "handler", StillThere,
         workspace' \in Workspaces, artifacts' \in Artifacts, Continue("handled"),
         StateInv(worker.state, workspace', artifacts'), StateInv(disk, workspace', artifacts'),
         workspace'.main => artifacts'.decision = "MERGE" /\ artifacts'.retest /\ workspace'.code = Tasks,
         HandledInv(worker.state, workspace', artifacts')
  PROVE WorkflowInv'
<1>1. worker' \in Workers /\ worker'.at = "handled" /\ worker'.state = worker.state
  BY DEF WorkflowInv, WorkflowTypeOK, Workers, Continue
<1>2. WorkflowTypeOK'
  BY <1>1 DEF WorkflowInv, WorkflowTypeOK, StillThere
<1>3. LockInv'
  BY <1>1 DEF WorkflowInv, LockInv, StillThere
<1>4. RunningInv'
  BY <1>1 DEF WorkflowInv, RunningInv, Saving, Current, StillThere
<1>5. StatesInv'
  BY <1>1 DEF StatesInv, StillThere
<1>6. ProgressInv'
  BY <1>1 DEF ProgressInv, Saving, Current
<1> QED BY <1>2, <1>3, <1>4, <1>5, <1>6 DEF WorkflowInv

\* _save of a step that stopped.
LEMMA StopsStep ==
  ASSUME WorkflowInv, worker.at = "handler", StillThere,
         workspace' \in Workspaces, artifacts' \in Artifacts, NEW status \in {"blocked", "failed"}, Stops(status),
         StateInv(worker.state, workspace', artifacts'), StateInv(disk, workspace', artifacts'),
         workspace'.main => artifacts'.decision = "MERGE" /\ artifacts'.retest /\ workspace'.code = Tasks
  PROVE WorkflowInv'
<1> DEFINE m == Mark(worker.state, {Current}, status)
           x == [m EXCEPT !.outcome = status]
<1>1. worker.state \in RunStates /\ Current = NextStep(worker.state) /\ Current # NoState
  BY DEF WorkflowInv, WorkflowTypeOK, Workers, RunningInv, Current
<1>2. Current \in Steps
  BY <1>1, NextStepFollows DEF RunStates
<1>3. m \in RunStates /\ \A step \in Steps : m.status[step] = IF step = Current THEN status ELSE worker.state.status[step]
  BY <1>1, <1>2, MarkFacts DEF WorkflowInv, WorkflowTypeOK, Statuses
<1> HIDE DEF m
<1>s. status \in TerminalOutcomes
  BY DEF TerminalOutcomes
<1>4. x \in RunStates /\ x.outcome = status /\ x.status = m.status
  BY <1>3, <1>s, OutcomeFacts
<1> HIDE DEF x
<1>5. StateInv(x, workspace', artifacts')
  BY <1>1, <1>3, <1>4, StateInvOpen
<1>6. Save(x, "ended")
  BY DEF Stops, x, m
<1> QED BY <1>4, <1>5, <1>6, SaveStep

\* A handler that changes nothing but escalations.
LEMMA QuietStep ==
  ASSUME WorkflowInv, worker.at = "handler", StillThere, Kept,
         \/ Continue("handled") /\ Current \notin {"implement", "merge", "deploy", "merge_gate"}
         \/ \E status \in {"blocked", "failed"} : Stops(status)
  PROVE WorkflowInv'
<1>1. workspace' \in Workspaces /\ artifacts' \in Artifacts /\ workspace' = workspace /\ artifacts' = artifacts /\ disk' = disk
  BY DEF WorkflowInv, WorkflowTypeOK, Kept, StillThere
<1>2. /\ StateInv(worker.state, workspace', artifacts') /\ StateInv(disk, workspace', artifacts')
      /\ workspace'.main => artifacts'.decision = "MERGE" /\ artifacts'.retest /\ workspace'.code = Tasks
  BY <1>1, HandlerStep
<1>3. CASE Continue("handled") /\ Current \notin {"implement", "merge", "deploy", "merge_gate"}
  <2>1. HandledInv(worker.state, workspace', artifacts')
    BY <1>3 DEF HandledInv, Current
  <2> QED BY <1>1, <1>2, <1>3, <2>1, HandledStep
<1>4. CASE \E status \in {"blocked", "failed"} : Stops(status)
  BY <1>1, <1>2, <1>4, StopsStep
<1> QED BY <1>3, <1>4

LEMMA WorkingOK ==
  ASSUME WorkflowInv, Working
  PROVE WorkflowInv'
<1> USE DEF StillThere, Kept
<1>a. workspace \in Workspaces /\ artifacts \in Artifacts /\ day \in Nat /\ spec \in Specs
  BY DEF WorkflowInv, WorkflowTypeOK
<1>b. worker.at # "ended" => worker \in Workers /\ worker.state \in RunStates
  BY DEF WorkflowInv, WorkflowTypeOK, Workers
<1>c. worker.at # "ended" => StateInv(worker.state, workspace, artifacts)
  BY DEF WorkflowInv, StatesInv
<1>d. /\ disk # NoState => disk \in RunStates /\ StateInv(disk, workspace, artifacts)
      /\ workspace.main => artifacts.decision = "MERGE" /\ artifacts.retest /\ workspace.code = Tasks
  BY DEF WorkflowInv, WorkflowTypeOK, StatesInv
<1>e. worker.at \in {"handler", "handled"} => Current # NoState /\ worker.state.status[Current] = "running"
  BY DEF WorkflowInv, RunningInv
<1>1. CASE OpenLock
  <2>1. CASE place = "gone"
    BY <1>1, <2>1, EndedStep DEF OpenLock, Ended
  <2>2. CASE place # "gone"
    <3>1. /\ worker' \in Workers /\ worker'.at = "waiting" /\ worker'.state = worker.state /\ worker'.lock = place
          /\ worker'.then = worker.then /\ worker.at = "open" /\ place \in {"run", "ghost"}
      BY <1>1, <1>b, <2>2 DEF OpenLock, Workers, WorkflowInv, WorkflowTypeOK
    <3>2. StillThere /\ Kept
      BY <1>1 DEF OpenLock
    <3> QED BY <3>1, <3>2 DEF WorkflowInv, WorkflowTypeOK, LockInv, RunningInv, StatesInv, ProgressInv, Saving, Current
  <2> QED BY <2>1, <2>2
<1>2. CASE LockState
  <2>1. CASE place # "run"
    BY <1>2, <2>1, EndedStep DEF LockState, Ended
  <2>2. CASE place = "run"
    <3>1. /\ worker' \in Workers /\ worker'.at = "held" /\ worker'.state = worker.state
          /\ worker'.then = worker.then /\ worker.at = "waiting"
      BY <1>2, <1>b, <2>2 DEF LockState, Workers
    <3>2. StillThere /\ Kept
      BY <1>2 DEF LockState
    <3>3. ~SweepHolds
      BY <1>2, <2>2 DEF LockState, WorkflowInv, LockInv
    <3> QED BY <2>2, <3>1, <3>2, <3>3 DEF WorkflowInv, WorkflowTypeOK, LockInv, RunningInv, StatesInv, ProgressInv, Saving,
              Current, SweepHolds
  <2> QED BY <2>1, <2>2
<1>3. CASE WriteState
  <2>1. /\ worker.at = "held" /\ place = "run" /\ place' = "run" /\ disk' = worker.state /\ ~SweepHolds
        /\ UNCHANGED <<day, spec, sweep, workspace, artifacts>>
    BY <1>3 DEF WriteState, WorkflowInv, LockInv
  <2>2. disk' \in RunStates /\ disk' # NoState
    BY <1>b, <2>1, WorkflowAssumption
  <2>3. worker.then \in {"context", "handler", "handled", "emit", "ended"}
    BY <2>1 DEF WorkflowInv, RunningInv, Saving
  <2>4. /\ worker'.at = worker.then /\ worker'.state = worker.state /\ worker'.part = 0
        /\ worker'.at # "ended" => worker' \in Workers
    BY <1>3, <1>b, <2>1, <2>3 DEF WriteState, Continue, Workers
  <2>5. WorkflowTypeOK'
    BY <2>1, <2>2, <2>4, <1>a DEF WorkflowInv, WorkflowTypeOK
  <2>6. LockInv'
    BY <2>1, <2>2, <2>3, <2>4 DEF WorkflowInv, LockInv, SweepHolds
  <2>7. RunningInv'
    BY <2>1, <2>2, <2>3, <2>4 DEF WorkflowInv, RunningInv, Saving, Current
  <2>8. StatesInv'
    BY <1>c, <1>d, <2>1, <2>4 DEF StatesInv
  <2>9. ProgressInv'
    <3>1. worker.then = "handled" => HandledInv(worker.state, workspace, artifacts)
      BY <2>1 DEF WorkflowInv, ProgressInv, Saving
    <3> QED BY <2>1, <2>3, <2>4, <3>1, WorkflowAssumption DEF ProgressInv, Saving, Current
  <2> QED BY <2>5, <2>6, <2>7, <2>8, <2>9 DEF WorkflowInv
<1>4. CASE Resume
  <2> DEFINE loaded == [disk EXCEPT !.days = IF @ = NoState THEN DefaultDays ELSE @]
  <2>1. worker.at = "ended" /\ place = "run" /\ disk # NoState /\ StillThere /\ Kept
    BY <1>4 DEF Resume
  <2>2. loaded \in RunStates /\ loaded.status = disk.status /\ loaded.outcome = disk.outcome
    BY <1>d, <2>1, WorkflowAssumption DEF RunStates
  <2>3. StateInv(loaded, workspace, artifacts)
    BY <1>d, <2>1, <2>2, StateInvSame
  <2>4. worker' = [at |-> "context", state |-> loaded, then |-> NoState, part |-> 0, lock |-> NoState]
    BY <1>4 DEF Resume
  <2> HIDE DEF loaded
  <2>5. worker' \in Workers /\ worker'.at = "context" /\ worker'.state = loaded
    BY <2>2, <2>4 DEF Workers
  <2> QED BY <2>1, <2>3, <2>5 DEF WorkflowInv, WorkflowTypeOK, LockInv, RunningInv, StatesInv, ProgressInv, Saving
<1>5. CASE MakeContext
  <2>1. /\ worker.at = "context" /\ UNCHANGED <<day, spec, disk, sweep, workspace, artifacts>>
        /\ place' \in {"run", "ghost"} /\ (place' = "run" <=> place = "run")
    BY <1>5 DEF MakeContext, WorkflowInv, WorkflowTypeOK
  <2>2. worker' \in Workers /\ worker'.at = "loop" /\ worker'.state = worker.state
    BY <1>5, <1>b, <2>1 DEF MakeContext, Continue, Workers
  <2> QED BY <2>1, <2>2 DEF WorkflowInv, WorkflowTypeOK, LockInv, RunningInv, StatesInv, ProgressInv, Saving, Current
<1>6. CASE EmitCompleted
  <2>1. CASE place = "gone"
    BY <1>6, <2>1, EndedStep DEF EmitCompleted, Ended
  <2>2. CASE place # "gone"
    <3>1. worker' \in Workers /\ worker'.at = "loop" /\ worker'.state = worker.state /\ worker.at = "emit"
      BY <1>6, <1>b, <2>2 DEF EmitCompleted, Workers
    <3>2. StillThere /\ Kept
      BY <1>6 DEF EmitCompleted
    <3> QED BY <3>1, <3>2 DEF WorkflowInv, WorkflowTypeOK, LockInv, RunningInv, StatesInv, ProgressInv, Saving, Current
  <2> QED BY <2>1, <2>2
<1>7. CASE WorkerDies
  BY <1>7, EndedStep DEF WorkerDies, Ended
<1>8. CASE BeginStep
  <2> DEFINE x == Mark(worker.state, {Current}, "running")
  <2>1. worker.at = "loop" /\ Current # NoState /\ Save(x, "handler") /\ StillThere /\ Kept
    BY <1>8 DEF BeginStep
  <2>2. Current \in Steps /\ Current = NextStep(worker.state)
    BY <1>b, <2>1, NextStepFollows DEF Current, RunStates
  <2>3. /\ x \in RunStates /\ x.outcome = worker.state.outcome
        /\ \A step \in Steps : x.status[step] = IF step = Current THEN "running" ELSE worker.state.status[step]
    BY <1>a, <1>b, <2>1, <2>2, MarkFacts DEF Statuses
  <2> HIDE DEF x
  <2>4. StateInv(x, workspace, artifacts) /\ NextStep(x) = Current /\ x.status[Current] = "running"
    BY <1>b, <1>c, <2>1, <2>2, <2>3, StateInvOpen
  <2> QED BY <1>a, <1>d, <2>1, <2>3, <2>4, SaveStep
<1>9. CASE FinishRun
  <2> DEFINE outcome == IF artifacts.decision = "NO_MERGE" THEN "no_merge" ELSE "success"
             x == [worker.state EXCEPT !.outcome = outcome]
  <2>1. worker.at = "loop" /\ Current = NoState /\ Save(x, "ended") /\ StillThere /\ Kept
    BY <1>9 DEF FinishRun
  <2>2. outcome \in TerminalOutcomes
    BY DEF TerminalOutcomes
  <2>3. x \in RunStates /\ x.outcome = outcome /\ x.status = worker.state.status
    BY <1>b, <2>1, <2>2, OutcomeFacts
  <2>4. AllComplete(worker.state)
    BY <1>b, <2>1, NextStepFollows DEF Current, RunStates
  <2> HIDE DEF x
  <2>5. Done(worker.state, "merge_gate")
    BY <1>b, <1>c, <2>1, <2>4, StepsAre DEF AllComplete, Complete, Done, StateInv, Shipping
  <2>6. artifacts.decision = "NO_MERGE" \/ artifacts.decision = "MERGE"
    BY <1>c, <2>1, <2>5 DEF StateInv, Decided
  <2>7. StateInv(x, workspace, artifacts)
    BY <1>c, <2>1, <2>3, <2>4, <2>6 DEF StateInv, Decided, Done, AllComplete
  <2> QED BY <1>a, <1>d, <2>1, <2>3, <2>7, SaveStep
<1>10. CASE CompleteStep
  <2> DEFINE x == Mark(worker.state, {Current}, "done")
  <2>1. worker.at = "handled" /\ Current # NoState /\ Save(x, "emit") /\ StillThere /\ Kept
    BY <1>10, <1>e DEF CompleteStep
  <2>2. Current \in Steps /\ Current = NextStep(worker.state)
    BY <1>b, <2>1, NextStepFollows DEF Current, RunStates
  <2>3. /\ x \in RunStates /\ x.outcome = worker.state.outcome
        /\ \A step \in Steps : x.status[step] = IF step = Current THEN "done" ELSE worker.state.status[step]
    BY <1>a, <1>b, <2>1, <2>2, MarkFacts DEF Statuses
  <2> HIDE DEF x
  <2>4. HandledInv(worker.state, workspace, artifacts)
    BY <2>1 DEF WorkflowInv, ProgressInv
  <2>5. StateInv(x, workspace, artifacts)
    BY <1>b, <1>c, <2>1, <2>2, <2>3, <2>4, StateInvDone
  <2> QED BY <1>a, <1>d, <2>1, <2>3, <2>5, SaveStep
<1>11. CASE HandlerRaises \/ Produce \/ Ingest \/ ConfirmRed
  BY <1>11, QuietStep DEF HandlerRaises, Produce, Ingest, ConfirmRed, Handling
<1>12. CASE ValidateSpec \/ Architecture
  BY <1>12, QuietStep DEF ValidateSpec, Architecture, Handling, EscalateOrPass
<1>13. CASE GenerateTests
  <2>1. worker.at = "handler" /\ Current = "generate_tests" /\ StillThere /\ artifacts' = artifacts /\ Continue("handled")
    BY <1>13 DEF GenerateTests, Handling
  <2>2. workspace' \in Workspaces /\ workspace'.main = FALSE
    BY <1>13, WorkflowAssumption DEF GenerateTests, Workspaces
  <2>3. /\ StateInv(worker.state, workspace', artifacts') /\ StateInv(disk, workspace', artifacts')
        /\ workspace'.main => artifacts'.decision = "MERGE" /\ artifacts'.retest /\ workspace'.code = Tasks
    BY <2>1, <2>2, HandlerStep
  <2>4. HandledInv(worker.state, workspace', artifacts')
    BY <2>1 DEF HandledInv, Current
  <2> QED BY <1>a, <2>1, <2>2, <2>3, <2>4, HandledStep
<1>14. CASE ImplementTask
  <2>1. worker.at = "handler" /\ Current = "implement" /\ StillThere /\ artifacts' = artifacts /\ worker.part < Tasks
    BY <1>14 DEF ImplementTask, Handling
  <2>2. CASE worker.part < workspace.code
    BY <1>14, <2>1, <2>2, QuietStep DEF ImplementTask
  <2>3. CASE ~(worker.part < workspace.code)
    <3>1. workspace' = [workspace EXCEPT !.code = @ + 1] /\ worker' = [worker EXCEPT !.part = @ + 1]
      BY <1>14, <2>3 DEF ImplementTask
    <3>2. worker.part \in Nat /\ workspace.code \in 0..Tasks /\ Tasks \in Nat
      BY <1>a, <1>b, <2>1, WorkflowAssumption DEF Workers, Workspaces
    <3>3. worker.part = workspace.code
      BY <2>1, <2>3, <3>2 DEF WorkflowInv, ProgressInv
    <3>4. workspace' \in Workspaces /\ workspace'.main = workspace.main /\ workspace'.code = workspace.code + 1
      BY <1>a, <2>1, <3>1, <3>2, <3>3 DEF Workspaces
    <3>5. /\ worker' \in Workers /\ worker'.at = "handler" /\ worker'.state = worker.state
          /\ worker'.part = worker.part + 1
      BY <1>b, <2>1, <3>1, <3>2 DEF Workers
    <3>6. /\ StateInv(worker.state, workspace', artifacts') /\ StateInv(disk, workspace', artifacts')
          /\ workspace'.main => artifacts'.decision = "MERGE" /\ artifacts'.retest /\ workspace'.code = Tasks
      BY <2>1, <3>4, HandlerStep
    <3>7. WorkflowTypeOK' /\ LockInv' /\ RunningInv'
      BY <1>a, <2>1, <3>4, <3>5 DEF WorkflowInv, WorkflowTypeOK, LockInv, RunningInv, Saving, Current
    <3>8. StatesInv'
      BY <2>1, <3>5, <3>6 DEF StatesInv
    <3>9. Current' = "implement"
      BY <2>1, <3>5 DEF Current
    <3>10. worker'.part <= Tasks /\ worker'.part = workspace'.code
      BY <2>1, <3>2, <3>3, <3>4, <3>5
    <3>11. ProgressInv'
      BY <3>5, <3>9, <3>10 DEF ProgressInv, Saving
    <3> QED BY <3>7, <3>8, <3>11 DEF WorkflowInv
  <2> QED BY <2>2, <2>3
<1>15. CASE Implemented
  <2>1. /\ worker.at = "handler" /\ Current = "implement" /\ StillThere /\ Kept /\ worker.part = Tasks
        /\ Continue("handled")
    BY <1>15 DEF Implemented, Handling
  <2>2. workspace.code = Tasks
    <3>1. worker.part \in Nat /\ workspace.code \in 0..Tasks /\ Tasks \in Nat
      BY <1>a, <1>b, <2>1, WorkflowAssumption DEF Workers, Workspaces
    <3> QED BY <2>1, <3>1 DEF WorkflowInv, ProgressInv
  <2>3. /\ StateInv(worker.state, workspace', artifacts') /\ StateInv(disk, workspace', artifacts')
        /\ workspace'.main => artifacts'.decision = "MERGE" /\ artifacts'.retest /\ workspace'.code = Tasks
    BY <2>1, HandlerStep
  <2>4. HandledInv(worker.state, workspace', artifacts')
    BY <2>1, <2>2 DEF HandledInv, Current
  <2> QED BY <1>a, <2>1, <2>3, <2>4, HandledStep
<1>16. CASE ReviewStep
  <2>1. worker.at = "handler" /\ Current = "review" /\ StillThere /\ workspace' = workspace /\ Continue("handled")
    BY <1>16 DEF ReviewStep, Handling
  <2>2. FindingsLeft \in {"none", "safe", "blocking"}
    BY <1>a, WorkflowAssumption DEF FindingsLeft
  <2>3. /\ artifacts' \in Artifacts /\ artifacts'.retest = artifacts.retest /\ artifacts'.decision = artifacts.decision
        /\ artifacts'.healthy = artifacts.healthy
    BY <1>16, <1>a, <2>2 DEF ReviewStep, Artifacts
  <2>4. /\ StateInv(worker.state, workspace', artifacts') /\ StateInv(disk, workspace', artifacts')
        /\ workspace'.main => artifacts'.decision = "MERGE" /\ artifacts'.retest /\ workspace'.code = Tasks
    BY <2>1, <2>3, HandlerStep
  <2>5. HandledInv(worker.state, workspace', artifacts')
    BY <2>1 DEF HandledInv, Current
  <2> QED BY <1>a, <2>1, <2>3, <2>4, <2>5, HandledStep
<1>17. CASE Fix
  <2>1. worker.at = "handler" /\ Current = "fix" /\ StillThere /\ artifacts' = artifacts
    BY <1>17 DEF Fix, Handling
  <2>2. CASE artifacts.review = "safe" /\ worker.part = 0
    <3>1. /\ workspace' \in Workspaces /\ workspace'.code = workspace.code /\ workspace'.main = workspace.main
          /\ IF workspace.fixed THEN Stops("failed") ELSE worker' = [worker EXCEPT !.part = 1]
      BY <1>17, <1>a, <2>2 DEF Fix, Workspaces
    <3>2. /\ StateInv(worker.state, workspace', artifacts') /\ StateInv(disk, workspace', artifacts')
          /\ workspace'.main => artifacts'.decision = "MERGE" /\ artifacts'.retest /\ workspace'.code = Tasks
      BY <2>1, <3>1, HandlerStep
    <3>3. CASE workspace.fixed
      BY <1>a, <2>1, <3>1, <3>2, <3>3, StopsStep
    <3>4. CASE ~workspace.fixed
      <4>1. worker' \in Workers /\ worker'.at = "handler" /\ worker'.state = worker.state
        BY <1>b, <2>1, <3>1, <3>4 DEF Workers
      <4>2. Current' = "fix"
        BY <2>1, <4>1 DEF Current
      <4> QED BY <1>a, <2>1, <3>1, <3>2, <4>1, <4>2 DEF WorkflowInv, WorkflowTypeOK, LockInv, RunningInv, StatesInv,
                ProgressInv, Saving, Current
    <3> QED BY <3>3, <3>4
  <2>3. CASE ~(artifacts.review = "safe" /\ worker.part = 0)
    BY <1>17, <2>1, <2>3, QuietStep DEF Fix
  <2> QED BY <2>2, <2>3
<1>18. CASE Retest
  <2>1. worker.at = "handler" /\ Current = "retest" /\ StillThere /\ workspace' = workspace /\ Continue("handled")
    BY <1>18 DEF Retest, Handling
  <2>2. spec.gates \in BOOLEAN
    BY <1>a, WorkflowAssumption
  <2>3. artifacts' \in Artifacts /\ artifacts'.decision = artifacts.decision /\ artifacts'.healthy = artifacts.healthy
    BY <1>18, <1>a, <2>2 DEF Retest, Artifacts
  <2>4. /\ StateInv(worker.state, workspace', artifacts') /\ StateInv(disk, workspace', artifacts')
        /\ workspace'.main => artifacts'.decision = "MERGE" /\ artifacts'.retest /\ workspace'.code = Tasks
    BY <2>1, <2>3, HandlerStep
  <2>5. HandledInv(worker.state, workspace', artifacts')
    BY <2>1 DEF HandledInv, Current
  <2> QED BY <1>a, <2>1, <2>3, <2>4, <2>5, HandledStep
<1>19. CASE DecideMerge
  <2>1. /\ worker.at = "handler" /\ Current = "merge_gate" /\ StillThere /\ workspace' = workspace
        /\ worker' = [worker EXCEPT !.part = 1]
    BY <1>19 DEF DecideMerge, Handling
  <2>2. MergeDecision = "NO_MERGE" \/ (MergeDecision = "MERGE" /\ artifacts.retest)
    BY DEF MergeDecision
  <2>3. /\ artifacts' \in Artifacts /\ artifacts'.retest = artifacts.retest /\ artifacts'.healthy = artifacts.healthy
        /\ artifacts'.decision = MergeDecision
    BY <1>19, <1>a, <2>2 DEF DecideMerge, Artifacts
  <2>4. /\ StateInv(worker.state, workspace', artifacts') /\ StateInv(disk, workspace', artifacts')
        /\ workspace'.main => artifacts'.decision = "MERGE" /\ artifacts'.retest /\ workspace'.code = Tasks
    BY <2>1, <2>3, HandlerStep
  <2>5. worker' \in Workers /\ worker'.at = "handler" /\ worker'.state = worker.state
    BY <1>b, <2>1 DEF Workers
  <2>6. Current' = "merge_gate"
    BY <2>1, <2>5 DEF Current
  <2>7. WorkflowTypeOK' /\ LockInv' /\ RunningInv'
    BY <1>a, <2>1, <2>3, <2>5 DEF WorkflowInv, WorkflowTypeOK, LockInv, RunningInv, Saving, Current
  <2>8. StatesInv'
    BY <2>1, <2>4, <2>5 DEF StatesInv
  <2>9. ProgressInv'
    BY <2>2, <2>3, <2>5, <2>6 DEF ProgressInv, Saving
  <2> QED BY <2>7, <2>8, <2>9 DEF WorkflowInv
<1>20. CASE MarkShipping
  <2> DEFINE skipped == {step \in Shipping : worker.state.status[step] = "skipped"}
             steps == IF artifacts.decision = "NO_MERGE" THEN Shipping ELSE skipped
             status == IF artifacts.decision = "NO_MERGE" THEN "skipped" ELSE "pending"
             x == Mark(worker.state, steps, status)
  <2>1. /\ worker.at = "handler" /\ Current = "merge_gate" /\ StillThere /\ Kept /\ worker.part = 1
        /\ NextStep(worker.state) = "merge_gate"
    BY <1>20 DEF MarkShipping, Handling, Current
  <2>2. Save(x, "handled")
    BY <1>20 DEF MarkShipping
  <2>3. steps \in SUBSET Shipping /\ steps \in SUBSET Steps /\ status \in {"skipped", "pending"} /\ status \in Statuses
    BY StepsAre DEF Shipping, Statuses
  <2>5. status = "pending" => \A step \in steps : worker.state.status[step] = "skipped"
    OBVIOUS
  <2> HIDE DEF steps, status
  <2>0. worker.state \in RunStates /\ day \in Nat
    BY <1>a, <1>b, <2>1
  <2>4. /\ x \in RunStates /\ x.outcome = worker.state.outcome
        /\ \A step \in Steps : x.status[step] = IF step \in steps THEN status ELSE worker.state.status[step]
    BY <2>3, <2>0, MarkFacts
  <2> HIDE DEF x
  <2>6. /\ StateInv(x, workspace, artifacts) /\ NextStep(x) = "merge_gate"
        /\ x.status["merge_gate"] = worker.state.status["merge_gate"]
    BY <1>b, <1>c, <2>1, <2>3, <2>4, <2>5, StateInvShipping
  <2>7. x.status["merge_gate"] = "running" /\ NextStep(x) # NoState
    BY <1>e, <2>1, <2>6
  <2>8. Decided(x, artifacts)
    <3>1. {"merge", "deploy"} \subseteq Shipping /\ {"merge", "deploy"} \subseteq Steps
      BY StepsAre DEF Shipping
    <3>2. artifacts.decision = "NO_MERGE" \/ (artifacts.decision = "MERGE" /\ artifacts.retest)
      BY <2>1 DEF WorkflowInv, ProgressInv
    <3>3. CASE artifacts.decision = "NO_MERGE"
      BY <2>4, <3>1, <3>3 DEF Decided, steps, status
    <3>4. CASE artifacts.decision = "MERGE" /\ artifacts.retest
      BY <2>4, <3>1, <3>4 DEF Decided, steps, status
    <3> QED BY <3>2, <3>3, <3>4
  <2>9. HandledInv(x, workspace, artifacts)
    BY <2>6, <2>8 DEF HandledInv
  <2> QED BY <1>a, <1>d, <2>1, <2>2, <2>4, <2>6, <2>7, <2>9, SaveStep
<1>21. CASE MergeToMain
  <2>1. worker.at = "handler" /\ Current = "merge" /\ StillThere /\ artifacts' = artifacts /\ Continue("handled")
    BY <1>21 DEF MergeToMain, Handling
  <2>2. workspace' \in Workspaces /\ workspace'.main = TRUE /\ workspace'.code = workspace.code
    BY <1>21, <1>a DEF MergeToMain, Workspaces
  <2>3. /\ StateInv(worker.state, workspace', artifacts') /\ StateInv(disk, workspace', artifacts')
        /\ workspace'.main => artifacts'.decision = "MERGE" /\ artifacts'.retest /\ workspace'.code = Tasks
    BY <2>1, <2>2, HandlerStep
  <2>4. HandledInv(worker.state, workspace', artifacts')
    BY <2>1, <2>2 DEF HandledInv, Current
  <2> QED BY <1>a, <2>1, <2>2, <2>3, <2>4, HandledStep
<1>22. CASE Deploy
  <2>1. worker.at = "handler" /\ Current = "deploy" /\ StillThere /\ workspace' = workspace
    BY <1>22 DEF Deploy, Handling
  <2>2. PICK healthy \in BOOLEAN :
          /\ artifacts' = [artifacts EXCEPT !.healthy = healthy]
          /\ IF healthy THEN Continue("handled") ELSE Stops("failed")
    BY <1>22 DEF Deploy
  <2>3. /\ artifacts' \in Artifacts /\ artifacts'.retest = artifacts.retest /\ artifacts'.decision = artifacts.decision
        /\ artifacts'.healthy = healthy
    BY <1>a, <2>2 DEF Artifacts
  <2>4. /\ StateInv(worker.state, workspace', artifacts') /\ StateInv(disk, workspace', artifacts')
        /\ workspace'.main => artifacts'.decision = "MERGE" /\ artifacts'.retest /\ workspace'.code = Tasks
    BY <2>1, <2>3, HandlerStep
  <2>5. CASE healthy
    <3>1. HandledInv(worker.state, workspace', artifacts')
      BY <2>1, <2>3, <2>5 DEF HandledInv, Current
    <3> QED BY <1>a, <2>1, <2>2, <2>3, <2>4, <2>5, <3>1, HandledStep
  <2>6. CASE ~healthy
    BY <1>a, <2>1, <2>2, <2>3, <2>4, <2>6, StopsStep
  <2> QED BY <2>5, <2>6
<1>23. CASE Verify
  BY <1>23, QuietStep DEF Verify, Handling
<1> QED
  BY <1>1, <1>2, <1>3, <1>4, <1>5, <1>6, <1>7, <1>8, <1>9, <1>10, <1>11, <1>12, <1>13, <1>14, <1>15, <1>16, <1>17, <1>18,
     <1>19, <1>20, <1>21, <1>22, <1>23 DEF Working

LEMMA SweepingOK ==
  ASSUME WorkflowInv, Sweeping
  PROVE WorkflowInv'
<1> USE DEF Kept
<1>a. /\ UNCHANGED <<day, spec, worker, workspace, artifacts>>
      /\ Current' = Current /\ Saving' = Saving
  BY DEF Sweeping, SweepBegin, SweepLock, SweepJudge, SweepRename, SweepRemove, SweepDies, Current, Saving
<1>1. CASE SweepBegin \/ SweepRemove \/ SweepDies \/ SweepLock
  <2>1. UNCHANGED <<place, disk>>
    BY <1>1 DEF SweepBegin, SweepRemove, SweepDies, SweepLock
  <2>2. /\ sweep' \in {"idle", "marked", "locked"}
        /\ sweep' # "idle" => disk # NoState
        /\ worker.at = "held" => sweep' # "locked"
    BY <1>1 DEF SweepBegin, SweepRemove, SweepDies, SweepLock, WorkflowInv, LockInv
  <2> QED BY <1>a, <2>1, <2>2 DEF WorkflowInv, WorkflowTypeOK, LockInv, RunningInv, StatesInv, ProgressInv, SweepHolds
<1>2. CASE SweepJudge
  <2>1. disk \in RunStates /\ day \in Nat /\ disk' = Migrated(disk) /\ sweep = "locked" /\ place' = place
    BY <1>2 DEF SweepJudge, WorkflowInv, WorkflowTypeOK, LockInv
  <2>2. disk' \in RunStates /\ disk'.status = disk.status /\ disk'.outcome = disk.outcome /\ disk' # NoState /\ disk # NoState
    BY <2>1, MigratedFacts, WorkflowAssumption
  <2>3. /\ sweep' \in {"idle", "renaming"}
        /\ sweep' = "renaming" => \A step \in Steps : disk'.status[step] # "running"
    BY <1>2 DEF SweepJudge, Expired, Authenticated
  <2>4. StateInv(disk', workspace, artifacts)
    BY <2>1, <2>2, StateInvSame DEF WorkflowInv, StatesInv
  <2>5. worker.at # "held" /\ place = "run"
    BY <2>1, <2>2 DEF WorkflowInv, LockInv, SweepHolds
  <2>6. WorkflowTypeOK' /\ LockInv'
    BY <1>a, <2>1, <2>2, <2>3, <2>5 DEF WorkflowInv, WorkflowTypeOK, LockInv
  <2>7. RunningInv' /\ ProgressInv'
    BY <1>a, <2>1, <2>2 DEF WorkflowInv, RunningInv, ProgressInv
  <2>8. StatesInv'
    BY <1>a, <2>4 DEF WorkflowInv, StatesInv
  <2> QED BY <2>6, <2>7, <2>8 DEF WorkflowInv
<1>3. CASE SweepRename
  <2>1. sweep = "renaming" /\ place' = "gone" /\ disk' = NoState /\ sweep' = "removing"
    BY <1>3 DEF SweepRename
  <2>2. worker.at \notin {"handler", "handled", "held"}
    <3>1. disk # NoState /\ \A step \in Steps : disk.status[step] # "running"
      BY <2>1 DEF WorkflowInv, LockInv
    <3>2. ASSUME worker.at \in {"handler", "handled"} PROVE FALSE
      <4>1. worker.state \in RunStates
        BY <3>2 DEF WorkflowInv, WorkflowTypeOK, Workers
      <4>2. disk.status = worker.state.status /\ Current # NoState /\ worker.state.status[Current] = "running"
        BY <3>2 DEF WorkflowInv, RunningInv
      <4>3. Current \in Steps
        BY <4>1, <4>2, NextStepFollows DEF Current, RunStates
      <4> QED BY <3>1, <4>2, <4>3
    <3> QED BY <2>1, <3>2 DEF WorkflowInv, LockInv, SweepHolds
  <2> QED BY <1>a, <2>1, <2>2 DEF WorkflowInv, WorkflowTypeOK, LockInv, RunningInv, StatesInv, ProgressInv
<1> QED BY <1>1, <1>2, <1>3 DEF Sweeping

LEMMA WorkflowStepOK ==
  ASSUME WorkflowInv, [WorkflowNext]_workflowVars
  PROVE WorkflowInv'
<1>1. CASE Working
  BY <1>1, WorkingOK
<1>2. CASE Sweeping
  BY <1>2, SweepingOK
<1>3. CASE Approve \/ UNCHANGED workflowVars
  BY <1>3 DEF Approve, workflowVars, WorkflowInv, WorkflowTypeOK, LockInv, RunningInv, StatesInv, ProgressInv, Saving,
              Current, SweepHolds
<1>4. CASE NextDay
  BY <1>4 DEF NextDay, WorkflowInv, WorkflowTypeOK, LockInv, RunningInv, StatesInv, ProgressInv, Saving, Current, SweepHolds
<1> QED BY <1>1, <1>2, <1>3, <1>4 DEF WorkflowNext

\* A swept directory is never written again and no handler works outside its
\* run's directory, for every specification, number of tasks and of restarts.
THEOREM SweptIsFinal == WorkflowSpec => []SweptStaysSwept
<1>1. WorkflowInv => SweptStaysSwept
  BY DEF WorkflowInv, LockInv, RunningInv, SweptStaysSwept
<1> QED BY <1>1, WorkflowInitOK, WorkflowStepOK, PTL DEF WorkflowSpec

\* The outcome on disk is what became of the run, and main holds only gated
\* code, however often the run died, was swept past or was resumed.
THEOREM OutcomeTrue == WorkflowSpec => []OutcomeIsTrue
<1>1. WorkflowInv => OutcomeIsTrue
  <2> SUFFICES ASSUME WorkflowInv PROVE OutcomeIsTrue
    OBVIOUS
  <2>1. ASSUME disk # NoState, NextStep(disk) = NoState
        PROVE /\ disk.outcome = "success" => workspace.main /\ artifacts.healthy
              /\ disk.outcome = "no_merge" => ~workspace.main
    <3>1. disk \in RunStates /\ StateInv(disk, workspace, artifacts)
      BY <2>1 DEF WorkflowInv, WorkflowTypeOK, StatesInv
    <3>2. AllComplete(disk)
      BY <2>1, <3>1, NextStepFollows DEF RunStates
    <3>3. \A step \in {"merge_gate", "merge", "deploy"} : disk.status[step] \in {"done", "skipped"}
      BY <3>2, StepsAre DEF AllComplete, Complete
    <3>4. Done(disk, "merge_gate") /\ Decided(disk, artifacts)
      BY <3>1, <3>3, StepsAre DEF StateInv, Shipping, Done
    <3>5. artifacts.decision = "MERGE" => Done(disk, "merge") /\ Done(disk, "deploy")
      BY <3>3, <3>4 DEF Decided, Done
    <3> QED BY <3>1, <3>5 DEF StateInv
  <2> QED BY <2>1 DEF OutcomeIsTrue, WorkflowInv, StatesInv
<1> QED BY <1>1, WorkflowInitOK, WorkflowStepOK, PTL DEF WorkflowSpec

-----------------------------------------------------------------------------
(* The personal runtime *)

IsSequence(s) == \E T : s \in Seq(T)

LEMMA AppendAny ==
  ASSUME NEW s, IsSequence(s), NEW e
  PROVE /\ IsSequence(Append(s, e))
        /\ Len(s) \in Nat /\ DOMAIN s = 1..Len(s) /\ DOMAIN Append(s, e) = 1..(Len(s) + 1)
        /\ Append(s, e)[Len(s) + 1] = e
        /\ \A i \in 1..Len(s) : Append(s, e)[i] = s[i]
<1>1. PICK T : s \in Seq(T)
  BY DEF IsSequence
<1>2. s \in Seq(T \cup {e}) /\ e \in T \cup {e}
  BY <1>1, SeqMonotonic
<1>3. Append(s, e) \in Seq(T \cup {e})
  BY <1>2, AppendProperties
<1>4. /\ Len(s) \in Nat /\ DOMAIN s = 1..Len(s) /\ DOMAIN Append(s, e) = 1..(Len(s) + 1)
      /\ Append(s, e)[Len(s) + 1] = e
      /\ \A i \in 1..Len(s) : Append(s, e)[i] = s[i]
  BY <1>2, <1>3, AppendProperties, LenProperties
<1> QED BY <1>3, <1>4 DEF IsSequence

Planners == {"planner", "assistant"}
Contents == {Base, "edited"} \cup Changes
Mutations == [change : Changes, expected : Contents]

CalendarCalls == [at : {"reserve", "write", "record"}, approval : Approvals, mutation : Mutations]
RecoveryCalls ==
  [at : {"apply", "retry", "complete", "rollback", "undo", "settle", "done"}, attempt : Nat, silent : BOOLEAN,
   verified : BOOLEAN, result : {Free, "COMPLETED", "ROLLED_BACK", "BLOCKED", "RAISED"}]

\* The stages of each caller's calls; only some of them hold the lock.
RuntimeTypeOK ==
  /\ company \in Companies
  /\ IsSequence(registry)
  /\ tail \in {"whole", "unended", "broken"}
  /\ DOMAIN call = Actors
  /\ \A c \in Actors \cap Planners : call[c] = Resting \/ call[c] \in CalendarCalls
  /\ "recovery" \in Actors => call["recovery"] = Resting \/ call["recovery"] \in RecoveryCalls
  /\ \A c \in Actors \ (Planners \cup {"recovery"}) :
       "at" \in DOMAIN call[c] /\ call[c].at \in {"idle", "step", "propose"}
  /\ calendar \in Contents /\ edited \in BOOLEAN /\ lost \in BOOLEAN
  /\ approved \in [Approvals -> Mutations \cup {Free}]
  /\ writes \in [Approvals -> Nat]
  /\ op \in {Target, "applied", "changed"}

\* An update in progress holds the lock; until it is written its approval is
\* unspent and the calendar is the one it was prepared for, or edited.
CalendarInv ==
  /\ \A c \in Actors \cap Planners : call[c].at # "idle" => keeper = c
  /\ \A c \in Actors \cap Planners : call[c].at \in {"reserve", "write"} =>
       /\ writes[call[c].approval] = 0
       /\ edited \/ calendar = call[c].mutation.expected
  /\ \A c \in Actors \cap Planners : call[c].at = "write" => call[c].approval \in Consumed

\* What the recovery has on record at each of its stages.
RecoveryInv ==
  "recovery" \in Actors =>
    LET mine == call["recovery"] IN
    /\ mine.at = "complete" => op = "applied"
    /\ mine.at \in {"undo", "settle"} /\ ~mine.silent => LastNote("rollback")
    /\ mine.at = "settle" /\ mine.verified => op = Target
    /\ mine.at = "done" =>
         /\ mine.result \in {"COMPLETED", "ROLLED_BACK", "BLOCKED", "RAISED"}
         /\ mine.result = "COMPLETED" => op = "applied" /\ LastNote("completed")
         /\ mine.result = "ROLLED_BACK" => op = Target /\ LastTwoNotes("rollback", "verified")

RuntimeInv == RuntimeTypeOK /\ CalendarInv /\ RecoveryInv /\ ApprovalMovesOnce

LEMMA RuntimeInitOK == RuntimeInit => RuntimeInv
<1> SUFFICES ASSUME RuntimeInit PROVE RuntimeInv
  OBVIOUS
<1>1. IsSequence(registry)
  <2>1. registry \in Seq({})
    BY EmptySeq DEF RuntimeInit
  <2> QED BY <2>1 DEF IsSequence
<1>2. \A c \in Actors : call[c] = Resting /\ call[c].at = "idle" /\ "at" \in DOMAIN call[c]
  BY DEF RuntimeInit, Resting
<1>3. RuntimeTypeOK
  BY <1>1, <1>2 DEF RuntimeTypeOK, RuntimeInit, Contents
<1>4. CalendarInv /\ RecoveryInv
  BY <1>2 DEF CalendarInv, RecoveryInv
<1>5. ApprovalMovesOnce
  BY DEF ApprovalMovesOnce, RuntimeInit
<1> QED BY <1>3, <1>4, <1>5 DEF RuntimeInv

\* What an attempt to append can do to the file.
LEMMA RecordedFacts ==
  ASSUME RuntimeTypeOK, NEW c, NEW event, NEW returned \in BOOLEAN, Recorded(c, event, returned)
  PROVE /\ LockFree(c)
        /\ IsSequence(registry') /\ tail' \in {"whole", "unended", "broken"}
        /\ registry' = registry \/ registry' = Append(registry, event)
        /\ returned => registry' = Append(registry, event)
<1>1. IsSequence(registry) /\ IsSequence(Append(registry, event))
  BY AppendAny DEF RuntimeTypeOK
<1> QED BY <1>1 DEF Recorded, RuntimeTypeOK, fileVars

LEMMA ConsumedGrows ==
  ASSUME IsSequence(registry), NEW event, registry' = Append(registry, event)
  PROVE /\ Consumed \subseteq Consumed'
        /\ event.type = "started" => event.approval \in Consumed'
<1>1. /\ Len(registry) \in Nat /\ DOMAIN registry = 1..Len(registry) /\ DOMAIN registry' = 1..(Len(registry) + 1)
      /\ registry'[Len(registry) + 1] = event
      /\ \A i \in 1..Len(registry) : registry'[i] = registry[i]
  BY AppendAny
<1>2. \A i \in DOMAIN registry : i \in DOMAIN registry' /\ registry'[i] = registry[i]
  BY <1>1
<1>3. Len(registry) + 1 \in DOMAIN registry'
  BY <1>1
<1>4. Consumed \subseteq Consumed'
  BY <1>2 DEF Consumed, Events
<1>5. event.type = "started" => event.approval \in Consumed'
  BY <1>1, <1>3 DEF Consumed, Events
<1> QED BY <1>4, <1>5

LEMMA NotesGrow ==
  ASSUME IsSequence(registry), NEW event, registry' = Append(registry, event)
  PROVE /\ LastNote(event.type)'
        /\ \A type : event.type \notin Notes /\ LastNote(type) => LastNote(type)'
        /\ \A type, next : event.type \notin Notes /\ LastTwoNotes(type, next) => LastTwoNotes(type, next)'
        /\ \A type : LastNote(type) => LastTwoNotes(type, event.type)'
<1> DEFINE end == Len(registry) + 1
<1>1. /\ Len(registry) \in Nat /\ DOMAIN registry = 1..Len(registry) /\ DOMAIN registry' = 1..(Len(registry) + 1)
      /\ registry'[Len(registry) + 1] = event
      /\ \A i \in 1..Len(registry) : registry'[i] = registry[i]
  BY AppendAny
<1>2. /\ \A i \in DOMAIN registry : i \in DOMAIN registry' /\ registry'[i] = registry[i] /\ i < end /\ i \in Nat
      /\ end \in DOMAIN registry' /\ registry'[end] = event
      /\ \A i \in DOMAIN registry' : i \in DOMAIN registry \/ i = end
      /\ \A i \in DOMAIN registry' : ~(i > end)
  BY <1>1
<1> HIDE DEF end
<1>3. LastNote(event.type)'
  BY <1>2 DEF LastNote, NotedAt
<1>4. ASSUME NEW type, event.type \notin Notes, LastNote(type) PROVE LastNote(type)'
  BY <1>2, <1>4 DEF LastNote, NotedAt
<1>5. ASSUME NEW type, NEW next, event.type \notin Notes, LastTwoNotes(type, next) PROVE LastTwoNotes(type, next)'
  BY <1>2, <1>5 DEF LastTwoNotes, NotedAt
<1>6. ASSUME NEW type, LastNote(type) PROVE LastTwoNotes(type, event.type)'
  <2>1. PICK n \in DOMAIN registry : NotedAt(n, type, n)
    BY <1>6 DEF LastNote
  <2>2. n < end /\ n \in DOMAIN registry'
    BY <1>2
  <2>3. \A k \in DOMAIN registry' : k > n /\ k # end => registry'[k].type \notin Notes
    BY <1>2, <2>1 DEF NotedAt
  <2> QED BY <1>2, <2>1, <2>2, <2>3 DEF LastTwoNotes, NotedAt
<1> QED BY <1>3, <1>4, <1>5, <1>6

\* Callers outside the calendar leave what it relies on.
LEMMA CalendarFrame ==
  ASSUME RuntimeInv, \A c \in Actors \cap Planners : call'[c] = call[c], UNCHANGED <<keeper, calendarVars>>,
         Consumed \subseteq Consumed'
  PROVE CalendarInv' /\ ApprovalMovesOnce'
<1>1. CalendarInv'
  BY DEF RuntimeInv, CalendarInv, calendarVars
<1>2. ApprovalMovesOnce'
  BY DEF RuntimeInv, ApprovalMovesOnce, calendarVars
<1> QED BY <1>1, <1>2

\* Callers other than the recovery leave what it relies on.
LEMMA RecoveryFrame ==
  ASSUME RuntimeInv, "recovery" \in Actors => call'["recovery"] = call["recovery"], op' = op,
         \/ registry' = registry
         \/ \E event : registry' = Append(registry, event) /\ event.type \notin Notes
  PROVE RecoveryInv'
<1>1. /\ \A type : LastNote(type) => LastNote(type)'
      /\ \A type, next : LastTwoNotes(type, next) => LastTwoNotes(type, next)'
  <2>1. CASE registry' = registry
    BY <2>1 DEF LastNote, LastTwoNotes, NotedAt
  <2>2. CASE \E event : registry' = Append(registry, event) /\ event.type \notin Notes
    BY <2>2, NotesGrow DEF RuntimeInv, RuntimeTypeOK
  <2> QED BY <2>1, <2>2
<1> QED BY <1>1 DEF RuntimeInv, RecoveryInv

LEMMA RestartOK ==
  ASSUME RuntimeInv, Restart
  PROVE RuntimeInv'
<1>1. \A c \in Actors : call'[c] = Resting /\ call'[c].at = "idle" /\ "at" \in DOMAIN call'[c]
  BY DEF Restart, Resting
<1>2. DOMAIN call' = Actors /\ UNCHANGED <<company, fileVars, calendarVars, op, edits>>
  BY DEF Restart
<1>3. RuntimeTypeOK'
  BY <1>1, <1>2 DEF RuntimeInv, RuntimeTypeOK, fileVars, calendarVars
<1>4. CalendarInv' /\ RecoveryInv'
  BY <1>1 DEF CalendarInv, RecoveryInv
<1>5. ApprovalMovesOnce'
  BY <1>2 DEF RuntimeInv, ApprovalMovesOnce, calendarVars, fileVars, Consumed, Events
<1> QED BY <1>3, <1>4, <1>5 DEF RuntimeInv

LEMMA OutsideOK ==
  ASSUME RuntimeInv, Edit \/ \E a \in Approvals, change \in Changes : ApproveUpdate(a, change)
  PROVE RuntimeInv'
<1>1. UNCHANGED <<company, registry, tail, keeper, call, writes, lost, op>>
  BY DEF Edit, ApproveUpdate, fileVars
<1>2. Consumed' = Consumed
  BY <1>1 DEF Consumed, Events
<1>3. calendar' \in Contents /\ edited' \in BOOLEAN /\ approved' \in [Approvals -> Mutations \cup {Free}]
  <2>1. RuntimeTypeOK
    BY DEF RuntimeInv
  <2>2. CASE Edit
    BY <2>1, <2>2 DEF Edit, RuntimeTypeOK, Contents
  <2>3. ASSUME NEW a \in Approvals, NEW change \in Changes, ApproveUpdate(a, change)
        PROVE calendar' \in Contents /\ edited' \in BOOLEAN /\ approved' \in [Approvals -> Mutations \cup {Free}]
    <3>1. Mutation(change, calendar) \in Mutations
      BY <2>1 DEF Mutation, Mutations, RuntimeTypeOK
    <3> QED BY <2>1, <2>3, <3>1 DEF ApproveUpdate, RuntimeTypeOK
  <2> QED BY <2>2, <2>3
<1>4. edited' = TRUE \/ (edited' = edited /\ calendar' = calendar)
  BY DEF Edit, ApproveUpdate
<1>5. RuntimeTypeOK'
  BY <1>1, <1>3 DEF RuntimeInv, RuntimeTypeOK
<1>6. CalendarInv'
  BY <1>1, <1>2, <1>4 DEF RuntimeInv, CalendarInv
<1>7. RecoveryInv'
  BY <1>1, RecoveryFrame
<1>8. ApprovalMovesOnce'
  BY <1>1, <1>2 DEF RuntimeInv, ApprovalMovesOnce
<1> QED BY <1>5, <1>6, <1>7, <1>8 DEF RuntimeInv

\* A planner's step changes its own call only, and it alone holds the lock.
LEMMA PlannerAlone ==
  ASSUME RuntimeInv, NEW c \in Actors \cap Planners, keeper \in {Free, c}
  PROVE \A other \in Actors \cap Planners : other # c => call[other].at = "idle"
<1>1. Free \notin Actors
  BY FreeAssumption DEF Actors
<1> QED BY <1>1 DEF RuntimeInv, CalendarInv

LEMMA CalendarOK ==
  ASSUME RuntimeInv, NEW c \in company,
         \/ \E a, b \in Approvals : approved[b] # Free /\ ApplyApproved(c, a, approved[b])
         \/ Reserve(c) \/ Write(c) \/ RecordApplied(c)
  PROVE RuntimeInv'
<1>0. c \in Actors /\ DOMAIN call = Actors /\ RuntimeTypeOK /\ IsSequence(registry)
  BY DEF RuntimeInv, RuntimeTypeOK, Actors
<1>1. CASE \E a, b \in Approvals : approved[b] # Free /\ ApplyApproved(c, a, approved[b])
  <2>1. PICK a \in Approvals, b \in Approvals : approved[b] # Free /\ ApplyApproved(c, a, approved[b])
    BY <1>1
  <2> DEFINE mutation == approved[b]
             mine == [at |-> "reserve", approval |-> a, mutation |-> mutation]
  <2>2. /\ c \in Planners /\ keeper = Free /\ keeper' = c /\ a \notin Consumed /\ mutation.expected = calendar
        /\ call' = [call EXCEPT ![c] = mine]
        /\ UNCHANGED <<company, fileVars, calendarVars, op>>
    BY <2>1 DEF ApplyApproved, Planners
  <2>3. mutation \in Mutations
    BY <1>0, <2>1 DEF RuntimeTypeOK
  <2> HIDE DEF mutation
  <2>4. mine \in CalendarCalls /\ mine.at = "reserve" /\ mine.approval = a /\ mine.mutation = mutation
    BY <2>3 DEF CalendarCalls
  <2> HIDE DEF mine
  <2>5. DOMAIN call' = Actors /\ call'[c] = mine /\ \A other \in Actors : other # c => call'[other] = call[other]
    BY <1>0, <2>2
  <2>6. \A other \in Actors \cap Planners : other # c => call[other].at = "idle"
    BY <1>0, <2>2, PlannerAlone
  <2>7. writes[a] = 0
    BY <1>0, <2>2 DEF RuntimeInv, ApprovalMovesOnce, RuntimeTypeOK
  <2>8. Consumed' = Consumed
    BY <2>2 DEF Consumed, Events, fileVars
  <2>9. RuntimeTypeOK'
    BY <1>0, <2>2, <2>4, <2>5 DEF RuntimeTypeOK, fileVars, calendarVars, Planners
  <2>10. CalendarInv'
    BY <2>2, <2>4, <2>5, <2>6, <2>7 DEF CalendarInv, calendarVars
  <2>11. RecoveryInv'
    BY <2>2, <2>5, RecoveryFrame DEF fileVars, Planners
  <2>12. ApprovalMovesOnce'
    BY <2>2, <2>8 DEF RuntimeInv, ApprovalMovesOnce, calendarVars
  <2> QED BY <2>9, <2>10, <2>11, <2>12 DEF RuntimeInv
<1>2. CASE Reserve(c) \/ Write(c) \/ RecordApplied(c)
  <2>1. /\ c \in Planners /\ call[c] \in CalendarCalls /\ call[c].at \in {"reserve", "write", "record"}
        /\ c # "recovery"
    <3>1. call[c].at \in {"reserve", "write", "record"}
      BY <1>2 DEF Reserve, Write, RecordApplied
    <3>2. Resting.at = "idle"
      BY DEF Resting
    <3>3. c \in Planners
      BY <1>0, <3>1, <3>2 DEF RuntimeTypeOK, RecoveryCalls
    <3> QED BY <1>0, <3>1, <3>2, <3>3 DEF RuntimeTypeOK, Planners
  <2>2. keeper = c /\ \A other \in Actors \cap Planners : other # c => call[other].at = "idle"
    BY <1>0, <2>1, PlannerAlone DEF RuntimeInv, CalendarInv
  <2>3. call[c].approval \in Approvals /\ call[c].mutation \in Mutations
    BY <2>1 DEF CalendarCalls
  <2>4. Resting.at = "idle"
    BY DEF Resting
  <2>5. CASE Reserve(c)
    <3> DEFINE event == [type |-> "started", approval |-> call[c].approval]
    <3>1. PICK returned \in BOOLEAN :
            /\ Recorded(c, event, returned)
            /\ call' = [call EXCEPT ![c] = IF returned THEN [call[c] EXCEPT !.at = "write"] ELSE Resting]
            /\ keeper' = IF returned THEN keeper ELSE Free
      BY <2>5 DEF Reserve
    <3>2. call[c].at = "reserve" /\ UNCHANGED <<company, calendarVars, op>>
      BY <2>5 DEF Reserve
    <3>3. event.type = "started" /\ event.approval = call[c].approval /\ event.type \notin Notes
      BY DEF Notes
    <3> HIDE DEF event
    <3>4. /\ IsSequence(registry') /\ tail' \in {"whole", "unended", "broken"}
          /\ registry' = registry \/ registry' = Append(registry, event)
          /\ returned => registry' = Append(registry, event)
      BY <1>0, <3>1, RecordedFacts
    <3>5. Consumed \subseteq Consumed' /\ (returned => call[c].approval \in Consumed')
      <4>1. CASE registry' = registry /\ ~returned
        BY <4>1 DEF Consumed, Events
      <4>2. CASE registry' = Append(registry, event)
        BY <1>0, <3>3, <4>2, ConsumedGrows
      <4> QED BY <3>4, <4>1, <4>2
    <3>6. DOMAIN call' = Actors /\ \A other \in Actors : other # c => call'[other] = call[other]
      BY <1>0, <3>1
    <3>7. CASE returned
      <4>1. /\ call'[c] \in CalendarCalls /\ call'[c].at = "write" /\ call'[c].approval = call[c].approval
            /\ call'[c].mutation = call[c].mutation
        BY <1>0, <2>1, <3>1, <3>7 DEF CalendarCalls
      <4>2. RuntimeTypeOK'
        BY <1>0, <2>1, <3>2, <3>4, <3>6, <4>1 DEF RuntimeTypeOK, calendarVars
      <4>3. CalendarInv'
        BY <1>0, <2>1, <2>2, <3>1, <3>2, <3>5, <3>6, <3>7, <4>1 DEF RuntimeInv, CalendarInv, calendarVars
      <4>4. RecoveryInv'
        BY <2>1, <3>2, <3>3, <3>4, <3>6, RecoveryFrame
      <4>5. ApprovalMovesOnce'
        BY <3>2, <3>5 DEF RuntimeInv, ApprovalMovesOnce, calendarVars
      <4> QED BY <4>2, <4>3, <4>4, <4>5 DEF RuntimeInv
    <3>8. CASE ~returned
      <4>1. call'[c] = Resting
        BY <1>0, <3>1, <3>8
      <4>2. RuntimeTypeOK'
        BY <1>0, <2>1, <3>2, <3>4, <3>6, <4>1 DEF RuntimeTypeOK, calendarVars
      <4>3. CalendarInv'
        BY <2>2, <2>4, <3>6, <4>1 DEF CalendarInv
      <4>4. RecoveryInv'
        BY <2>1, <3>2, <3>3, <3>4, <3>6, RecoveryFrame
      <4>5. ApprovalMovesOnce'
        BY <3>2, <3>5 DEF RuntimeInv, ApprovalMovesOnce, calendarVars
      <4> QED BY <4>2, <4>3, <4>4, <4>5 DEF RuntimeInv
    <3> QED BY <3>7, <3>8
  <2>6. CASE Write(c)
    <3>1. PICK written \in BOOLEAN, returned \in BOOLEAN :
            /\ returned => written
            /\ IF written THEN ApplyUpdate(call[c].approval, call[c].mutation)
               ELSE UNCHANGED <<calendar, edited, writes, lost>>
            /\ call' = [call EXCEPT ![c] = IF returned THEN [call[c] EXCEPT !.at = "record"] ELSE Resting]
            /\ keeper' = IF returned THEN keeper ELSE Free
      BY <2>6 DEF Write
    <3>2. call[c].at = "write" /\ UNCHANGED <<company, registry, tail, approved, op>>
      BY <2>6 DEF Write, fileVars
    <3>3. DOMAIN call' = Actors /\ \A other \in Actors : other # c => call'[other] = call[other]
      BY <1>0, <3>1
    <3>4. /\ call'[c] = Resting \/ call'[c] \in CalendarCalls
          /\ call'[c].at \in {"idle", "record"} /\ (call'[c].at = "record" => keeper' = c)
      BY <1>0, <2>1, <2>2, <2>4, <3>1 DEF CalendarCalls
    <3>5. writes[call[c].approval] = 0 /\ (edited \/ calendar = call[c].mutation.expected)
          /\ call[c].approval \in Consumed
      BY <1>0, <2>1, <3>2 DEF RuntimeInv, CalendarInv
    <3>6. Consumed' = Consumed
      BY <3>2 DEF Consumed, Events
    <3>7. /\ calendar' \in Contents /\ edited' \in BOOLEAN /\ lost' = lost
          /\ writes' \in [Approvals -> Nat]
          /\ writes'[call[c].approval] <= 1
          /\ \A a \in Approvals : a # call[c].approval => writes'[a] = writes[a]
      <4>1. CASE written
        <5>1. lost' = lost
          BY <1>0, <3>1, <3>5, <4>1 DEF ApplyUpdate, RuntimeTypeOK, RuntimeInv, ApprovalMovesOnce
        <5>2. calendar' \in Contents /\ edited' \in BOOLEAN
          BY <2>3, <3>1, <4>1 DEF ApplyUpdate, Mutations, Contents
        <5>3. writes' = [writes EXCEPT ![call[c].approval] = @ + 1] /\ writes \in [Approvals -> Nat]
          BY <1>0, <3>1, <4>1 DEF ApplyUpdate, RuntimeTypeOK
        <5>4. writes' \in [Approvals -> Nat] /\ writes'[call[c].approval] = 1
          BY <2>3, <3>5, <5>3
        <5> QED BY <2>3, <5>1, <5>2, <5>3, <5>4
      <4>2. CASE ~written
        BY <1>0, <2>3, <3>1, <3>5, <4>2 DEF RuntimeTypeOK
      <4> QED BY <4>1, <4>2
    <3>8. RuntimeTypeOK'
      BY <1>0, <2>1, <3>2, <3>3, <3>4, <3>7 DEF RuntimeTypeOK
    <3>9. CalendarInv'
      BY <2>2, <3>3, <3>4 DEF CalendarInv
    <3>10. RecoveryInv'
      BY <2>1, <3>2, <3>3, RecoveryFrame
    <3>11. ApprovalMovesOnce'
      BY <3>5, <3>6, <3>7 DEF RuntimeInv, ApprovalMovesOnce
    <3> QED BY <3>8, <3>9, <3>10, <3>11 DEF RuntimeInv
  <2>7. CASE RecordApplied(c)
    <3> DEFINE event == [type |-> "applied", approval |-> call[c].approval]
    <3>1. PICK returned \in BOOLEAN : Recorded(c, event, returned)
      BY <2>7 DEF RecordApplied
    <3>2. call' = [call EXCEPT ![c] = Resting] /\ UNCHANGED <<company, calendarVars, op>>
      BY <2>7 DEF RecordApplied
    <3>3. event.type \notin Notes
      BY DEF Notes
    <3> HIDE DEF event
    <3>4. /\ IsSequence(registry') /\ tail' \in {"whole", "unended", "broken"}
          /\ registry' = registry \/ registry' = Append(registry, event)
      BY <1>0, <3>1, RecordedFacts
    <3>5. Consumed \subseteq Consumed'
      <4>1. CASE registry' = registry
        BY <4>1 DEF Consumed, Events
      <4>2. CASE registry' = Append(registry, event)
        BY <1>0, <4>2, ConsumedGrows
      <4> QED BY <3>4, <4>1, <4>2
    <3>6. DOMAIN call' = Actors /\ call'[c] = Resting /\ \A other \in Actors : other # c => call'[other] = call[other]
      BY <1>0, <3>2
    <3>7. RuntimeTypeOK'
      BY <1>0, <2>1, <3>2, <3>4, <3>6 DEF RuntimeTypeOK, calendarVars
    <3>8. CalendarInv'
      BY <2>2, <2>4, <3>6 DEF CalendarInv
    <3>9. RecoveryInv'
      BY <2>1, <3>2, <3>3, <3>4, <3>6, RecoveryFrame
    <3>10. ApprovalMovesOnce'
      BY <3>2, <3>5 DEF RuntimeInv, ApprovalMovesOnce, calendarVars
    <3> QED BY <3>7, <3>8, <3>9, <3>10 DEF RuntimeInv
  <2> QED BY <1>2, <2>5, <2>6, <2>7
<1> QED BY <1>1, <1>2

Stages == {"apply", "retry", "complete", "rollback", "undo", "settle", "done"}

\* Only the recovery is in one of its stages, and a step of it that leaves the
\* call well formed and the file appended to keeps the calendar's part.
LEMMA RecoveryStage ==
  ASSUME RuntimeInv, NEW c \in company, call[c].at \in Stages
  PROVE c = "recovery" /\ c \in Actors /\ call[c] \in RecoveryCalls
<1>1. c \in Actors /\ RuntimeTypeOK
  BY DEF RuntimeInv, RuntimeTypeOK, Actors
<1>2. Resting.at = "idle"
  BY DEF Resting
<1> QED BY <1>1, <1>2 DEF RuntimeTypeOK, CalendarCalls, Stages

LEMMA RecoveryStep ==
  ASSUME RuntimeInv, "recovery" \in Actors, NEW mine, mine = Resting \/ mine \in RecoveryCalls,
         call' = [call EXCEPT !["recovery"] = mine],
         op' \in {Target, "applied", "changed"}, UNCHANGED <<company, keeper, calendarVars>>,
         IsSequence(registry'), tail' \in {"whole", "unended", "broken"},
         registry' = registry \/ \E event : registry' = Append(registry, event)
  PROVE RuntimeTypeOK' /\ CalendarInv' /\ ApprovalMovesOnce' /\ call'["recovery"] = mine
<1>1. RuntimeTypeOK /\ DOMAIN call = Actors
  BY DEF RuntimeInv, RuntimeTypeOK
<1>2. /\ call'["recovery"] = mine /\ DOMAIN call' = Actors
      /\ \A c \in Actors : c # "recovery" => call'[c] = call[c]
  BY <1>1
<1>3. RuntimeTypeOK'
  BY <1>1, <1>2 DEF RuntimeTypeOK, calendarVars, Planners
<1>4. Consumed \subseteq Consumed'
  <2>1. CASE registry' = registry
    BY <2>1 DEF Consumed, Events
  <2>2. CASE \E event : registry' = Append(registry, event)
    BY <1>1, <2>2, ConsumedGrows DEF RuntimeTypeOK
  <2> QED BY <2>1, <2>2
<1> QED BY <1>2, <1>3, <1>4, CalendarFrame DEF Planners

LEMMA RecoveryOK ==
  ASSUME RuntimeInv, NEW c \in company,
         \/ Recover(c) \/ Attempt(c) \/ ScheduleRetry(c) \/ CompleteOperation(c)
         \/ StartRollback(c) \/ Undo(c) \/ Settle(c) \/ Answered(c)
  PROVE RuntimeInv'
<1> DEFINE mine == call["recovery"]
<1>a. c = "recovery" /\ "recovery" \in Actors /\ (mine.at # "idle" => mine \in RecoveryCalls)
  <2>1. RuntimeTypeOK /\ c \in Actors
    BY DEF RuntimeInv, RuntimeTypeOK, Actors
  <2>2. Resting.at = "idle"
    BY DEF Resting
  <2>3. Recover(c) \/ call[c].at \in Stages
    BY DEF Attempt, ScheduleRetry, CompleteOperation, StartRollback, Undo, Settle, Answered, Stages
  <2>4. c = "recovery"
    BY <2>3, RecoveryStage DEF Recover
  <2> QED BY <2>1, <2>2, <2>4 DEF RuntimeTypeOK
<1>b. /\ IsSequence(registry) /\ tail \in {"whole", "unended", "broken"} /\ op \in {Target, "applied", "changed"}
      /\ RuntimeTypeOK /\ RecoveryInv
  BY DEF RuntimeInv, RuntimeTypeOK
<1>c. UNCHANGED <<company, keeper, calendarVars>>
  BY DEF Recover, Attempt, ScheduleRetry, CompleteOperation, StartRollback, Undo, Settle, Answered, recoveryFrame
<1>d. DOMAIN call = Actors /\ "recovery" \in DOMAIN call
  BY <1>a, <1>b DEF RuntimeTypeOK
<1>1. CASE Recover(c)
  <2> DEFINE new == [at |-> "apply", attempt |-> 1, silent |-> FALSE, verified |-> FALSE, result |-> Free]
  <2>1. call' = [call EXCEPT !["recovery"] = new] /\ UNCHANGED <<op, registry, tail>>
    BY <1>1, <1>a DEF Recover, fileVars
  <2>2. new \in RecoveryCalls /\ new.at = "apply"
    BY DEF RecoveryCalls
  <2> HIDE DEF new
  <2>3. RuntimeTypeOK' /\ CalendarInv' /\ ApprovalMovesOnce' /\ call'["recovery"] = new
    BY <1>a, <1>b, <1>c, <2>1, <2>2, RecoveryStep
  <2>4. RecoveryInv'
    BY <2>2, <2>3 DEF RecoveryInv
  <2> QED BY <2>3, <2>4 DEF RuntimeInv
<1>2. CASE Attempt(c)
  <2>1. PICK answer \in {"succeeds", "retryable", "fails"} :
          /\ ApplyOperation(answer)
          /\ Go(c, CASE answer = "succeeds" -> "complete" [] answer = "retryable" -> "retry" [] OTHER -> "rollback")
    BY <1>2 DEF Attempt
  <2> DEFINE stage == CASE answer = "succeeds" -> "complete" [] answer = "retryable" -> "retry" [] OTHER -> "rollback"
             new == [mine EXCEPT !.at = stage]
  <2>2. call' = [call EXCEPT !["recovery"] = new] /\ UNCHANGED <<registry, tail>> /\ mine.at = "apply"
    BY <1>2, <1>a, <2>1 DEF Go, Attempt, fileVars
  <2>3. stage \in {"complete", "retry", "rollback"} /\ (stage = "complete" => op' = "applied")
        /\ op' \in {Target, "applied", "changed"}
    BY <1>b, <2>1 DEF ApplyOperation
  <2> HIDE DEF stage
  <2>4. new \in RecoveryCalls /\ new.at = stage
    BY <1>a, <2>2, <2>3 DEF RecoveryCalls
  <2> HIDE DEF new
  <2>5. RuntimeTypeOK' /\ CalendarInv' /\ ApprovalMovesOnce' /\ call'["recovery"] = new
    BY <1>a, <1>b, <1>c, <2>2, <2>3, <2>4, RecoveryStep
  <2>6. RecoveryInv'
    BY <2>3, <2>4, <2>5 DEF RecoveryInv
  <2> QED BY <2>5, <2>6 DEF RuntimeInv
<1>3. CASE ScheduleRetry(c)
  <2>1. PICK returned \in BOOLEAN :
          /\ (~returned /\ UNCHANGED fileVars) \/ Recorded(c, Note("retry"), returned)
          /\ IF returned /\ MayRetry(c)
             THEN call' = [call EXCEPT ![c] = [call[c] EXCEPT !.at = "apply", !.attempt = call[c].attempt + 1]]
             ELSE Go(c, "rollback")
    BY <1>3 DEF ScheduleRetry
  <2>2. mine.at = "retry" /\ op' = op
    BY <1>3, <1>a DEF ScheduleRetry
  <2>3. /\ IsSequence(registry') /\ tail' \in {"whole", "unended", "broken"}
        /\ registry' = registry \/ \E event : registry' = Append(registry, event)
    BY <1>b, <2>1, RecordedFacts DEF fileVars
  <2>4. PICK new \in RecoveryCalls : new.at \in {"apply", "rollback"} /\ call' = [call EXCEPT !["recovery"] = new]
    <3>1. CASE returned /\ MayRetry(c)
      <4> DEFINE new == [mine EXCEPT !.at = "apply", !.attempt = mine.attempt + 1]
      <4>0. mine \in RecoveryCalls /\ mine.attempt + 1 \in Nat
        BY <1>a, <2>2 DEF RecoveryCalls
      <4>1. new \in RecoveryCalls /\ new.at = "apply"
        BY <4>0 DEF RecoveryCalls
      <4>2. call' = [call EXCEPT !["recovery"] = new]
        BY <1>a, <1>d, <2>1, <3>1
      <4> QED BY <4>1, <4>2
    <3>2. CASE ~(returned /\ MayRetry(c))
      <4> DEFINE new == [mine EXCEPT !.at = "rollback"]
      <4>1. new \in RecoveryCalls /\ new.at = "rollback"
        BY <1>a, <2>2 DEF RecoveryCalls
      <4>2. call' = [call EXCEPT !["recovery"] = new]
        BY <1>a, <2>1, <3>2 DEF Go
      <4> QED BY <4>1, <4>2
    <3> QED BY <3>1, <3>2
  <2>5. RuntimeTypeOK' /\ CalendarInv' /\ ApprovalMovesOnce' /\ call'["recovery"] = new
    BY <1>a, <1>b, <1>c, <2>2, <2>3, <2>4, RecoveryStep
  <2>6. RecoveryInv'
    BY <2>4, <2>5 DEF RecoveryInv
  <2> QED BY <2>5, <2>6 DEF RuntimeInv
<1>4. CASE CompleteOperation(c)
  <2>1. mine.at = "complete" /\ op' = op /\ op = "applied"
    BY <1>4, <1>a, <1>b DEF CompleteOperation, RecoveryInv
  <2>2. CASE Recorded(c, Note("completed"), TRUE) /\ call' = [call EXCEPT ![c] = [call[c] EXCEPT !.at = "done", !.result = "COMPLETED"]]
    <3> DEFINE new == [mine EXCEPT !.at = "done", !.result = "COMPLETED"]
    <3>1. new \in RecoveryCalls /\ new.at = "done" /\ new.result = "COMPLETED"
      BY <1>a, <2>1 DEF RecoveryCalls
    <3>2. call' = [call EXCEPT !["recovery"] = new]
      BY <1>a, <2>2
    <3> HIDE DEF new
    <3>3. /\ IsSequence(registry') /\ tail' \in {"whole", "unended", "broken"}
          /\ registry' = Append(registry, Note("completed"))
      BY <1>b, <2>2, RecordedFacts
    <3>4. RuntimeTypeOK' /\ CalendarInv' /\ ApprovalMovesOnce' /\ call'["recovery"] = new
      BY <1>a, <1>b, <1>c, <2>1, <3>1, <3>2, <3>3, RecoveryStep
    <3>5. LastNote("completed")'
      BY <1>b, <3>3, NotesGrow DEF Note
    <3>7. RecoveryInv'
      BY <2>1, <3>1, <3>4, <3>5 DEF RecoveryInv
    <3> QED BY <3>4, <3>7 DEF RuntimeInv
  <2>3. CASE (Recorded(c, Note("completed"), FALSE) \/ UNCHANGED fileVars) /\ Go(c, "rollback")
    <3> DEFINE new == [mine EXCEPT !.at = "rollback"]
    <3>1. new \in RecoveryCalls /\ new.at = "rollback"
      BY <1>a, <2>1 DEF RecoveryCalls
    <3>2. call' = [call EXCEPT !["recovery"] = new]
      BY <1>a, <2>3 DEF Go
    <3> HIDE DEF new
    <3>3. /\ IsSequence(registry') /\ tail' \in {"whole", "unended", "broken"}
          /\ registry' = registry \/ \E event : registry' = Append(registry, event)
      BY <1>b, <2>3, RecordedFacts DEF fileVars
    <3>4. RuntimeTypeOK' /\ CalendarInv' /\ ApprovalMovesOnce' /\ call'["recovery"] = new
      BY <1>a, <1>b, <1>c, <2>1, <3>1, <3>2, <3>3, RecoveryStep
    <3>5. RecoveryInv'
      BY <3>1, <3>4 DEF RecoveryInv
    <3> QED BY <3>4, <3>5 DEF RuntimeInv
  <2> QED BY <1>4, <2>2, <2>3 DEF CompleteOperation
<1>5. CASE StartRollback(c)
  <2>1. PICK returned \in BOOLEAN :
          /\ Recorded(c, Note("rollback"), returned)
          /\ call' = [call EXCEPT ![c] = [call[c] EXCEPT !.at = "undo", !.silent = ~returned]]
    BY <1>5 DEF StartRollback
  <2> DEFINE new == [mine EXCEPT !.at = "undo", !.silent = ~returned]
  <2>2. mine.at = "rollback" /\ op' = op
    BY <1>5, <1>a DEF StartRollback
  <2>3. new \in RecoveryCalls /\ new.at = "undo" /\ (~new.silent => returned)
    BY <1>a, <2>2 DEF RecoveryCalls
  <2>4. call' = [call EXCEPT !["recovery"] = new]
    BY <1>a, <2>1
  <2> HIDE DEF new
  <2>5. /\ IsSequence(registry') /\ tail' \in {"whole", "unended", "broken"}
        /\ registry' = registry \/ registry' = Append(registry, Note("rollback"))
        /\ returned => registry' = Append(registry, Note("rollback"))
    BY <1>b, <2>1, RecordedFacts
  <2>6. RuntimeTypeOK' /\ CalendarInv' /\ ApprovalMovesOnce' /\ call'["recovery"] = new
    BY <1>a, <1>b, <1>c, <2>2, <2>3, <2>4, <2>5, RecoveryStep
  <2>7. returned => LastNote("rollback")'
    BY <1>b, <2>5, NotesGrow DEF Note
  <2>8. RecoveryInv'
    BY <2>3, <2>6, <2>7 DEF RecoveryInv
  <2> QED BY <2>6, <2>8 DEF RuntimeInv
<1>6. CASE Undo(c)
  <2>1. PICK verified \in BOOLEAN :
          /\ verified => op' = Target
          /\ call' = [call EXCEPT ![c] = [call[c] EXCEPT !.at = "settle", !.verified = verified]]
    BY <1>6 DEF Undo
  <2> DEFINE new == [mine EXCEPT !.at = "settle", !.verified = verified]
  <2>2. mine.at = "undo" /\ op' \in {Target, "applied", "changed"} /\ UNCHANGED <<registry, tail>>
    BY <1>6, <1>a, <1>b DEF Undo, fileVars
  <2>3. new \in RecoveryCalls /\ new.at = "settle" /\ new.silent = mine.silent /\ new.verified = verified
    BY <1>a, <2>2 DEF RecoveryCalls
  <2>4. call' = [call EXCEPT !["recovery"] = new]
    BY <1>a, <2>1
  <2> HIDE DEF new
  <2>5. RuntimeTypeOK' /\ CalendarInv' /\ ApprovalMovesOnce' /\ call'["recovery"] = new
    BY <1>a, <1>b, <1>c, <2>2, <2>3, <2>4, RecoveryStep
  <2>6. ~mine.silent => LastNote("rollback")'
    BY <1>a, <1>b, <2>2 DEF RecoveryInv, LastNote, NotedAt
  <2>7. RecoveryInv'
    BY <2>1, <2>3, <2>5, <2>6 DEF RecoveryInv
  <2> QED BY <2>5, <2>7 DEF RuntimeInv
<1>7. CASE Settle(c)
  <2>1. PICK read \in BOOLEAN, returned \in BOOLEAN :
          LET verified == call[c].verified /\ read /\ op = Target IN
          /\ Recorded(c, Note(IF verified THEN "verified" ELSE "unverified"), returned)
          /\ call' = [call EXCEPT ![c] =
                        [call[c] EXCEPT !.at = "done", !.verified = verified,
                           !.result = IF call[c].silent \/ ~returned THEN "RAISED"
                                      ELSE IF verified THEN "ROLLED_BACK" ELSE "BLOCKED"]]
    BY <1>7 DEF Settle
  <2> DEFINE verified == mine.verified /\ read /\ op = Target
             final == IF mine.silent \/ ~returned THEN "RAISED" ELSE IF verified THEN "ROLLED_BACK" ELSE "BLOCKED"
             new == [mine EXCEPT !.at = "done", !.verified = verified, !.result = final]
             event == Note(IF verified THEN "verified" ELSE "unverified")
  <2>2. mine.at = "settle" /\ op' = op
    BY <1>7, <1>a DEF Settle
  <2>3. verified \in BOOLEAN /\ final \in {"RAISED", "ROLLED_BACK", "BLOCKED"}
        /\ (final = "ROLLED_BACK" => verified /\ returned /\ ~mine.silent)
    OBVIOUS
  <2>4. Recorded(c, event, returned) /\ call' = [call EXCEPT !["recovery"] = new]
    BY <1>a, <2>1
  <2>5. event.type = IF verified THEN "verified" ELSE "unverified"
    BY DEF Note
  <2>6. verified => op = Target
    OBVIOUS
  <2> HIDE DEF verified, final
  <2>7. new \in RecoveryCalls /\ new.at = "done" /\ new.result = final
    BY <1>a, <2>2, <2>3 DEF RecoveryCalls
  <2> HIDE DEF new, event
  <2>e. PICK e : e = event
    OBVIOUS
  <2>8. /\ IsSequence(registry') /\ tail' \in {"whole", "unended", "broken"}
        /\ registry' = registry \/ registry' = Append(registry, e)
        /\ returned => registry' = Append(registry, e)
    BY <1>b, <2>4, <2>e, RecordedFacts
  <2>9. RuntimeTypeOK' /\ CalendarInv' /\ ApprovalMovesOnce' /\ call'["recovery"] = new
    BY <1>a, <1>b, <1>c, <2>2, <2>4, <2>7, <2>8, RecoveryStep
  <2>10. final = "ROLLED_BACK" => op' = Target /\ LastTwoNotes("rollback", "verified")'
    <3> SUFFICES ASSUME final = "ROLLED_BACK" PROVE op' = Target /\ LastTwoNotes("rollback", "verified")'
      OBVIOUS
    <3>1. LastNote("rollback")
      BY <1>a, <1>b, <2>2, <2>3 DEF RecoveryInv
    <3>2. LastTwoNotes("rollback", e.type)'
      BY <1>b, <2>3, <2>8, <3>1, NotesGrow
    <3>3. e.type = "verified"
      BY <2>3, <2>5, <2>e
    <3> QED BY <2>2, <2>3, <2>6, <3>2, <3>3
  <2>11. RecoveryInv'
    BY <2>3, <2>7, <2>9, <2>10 DEF RecoveryInv
  <2> QED BY <2>9, <2>11 DEF RuntimeInv
<1>8. CASE Answered(c)
  <2>1. call' = [call EXCEPT !["recovery"] = Resting] /\ UNCHANGED <<op, registry, tail>>
    BY <1>8, <1>a DEF Answered, fileVars
  <2>2. RuntimeTypeOK' /\ CalendarInv' /\ ApprovalMovesOnce' /\ call'["recovery"] = Resting
    BY <1>a, <1>b, <1>c, <2>1, RecoveryStep
  <2>3. RecoveryInv'
    BY <2>2 DEF RecoveryInv, Resting
  <2> QED BY <2>2, <2>3 DEF RuntimeInv
<1> QED BY <1>1, <1>2, <1>3, <1>4, <1>5, <1>6, <1>7, <1>8

\* The worker, the evaluator and the learner record events of their own.
LEMMA OthersOK ==
  ASSUME RuntimeInv, NEW c \in company,
         \/ \E steps \in 1..MaxSteps + 1, allowed \in BOOLEAN : Work(c, steps, allowed)
         \/ WorkerStep(c) \/ Worked(c)
         \/ \E verdict \in {"PASS", "FAIL"} : Evaluate(c, verdict)
         \/ Learn(c) \/ Propose(c)
  PROVE RuntimeInv'
<1>a. c \in Actors /\ DOMAIN call = Actors /\ RuntimeTypeOK /\ IsSequence(registry)
  BY DEF RuntimeInv, RuntimeTypeOK, Actors
<1>b. UNCHANGED <<company, keeper, calendarVars, op>>
  BY DEF Work, WorkerStep, Worked, Evaluate, Learn, Propose, workerFrame
<1>c. c \notin Planners \cup {"recovery"}
  <2>1. Resting.at = "idle"
    BY DEF Resting
  <2>2. call[c].at \in {"step", "propose"} => c \notin Planners \cup {"recovery"}
    BY <1>a, <2>1 DEF RuntimeTypeOK, CalendarCalls, RecoveryCalls
  <2> QED BY <2>2 DEF Work, WorkerStep, Worked, Evaluate, Learn, Propose, Planners
<1>d. "at" \in DOMAIN call[c] /\ call[c].at \in {"idle", "step", "propose"}
  BY <1>a, <1>c DEF RuntimeTypeOK
<1>1. /\ DOMAIN call' = Actors /\ \A other \in Actors : other # c => call'[other] = call[other]
      /\ "at" \in DOMAIN call'[c] /\ call'[c].at \in {"idle", "step", "propose"}
  <2>1. "at" \in DOMAIN Resting /\ Resting.at = "idle"
    BY DEF Resting
  <2>2. CASE \E steps \in 1..MaxSteps + 1, allowed \in BOOLEAN : Work(c, steps, allowed)
    BY <1>a, <2>2 DEF Work
  <2>3. CASE WorkerStep(c)
    BY <1>a, <1>d, <2>1, <2>3 DEF WorkerStep
  <2>4. CASE Worked(c)
    BY <1>a, <2>1, <2>4 DEF Worked
  <2>5. CASE \E verdict \in {"PASS", "FAIL"} : Evaluate(c, verdict)
    BY <1>a, <1>d, <2>5 DEF Evaluate
  <2>6. CASE Learn(c)
    BY <1>a, <2>6 DEF Learn
  <2>7. CASE Propose(c)
    BY <1>a, <1>d, <2>1, <2>7 DEF Propose
  <2> QED BY <2>2, <2>3, <2>4, <2>5, <2>6, <2>7
<1>2. /\ IsSequence(registry') /\ tail' \in {"whole", "unended", "broken"}
      /\ registry' = registry \/ \E event : registry' = Append(registry, event) /\ event.type \notin Notes
  <2>1. CASE UNCHANGED fileVars
    BY <1>a, <2>1 DEF fileVars, RuntimeTypeOK
  <2>2. CASE \E event, returned : returned \in BOOLEAN /\ Recorded(c, event, returned) /\ event.type \notin Notes
    BY <1>a, <2>2, RecordedFacts
  <2>3. CASE Worked(c)
    <3>1. \A n : [type |-> "worked", bytes |-> n].type \notin Notes
      BY DEF Notes
    <3> QED BY <2>2, <2>3, <3>1 DEF Worked
  <2>4. CASE \E verdict \in {"PASS", "FAIL"} : Evaluate(c, verdict)
    <3>1. \A v : [type |-> "evaluation", verdict |-> v].type \notin Notes
      BY DEF Notes
    <3> QED BY <2>2, <2>4, <3>1 DEF Evaluate
  <2>5. CASE Propose(c)
    <3>1. \A n, i : [type |-> "proposed", source |-> n, id |-> i].type \notin Notes
      BY DEF Notes
    <3> QED BY <2>1, <2>2, <2>5, <3>1 DEF Propose
  <2> QED BY <2>1, <2>3, <2>4, <2>5 DEF Work, WorkerStep, Learn
<1>3. RuntimeTypeOK'
  BY <1>a, <1>b, <1>c, <1>1, <1>2 DEF RuntimeTypeOK, calendarVars
<1>4. Consumed \subseteq Consumed'
  <2>1. CASE registry' = registry
    BY <2>1 DEF Consumed, Events
  <2>2. CASE \E event : registry' = Append(registry, event)
    BY <1>a, <2>2, ConsumedGrows
  <2> QED BY <1>2, <2>1, <2>2
<1>5. CalendarInv' /\ ApprovalMovesOnce'
  BY <1>b, <1>c, <1>1, <1>4, CalendarFrame
<1>6. RecoveryInv'
  BY <1>b, <1>c, <1>1, <1>2, RecoveryFrame
<1> QED BY <1>3, <1>5, <1>6 DEF RuntimeInv

LEMMA RuntimeStepOK ==
  ASSUME RuntimeInv, [RuntimeNext]_runtimeVars
  PROVE RuntimeInv'
<1>1. CASE UNCHANGED runtimeVars
  BY <1>1 DEF runtimeVars, fileVars, calendarVars, RuntimeInv, RuntimeTypeOK, CalendarInv, RecoveryInv, ApprovalMovesOnce,
              Consumed, Events, LastNote, LastTwoNotes, NotedAt
<1>2. CASE RuntimeNext
  BY <1>2, RestartOK, OutsideOK, CalendarOK, RecoveryOK, OthersOK DEF RuntimeNext
<1> QED BY <1>1, <1>2

\* An approval moves the calendar at most once and no update overwrites one its
\* approver had not seen, for every set of callers at work together.
THEOREM ApprovalOnce == RuntimeSpec => []ApprovalMovesOnce
<1>1. RuntimeInv => ApprovalMovesOnce
  BY DEF RuntimeInv
<1> QED BY <1>1, RuntimeInitOK, RuntimeStepOK, PTL DEF RuntimeSpec

\* What a recovery answers is so and is on record.
THEOREM RecoveryTrue == RuntimeSpec => []RecoveryIsTrue
<1>1. RuntimeInv => RecoveryIsTrue
  <2>1. company \in Companies /\ "recovery" \in company => "recovery" \in Actors
    BY DEF Actors
  <2>2. Target # "applied" /\ Target # "changed"
    BY DEF Target
  <2> QED BY <2>1, <2>2 DEF RuntimeInv, RuntimeTypeOK, RecoveryInv, RecoveryIsTrue
<1> QED BY <1>1, RuntimeInitOK, RuntimeStepOK, PTL DEF RuntimeSpec

-----------------------------------------------------------------------------
(* Personal executions *)

\* Every set of naturals that is not empty has a least member.
LEMMA LeastNatural ==
  ASSUME NEW S, S \subseteq Nat, S # {}
  PROVE \E i \in S : \A j \in S : i <= j
<1>1. PICK i \in S : \A j \in S : ~(<<j, i>> \in OpToRel(<, Nat))
  BY NatLessThanWellFounded, WFMin
<1>2. \A j \in S : ~(j < i)
  BY <1>1 DEF OpToRel
<1> QED BY <1>2

\* The latencies of finitely many cases are bounded.
LEMMA LatenciesBounded ==
  ASSUME NEW cases, IsFiniteSet(cases), \A c \in cases : c.latency \in Nat
  PROVE \E m \in Nat : \A c \in cases : c.latency <= m
<1> DEFINE Bounded(T) == \E m \in Nat : \A c \in T : c.latency <= m
           Bad == {n \in Nat : \E T \in SUBSET cases : Cardinality(T) = n /\ ~Bounded(T)}
<1>1. Bad = {}
  <2> SUFFICES ASSUME Bad # {} PROVE FALSE
    OBVIOUS
  <2>1. PICK n \in Bad : \A k \in Bad : n <= k
    <3>1. Bad \subseteq Nat
      OBVIOUS
    <3> HIDE DEF Bad
    <3> QED BY <3>1, LeastNatural
  <2>2. PICK T \in SUBSET cases : Cardinality(T) = n /\ ~Bounded(T)
    OBVIOUS
  <2>3. PICK c \in T : TRUE
    BY <2>2
  <2>4. T \ {c} \in SUBSET cases /\ Cardinality(T \ {c}) = n - 1 /\ n - 1 \in Nat
    <3>1. IsFiniteSet(T) /\ IsFiniteSet(T \ {c})
      BY FS_Subset, FS_RemoveElement
    <3>2. Cardinality(T \ {c}) = Cardinality(T) - 1 /\ Cardinality(T \ {c}) \in Nat
      BY <3>1, FS_RemoveElement, FS_CardinalityType
    <3> QED BY <2>2, <3>2
  <2>5. Bounded(T \ {c})
    <3>1. n \in Nat
      OBVIOUS
    <3>2. n - 1 \notin Bad
      <4> HIDE DEF Bad
      <4> QED BY <2>1, <2>4, <3>1
    <3> HIDE DEF Bounded
    <3> QED BY <2>4, <3>2
  <2>6. PICK m \in Nat : \A d \in T \ {c} : d.latency <= m
    BY <2>5
  <2>7. c.latency \in Nat /\ \A d \in T : d.latency \in Nat
    OBVIOUS
  <2>8. Bounded(T)
    <3>1. CASE c.latency <= m
      BY <2>6, <2>7, <3>1
    <3>2. CASE m <= c.latency
      BY <2>6, <2>7, <3>2
    <3> QED BY <2>7, <3>1, <3>2
  <2> QED BY <2>2, <2>8
<1>2. Cardinality(cases) \in Nat
  BY FS_CardinalityType
<1>3. Bounded(cases)
  <2> HIDE DEF Bounded
  <2> QED BY <1>1, <1>2
<1> QED BY <1>3

LEMMA RankFacts ==
  ASSUME NEW n \in Nat, n >= 1
  PROVE LET rank == (95 * n + 99) \div 100
        IN rank \in Nat /\ rank >= 1 /\ rank <= n /\ 100 * rank >= 95 * n
BY SMT

\* Some case has exactly the latency at a rank.
LEMMA RankReached ==
  ASSUME NEW cases, IsFiniteSet(cases), \A c \in cases : c.latency \in Nat,
         NEW rank \in Nat, rank >= 1, rank <= Cardinality(cases)
  PROVE \E l \in {c.latency : c \in cases} :
          /\ Cardinality({c \in cases : c.latency < l}) < rank
          /\ Cardinality({c \in cases : c.latency <= l}) >= rank
<1> DEFINE upTo(m) == {c \in cases : c.latency <= m}
           below(m) == {c \in cases : c.latency < m}
           Enough == {m \in Nat : Cardinality(upTo(m)) >= rank}
<1>1. \A m : Cardinality(upTo(m)) \in Nat /\ Cardinality(below(m)) \in Nat
  BY FS_Subset, FS_CardinalityType
<1>2. Enough # {} /\ Enough \subseteq Nat
  <2>1. PICK m \in Nat : \A c \in cases : c.latency <= m
    BY LatenciesBounded
  <2>2. upTo(m) = cases
    BY <2>1
  <2> HIDE DEF upTo
  <2> QED BY <2>2
<1>3. PICK m \in Enough : \A k \in Enough : m <= k
  <2> HIDE DEF Enough
  <2> QED BY <1>2, LeastNatural
<1>4. m \in Nat /\ Cardinality(upTo(m)) >= rank
  OBVIOUS
<1>5. Cardinality(below(m)) < rank
  <2>1. CASE m = 0
    <3>1. below(m) = {}
      BY <2>1
    <3>2. Cardinality(below(m)) = 0
      BY <3>1, FS_EmptySet
    <3> HIDE DEF below
    <3> QED BY <3>2
  <2>2. CASE m # 0
    <3>1. m - 1 \in Nat /\ ~(m <= m - 1)
      BY <1>4, <2>2
    <3>2. below(m) = upTo(m - 1)
      BY <1>4, <3>1
    <3>3. m - 1 \notin Enough
      <4> HIDE DEF Enough
      <4> QED BY <1>3, <3>1
    <3>4. ~(Cardinality(upTo(m - 1)) >= rank)
      BY <3>1, <3>3
    <3>5. Cardinality(upTo(m - 1)) \in Nat
      BY <1>1
    <3> HIDE DEF upTo, below, Enough
    <3> QED BY <3>2, <3>4, <3>5
  <2> QED BY <2>1, <2>2
<1>6. m \in {c.latency : c \in cases}
  <2> SUFFICES ASSUME \A c \in cases : c.latency # m PROVE FALSE
    OBVIOUS
  <2>1. below(m) = upTo(m)
    BY <1>4
  <2>2. Cardinality(upTo(m)) \in Nat
    BY <1>1
  <2> HIDE DEF upTo, below, Enough
  <2> QED BY <1>4, <1>5, <2>1, <2>2
<1> HIDE DEF Enough
<1> QED BY <1>4, <1>5, <1>6

\* The latency at the rank is that of a case, and the cases up to it are enough.
LEMMA LatencyAtRank ==
  ASSUME NEW cases, IsFiniteSet(cases), cases # {}, \A c \in cases : c.latency \in Nat
  PROVE /\ Latency95(cases) \in Nat
        /\ 100 * Cardinality({c \in cases : c.latency <= Latency95(cases)}) >= 95 * Cardinality(cases)
<1>1. PICK n : n = Cardinality(cases)
  OBVIOUS
<1>2. n \in Nat /\ n >= 1
  BY <1>1, FS_CardinalityType, FS_EmptySet
<1>3. PICK rank : rank = (95 * n + 99) \div 100
  OBVIOUS
<1>4. rank \in Nat /\ rank >= 1 /\ rank <= n /\ 100 * rank >= 95 * n
  BY <1>2, <1>3, RankFacts
<1>5. \E l \in {c.latency : c \in cases} :
        /\ Cardinality({c \in cases : c.latency < l}) < rank
        /\ Cardinality({c \in cases : c.latency <= l}) >= rank
  BY <1>1, <1>4, RankReached
<1>6. /\ Latency95(cases) \in {c.latency : c \in cases}
      /\ Cardinality({c \in cases : c.latency <= Latency95(cases)}) >= rank
  <2>1. Latency95(cases) = CHOOSE l \in {c.latency : c \in cases} :
          /\ Cardinality({c \in cases : c.latency < l}) < rank
          /\ Cardinality({c \in cases : c.latency <= l}) >= rank
    BY <1>1, <1>3 DEF Latency95
  <2> QED BY <1>5, <2>1
<1> DEFINE fast == {c \in cases : c.latency <= Latency95(cases)}
<1>7. Latency95(cases) \in Nat /\ Cardinality(fast) \in Nat
  BY <1>6, FS_Subset, FS_CardinalityType
<1>8. Cardinality(fast) >= rank
  BY <1>6
<1> HIDE DEF fast
<1>9. 100 * Cardinality(fast) >= 95 * n
  BY <1>2, <1>4, <1>7, <1>8
<1> QED BY <1>1, <1>7, <1>9 DEF fast

\* A limit that the latency at the rank meets is met by nineteen in twenty.
LEMMA FastEnough ==
  ASSUME NEW cases, IsFiniteSet(cases), cases # {}, \A c \in cases : c.latency \in Nat,
         NEW limit \in Nat, Latency95(cases) <= limit
  PROVE 20 * Cardinality({c \in cases : c.latency <= limit}) >= 19 * Cardinality(cases)
<1> DEFINE some == {c \in cases : c.latency <= Latency95(cases)}
           more == {c \in cases : c.latency <= limit}
<1>1. Latency95(cases) \in Nat /\ 100 * Cardinality(some) >= 95 * Cardinality(cases)
  BY LatencyAtRank
<1>2. some \in SUBSET more /\ more \in SUBSET cases
  BY <1>1
<1>3. /\ IsFiniteSet(more) /\ IsFiniteSet(some) /\ Cardinality(some) <= Cardinality(more)
  <2> HIDE DEF some, more
  <2> QED BY <1>2, FS_Subset
<1>4. Cardinality(some) \in Nat /\ Cardinality(more) \in Nat /\ Cardinality(cases) \in Nat
  BY <1>3, FS_CardinalityType
<1> HIDE DEF some, more
<1>5. 20 * Cardinality(more) >= 19 * Cardinality(cases)
  BY <1>1, <1>3, <1>4
<1> QED BY <1>5 DEF more

\* Comparing each event with the following ones until one starts after its end
\* finds a conflict exactly when two events overlap.
LEMMA ConflictsOverlap ==
  ASSUME NEW week, Unique(week), \A e \in week : e.id \in Int /\ e.start \in Int /\ e.end \in Int /\ e.start < e.end
  PROVE Conflicts(week) # {} <=> \E d, e \in week : d # e /\ d.start < e.end /\ e.start < d.end
<1> DEFINE before(x, y) == x.start < y.start \/ (x.start = y.start /\ x.id < y.id)
<1>1. \A x, y \in week : x # y => before(x, y) \/ before(y, x)
  BY DEF Unique
<1>2. ASSUME NEW x \in week, NEW y \in week, before(x, y)
      PROVE <<x, y>> \in Conflicts(week) <=> y.start < x.end
  <2>1. y.start < x.end => \A e \in week : before(x, e) /\ ~before(y, e) => e.start < x.end
    OBVIOUS
  <2>2. (\A e \in week : before(x, e) /\ ~before(y, e) => e.start < x.end) => y.start < x.end
    BY <1>2
  <2> QED BY <1>2, <2>1, <2>2 DEF Conflicts
<1>3. \A p \in Conflicts(week) : p[1] \in week /\ p[2] \in week /\ p = <<p[1], p[2]>> /\ before(p[1], p[2])
  BY DEF Conflicts
<1>4. ASSUME NEW p \in Conflicts(week) PROVE \E d, e \in week : d # e /\ d.start < e.end /\ e.start < d.end
  <2>1. p[2].start < p[1].end
    BY <1>2, <1>3
  <2>2. p[1].start < p[2].end /\ p[1] # p[2]
    BY <1>3
  <2> QED BY <1>3, <2>1, <2>2
<1>5. ASSUME NEW d \in week, NEW e \in week, d # e, d.start < e.end, e.start < d.end PROVE Conflicts(week) # {}
  <2> HIDE DEF before
  <2> QED BY <1>1, <1>2, <1>5
<1> QED BY <1>4, <1>5

\* A worker's output asks for actions only with its verdict.
LEMMA OutputAsks ==
  ASSUME NEW verdict \in BOOLEAN, NEW shown, NEW refs, NEW actions
  PROVE LET o == Output(verdict, shown, refs, actions)
        IN /\ o.verdict = verdict /\ o.shown = shown /\ o.refs = refs
           /\ (o.actions # {} => verdict) /\ o.actions \subseteq actions
BY DEF Output

LEMMA ThreeShown ==
  ASSUME NEW a \in BOOLEAN, NEW b \in BOOLEAN, NEW c \in BOOLEAN
  PROVE (\A i \in DOMAIN <<a, b, c>> : <<a, b, c>>[i]) <=> (a /\ b /\ c)
OBVIOUS

LEMMA FourShown ==
  ASSUME NEW a \in BOOLEAN, NEW b \in BOOLEAN, NEW c \in BOOLEAN, NEW d \in BOOLEAN
  PROVE (\A i \in DOMAIN <<a, b, c, d>> : <<a, b, c, d>>[i]) <=> (a /\ b /\ c /\ d)
OBVIOUS

LEMMA FiveShown ==
  ASSUME NEW a \in BOOLEAN, NEW b \in BOOLEAN, NEW c \in BOOLEAN, NEW d \in BOOLEAN, NEW e \in BOOLEAN
  PROVE (\A i \in DOMAIN <<a, b, c, d, e>> : <<a, b, c, d, e>>[i]) <=> (a /\ b /\ c /\ d /\ e)
OBVIOUS

LEMMA NineShown ==
  ASSUME NEW a, NEW b, NEW c, NEW d, NEW e, NEW f, NEW g, NEW h, NEW k
  PROVE LET shown == <<a, b, c, d, e>> \o <<f, g, h, k>>
        IN (\A i \in DOMAIN shown : shown[i]) => g
<1> DEFINE s == <<a, b, c, d, e>>
           t == <<f, g, h, k>>
<1>1. 7 \in DOMAIN (s \o t) /\ (s \o t)[7] = g
  OBVIOUS
<1> HIDE DEF s, t
<1> QED BY <1>1

\* What the verifier asks of a worker's output.
Acceptable(output, sources, w) ==
  /\ ValidOutput(output, sources)
  /\ output.actions \subseteq RequiredApprovals(w)
  /\ output.actions # {} => output.verdict

LEMMA WorkerOf ==
  ASSUME NEW r
  PROVE /\ ExecuteTask(r, "goal") = GoalToVerifiedRelease(r, Input(r, "goal"))
        /\ ExecuteTask(r, "eval") = AiEvalReleaseGate(r, Input(r, "eval"))
        /\ ExecuteTask(r, "weekly") = WeeklyPmCommandCentre(r, Input(r, "weekly"))
        /\ ExecuteTask(r, "meeting") = MeetingToDecision(r, Input(r, "meeting"))
        /\ ExecuteTask(r, "roadmap") = EvidenceToRoadmapToRelease(r, Input(r, "roadmap"))
        /\ ExecuteTask(r, "issue") = IssueToDraftPr(r, Input(r, "issue"))
        /\ ExecuteTask(r, "readiness") = GenericOutcomePack(r, Input(r, "readiness"))
BY DEF ExecuteTask

\* What admission and the schema say of a workflow's input.
LEMMA AdmittedInput ==
  ASSUME NEW r \in PersonalRequests, RequestAdmitted(r), NEW w \in Workflows(r)
  PROVE LET input == Input(r, w) IN
        /\ w \in Catalog /\ input.sources # {} /\ input.sources \subseteq input.sources
        /\ Cited(input.checks) \subseteq input.sources /\ Cited(input.records) \subseteq input.sources
        /\ Cited(input.records \cup input.checks) \subseteq input.sources
        /\ w \in {"goal", "roadmap", "issue", "readiness"} =>
             Cited(input.checks) # {} /\ Cited(input.records \cup input.checks) # {}
        /\ w = "eval" => /\ IsFiniteSet(input.records) /\ input.records # {} /\ input.limits.latency \in Nat
                         /\ \A c \in input.records : c.latency \in Nat
                         /\ Cited(input.records) # {}
        /\ w = "weekly" => /\ Unique(input.events)
                           /\ \A e \in input.events : e.id \in Int /\ e.start \in Int /\ e.end \in Int /\ e.start < e.end
<1> DEFINE input == Input(r, w)
<1>1. PICK i : i = input
  OBVIOUS
<1>2. r.schema /\ Referenced(i) \subseteq i.sources /\ InputAdmitted(w, i)
  BY <1>1 DEF RequestAdmitted
<1>3. /\ w \in Catalog
      /\ i.sources # {}
      /\ w \in {"goal", "roadmap", "issue", "readiness"} => \E c \in i.checks : c.sources # {}
      /\ w = "eval" => /\ IsFiniteSet(i.records) /\ i.records # {} /\ i.limits.latency \in Nat
                       /\ \A c \in i.records : c.sources # {} /\ c.latency \in Nat
      /\ w = "weekly" => \A e \in i.events : {e.id, e.start, e.end} \subseteq Int
  BY <1>1, <1>2, SchemaAssumption
<1> HIDE DEF input
<1>4. Cited(i.checks) \subseteq i.sources /\ Cited(i.records) \subseteq i.sources
      /\ Cited(i.records \cup i.checks) \subseteq i.sources
  BY <1>2 DEF Referenced, Cited
<1>5. ASSUME w \in {"goal", "roadmap", "issue", "readiness"}
      PROVE Cited(i.checks) # {} /\ Cited(i.records \cup i.checks) # {}
  <2>1. PICK c \in i.checks : c.sources # {}
    BY <1>3, <1>5
  <2>2. PICK s : s \in c.sources
    BY <2>1
  <2> QED BY <2>1, <2>2 DEF Cited
<1>6. w = "eval" => Cited(i.records) # {}
  BY <1>3 DEF Cited
<1>7. ASSUME w = "weekly"
      PROVE /\ Unique(i.events)
            /\ \A e \in i.events : e.id \in Int /\ e.start \in Int /\ e.end \in Int /\ e.start < e.end
  BY <1>2, <1>3, <1>7 DEF InputAdmitted
<1> QED BY <1>1, <1>3, <1>4, <1>5, <1>6, <1>7 DEF input

\* An output is sound when its verdict is that of its checks, its provenance is
\* of the packet, and what it asks for is the packet's.
LEMMA AcceptableOutput ==
  ASSUME NEW verdict \in BOOLEAN, NEW shown, NEW refs, NEW actions, NEW sources, NEW w,
         verdict = \A k \in DOMAIN shown : shown[k],
         refs # {}, refs \subseteq sources, verdict => actions \subseteq RequiredApprovals(w)
  PROVE Acceptable(Output(verdict, shown, refs, actions), sources, w)
<1>1. PICK o : o = Output(verdict, shown, refs, actions)
  OBVIOUS
<1>2. /\ o.verdict = verdict /\ o.shown = shown /\ o.refs = refs
      /\ (o.actions # {} => verdict) /\ o.actions \subseteq actions
  BY <1>1, OutputAsks
<1>3. ValidOutput(o, sources)
  BY <1>2 DEF ValidOutput
<1>4. o.actions \subseteq RequiredApprovals(w)
  BY <1>2
<1>5. o.actions # {} => o.verdict
  BY <1>2
<1> QED BY <1>1, <1>3, <1>4, <1>5 DEF Acceptable

\* Every worker computes its verdict and the checks shown with it apart, and
\* the verifier finds them to agree.
LEMMA TaskSound ==
  ASSUME NEW r \in PersonalRequests, RequestAdmitted(r), NEW w \in Workflows(r)
  PROVE Acceptable(ExecuteTask(r, w), Input(r, w).sources, w)
<1>1. PICK i : i = Input(r, w)
  OBVIOUS
<1>2. /\ w \in Catalog /\ i.sources # {}
      /\ Cited(i.checks) \subseteq i.sources /\ Cited(i.records) \subseteq i.sources
      /\ Cited(i.records \cup i.checks) \subseteq i.sources
      /\ w \in {"goal", "roadmap", "issue", "readiness"} =>
           Cited(i.checks) # {} /\ Cited(i.records \cup i.checks) # {}
      /\ w = "eval" => Cited(i.records) # {}
  BY <1>1, AdmittedInput
<1>3. CASE w = "goal"
  <2> DEFINE declared == Declared(i.checks)
             bound == BoundTo(r, i.checks, i.subject)
  <2>1. declared \in BOOLEAN /\ bound \in BOOLEAN
    BY DEF Declared, BoundTo, Matches
  <2>2. (declared /\ bound) = \A k \in DOMAIN <<declared, bound, TRUE>> : <<declared, bound, TRUE>>[k]
    <3> HIDE DEF declared, bound
    <3> QED BY <2>1, ThreeShown
  <2>3. RequiredApprovals(w) = {"git.merge", "production.deploy"}
    BY <1>3 DEF RequiredApprovals
  <2>4. ExecuteTask(r, w) = Output(declared /\ bound, <<declared, bound, TRUE>>, Cited(i.checks), {"git.merge", "production.deploy"})
    BY <1>1, <1>3, WorkerOf DEF GoalToVerifiedRelease
  <2> HIDE DEF declared, bound
  <2>5. PICK v : v = (declared /\ bound)
    OBVIOUS
  <2>6. v \in BOOLEAN
    BY <2>1, <2>5
  <2>7. {"git.merge", "production.deploy"} \subseteq RequiredApprovals(w)
    BY <2>3
  <2>8. Acceptable(Output(v, <<declared, bound, TRUE>>, Cited(i.checks), {"git.merge", "production.deploy"}), i.sources, w)
    BY <1>2, <1>3, <2>2, <2>5, <2>6, <2>7, AcceptableOutput
  <2> QED BY <1>1, <2>4, <2>5, <2>8
<1>4. CASE w = "meeting"
  <2> DEFINE bound == Matches(r, i.sources, <<"meeting", i.subject>>)
  <2>1. bound \in BOOLEAN
    BY DEF Declared, BoundTo, Matches
  <2>2. (bound) = \A k \in DOMAIN <<TRUE, TRUE, bound>> : <<TRUE, TRUE, bound>>[k]
    <3> HIDE DEF bound
    <3> QED BY <2>1, ThreeShown
  <2>3. RequiredApprovals(w) = {"task.create", "message.send"}
    BY <1>4 DEF RequiredApprovals
  <2>4. ExecuteTask(r, w) = Output(bound, <<TRUE, TRUE, bound>>, i.sources, {"task.create", "message.send"})
    BY <1>1, <1>4, WorkerOf DEF MeetingToDecision
  <2> HIDE DEF bound
  <2>5. PICK v : v = (bound)
    OBVIOUS
  <2>6. v \in BOOLEAN
    BY <2>1, <2>5
  <2>7. {"task.create", "message.send"} \subseteq RequiredApprovals(w)
    BY <2>3
  <2>8. Acceptable(Output(v, <<TRUE, TRUE, bound>>, i.sources, {"task.create", "message.send"}), i.sources, w)
    BY <1>2, <1>4, <2>2, <2>5, <2>6, <2>7, AcceptableOutput
  <2> QED BY <1>1, <2>4, <2>5, <2>8
<1>5. CASE w = "issue"
  <2> DEFINE declared == Declared(i.checks)
             bound == BoundTo(r, i.checks, i.subject)
             contract == Matches(r, i.sources, <<"issue", i.subject>>)
  <2>1. declared \in BOOLEAN /\ bound \in BOOLEAN /\ contract \in BOOLEAN
    BY DEF Declared, BoundTo, Matches
  <2>2. (declared /\ bound /\ contract) = \A k \in DOMAIN <<declared, bound, TRUE, contract>> : <<declared, bound, TRUE, contract>>[k]
    <3> HIDE DEF declared, bound, contract
    <3> QED BY <2>1, FourShown
  <2>3. RequiredApprovals(w) = {"git.pr.create", "git.merge"}
    BY <1>5 DEF RequiredApprovals
  <2>4. ExecuteTask(r, w) = Output(declared /\ bound /\ contract, <<declared, bound, TRUE, contract>>, Cited(i.checks), {"git.pr.create"})
    BY <1>1, <1>5, WorkerOf DEF IssueToDraftPr
  <2> HIDE DEF declared, bound, contract
  <2>5. PICK v : v = (declared /\ bound /\ contract)
    OBVIOUS
  <2>6. v \in BOOLEAN
    BY <2>1, <2>5
  <2>7. {"git.pr.create"} \subseteq RequiredApprovals(w)
    BY <2>3
  <2>8. Acceptable(Output(v, <<declared, bound, TRUE, contract>>, Cited(i.checks), {"git.pr.create"}), i.sources, w)
    BY <1>2, <1>5, <2>2, <2>5, <2>6, <2>7, AcceptableOutput
  <2> QED BY <1>1, <2>4, <2>5, <2>8
<1>6. CASE w = "roadmap"
  <2> DEFINE claimed == \A c \in i.records : Matches(r, c.sources, <<"claim", c.id>>)
             decided == Matches(r, i.sources, <<"decision", i.option>>)
             declared == Declared(i.checks)
             bound == BoundTo(r, i.checks, i.option)
  <2>1. claimed \in BOOLEAN /\ decided \in BOOLEAN /\ declared \in BOOLEAN /\ bound \in BOOLEAN
    BY DEF Declared, BoundTo, Matches
  <2>2. (declared /\ bound /\ claimed /\ decided) = \A k \in DOMAIN <<TRUE, claimed, decided, declared, bound>> : <<TRUE, claimed, decided, declared, bound>>[k]
    <3> HIDE DEF claimed, decided, declared, bound
    <3> QED BY <2>1, FiveShown
  <2>3. RequiredApprovals(w) = {"roadmap.update", "release.publish"}
    BY <1>6 DEF RequiredApprovals
  <2>4. ExecuteTask(r, w) = Output(declared /\ bound /\ claimed /\ decided, <<TRUE, claimed, decided, declared, bound>>, Cited(i.records \cup i.checks), {"roadmap.update", "release.publish"})
    BY <1>1, <1>6, WorkerOf DEF EvidenceToRoadmapToRelease
  <2> HIDE DEF claimed, decided, declared, bound
  <2>5. PICK v : v = (declared /\ bound /\ claimed /\ decided)
    OBVIOUS
  <2>6. v \in BOOLEAN
    BY <2>1, <2>5
  <2>7. {"roadmap.update", "release.publish"} \subseteq RequiredApprovals(w)
    BY <2>3
  <2>8. Acceptable(Output(v, <<TRUE, claimed, decided, declared, bound>>, Cited(i.records \cup i.checks), {"roadmap.update", "release.publish"}), i.sources, w)
    BY <1>2, <1>6, <2>2, <2>5, <2>6, <2>7, AcceptableOutput
  <2> QED BY <1>1, <2>4, <2>5, <2>8
<1>7. CASE w = "eval"
  <2>1. PICK shown, acts : /\ ExecuteTask(r, w) = Output(\A k \in DOMAIN shown : shown[k], shown, Cited(i.records), acts)
                           /\ acts \subseteq RequiredApprovals(w)
    <3>1. RequiredApprovals(w) = {"model.release"}
      BY <1>7 DEF RequiredApprovals
    <3>2. ExecuteTask(r, w) = AiEvalReleaseGate(r, i)
      BY <1>1, <1>7, WorkerOf
    <3> QED BY <3>1, <3>2 DEF AiEvalReleaseGate
  <2>2. PICK v : v = \A k \in DOMAIN shown : shown[k]
    OBVIOUS
  <2>3. v \in BOOLEAN
    BY <2>2
  <2>4. Acceptable(Output(v, shown, Cited(i.records), acts), i.sources, w)
    BY <1>2, <1>7, <2>1, <2>2, <2>3, AcceptableOutput
  <2> QED BY <1>1, <2>1, <2>2, <2>4
<1>8. CASE w = "weekly"
  <2>1. PICK shown, acts : /\ ExecuteTask(r, w) = Output(\A k \in DOMAIN shown : shown[k], shown, i.sources, acts)
                           /\ acts \subseteq RequiredApprovals(w)
    <3>1. RequiredApprovals(w) = {"calendar.write", "message.send"}
      BY <1>8 DEF RequiredApprovals
    <3>2. ExecuteTask(r, w) = WeeklyPmCommandCentre(r, i)
      BY <1>1, <1>8, WorkerOf
    <3> QED BY <3>1, <3>2 DEF WeeklyPmCommandCentre
  <2>2. PICK v : v = \A k \in DOMAIN shown : shown[k]
    OBVIOUS
  <2>3. v \in BOOLEAN
    BY <2>2
  <2>4. Acceptable(Output(v, shown, i.sources, acts), i.sources, w)
    BY <1>2, <1>8, <2>1, <2>2, <2>3, AcceptableOutput
  <2> QED BY <1>1, <2>1, <2>2, <2>4
<1>9. CASE w = "readiness"
  <2> DEFINE packed == VerifyExtendedPack(r, i)
             shown == packed \o <<i.records # {}, i.actions = {"release.publish"},
                                  \A x \in i.records : Matches(r, x.sources, <<"record", x.id, x.value>>),
                                  Declared(i.checks)>>
  <2>1. ExecuteTask(r, w) = Output(\A k \in DOMAIN shown : shown[k], shown, Cited(i.records \cup i.checks), i.actions)
    BY <1>1, <1>9, WorkerOf DEF GenericOutcomePack
  <2>2. (\A k \in DOMAIN shown : shown[k]) => i.actions = {"release.publish"}
    <3>1. PICK a, b, c, d, e : packed = <<a, b, c, d, e>>
      BY DEF VerifyExtendedPack
    <3>2. PICK f, g, h, k : /\ f = (i.records # {}) /\ g = (i.actions = {"release.publish"})
                            /\ h = \A x \in i.records : Matches(r, x.sources, <<"record", x.id, x.value>>)
                            /\ k = Declared(i.checks)
      OBVIOUS
    <3>3. shown = <<a, b, c, d, e>> \o <<f, g, h, k>>
      BY <3>1, <3>2
    <3> QED BY <3>2, <3>3, NineShown
  <2>3. RequiredApprovals(w) = {"release.publish"}
    BY <1>9 DEF RequiredApprovals
  <2> HIDE DEF packed, shown
  <2>4. PICK v : v = \A k \in DOMAIN shown : shown[k]
    OBVIOUS
  <2>5. v \in BOOLEAN
    BY <2>4
  <2>6. Acceptable(Output(v, shown, Cited(i.records \cup i.checks), i.actions), i.sources, w)
    BY <1>2, <1>9, <2>2, <2>3, <2>4, <2>5, AcceptableOutput
  <2> QED BY <1>1, <2>1, <2>4, <2>6
<1> QED BY <1>2, <1>3, <1>4, <1>5, <1>6, <1>7, <1>8, <1>9 DEF Catalog

\* What an action a workflow asks for is backed by.
Backed(r, w, asked) ==
  LET input == Input(r, w)
      passed(about) == \A c \in input.checks : OnRecord(r, w, <<"passed", c.id, about>>)
  IN asked # {} =>
       /\ w \in {"goal", "issue"} => passed(input.subject)
       /\ w = "issue" => OnRecord(r, w, <<"issue", input.subject>>)
       /\ w = "roadmap" => passed(input.option) /\ OnRecord(r, w, <<"decision", input.option>>)
       /\ w = "eval" => 20 * Cardinality({c \in input.records : c.latency <= input.limits.latency})
                          >= 19 * Cardinality(input.records)
       /\ w = "weekly" => ("calendar.write" \in asked) = \E d, e \in input.events :
                                                           d # e /\ d.start < e.end /\ e.start < d.end

\* A source a worker matches is an intact one of the packet.
LEMMA MatchIsOnRecord ==
  ASSUME NEW r, NEW w \in Workflows(r), RequestAdmitted(r),
         NEW ids, ids \subseteq Input(r, w).sources, NEW fact, Matches(r, ids, fact)
  PROVE OnRecord(r, w, fact)
BY DEF Matches, OnRecord, RequestAdmitted

\* The checks of an input that a worker found bound to its subject.
LEMMA BoundIsOnRecord ==
  ASSUME NEW r, NEW w \in Workflows(r), RequestAdmitted(r), NEW about,
         BoundTo(r, Input(r, w).checks, about), Cited(Input(r, w).checks) \subseteq Input(r, w).sources
  PROVE \A c \in Input(r, w).checks : OnRecord(r, w, <<"passed", c.id, about>>)
<1> SUFFICES ASSUME NEW c \in Input(r, w).checks PROVE OnRecord(r, w, <<"passed", c.id, about>>)
  OBVIOUS
<1>1. Matches(r, c.sources, <<"passed", c.id, about>>)
  BY DEF BoundTo
<1>2. c.sources \subseteq Input(r, w).sources
  BY DEF Cited
<1> QED BY <1>1, <1>2, MatchIsOnRecord

LEMMA AskedOfVerdict ==
  ASSUME NEW verdict, NEW shown, NEW refs, NEW actions, Output(verdict, shown, refs, actions).actions # {}
  PROVE verdict
BY DEF Output

\* What every worker asks for is backed by its packet.
LEMMA TaskBacked ==
  ASSUME NEW r \in PersonalRequests, RequestAdmitted(r), NEW w \in Workflows(r)
  PROVE Backed(r, w, ExecuteTask(r, w).actions)
<1>1. PICK i : i = Input(r, w)
  OBVIOUS
<1>2. /\ w \in Catalog /\ Cited(i.checks) \subseteq i.sources
      /\ w = "eval" => /\ IsFiniteSet(i.records) /\ i.records # {} /\ i.limits.latency \in Nat
                       /\ \A c \in i.records : c.latency \in Nat
      /\ w = "weekly" => /\ Unique(i.events)
                         /\ \A e \in i.events : e.id \in Int /\ e.start \in Int /\ e.end \in Int /\ e.start < e.end
  BY <1>1, AdmittedInput
<1> SUFFICES ASSUME ExecuteTask(r, w).actions # {} PROVE Backed(r, w, ExecuteTask(r, w).actions)
  BY DEF Backed
<1>3. CASE w = "goal"
  <2>1. BoundTo(r, i.checks, i.subject)
    <3> DEFINE declared == Declared(i.checks)
               bound == BoundTo(r, i.checks, i.subject)
    <3>1. ExecuteTask(r, w) = Output(declared /\ bound, <<declared, bound, TRUE>>, Cited(i.checks), {"git.merge", "production.deploy"})
      BY <1>1, <1>3, WorkerOf DEF GoalToVerifiedRelease
    <3> SUFFICES declared /\ bound
      OBVIOUS
    <3> HIDE DEF declared, bound
    <3> QED BY <3>1, AskedOfVerdict
  <2>2. \A c \in i.checks : OnRecord(r, w, <<"passed", c.id, i.subject>>)
    BY <1>1, <1>2, <2>1, BoundIsOnRecord
  <2> QED BY <1>1, <1>3, <2>2 DEF Backed
<1>4. CASE w = "issue"
  <2>1. BoundTo(r, i.checks, i.subject) /\ Matches(r, i.sources, <<"issue", i.subject>>)
    <3> DEFINE declared == Declared(i.checks)
               bound == BoundTo(r, i.checks, i.subject)
               contract == Matches(r, i.sources, <<"issue", i.subject>>)
    <3>1. ExecuteTask(r, w) = Output(declared /\ bound /\ contract, <<declared, bound, TRUE, contract>>, Cited(i.checks), {"git.pr.create"})
      BY <1>1, <1>4, WorkerOf DEF IssueToDraftPr
    <3> SUFFICES declared /\ bound /\ contract
      OBVIOUS
    <3> HIDE DEF declared, bound, contract
    <3> QED BY <3>1, AskedOfVerdict
  <2>2. \A c \in i.checks : OnRecord(r, w, <<"passed", c.id, i.subject>>)
    BY <1>1, <1>2, <2>1, BoundIsOnRecord
  <2>3. OnRecord(r, w, <<"issue", i.subject>>)
    BY <1>1, <2>1, MatchIsOnRecord
  <2> QED BY <1>1, <1>4, <2>2, <2>3 DEF Backed
<1>5. CASE w = "roadmap"
  <2>1. BoundTo(r, i.checks, i.option) /\ Matches(r, i.sources, <<"decision", i.option>>)
    <3> DEFINE claimed == \A c \in i.records : Matches(r, c.sources, <<"claim", c.id>>)
               decided == Matches(r, i.sources, <<"decision", i.option>>)
               declared == Declared(i.checks)
               bound == BoundTo(r, i.checks, i.option)
    <3>1. ExecuteTask(r, w) = Output(declared /\ bound /\ claimed /\ decided, <<TRUE, claimed, decided, declared, bound>>, Cited(i.records \cup i.checks), {"roadmap.update", "release.publish"})
      BY <1>1, <1>5, WorkerOf DEF EvidenceToRoadmapToRelease
    <3> SUFFICES declared /\ bound /\ claimed /\ decided
      OBVIOUS
    <3> HIDE DEF claimed, decided, declared, bound
    <3> QED BY <3>1, AskedOfVerdict
  <2>2. \A c \in i.checks : OnRecord(r, w, <<"passed", c.id, i.option>>)
    BY <1>1, <1>2, <2>1, BoundIsOnRecord
  <2>3. OnRecord(r, w, <<"decision", i.option>>)
    BY <1>1, <2>1, MatchIsOnRecord
  <2> QED BY <1>1, <1>5, <2>2, <2>3 DEF Backed
<1>6. CASE w = "eval"
  <2>1. Latency95(i.records) <= i.limits.latency
    <3> DEFINE limits == i.limits
               n == Cardinality(i.records)
               shown == <<\A c \in i.records : Matches(r, c.sources,
                            <<"case", c.id, i.subject, c.correct, c.safe, c.latency, c.cost>>),
                          Matches(r, i.sources, <<"policy", i.subject, {c.id : c \in i.records}, limits>>),
                          100 * Cardinality({c \in i.records : c.correct}) >= limits.rate * n,
                          Latency95(i.records) <= limits.latency,
                          TotalCost(i.records) <= limits.cost * n,
                          Cardinality({c \in i.records : ~c.safe}) <= limits.unsafe>>
    <3>1. ExecuteTask(r, w) = AiEvalReleaseGate(r, i)
      BY <1>1, <1>6, WorkerOf
    <3>3. 4 \in DOMAIN shown /\ shown[4] = (Latency95(i.records) <= i.limits.latency)
      OBVIOUS
    <3>4. ExecuteTask(r, w) = Output(\A k \in DOMAIN shown : shown[k], shown, Cited(i.records), {"model.release"})
      BY <3>1 DEF AiEvalReleaseGate
    <3> HIDE DEF shown
    <3>2. \A k \in DOMAIN shown : shown[k]
      BY <3>4, AskedOfVerdict
    <3> QED BY <3>2, <3>3
  <2>2. 20 * Cardinality({c \in i.records : c.latency <= i.limits.latency}) >= 19 * Cardinality(i.records)
    BY <1>2, <1>6, <2>1, FastEnough
  <2> QED BY <1>1, <1>6, <2>2 DEF Backed
<1>7. CASE w = "weekly"
  <2>1. ExecuteTask(r, w).actions = {"message.send"} \cup IF Conflicts(i.events) = {} THEN {} ELSE {"calendar.write"}
    <3> DEFINE acts == {"message.send"} \cup IF Conflicts(i.events) = {} THEN {} ELSE {"calendar.write"}
    <3>1. PICK verdict, shown, refs : ExecuteTask(r, w) = Output(verdict, shown, refs, acts)
      BY <1>1, <1>7, WorkerOf DEF WeeklyPmCommandCentre
    <3> HIDE DEF acts
    <3>2. ExecuteTask(r, w).actions = acts
      BY <3>1 DEF Output
    <3> QED BY <3>2 DEF acts
  <2>2. "calendar.write" \in ExecuteTask(r, w).actions <=> Conflicts(i.events) # {}
    BY <2>1
  <2>3. Conflicts(i.events) # {} <=> \E d, e \in i.events : d # e /\ d.start < e.end /\ e.start < d.end
    BY <1>2, <1>7, ConflictsOverlap
  <2>4. ("calendar.write" \in ExecuteTask(r, w).actions)
          = \E d, e \in i.events : d # e /\ d.start < e.end /\ e.start < d.end
    <3> DEFINE asks == "calendar.write" \in ExecuteTask(r, w).actions
               overlap == \E d, e \in i.events : d # e /\ d.start < e.end /\ e.start < d.end
    <3>1. asks \in BOOLEAN /\ overlap \in BOOLEAN
      OBVIOUS
    <3>2. asks <=> overlap
      BY <2>2, <2>3
    <3> HIDE DEF asks, overlap
    <3>3. asks = overlap
      BY <3>1, <3>2
    <3> QED BY <3>3, Zenon DEF asks, overlap
  <2> HIDE DEF Backed
  <2>5. PICK asked : asked = ExecuteTask(r, w).actions
    OBVIOUS
  <2>6. Backed(r, w, asked)
    BY <1>1, <1>7, <2>4, <2>5 DEF Backed
  <2> QED BY <2>5, <2>6
<1>8. CASE w \in {"meeting", "readiness"}
  BY <1>8 DEF Backed
<1> QED BY <1>2, <1>3, <1>4, <1>5, <1>6, <1>7, <1>8 DEF Catalog

FileNames == {"contract", "task_graph", "results", "evidence", "approvals", "mobile_review", "report", "catalog"}

\* Results of workers are those of an admitted request.
ResultsOf(r, out) == \A w \in DOMAIN out : w \in Workflows(r) /\ out[w] = ExecuteTask(r, w)

\* A finished execution.
Executed(r, out) ==
  r \in PersonalRequests /\ RequestAdmitted(r) /\ ResultsOf(r, out) /\ DOMAIN out = Workflows(r)

(* The inductive invariant: an execution past admission is of an admitted     *)
(* request, with the policies and the results its workers compute; it is      *)
(* complete when it is written, and so is what every file was written of.     *)
PersonalInv ==
  /\ progress \in {"idle", "running"} \cup FileNames
  /\ progress # "idle" => /\ request \in PersonalRequests /\ RequestAdmitted(request)
                          /\ bindings = [w \in Workflows(request) |-> ExecuteTask(request, w).actions]
                          /\ ResultsOf(request, results)
  /\ progress \in FileNames => DOMAIN results = Workflows(request)
  /\ DOMAIN files = FileNames
  /\ \A f \in FileNames : files[f] # Vacant => Executed(files[f].request, files[f].results)

LEMMA FileOrderNames ==
  /\ FileOrder[1] \in FileNames /\ DOMAIN FileOrder = 1..8 /\ Len(FileOrder) = 8
  /\ \A i \in 1..8 : FileOrder[i] \in FileNames
  /\ {FileOrder[i] : i \in DOMAIN FileOrder} = FileNames
<1>1. DOMAIN FileOrder = 1..8 /\ Len(FileOrder) = 8
  BY DEF FileOrder
<1>2. \A i \in 1..8 : i = 1 \/ i = 2 \/ i = 3 \/ i = 4 \/ i = 5 \/ i = 6 \/ i = 7 \/ i = 8
  OBVIOUS
<1>3. /\ FileOrder[1] = "contract" /\ FileOrder[2] = "task_graph" /\ FileOrder[3] = "results"
      /\ FileOrder[4] = "evidence" /\ FileOrder[5] = "approvals" /\ FileOrder[6] = "mobile_review"
      /\ FileOrder[7] = "report" /\ FileOrder[8] = "catalog"
  BY DEF FileOrder
<1>4. \A i \in 1..8 : FileOrder[i] \in FileNames
  BY <1>2, <1>3 DEF FileNames
<1>5. \A f \in FileNames : \E i \in 1..8 : FileOrder[i] = f
  BY <1>3 DEF FileNames
<1> HIDE DEF FileOrder, FileNames
<1> QED BY <1>1, <1>4, <1>5

LEMMA PersonalInitHolds == PersonalInit => PersonalInv
BY FileOrderNames DEF PersonalInit, PersonalInv, FileNames

\* The verifier never refuses what the workers of an admitted request return.
LEMMA AlwaysVerified ==
  ASSUME PersonalInv, progress = "running", DOMAIN results = Workflows(request)
  PROVE Verified
<1>1. /\ request \in PersonalRequests /\ RequestAdmitted(request) /\ ResultsOf(request, results)
      /\ bindings = [w \in Workflows(request) |-> ExecuteTask(request, w).actions]
  BY DEF PersonalInv
<1>2. ASSUME NEW w \in Workflows(request)
      PROVE /\ ValidOutput(results[w], Input(request, w).sources)
            /\ results[w].actions \subseteq RequiredApprovals(w)
            /\ results[w].actions = bindings[w]
            /\ results[w].actions # {} => results[w].verdict
  <2>1. results[w] = ExecuteTask(request, w) /\ bindings[w] = ExecuteTask(request, w).actions
    BY <1>1 DEF ResultsOf
  <2>2. Acceptable(ExecuteTask(request, w), Input(request, w).sources, w)
    BY <1>1, TaskSound
  <2> QED BY <2>1, <2>2 DEF Acceptable
<1> QED BY <1>2 DEF Verified

LEMMA PersonalStep ==
  ASSUME PersonalInv, [PersonalNext]_personalVars
  PROVE PersonalInv'
<1>1. ASSUME NEW r \in PersonalRequests, SubmitRequest(r) PROVE PersonalInv'
  <2>1. CASE RequestAdmitted(r) /\ ContractHolds(r)
    <3>1. request' = r /\ progress' = "running" /\ results' = <<>> /\ files' = files
          /\ bindings' = [w \in Workflows(r) |-> ExecuteTask(r, w).actions]
      BY <1>1, <2>1 DEF SubmitRequest
    <3>2. ResultsOf(r, <<>>)
      BY DEF ResultsOf
    <3> QED BY <2>1, <3>1, <3>2 DEF PersonalInv, FileNames
  <2>2. CASE ~(RequestAdmitted(r) /\ ContractHolds(r))
    <3>1. progress = "idle" /\ progress' = "idle" /\ files' = files
      BY <1>1, <2>2 DEF SubmitRequest
    <3> QED BY <3>1 DEF PersonalInv, FileNames
  <2> QED BY <2>1, <2>2
<1>2. ASSUME NEW w \in Workflows(request), Arrive(w) PROVE PersonalInv'
  BY <1>2 DEF Arrive, PersonalInv
<1>3. ASSUME NEW w \in Workflows(request), RunWorker(w) PROVE PersonalInv'
  <2>1. /\ progress = "running" /\ progress' = "running" /\ request' = request /\ bindings' = bindings /\ files' = files
        /\ results' = [x \in DOMAIN results \cup {w} |-> IF x = w THEN ExecuteTask(request, w) ELSE results[x]]
    BY <1>3 DEF RunWorker
  <2>2. ResultsOf(request, results)
    BY <2>1 DEF PersonalInv
  <2>3. ResultsOf(request, results')
    BY <2>1, <2>2 DEF ResultsOf
  <2> QED BY <2>1, <2>3 DEF PersonalInv, FileNames
<1>4. ASSUME BreakBarrier \/ ProcessStops PROVE PersonalInv'
  BY <1>4 DEF BreakBarrier, ProcessStops, PersonalInv, FileNames
<1>5. CASE Join
  <2>1. Verified
    BY <1>5, AlwaysVerified DEF Join
  <2>2. /\ progress = "running" /\ progress' = FileOrder[1] /\ DOMAIN results = Workflows(request)
        /\ UNCHANGED <<request, bindings, results, files>>
    BY <1>5, <2>1 DEF Join
  <2> HIDE DEF FileOrder
  <2> QED BY <2>2, FileOrderNames DEF PersonalInv
<1>6. CASE WriteNext
  <2>1. PICK i \in DOMAIN FileOrder :
          /\ progress = FileOrder[i]
          /\ files' = [files EXCEPT ![progress] = [request |-> request, results |-> results]]
          /\ IF i = Len(FileOrder)
             THEN progress' = "idle" /\ request' = Vacant
             ELSE progress' = FileOrder[i + 1] /\ UNCHANGED request
          /\ UNCHANGED <<bindings, arrived, results, submissions>>
    BY <1>6 DEF WriteNext
  <2>2. progress \in FileNames
    BY <2>1, FileOrderNames
  <2>3. Executed(request, results) /\ progress # "idle"
    BY <2>2 DEF PersonalInv, Executed, FileNames
  <2>4. DOMAIN files' = FileNames
    BY <2>1 DEF PersonalInv
  <2>5. ASSUME NEW f \in FileNames, files'[f] # Vacant PROVE Executed(files'[f].request, files'[f].results)
    <3>1. CASE f = progress
      <4>1. files'[f] = [request |-> request, results |-> results]
        BY <2>1, <3>1 DEF PersonalInv
      <4> QED BY <2>3, <4>1
    <3>2. CASE f # progress
      <4>1. files'[f] = files[f]
        BY <2>1, <3>2 DEF PersonalInv
      <4> QED BY <2>5, <4>1 DEF PersonalInv
    <3> QED BY <3>1, <3>2
  <2>6. CASE i = Len(FileOrder)
    <3>1. progress' = "idle"
      BY <2>1, <2>6
    <3> QED BY <2>4, <2>5, <3>1 DEF PersonalInv, FileNames
  <2>7. CASE i # Len(FileOrder)
    <3>1. progress' = FileOrder[i + 1] /\ i + 1 \in 1..8
      BY <2>1, <2>7, FileOrderNames
    <3>2. progress' \in FileNames
      BY <3>1, FileOrderNames
    <3>3. request' = request /\ bindings' = bindings /\ results' = results
      BY <2>1, <2>7
    <3> HIDE DEF FileNames
    <3> QED BY <2>2, <2>3, <2>4, <2>5, <3>2, <3>3 DEF PersonalInv, Executed
  <2> QED BY <2>6, <2>7
<1>7. CASE UNCHANGED personalVars
  BY <1>7 DEF personalVars, PersonalInv
<1> QED BY <1>1, <1>2, <1>3, <1>4, <1>5, <1>6, <1>7 DEF PersonalNext

\* Only backed actions are in the outbox of a finished execution.
LEMMA PersonalInvBacks == PersonalInv => OutboxIsBacked
<1> SUFFICES ASSUME PersonalInv PROVE OutboxIsBacked
  OBVIOUS
<1>1. progress # "unverified"
  BY DEF PersonalInv, FileNames
<1>2. CASE files["approvals"] # Vacant
  <2>1. PICK r, out : r = files["approvals"].request /\ out = files["approvals"].results
    OBVIOUS
  <2>2. Executed(r, out)
    BY <1>2, <2>1 DEF PersonalInv, FileNames
  <2>3. \A w \in Workflows(r) : Backed(r, w, out[w].actions)
    <3>1. \A w \in Workflows(r) : out[w] = ExecuteTask(r, w)
      BY <2>2 DEF Executed, ResultsOf
    <3> QED BY <2>2, <3>1, TaskBacked DEF Executed
  <2> QED BY <1>1, <2>1, <2>3 DEF OutboxIsBacked, Backed
<1> QED BY <1>1, <1>2 DEF OutboxIsBacked

\* Whatever the workers of an execution interleave and wherever it is stopped,
\* the approval outbox in the directory asks only for what the evidence of its
\* packet backs, and the verifier refuses nothing the workers return.
THEOREM OutboxBacked == PersonalSpec => []OutboxIsBacked
<1>1. PersonalSpec => []PersonalInv
  BY PersonalInitHolds, PersonalStep, PTL DEF PersonalSpec
<1> QED BY <1>1, PersonalInvBacks, PTL

-----------------------------------------------------------------------------
(* The frozen core run, for any acceptance criteria, source files, budgets   *)
(* and numbers of attempts.  The invariant says what is known of the         *)
(* candidate workspace and of its snapshot at each point of an attempt, and  *)
(* which state the ledger ends in there.                                     *)


States == {"VALIDATED", "BUILDING", "VERIFYING", "RELEASE_READY", "HALTED", "STOPPED"}

EventTypes ==
    {"contract_validated", "meaningful_red_confirmed", "coder_completed",
     "security_failed", "verification_started", "generated_quality_checked",
     "verification_failed", "release_ready", "halted", "stopped"}

\* The state the ledger ends in.
Last == IF events = <<>> THEN "NONE" ELSE events[Len(events)].state

Trying == {"attempt", "coded"}

Verifying == {"quality", "untidy", "verifying", "review"}

\* The ledger is a sequence of events in frozen states, and ends in the one
\* that belongs to where the engine is.
LedgerInv ==
    /\ events \in Seq([type : EventTypes, state : States])
    /\ pc = "start" => Last = "NONE"
    /\ pc = "validated" => Last = "VALIDATED"
    /\ pc \in Trying => Last = "BUILDING"
    /\ pc \in Verifying => Last = "VERIFYING"

\* Once the baseline is confirmed: it was meaningful, and the protected tests
\* in the workspace are the compiled ones.
BaselineInv ==
    pc \in Trying \cup Verifying =>
        /\ MeaningfulRed(WithTests(template))
        /\ \A t \in Tests : candidate[t] = "original"

\* From the start of verification, the snapshot is the workspace and the scan
\* has passed; from the review on, so have the criteria.
SnapshotInv ==
    /\ pc \in Verifying => snapshot = candidate /\ SecurityFindings(snapshot) = {}
    /\ pc = "review" => ~Raises(snapshot) /\ VerifySnapshot(snapshot) = {}

\* A result is only there at the end, and a release has all of the above.
ResultInv ==
    /\ result # "none" => pc = "done"
    /\ result = "RELEASE_READY" =>
        /\ manifest = candidate
        /\ SecurityFindings(manifest) = {}
        /\ ~Raises(manifest) /\ VerifySnapshot(manifest) = {}
        /\ MeaningfulRed(WithTests(template))
        /\ \A t \in Tests : manifest[t] = "original"

BareInv == LedgerInv /\ BaselineInv /\ SnapshotInv /\ ResultInv

-----------------------------------------------------------------------------
(* Facts about verification *)

\* A criterion passes, fails or is refused.
LEMMA OutcomeRange ==
    ASSUME NEW c, NEW tree
    PROVE  Outcome(c, tree) \in {"passed", "failed", "refused"}
BY DEF Outcome

\* The findings of a criterion name that criterion, and which of its three
\* codes is there says what happened.
LEMMA CriterionFindingsShape ==
    ASSUME NEW c \in Criteria, NEW tree
    PROVE  /\ \A f \in CriterionFindings(c, tree) : f.subject = c
           /\ \A f \in CriterionFindings(c, tree) :
                f.code = "ASSERTION_FAILED" => Outcome(c, tree) = "failed"
           /\ CriterionFindings(c, tree) = {} =>
                /\ Outcome(c, tree) # "failed"
                /\ Outcome(c, tree) = "refused" => Form[c] # "human_test"
                /\ tree[Module[c]] # "mutates"
<1> DEFINE named == IF Form[c] = "structured" THEN Module[c] ELSE TestFile[c]
           failed == Finding("ASSERTION_FAILED", c, {named})
           refused == Finding("CANDIDATE_EXECUTION_FAILED", c, {named})
           mutated == Finding("CANDIDATE_MUTATED_DURING_VERIFICATION", c, {Module[c]})
           A == IF Outcome(c, tree) = "failed" THEN {failed} ELSE {}
           B == IF Outcome(c, tree) = "refused" /\ Form[c] = "human_test"
                THEN {refused} ELSE {}
           C == IF tree[Module[c]] = "mutates" THEN {mutated} ELSE {}
<1>1. CriterionFindings(c, tree) = UNION {A, B, C}  BY Zenon DEF CriterionFindings
<1>2. /\ failed.subject = c /\ refused.subject = c /\ mutated.subject = c
      /\ failed.code = "ASSERTION_FAILED"
      /\ refused.code # "ASSERTION_FAILED" /\ mutated.code # "ASSERTION_FAILED"
  BY DEF Finding
<1> HIDE DEF failed, refused, mutated
<1>3. UNION {A, B, C} = A \cup B \cup C
  <2> HIDE DEF A, B, C
  <2> QED  OBVIOUS
<1>4. \A f \in CriterionFindings(c, tree) :
        f.subject = c /\ (f.code = "ASSERTION_FAILED" => Outcome(c, tree) = "failed")
  BY <1>1, <1>2, <1>3
<1>5. CriterionFindings(c, tree) = {} => A = {} /\ B = {} /\ C = {}
  <2> HIDE DEF A, B, C
  <2> QED  BY <1>1, <1>3
<1>6. CriterionFindings(c, tree) = {} =>
        /\ Outcome(c, tree) # "failed"
        /\ Outcome(c, tree) = "refused" => Form[c] # "human_test"
        /\ tree[Module[c]] # "mutates"
  BY <1>5
<1> QED  BY <1>4, <1>6

\* A snapshot without findings that could be executed passes every criterion.
LEMMA NoFindingsPass ==
    ASSUME NEW tree, ~Raises(tree), VerifySnapshot(tree) = {},
           NEW c \in Criteria
    PROVE  Outcome(c, tree) = "passed" /\ tree[Module[c]] # "mutates"
<1>1. CriterionFindings(c, tree) = {}  BY DEF VerifySnapshot
<1>2. /\ Outcome(c, tree) # "failed"
      /\ Outcome(c, tree) = "refused" => Form[c] # "human_test"
      /\ tree[Module[c]] # "mutates"
  BY <1>1, CriterionFindingsShape
<1>3. Outcome(c, tree) # "refused"  BY <1>2 DEF Raises
<1> QED  BY <1>2, <1>3, OutcomeRange

\* On a meaningful baseline every criterion that needs an implementation
\* fails, by assertion.
LEMMA RedIsFailure ==
    ASSUME NEW tree, MeaningfulRed(tree), NEW c \in NonTemplate
    PROVE  Outcome(c, tree) = "failed"
<1>1. PICK f \in VerifySnapshot(tree) : f.subject = c
  BY DEF MeaningfulRed
<1>2. f.code = "ASSERTION_FAILED"  BY DEF MeaningfulRed
<1>3. PICK d \in Criteria : f \in CriterionFindings(d, tree)
  BY DEF VerifySnapshot
<1>4. f.subject = d /\ Outcome(d, tree) = "failed"
  BY <1>2, <1>3, CriterionFindingsShape
<1> QED  BY <1>1, <1>4

\* A response without test files leaves every protected test alone.
LEMMA WrittenKeepsTests ==
    ASSUME NEW src, NEW t \in Tests
    PROVE  Written(src, NoTests)[t] = candidate[t]
BY RunAssumption DEF Written, NoTests, Paths

\* The template is written with the compiled tests.
LEMMA WithTestsOriginal ==
    ASSUME NEW tree, NEW t \in Tests
    PROVE  WithTests(tree)[t] = "original"
BY RunAssumption DEF WithTests, Paths

\* After an append the ledger ends in the appended state.
LEMMA RecordLast ==
    ASSUME events \in Seq([type : EventTypes, state : States]),
           NEW type \in EventTypes, NEW state \in States, Record(type, state)
    PROVE  /\ events' \in Seq([type : EventTypes, state : States])
           /\ Last' = state
<1>1. [type |-> type, state |-> state] \in [type : EventTypes, state : States]
  OBVIOUS
<1>2. events' = Append(events, [type |-> type, state |-> state])  BY DEF Record
<1>3. /\ events' \in Seq([type : EventTypes, state : States]) /\ events' # <<>>
      /\ events'[Len(events')] = [type |-> type, state |-> state]
  BY <1>1, <1>2
<1> QED  BY <1>3 DEF Last

-----------------------------------------------------------------------------
(* The inductive invariant *)

\* The invariant holds before the run.
LEMMA BareInvInit == Init => BareInv
BY DEF Init, BareInv, LedgerInv, BaselineInv, SnapshotInv, ResultInv, Last,
       Trying, Verifying

\* An action that ends the run with a state other than the release.
LEMMA FinishKeeps ==
    ASSUME BareInv, NEW type \in EventTypes, NEW state \in {"HALTED", "STOPPED"},
           Finish(type, state), pc # "done", given' = given
    PROVE  BareInv'
<1>1. Record(type, state) /\ pc' = "done" /\ result' = state  BY DEF Finish
<1>2. events' \in Seq([type : EventTypes, state : States])
  BY <1>1, RecordLast DEF BareInv, LedgerInv, States
<1>3. LedgerInv'  BY <1>1, <1>2 DEF LedgerInv, Trying, Verifying
<1>4. BaselineInv' /\ SnapshotInv' /\ ResultInv'
  BY <1>1 DEF BaselineInv, SnapshotInv, ResultInv, Trying, Verifying
<1> QED  BY <1>3, <1>4 DEF BareInv

\* An attempt that ends with findings goes back to the coder.
LEMMA RetryKeeps ==
    ASSUME BareInv, NEW found, Retry(found), NEW type \in EventTypes,
           Record(type, "BUILDING"), pc \in Trying \cup Verifying,
           candidate' = candidate, given' = given, result' = result
    PROVE  BareInv'
<1>1. pc' = "attempt"  BY DEF Retry
<1>2. events' \in Seq([type : EventTypes, state : States]) /\ Last' = "BUILDING"
  BY RecordLast DEF BareInv, LedgerInv, States
<1>3. LedgerInv'  BY <1>1, <1>2 DEF LedgerInv, Trying, Verifying
<1>4. BaselineInv'
  BY DEF BareInv, BaselineInv, MeaningfulRed, template
<1>5. SnapshotInv'  BY <1>1 DEF SnapshotInv, Verifying
<1>6. result' = "none"
  BY DEF BareInv, ResultInv, Trying, Verifying
<1>7. ResultInv'  BY <1>6 DEF ResultInv
<1> QED  BY <1>3, <1>4, <1>5, <1>7 DEF BareInv

\* Every step preserves the invariant.
LEMMA BareInvStep == BareInv /\ [Next]_vars => BareInv'
<1> SUFFICES ASSUME BareInv, [Next]_vars PROVE BareInv'  OBVIOUS
<1>in. LedgerInv /\ BaselineInv /\ SnapshotInv /\ ResultInv  BY DEF BareInv
<1>ev. events \in Seq([type : EventTypes, state : States])  BY <1>in DEF LedgerInv
<1> USE DEF Trying, Verifying
<1>1. CASE Validate
  <2>1. /\ pc = "start" /\ pc' = "validated" /\ result' = result
        /\ Record("contract_validated", "VALIDATED")
    BY <1>1 DEF Validate
  <2>2. events' \in Seq([type : EventTypes, state : States]) /\ Last' = "VALIDATED"
    BY <1>ev, <2>1, RecordLast DEF States, EventTypes
  <2>3. LedgerInv'  BY <2>1, <2>2 DEF LedgerInv
  <2>4. BaselineInv' /\ SnapshotInv'  BY <2>1 DEF BaselineInv, SnapshotInv
  <2>5. ResultInv'  BY <1>in, <2>1 DEF ResultInv
  <2> QED  BY <2>3, <2>4, <2>5 DEF BareInv
<1>2. CASE Abort \/ RefuseBaseline
  <2>1. pc # "done" /\ pc' = "aborted" /\ result' = result /\ events' = events
    BY <1>2 DEF Abort, RefuseBaseline
  <2>2. LedgerInv'  BY <1>ev, <2>1 DEF LedgerInv
  <2>3. BaselineInv' /\ SnapshotInv'  BY <2>1 DEF BaselineInv, SnapshotInv
  <2>4. ResultInv'  BY <1>in, <2>1 DEF ResultInv
  <2> QED  BY <2>2, <2>3, <2>4 DEF BareInv
<1>3. CASE Stop \/ AttemptsExhausted \/ CallsExhausted
  BY <1>3, FinishKeeps
     DEF EventTypes, Stop, StopBeforeBaseline, StopBeforeAttempt, AttemptsExhausted, CallsExhausted
<1>4. ASSUME NEW size, CallFails(size) PROVE BareInv'
  BY <1>4, FinishKeeps DEF CallFails, EventTypes
<1>5. ASSUME NEW size, RefuseResponse(size) PROVE BareInv'
  BY <1>5, FinishKeeps DEF RefuseResponse, Accepted, EventTypes
<1>6. ASSUME NEW size, NEW src, PartialWrite(size, src) PROVE BareInv'
  BY <1>6, FinishKeeps DEF PartialWrite, Accepted, EventTypes
<1>7. CASE HaltOnRepeat  BY <1>7, FinishKeeps DEF HaltOnRepeat, EventTypes
<1>8. CASE Baseline
  <2>1. /\ pc = "validated" /\ pc' = "attempt" /\ result' = result
        /\ given' = given
        /\ candidate' = WithTests(template) /\ MeaningfulRed(candidate')
        /\ Record("meaningful_red_confirmed", "BUILDING")
    BY <1>8 DEF Baseline
  <2>2. events' \in Seq([type : EventTypes, state : States]) /\ Last' = "BUILDING"
    BY <1>ev, <2>1, RecordLast DEF States, EventTypes
  <2>3. LedgerInv'  BY <2>1, <2>2 DEF LedgerInv
  <2>4. \A t \in Tests : candidate'[t] = "original"  BY <2>1, WithTestsOriginal
  <2>5. BaselineInv'  BY <2>1, <2>4 DEF BaselineInv, template
  <2>6. SnapshotInv'  BY <2>1 DEF SnapshotInv
  <2>7. ResultInv'  BY <1>in, <2>1 DEF ResultInv
  <2> QED  BY <2>3, <2>5, <2>6, <2>7 DEF BareInv
<1>9. ASSUME NEW size, NEW src, NEW tst, CoderCompleted(size, src, tst)
      PROVE  BareInv'
  <2>1. /\ pc = "attempt" /\ pc' = "coded" /\ result' = result /\ given' = given
        /\ candidate' = Written(src, NoTests)
        /\ Record("coder_completed", "BUILDING")
    BY <1>9 DEF CoderCompleted, Accepted
  <2>2. events' \in Seq([type : EventTypes, state : States]) /\ Last' = "BUILDING"
    BY <1>ev, <2>1, RecordLast DEF States, EventTypes
  <2>3. LedgerInv'  BY <2>1, <2>2 DEF LedgerInv
  <2>4. \A t \in Tests : candidate'[t] = "original"
    BY <1>in, <2>1, WrittenKeepsTests DEF BaselineInv
  <2>5. BaselineInv'  BY <1>in, <2>1, <2>4 DEF BaselineInv, template
  <2>6. SnapshotInv'  BY <2>1 DEF SnapshotInv
  <2>7. ResultInv'  BY <1>in, <2>1 DEF ResultInv
  <2> QED  BY <2>3, <2>5, <2>6, <2>7 DEF BareInv
<1>10. CASE SecurityFailed  BY <1>10, RetryKeeps DEF SecurityFailed, EventTypes
<1>11. CASE StartVerification
  <2>1. /\ pc = "coded" /\ pc' \in {"quality", "verifying"} /\ result' = result
        /\ given' = given /\ candidate' = candidate /\ snapshot' = candidate
        /\ SecurityFindings(candidate) = {}
        /\ Record("verification_started", "VERIFYING")
    BY <1>11 DEF StartVerification
  <2>2. events' \in Seq([type : EventTypes, state : States]) /\ Last' = "VERIFYING"
    BY <1>ev, <2>1, RecordLast DEF States, EventTypes
  <2>3. LedgerInv'  BY <2>1, <2>2 DEF LedgerInv
  <2>5. BaselineInv'  BY <1>in, <2>1 DEF BaselineInv, template
  <2>6. SnapshotInv'  BY <2>1 DEF SnapshotInv
  <2>7. ResultInv'  BY <1>in, <2>1 DEF ResultInv
  <2> QED  BY <2>3, <2>5, <2>6, <2>7 DEF BareInv
<1>12. CASE CheckQuality
  <2>1. /\ pc = "quality" /\ pc' \in {"verifying", "untidy"} /\ result' = result
        /\ given' = given /\ candidate' = candidate /\ snapshot' = snapshot
        /\ Record("generated_quality_checked", "VERIFYING")
    BY <1>12 DEF CheckQuality
  <2>2. events' \in Seq([type : EventTypes, state : States]) /\ Last' = "VERIFYING"
    BY <1>ev, <2>1, RecordLast DEF States, EventTypes
  <2>3. LedgerInv'  BY <2>1, <2>2 DEF LedgerInv
  <2>5. BaselineInv'  BY <1>in, <2>1 DEF BaselineInv, template
  <2>6. SnapshotInv'  BY <1>in, <2>1 DEF SnapshotInv
  <2>7. ResultInv'  BY <1>in, <2>1 DEF ResultInv
  <2> QED  BY <2>3, <2>5, <2>6, <2>7 DEF BareInv
<1>13. CASE QualityFailed  BY <1>13, RetryKeeps DEF QualityFailed, EventTypes
<1>14. CASE VerificationFailed
  <2>1. \E found : Retry(found)  BY <1>14 DEF VerificationFailed
  <2> QED  BY <1>14, <2>1, RetryKeeps DEF VerificationFailed, EventTypes
<1>15. CASE VerificationPassed
  <2>1. /\ pc = "verifying" /\ pc' = "review" /\ result' = result
        /\ given' = given /\ candidate' = candidate /\ snapshot' = snapshot
        /\ events' = events
        /\ ~Raises(snapshot) /\ VerifySnapshot(snapshot) = {}
    BY <1>15 DEF VerificationPassed
  <2>3. LedgerInv'  BY <1>in, <2>1 DEF LedgerInv, Last
  <2>5. BaselineInv'  BY <1>in, <2>1 DEF BaselineInv, template
  <2>6. SnapshotInv'  BY <1>in, <2>1 DEF SnapshotInv
  <2>7. ResultInv'  BY <1>in, <2>1 DEF ResultInv
  <2> QED  BY <2>3, <2>5, <2>6, <2>7 DEF BareInv
<1>16. CASE ReviewAndRelease
  <2>1. /\ pc = "review" /\ pc' = "done" /\ result' = "RELEASE_READY"
        /\ given' = given /\ candidate' = candidate /\ manifest' = snapshot
        /\ Record("release_ready", "RELEASE_READY")
    BY <1>16 DEF ReviewAndRelease, Finish
  <2>2. events' \in Seq([type : EventTypes, state : States])
    BY <1>ev, <2>1, RecordLast DEF States, EventTypes
  <2>3. LedgerInv'  BY <2>1, <2>2 DEF LedgerInv
  <2>4. BaselineInv' /\ SnapshotInv'  BY <2>1 DEF BaselineInv, SnapshotInv
  <2>5. /\ snapshot = candidate /\ SecurityFindings(snapshot) = {}
        /\ ~Raises(snapshot) /\ VerifySnapshot(snapshot) = {}
        /\ MeaningfulRed(WithTests(template))
        /\ \A t \in Tests : candidate[t] = "original"
    BY <1>in, <2>1 DEF BaselineInv, SnapshotInv
  <2>6. ResultInv'  BY <2>1, <2>5 DEF ResultInv, template
  <2> QED  BY <2>3, <2>4, <2>6 DEF BareInv
<1>17. CASE UNCHANGED vars
  BY <1>17, <1>in
     DEF vars, BareInv, LedgerInv, BaselineInv, SnapshotInv, ResultInv, Last, template
<1> QED
  BY <1>1, <1>2, <1>3, <1>4, <1>5, <1>6, <1>7, <1>8, <1>9, <1>10, <1>11,
     <1>12, <1>13, <1>14, <1>15, <1>16, <1>17 DEF Next, EngineStep

\* The invariant holds throughout every run.
THEOREM BareInvariant == Spec => []BareInv
BY BareInvInit, BareInvStep, PTL DEF Spec

\* run_to_release_ready answers RELEASE_READY only for the candidate it
\* verified, for any criteria, files and budgets: the manifest is the
\* workspace, every criterion passes on it, the scan found nothing in it, the
\* protected tests in it are the compiled ones, and what now passes failed on
\* the template.
THEOREM ReleaseProven == Spec => []ReleaseIsProven
<1>1. BareInv => ReleaseIsProven
  <2> SUFFICES ASSUME BareInv, result = "RELEASE_READY"
               PROVE  /\ manifest = candidate
                      /\ \A c \in Criteria : Outcome(c, manifest) = "passed"
                      /\ \A c \in Criteria : manifest[Module[c]] # "mutates"
                      /\ SecurityFindings(manifest) = {}
                      /\ \A t \in Tests : manifest[t] = "original"
                      /\ \A c \in NonTemplate : Outcome(c, WithTests(template)) = "failed"
    BY DEF ReleaseIsProven
  <2>1. /\ manifest = candidate
        /\ SecurityFindings(manifest) = {}
        /\ ~Raises(manifest) /\ VerifySnapshot(manifest) = {}
        /\ MeaningfulRed(WithTests(template))
        /\ \A t \in Tests : manifest[t] = "original"
    BY DEF BareInv, ResultInv
  <2>2. \A c \in Criteria :
          Outcome(c, manifest) = "passed" /\ manifest[Module[c]] # "mutates"
    BY <2>1, NoFindingsPass
  <2>3. \A c \in NonTemplate : Outcome(c, WithTests(template)) = "failed"
    BY <2>1, RedIsFailure
  <2> QED  BY <2>1, <2>2, <2>3
<1> QED  BY <1>1, BareInvariant, PTL

-----------------------------------------------------------------------------
(* The frozen core *)

\* A step appends at most one event, and along an edge of the frozen core.
LEMMA CoreStep ==
    ASSUME BareInv, [Next]_vars
    PROVE  <<Last, Last'>> \in Core!Edges \/ Last' = Last
<1>in. LedgerInv /\ events \in Seq([type : EventTypes, state : States])
  BY DEF BareInv, LedgerInv
<1>app. ASSUME NEW type \in EventTypes, NEW state \in States, Record(type, state)
        PROVE  Last' = state
  BY <1>in, <1>app, RecordLast
<1>same. ASSUME events' = events PROVE Last' = Last  BY <1>same DEF Last
<1> USE DEF Core!Edges, Trying, Verifying
<1>1. CASE Validate
  <2>1. Last = "NONE"  BY <1>1, <1>in DEF Validate, LedgerInv
  <2>2. Last' = "VALIDATED"  BY <1>1, <1>app DEF Validate, States, EventTypes
  <2> QED  BY <2>1, <2>2
<1>2. CASE Abort \/ RefuseBaseline \/ VerificationPassed \/ UNCHANGED vars
  BY <1>2, <1>same DEF Abort, RefuseBaseline, VerificationPassed, vars
<1>3. CASE StopBeforeBaseline
  <2>1. Last = "VALIDATED"  BY <1>3, <1>in DEF StopBeforeBaseline, LedgerInv
  <2>2. Last' = "STOPPED"
    BY <1>3, <1>app DEF StopBeforeBaseline, Finish, States, EventTypes
  <2> QED  BY <2>1, <2>2
<1>4. CASE StopBeforeAttempt
  <2>1. Last = "BUILDING"  BY <1>4, <1>in DEF StopBeforeAttempt, LedgerInv
  <2>2. Last' = "STOPPED"
    BY <1>4, <1>app DEF StopBeforeAttempt, Finish, States, EventTypes
  <2> QED  BY <2>1, <2>2
<1>5. CASE Baseline
  <2>1. Last = "VALIDATED"  BY <1>5, <1>in DEF Baseline, LedgerInv
  <2>2. Last' = "BUILDING"  BY <1>5, <1>app DEF Baseline, States, EventTypes
  <2> QED  BY <2>1, <2>2
<1>6. ASSUME pc \in Trying, Finish("halted", "HALTED")
      PROVE  <<Last, Last'>> \in Core!Edges
  <2>1. Last = "BUILDING"  BY <1>6, <1>in DEF LedgerInv
  <2>2. Last' = "HALTED"  BY <1>6, <1>app DEF Finish, States, EventTypes
  <2> QED  BY <2>1, <2>2
<1>7. CASE AttemptsExhausted \/ CallsExhausted \/ HaltOnRepeat
  BY <1>6, <1>7 DEF AttemptsExhausted, CallsExhausted, HaltOnRepeat
<1>8. ASSUME NEW size, CallFails(size) \/ RefuseResponse(size)
      PROVE  <<Last, Last'>> \in Core!Edges
  BY <1>6, <1>8 DEF CallFails, RefuseResponse, Accepted
<1>9. ASSUME NEW size, NEW src, PartialWrite(size, src)
      PROVE  <<Last, Last'>> \in Core!Edges
  BY <1>6, <1>9 DEF PartialWrite, Accepted
<1>10. ASSUME NEW size, NEW src, NEW tst, CoderCompleted(size, src, tst)
       PROVE  Last' = Last
  <2>1. Last = "BUILDING"  BY <1>10, <1>in DEF CoderCompleted, Accepted, LedgerInv
  <2>2. Last' = "BUILDING"
    BY <1>10, <1>app DEF CoderCompleted, States, EventTypes
  <2> QED  BY <2>1, <2>2
<1>11. CASE SecurityFailed
  <2>1. Last = "BUILDING"  BY <1>11, <1>in DEF SecurityFailed, LedgerInv
  <2>2. Last' = "BUILDING"  BY <1>11, <1>app DEF SecurityFailed, States, EventTypes
  <2> QED  BY <2>1, <2>2
<1>12. CASE StartVerification
  <2>1. Last = "BUILDING"  BY <1>12, <1>in DEF StartVerification, LedgerInv
  <2>2. Last' = "VERIFYING"
    BY <1>12, <1>app DEF StartVerification, States, EventTypes
  <2> QED  BY <2>1, <2>2
<1>13. CASE CheckQuality
  <2>1. Last = "VERIFYING"  BY <1>13, <1>in DEF CheckQuality, LedgerInv
  <2>2. Last' = "VERIFYING"  BY <1>13, <1>app DEF CheckQuality, States, EventTypes
  <2> QED  BY <2>1, <2>2
<1>14. CASE QualityFailed \/ VerificationFailed
  <2>1. Last = "VERIFYING"
    BY <1>14, <1>in DEF QualityFailed, VerificationFailed, LedgerInv
  <2>2. Last' = "BUILDING"
    BY <1>14, <1>app DEF QualityFailed, VerificationFailed, States, EventTypes
  <2> QED  BY <2>1, <2>2
<1>15. CASE ReviewAndRelease
  <2>1. Last = "VERIFYING"  BY <1>15, <1>in DEF ReviewAndRelease, LedgerInv
  <2>2. Last' = "RELEASE_READY"
    BY <1>15, <1>app DEF ReviewAndRelease, Finish, States, EventTypes
  <2> QED  BY <2>1, <2>2
<1> QED
  BY <1>1, <1>2, <1>3, <1>4, <1>5, <1>7, <1>8, <1>9, <1>10, <1>11, <1>12,
     <1>13, <1>14, <1>15 DEF Next, EngineStep, Stop

\* The engine implements the frozen core: the ledger's states move along its
\* edges only, so a terminal event is the last one and RELEASE_READY follows
\* VERIFYING, whatever the provider, the sandbox and the budgets do.
THEOREM CoreImplemented == Spec => ImplementsCore
<1>1. Init => Core!Init  BY DEF Init, Core!Init
<1>2. BareInv /\ [Next]_vars =>
        [Core!Next]_(IF events = <<>> THEN "NONE" ELSE events[Len(events)].state)
  <2> SUFFICES ASSUME BareInv, [Next]_vars
               PROVE  <<Last, Last'>> \in Core!Edges \/ Last' = Last
    BY DEF Core!Next, Last
  <2> QED  BY CoreStep
<1> QED  BY <1>1, <1>2, BareInvariant, PTL DEF Spec, ImplementsCore, Core!Spec
=============================================================================
