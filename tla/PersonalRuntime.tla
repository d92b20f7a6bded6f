--------------------------- MODULE PersonalRuntime ---------------------------
(* The governed runtime of personal execution (personal/runtime): the         *)
(* append-only event registry and the four adapters that record in it, the    *)
(* calendar adapter, the recovery controller, the bounded product worker and  *)
(* the learning loop.  Actors are threads of one process, which share a lock *)
(* for the registry file; the process may stop at any point and start again.  *)
(* The calendar and the connectors are outside and keep their state.          *)
EXTENDS Integers, Sequences, FiniteSets

CONSTANTS
  Companies,    \* the sets of callers that may be at work together
  Approvals,    \* identifiers of calendar approvals
  Changes,      \* changes an update may make; a change is also the content it leaves
  MaxAttempts,  \* max_attempts of the retry policy
  Budget,       \* max_output_bytes of a worker's budget
  MaxSteps,     \* max_steps of a worker's budget
  MaxFaults,    \* bound: writes to the registry that fail
  MaxStops,     \* bound: stops of the process
  MaxEdits,     \* bound: edits of the calendar from outside
  MaxEvents,    \* bound: events after which no new call begins
  Free          \* nobody; nothing

ASSUME RuntimeAssumption == MaxAttempts \in 1..10 /\ Budget \in 1..1000000 /\ MaxSteps \in 1..100
ASSUME FreeAssumption == Free \notin UNION Companies

VARIABLES
  company,   \* the callers at work
  registry,  \* the events of the file, oldest first
  tail,      \* how the file ends: "whole", "unended" by a newline, or "broken"
  keeper,    \* the caller that holds the registry's lock, or Free
  call,      \* the call each caller is in
  calendar,  \* what the calendar holds
  edited,    \* the last change to the calendar came from outside
  approved,  \* the mutation each approval was given for, or Free
  writes,    \* how often the calendar was written for each approval
  lost,      \* an update replaced another one that its approver had not seen
  op,        \* state of the recoverable connector
  faults, stops, edits

calendarVars == <<calendar, edited, approved, writes, lost>>
fileVars == <<registry, tail, faults>>
runtimeVars == <<company, fileVars, keeper, call, calendarVars, op, stops, edits>>

Resting == [at |-> "idle"]
Base == "base"
Target == "target"
Actors == UNION Companies

RuntimeInit ==
  /\ company \in Companies
  /\ registry = <<>> /\ tail = "whole" /\ keeper = Free
  /\ call = [c \in Actors |-> Resting]
  /\ calendar = Base /\ edited = FALSE /\ lost = FALSE
  /\ approved = [a \in Approvals |-> Free] /\ writes = [a \in Approvals |-> 0]
  /\ op = Target
  /\ faults = 0 /\ stops = 0 /\ edits = 0

(***************************************************************************)
(* The registry.                                                            *)
(***************************************************************************)
\* read(): the whole chain is verified, so one bad line makes it raise.
ChainReads == tail # "broken"

LockFree(c) == keeper \in {Free, c}

Events(type) == {n \in DOMAIN registry : registry[n].type = type}

(* append(): the chain is read, the record written and synced.  The write     *)
(* may fail before, inside or after the record, or between it and its         *)
(* newline; a record written after one without newline shares its line.       *)
Recorded(c, event, returned) ==
  /\ LockFree(c)
  /\ \/ /\ ChainReads /\ returned
        /\ registry' = Append(registry, event)
        /\ tail' = IF tail = "whole" THEN "whole" ELSE "broken"
        /\ UNCHANGED faults
     \/ /\ ChainReads /\ ~returned /\ faults < MaxFaults
        /\ faults' = faults + 1
        /\ \/ UNCHANGED <<registry, tail>>
           \/ tail' = "broken" /\ UNCHANGED registry
           \/ /\ registry' = Append(registry, event)
              /\ tail' \in IF tail = "whole" THEN {"whole", "unended"} ELSE {"broken"}
     \/ ~ChainReads /\ ~returned /\ UNCHANGED fileVars

MayBegin(c) == c \in company /\ call[c].at = "idle" /\ Len(registry) < MaxEvents

(***************************************************************************)
(* The calendar adapter.                                                    *)
(***************************************************************************)
\* CalendarMutation: a change, bound to the calendar it was prepared for.
Mutation(change, expected) == [change |-> change, expected |-> expected]

\* propose_update, and a person who approves the mutation it returns.
ApproveUpdate(a, change) ==
  /\ company \cap {"planner", "assistant"} # {}
  /\ approved[a] = Free
  /\ approved' = [approved EXCEPT ![a] = Mutation(change, calendar)]
  /\ UNCHANGED <<company, fileVars, keeper, call, calendar, edited, writes, lost, op, stops, edits>>

\* The calendar is changed by hand.
Edit ==
  /\ edits < MaxEdits
  /\ company \cap {"planner", "assistant"} # {}
  /\ edits' = edits + 1
  /\ calendar' \in {Base, "edited"} /\ edited' = TRUE
  /\ UNCHANGED <<company, fileVars, keeper, call, approved, writes, lost, op, stops>>

\* Approvals with a started or an applied update.
Consumed == {registry[n].approval : n \in Events("started") \cup Events("applied")}

ApplyApprovedUnlocked(c, a, mutation) ==
  /\ MayBegin(c) /\ c \in {"planner", "assistant"}
  /\ approved[a] = mutation /\ ChainReads /\ a \notin Consumed /\ mutation.expected = calendar
  /\ call' = [call EXCEPT ![c] = [at |-> "reserve", approval |-> a, mutation |-> mutation]]
  /\ UNCHANGED <<company, fileVars, keeper, calendarVars, op, stops, edits>>

(* apply_approved, under the lock: refused when the registry cannot be read,  *)
(* the approval is consumed or for another payload, or the calendar is not    *)
(* the one the mutation was prepared for.  A refusal changes nothing.         *)
ApplyApproved(c, a, mutation) ==
  /\ MayBegin(c) /\ c \in {"planner", "assistant"}
  /\ keeper = Free
  /\ approved[a] = mutation /\ ChainReads /\ a \notin Consumed /\ mutation.expected = calendar
  /\ keeper' = c
  /\ call' = [call EXCEPT ![c] = [at |-> "reserve", approval |-> a, mutation |-> mutation]]
  /\ UNCHANGED <<company, fileVars, calendarVars, op, stops, edits>>

\* Consumption is recorded before the calendar is touched.
Reserve(c) ==
  /\ call[c].at = "reserve"
  /\ \E returned \in BOOLEAN :
       /\ Recorded(c, [type |-> "started", approval |-> call[c].approval], returned)
       /\ call' = [call EXCEPT ![c] = IF returned THEN [call[c] EXCEPT !.at = "write"] ELSE Resting]
       /\ keeper' = IF returned THEN keeper ELSE Free
  /\ UNCHANGED <<company, calendarVars, op, stops, edits>>

\* apply_update of the connector, which has no precondition of its own.
ApplyUpdate(a, mutation) ==
  /\ calendar' = mutation.change /\ edited' = FALSE
  /\ writes' = [writes EXCEPT ![a] = @ + 1]
  /\ lost' = (lost \/ (calendar # mutation.expected /\ ~edited))

\* The provider may refuse, and may fail after it has written.
Write(c) ==
  /\ call[c].at = "write"
  /\ \E written, returned \in BOOLEAN :
       /\ returned => written
       /\ IF written
          THEN ApplyUpdate(call[c].approval, call[c].mutation)
          ELSE UNCHANGED <<calendar, edited, writes, lost>>
       /\ call' = [call EXCEPT ![c] = IF returned THEN [call[c] EXCEPT !.at = "record"] ELSE Resting]
       /\ keeper' = IF returned THEN keeper ELSE Free
  /\ UNCHANGED <<company, fileVars, approved, op, stops, edits>>

\* The completion is recorded; when that fails, the caller is told to reconcile.
RecordApplied(c) ==
  /\ call[c].at = "record"
  /\ \E returned \in BOOLEAN : Recorded(c, [type |-> "applied", approval |-> call[c].approval], returned)
  /\ call' = [call EXCEPT ![c] = Resting]
  /\ keeper' = Free
  /\ UNCHANGED <<company, calendarVars, op, stops, edits>>

(***************************************************************************)
(* The recovery controller.                                                 *)
(***************************************************************************)
Note(type) == [type |-> type]
recoveryFrame == UNCHANGED <<company, keeper, calendarVars, stops, edits>>
Go(c, stage) == call' = [call EXCEPT ![c] = [call[c] EXCEPT !.at = stage]]

\* execute: the rollback target has to be the connector's state.
Recover(c) ==
  /\ MayBegin(c) /\ c = "recovery"
  /\ op = Target
  /\ call' = [call EXCEPT ![c] = [at |-> "apply", attempt |-> 1, silent |-> FALSE, verified |-> FALSE,
                                  result |-> Free]]
  /\ UNCHANGED <<op, fileVars>> /\ recoveryFrame

\* The connector succeeds, asks for a retry or fails, whatever it changed.
ApplyOperation(answer) ==
  \/ answer = "succeeds" /\ op' = "applied"
  \/ answer \in {"retryable", "fails"} /\ op' \in {op, "changed"}

Attempt(c) ==
  /\ call[c].at = "apply"
  /\ \E answer \in {"succeeds", "retryable", "fails"} :
       /\ ApplyOperation(answer)
       /\ Go(c, CASE answer = "succeeds" -> "complete" [] answer = "retryable" -> "retry" [] OTHER -> "rollback")
  /\ UNCHANGED fileVars /\ recoveryFrame

\* The retry policy: the state is the one before, and attempts are left.
MayRetry(c) == op = Target /\ call[c].attempt < MaxAttempts

\* Another attempt only if the policy allows it and the retry is recorded.
ScheduleRetry(c) ==
  /\ call[c].at = "retry"
  /\ \E returned \in BOOLEAN :
       \/ ~returned /\ UNCHANGED fileVars
       \/ Recorded(c, Note("retry"), returned)
     /\ IF returned /\ MayRetry(c)
        THEN call' = [call EXCEPT ![c] = [call[c] EXCEPT !.at = "apply", !.attempt = call[c].attempt + 1]]
        ELSE Go(c, "rollback")
  /\ UNCHANGED op /\ recoveryFrame

\* A success that cannot be read back or recorded is rolled back.
CompleteOperation(c) ==
  /\ call[c].at = "complete"
  /\ \/ Recorded(c, Note("completed"), TRUE) /\ call' = [call EXCEPT ![c] = [call[c] EXCEPT !.at = "done", !.result = "COMPLETED"]]
     \/ (Recorded(c, Note("completed"), FALSE) \/ UNCHANGED fileVars) /\ Go(c, "rollback")
  /\ UNCHANGED op /\ recoveryFrame

StartRollback(c) ==
  /\ call[c].at = "rollback"
  /\ \E returned \in BOOLEAN :
       /\ Recorded(c, Note("rollback"), returned)
       /\ call' = [call EXCEPT ![c] = [call[c] EXCEPT !.at = "undo", !.silent = ~returned]]
  /\ UNCHANGED op /\ recoveryFrame

\* rollback and verify: either may raise, and the rollback may fall short.
Undo(c) ==
  /\ call[c].at = "undo"
  /\ op' \in {op, Target, "changed"}
  /\ \E verified \in BOOLEAN :
       /\ verified => op' = Target
       /\ call' = [call EXCEPT ![c] = [call[c] EXCEPT !.at = "settle", !.verified = verified]]
  /\ UNCHANGED fileVars /\ recoveryFrame

SettleUnaudited(c) ==
  /\ call[c].at = "settle"
  /\ \E read, returned \in BOOLEAN :
       LET verified == call[c].verified /\ read /\ op = Target IN
       /\ Recorded(c, Note(IF verified THEN "verified" ELSE "unverified"), returned)
       /\ call' = [call EXCEPT ![c] =
                     [call[c] EXCEPT !.at = "done", !.verified = verified,
                        !.result = IF ~returned THEN "RAISED" ELSE IF verified THEN "ROLLED_BACK" ELSE "BLOCKED"]]
  /\ UNCHANGED op /\ recoveryFrame

(* The state is read once more and the outcome recorded.  A rollback whose    *)
(* start or outcome could not be recorded raises.                             *)
Settle(c) ==
  /\ call[c].at = "settle"
  /\ \E read, returned \in BOOLEAN :
       LET verified == call[c].verified /\ read /\ op = Target IN
       /\ Recorded(c, Note(IF verified THEN "verified" ELSE "unverified"), returned)
       /\ call' = [call EXCEPT ![c] =
                     [call[c] EXCEPT !.at = "done", !.verified = verified,
                        !.result = IF call[c].silent \/ ~returned THEN "RAISED"
                                   ELSE IF verified THEN "ROLLED_BACK" ELSE "BLOCKED"]]
  /\ UNCHANGED op /\ recoveryFrame

(***************************************************************************)
(* The bounded product worker.                                              *)
(***************************************************************************)
workerFrame == UNCHANGED <<company, keeper, calendarVars, op, stops, edits>>

\* A request is refused before it starts when its steps exceed the budget or
\* its allowlist.
Work(c, steps, allowed) ==
  /\ MayBegin(c) /\ c = "worker"
  /\ steps <= MaxSteps /\ allowed
  /\ call' = [call EXCEPT ![c] = [at |-> "step", left |-> steps, bytes |-> 0]]
  /\ UNCHANGED fileVars /\ workerFrame

\* A step that returns product truth, or more than is left of the budget, ends
\* the run without a record.
WorkerStep(c) ==
  /\ call[c].at = "step" /\ call[c].left > 0
  /\ \E bytes \in 1..Budget, truth \in BOOLEAN :
       call' = [call EXCEPT ![c] =
                  IF truth \/ call[c].bytes + bytes > Budget THEN Resting
                  ELSE [call[c] EXCEPT !.left = @ - 1, !.bytes = @ + bytes]]
  /\ UNCHANGED fileVars /\ workerFrame

Worked(c) ==
  /\ call[c].at = "step" /\ call[c].left = 0
  /\ \E returned \in BOOLEAN : Recorded(c, [type |-> "worked", bytes |-> call[c].bytes], returned)
  /\ call' = [call EXCEPT ![c] = Resting]
  /\ workerFrame

(***************************************************************************)
(* Evaluations and the learning loop.                                       *)
(***************************************************************************)
Evaluate(c, verdict) ==
  /\ MayBegin(c) /\ c = "evaluator"
  /\ \E returned \in BOOLEAN : Recorded(c, [type |-> "evaluation", verdict |-> verdict], returned)
  /\ UNCHANGED call /\ workerFrame

Proposed == {registry[n].source : n \in Events("proposed")}

(* propose: failures without a proposal are read once, under the lock; then   *)
(* each gets a proposal of its own, numbered on from those already recorded.  *)
Learn(c) ==
  /\ MayBegin(c) /\ c = "learner"
  /\ LockFree(c) /\ ChainReads
  /\ LET failures == {n \in Events("evaluation") : registry[n].verdict = "FAIL"} \ Proposed IN
     call' = [call EXCEPT ![c] = [at |-> "propose", failures |-> failures, index |-> Cardinality(Proposed) + 1]]
  /\ UNCHANGED fileVars /\ workerFrame

Propose(c) ==
  /\ call[c].at = "propose"
  /\ IF call[c].failures = {}
     THEN call' = [call EXCEPT ![c] = Resting] /\ UNCHANGED fileVars
     ELSE LET source == CHOOSE n \in call[c].failures : \A other \in call[c].failures : n <= other IN
          \E returned \in BOOLEAN :
            /\ Recorded(c, [type |-> "proposed", source |-> source, id |-> call[c].index], returned)
            /\ call' = [call EXCEPT ![c] = IF returned
                                           THEN [call[c] EXCEPT !.failures = @ \ {source}, !.index = @ + 1]
                                           ELSE Resting]
  /\ workerFrame

(***************************************************************************)
(* The process stops and starts again: every call and lock is gone.         *)
(***************************************************************************)
Restart ==
  /\ stops < MaxStops
  /\ stops' = stops + 1
  /\ call' = [c \in Actors |-> Resting] /\ keeper' = Free
  /\ UNCHANGED <<company, fileVars, calendarVars, op, edits>>

\* A recovery that was answered makes room for the next one.
Answered(c) ==
  /\ call[c].at = "done"
  /\ call' = [call EXCEPT ![c] = Resting]
  /\ UNCHANGED <<op, fileVars>> /\ recoveryFrame

RuntimeNext ==
  \/ \E a \in Approvals, change \in Changes : ApproveUpdate(a, change)
  \/ Edit \/ Restart
  \/ \E c \in company :
       \/ \E a, b \in Approvals : approved[b] # Free /\ ApplyApproved(c, a, approved[b])
       \/ Reserve(c) \/ Write(c) \/ RecordApplied(c)
       \/ Recover(c) \/ Attempt(c) \/ ScheduleRetry(c) \/ CompleteOperation(c)
       \/ StartRollback(c) \/ Undo(c) \/ Settle(c) \/ Answered(c)
       \/ \E steps \in 1..MaxSteps + 1, allowed \in BOOLEAN : Work(c, steps, allowed)
       \/ WorkerStep(c) \/ Worked(c)
       \/ \E verdict \in {"PASS", "FAIL"} : Evaluate(c, verdict)
       \/ Learn(c) \/ Propose(c)

RuntimeSpec == RuntimeInit /\ [][RuntimeNext]_runtimeVars

(***************************************************************************)
(* Properties.                                                              *)
(***************************************************************************)
\* An approval moves the calendar at most once, whatever call fails or process
\* stops between the record and the write, and two updates through the adapter
\* never overwrite each other: an update replaces a calendar its approver did
\* not see only if somebody edited it from outside meanwhile.
ApprovalMovesOnce == ~lost /\ \A a \in Approvals : writes[a] <= 1 /\ (writes[a] = 1 => a \in Consumed)

\* A note of the recovery at place n, and no other after it except at m.
Notes == {"retry", "completed", "rollback", "verified", "unverified"}
NotedAt(n, type, m) ==
  registry[n].type = type /\ \A k \in DOMAIN registry : k > n /\ k # m => registry[k].type \notin Notes

LastNote(type) == \E n \in DOMAIN registry : NotedAt(n, type, n)
LastTwoNotes(first, second) ==
  \E m, n \in DOMAIN registry : m < n /\ NotedAt(m, first, n) /\ registry[n].type = second

\* What a recovery answers is so and is on record: COMPLETED leaves the
\* operation applied with its completion as the last note, ROLLED_BACK leaves
\* the connector in its first state with the start and the verified end of the
\* rollback as the last two, and a rollback that fell short is never recorded
\* as verified.
RecoveryIsTrue ==
  "recovery" \in company /\ call["recovery"].at = "done" =>
    LET result == call["recovery"].result IN
    /\ result = "COMPLETED" => op = "applied" /\ LastNote("completed")
    /\ result = "ROLLED_BACK" => op = Target /\ LastTwoNotes("rollback", "verified")
    /\ op = "changed" => result \in {"BLOCKED", "RAISED"}
=============================================================================
