---------------------------- MODULE BarebonesRun ----------------------------
(***************************************************************************)
(* run_to_release_ready (barebones.py): one run of the frozen core.  The   *)
(* template is written into an empty workspace, every criterion that needs *)
(* an implementation must fail on it by assertion, and then the coder gets *)
(* a bounded number of attempts.  Each attempt is snapshotted, scanned and *)
(* verified; the run ends RELEASE_READY with a manifest of the snapshot,   *)
(* HALTED or STOPPED.                                                      *)
(*                                                                         *)
(* A file is a path with one of a few kinds of content; what a criterion   *)
(* makes of the candidate depends on the content of the module it          *)
(* exercises and, for a test-based criterion, on its test file.  The       *)
(* ledger is EvidenceLedger seen by its only writer: append is one step.   *)
(***************************************************************************)
EXTENDS Naturals, Sequences, FiniteSets

CONSTANTS
    Criteria,        \* compiled acceptance criteria
    Form,            \* per criterion: structured, human_test, satisfied_by_template
    Module,          \* per criterion: the source file it exercises
    TestFile,        \* per test-based criterion: its protected test file
    Sources,         \* candidate source files
    Budgets          \* BudgetCaps a run may be given

FORMS == {"structured", "human_test", "satisfied_by_template"}

TestBased == {c \in Criteria : Form[c] # "structured"}

\* Every test file and package initializer the run protects.
Tests == {TestFile[c] : c \in TestBased}

Paths == Sources \cup Tests

ASSUME RunAssumption ==
    /\ Form \in [Criteria -> FORMS]
    /\ Module \in [Criteria -> Sources]
    /\ Sources \cap Tests = {}
    /\ Budgets \subseteq [max_attempts : Nat, max_model_calls : Nat,
                          max_model_output_bytes : Nat]

\* "base": does not implement; "good": implements; "raises": fails to run;
\* "mutates": implements, but writes into its verification copy; "risky":
\* credential or dynamic execution; "original"/"tampered": test files.
SourceKinds == {"base", "good", "raises", "mutates", "risky"}
TestKinds == {"original", "tampered"}
Empty == [p \in Paths |-> "absent"]

VARIABLES
    pc,          \* where the engine is
    given,       \* arguments: template, budget, enforce_quality
    candidate,   \* candidate workspace
    snapshot,    \* verification_snapshot of the attempt
    changed,     \* paths the attempt's response changed
    findings,    \* findings given to the coder, or of the latest check
    previous,    \* previous_finding_digest: <<>> at first, then <<findings>>
    attempt,     \* attempts begun
    calls, bytes,\* counters of _invoke_bound
    events,      \* the run's ledger
    manifest,    \* the candidate files the release event names
    result       \* state run_to_release_ready returned, "none" before

vars == <<pc, given, candidate, snapshot, changed, findings, previous,
          attempt, calls, bytes, events, manifest, result>>

\* The template's source files, the caps, and whether generated-code checks
\* are required.
template == given.template
max_attempts == given.budget.max_attempts
max_model_calls == given.budget.max_model_calls
max_model_output_bytes == given.budget.max_model_output_bytes
enforce_quality == given.enforce_quality

-----------------------------------------------------------------------------
(* Verification *)

Finding(code, subject, files) == [code |-> code, subject |-> subject, files |-> files]

\* The outcome of running one criterion on a fresh copy of files.  A tampered
\* test proves nothing and passes; a tampered template proof is refused.
Outcome(c, files) ==
    LET kind == files[Module[c]] IN
    IF Form[c] = "satisfied_by_template" /\ files[TestFile[c]] = "tampered" THEN "refused"
    ELSE IF Form[c] = "human_test" /\ files[TestFile[c]] = "tampered" THEN "passed"
    ELSE IF kind = "raises" THEN "refused"
    ELSE IF kind = "base" /\ Form[c] # "satisfied_by_template" THEN "failed"
    ELSE "passed"

\* _criterion_findings and the mutation check of one criterion.
CriterionFindings(c, files) ==
    LET named == IF Form[c] = "structured" THEN Module[c] ELSE TestFile[c] IN
    UNION {
      IF Outcome(c, files) = "failed"
      THEN {Finding("ASSERTION_FAILED", c, {named})} ELSE {},
      IF Outcome(c, files) = "refused" /\ Form[c] = "human_test"
      THEN {Finding("CANDIDATE_EXECUTION_FAILED", c, {named})} ELSE {},
      IF files[Module[c]] = "mutates"
      THEN {Finding("CANDIDATE_MUTATED_DURING_VERIFICATION", c, {Module[c]})} ELSE {}}

\* The engine's answer to an execution error outside a human test: one
\* finding that names every registered action's module.
ExecutionFailed ==
    {Finding("CANDIDATE_EXECUTION_FAILED", "candidate", {Module[c] : c \in Criteria})}

\* Does _verify_snapshot raise ContractInvalidError?
Raises(files) ==
    \E c \in Criteria : Form[c] # "human_test" /\ Outcome(c, files) = "refused"

VerifySnapshot(files) == UNION {CriterionFindings(c, files) : c \in Criteria}

SecurityFindings(files) ==
    {Finding("HIGH_DYNAMIC_EXECUTION", p, {p}) : p \in {q \in Sources : files[q] = "risky"}}

NonTemplate == {c \in Criteria : Form[c] # "satisfied_by_template"}

\* The baseline gate: exactly the criteria that need an implementation fail,
\* and every one of them by assertion.
MeaningfulRed(files) ==
    /\ ~Raises(files)
    /\ \A f \in VerifySnapshot(files) : f.code = "ASSERTION_FAILED"
    /\ {f.subject : f \in VerifySnapshot(files)} = NonTemplate

-----------------------------------------------------------------------------
(* Steps *)

\* Bytes a response can have; the cap is a small multiple.
Sizes == {1, 2}

Record(type, state) ==
    events' = Append(events, [type |-> type, state |-> state])

\* A terminal append and the return that follows it.
Finish(type, state) ==
    /\ Record(type, state)
    /\ result' = state
    /\ pc' = "done"

WithTests(files) == [p \in Paths |-> IF p \in Sources THEN files[p] ELSE "original"]

Init ==
    /\ pc = "start"
    /\ given \in [template : [Sources -> {"base", "good", "raises"}],
                  budget : Budgets, enforce_quality : BOOLEAN]
    /\ candidate = Empty
    /\ snapshot = Empty
    /\ changed = {}
    /\ findings = {}
    /\ previous = <<>>
    /\ attempt = 0
    /\ calls = 0
    /\ bytes = 0
    /\ events = <<>>
    /\ manifest = Empty
    /\ result = "none"

\* Approval, plan and workspace checks pass; the ledger is created and the
\* first event appended.
Validate ==
    /\ pc = "start"
    /\ Record("contract_validated", "VALIDATED")
    /\ pc' = "validated"
    /\ UNCHANGED <<given, candidate, snapshot, changed, findings, previous,
                   attempt, calls, bytes, result, manifest>>

\* An error leaves the run before it has a result: a refused approval, plan,
\* workspace or run id before the ledger exists; a test file that no longer
\* has its compiled digest; an append that fails; the death of the process.
Abort ==
    /\ pc \notin {"done", "aborted"}
    /\ pc' = "aborted"
    /\ UNCHANGED <<given, candidate, snapshot, changed, findings, previous,
                   attempt, calls, bytes, events, result, manifest>>

StopBeforeBaseline ==
    /\ pc = "validated"
    /\ Finish("stopped", "STOPPED")
    /\ UNCHANGED <<given, candidate, snapshot, changed, findings, previous,
                   attempt, calls, bytes, manifest>>

\* Template and tests written, baseline verified.
Baseline ==
    /\ pc = "validated"
    /\ candidate' = WithTests(template)
    /\ MeaningfulRed(candidate')
    /\ findings' = VerifySnapshot(candidate')
    /\ Record("meaningful_red_confirmed", "BUILDING")
    /\ attempt' = 1
    /\ pc' = "attempt"
    /\ UNCHANGED <<given, snapshot, changed, previous, calls, bytes,
                   manifest, result>>

\* "baseline must fail every non-template criterion by assertion": raised
\* with the ledger at VALIDATED.
RefuseBaseline ==
    /\ pc = "validated"
    /\ candidate' = WithTests(template)
    /\ ~MeaningfulRed(candidate')
    /\ pc' = "aborted"
    /\ UNCHANGED <<given, snapshot, changed, findings, previous,
                   attempt, calls, bytes, events, result, manifest>>

StopBeforeAttempt ==
    /\ pc = "attempt"
    /\ attempt <= max_attempts
    /\ Finish("stopped", "STOPPED")
    /\ UNCHANGED <<given, candidate, snapshot, changed, findings, previous,
                   attempt, calls, bytes, manifest>>

AttemptsExhausted ==
    /\ pc = "attempt"
    /\ attempt > max_attempts
    /\ Finish("halted", "HALTED")
    /\ UNCHANGED <<given, candidate, snapshot, changed, findings, previous,
                   attempt, calls, bytes, manifest>>

\* Variant: a spent call budget is waited out.
CallsExhaustedWaits ==
    /\ pc = "attempt"
    /\ attempt <= max_attempts
    /\ calls >= max_model_calls
    /\ UNCHANGED vars

\* _invoke_bound raises before it calls the provider.
CallsExhausted ==
    /\ pc = "attempt"
    /\ attempt <= max_attempts
    /\ calls >= max_model_calls
    /\ Finish("halted", "HALTED")
    /\ UNCHANGED <<given, candidate, snapshot, changed, findings, previous,
                   attempt, calls, bytes, manifest>>

\* The provider fails, or its response carries a credential, is too long, is
\* not bound to the request, or reports invalid usage.
CallFails(size) ==
    /\ pc = "attempt"
    /\ attempt <= max_attempts
    /\ calls < max_model_calls
    /\ calls' = calls + 1
    /\ bytes' = bytes + size
    /\ Finish("halted", "HALTED")
    /\ UNCHANGED <<given, candidate, snapshot, changed, findings, previous,
                   attempt, manifest>>

\* _invoke_bound returns a response of this many bytes.
Accepted(size) ==
    /\ pc = "attempt"
    /\ attempt <= max_attempts
    /\ calls < max_model_calls
    /\ calls' = calls + 1
    /\ bytes + size <= max_model_output_bytes
    /\ bytes' = bytes + size

\* The response is not a map of safe paths, or touches a protected file.
RefuseResponse(size) ==
    /\ Accepted(size)
    /\ Finish("halted", "HALTED")
    /\ UNCHANGED <<given, candidate, snapshot, changed, findings, previous,
                   attempt, manifest>>

\* The workspace after _write_files of a response.
Written(src, tst) ==
    [p \in Paths |->
        LET new == IF p \in Sources THEN src[p] ELSE tst[p]
        IN  IF new = "absent" THEN candidate[p] ELSE new]

NoTests == [t \in Tests |-> "absent"]

\* _write_files meets a value that is not text: what precedes it is written.
PartialWrite(size, src) ==
    /\ Accepted(size)
    /\ candidate' = Written(src, NoTests)
    /\ Finish("halted", "HALTED")
    /\ UNCHANGED <<given, snapshot, changed, findings, previous, attempt, manifest>>

\* Variant: responses may overwrite protected tests.
CoderCompletedUnprotected(size, src, tst) ==
    /\ Accepted(size)
    /\ candidate' = Written(src, tst)
    /\ changed' = {p \in Paths : candidate'[p] # candidate[p]}
    /\ Record("coder_completed", "BUILDING")
    /\ pc' = "coded"
    /\ UNCHANGED <<given, snapshot, findings, previous, attempt, result, manifest>>

\* The response is written and recorded; only files whose content differs
\* count as changed.
CoderCompleted(size, src, tst) ==
    /\ Accepted(size)
    /\ tst = NoTests
    /\ candidate' = Written(src, tst)
    /\ changed' = {p \in Paths : candidate'[p] # candidate[p]}
    /\ Record("coder_completed", "BUILDING")
    /\ pc' = "coded"
    /\ UNCHANGED <<given, snapshot, findings, previous, attempt, result, manifest>>

Implicated == UNION {f.files : f \in findings}

HumanTestRepair ==
    /\ changed # {}
    /\ \E f \in findings, c \in Criteria : f.subject = c /\ Form[c] = "human_test"

DependencyRepair ==
    /\ \E f \in findings : f.code = "CANDIDATE_EXECUTION_FAILED"
    /\ changed \cap Sources # {}

\* The findings the coder was given are those of the previous attempt and
\* the response does not address them.
RepeatFinding ==
    /\ previous = <<findings>>
    /\ Implicated \cap changed = {}
    /\ ~HumanTestRepair
    /\ ~DependencyRepair

\* Variant: the halt is recorded but the loop goes on.
HaltOnRepeatContinues ==
    /\ pc = "coded"
    /\ RepeatFinding
    /\ Record("halted", "HALTED")
    /\ attempt' = attempt + 1
    /\ pc' = "attempt"
    /\ UNCHANGED <<given, candidate, snapshot, changed, findings, previous,
                   calls, bytes, manifest, result>>

HaltOnRepeat ==
    /\ pc = "coded"
    /\ RepeatFinding
    /\ Finish("halted", "HALTED")
    /\ UNCHANGED <<given, candidate, snapshot, changed, findings, previous,
                   attempt, calls, bytes, manifest>>

\* The attempt ends with these findings; the next one begins.
Retry(found) ==
    /\ findings' = found
    /\ previous' = <<found>>
    /\ attempt' = attempt + 1
    /\ pc' = "attempt"

SecurityFailed ==
    /\ pc = "coded"
    /\ ~RepeatFinding
    /\ SecurityFindings(candidate) # {}
    /\ snapshot' = candidate
    /\ Record("security_failed", "BUILDING")
    /\ Retry(SecurityFindings(candidate))
    /\ UNCHANGED <<given, candidate, changed, calls, bytes, result, manifest>>

StartVerification ==
    /\ pc = "coded"
    /\ ~RepeatFinding
    /\ SecurityFindings(candidate) = {}
    /\ snapshot' = candidate
    /\ Record("verification_started", "VERIFYING")
    /\ pc' = IF enforce_quality THEN "quality" ELSE "verifying"
    /\ UNCHANGED <<given, candidate, changed, findings, previous, attempt,
                   calls, bytes, result, manifest>>

\* check_python_candidate on the snapshot; its report is recorded.
CheckQuality ==
    /\ pc = "quality"
    /\ Record("generated_quality_checked", "VERIFYING")
    /\ \E passed \in BOOLEAN : pc' = IF passed THEN "verifying" ELSE "untidy"
    /\ UNCHANGED <<given, candidate, snapshot, changed, findings, previous,
                   attempt, calls, bytes, result, manifest>>

QualityFailed ==
    /\ pc = "untidy"
    /\ Record("verification_failed", "BUILDING")
    /\ Retry({Finding("GENERATED_QUALITY_FAILED", "quality", Paths)})
    /\ UNCHANGED <<given, candidate, snapshot, changed, calls, bytes, result, manifest>>

\* A criterion fails, the candidate cannot be executed, or the sandbox gives
\* up on it (a timeout), as a whole or in one human test.
VerificationFailed ==
    /\ pc = "verifying"
    /\ \/ /\ ~Raises(snapshot)
          /\ VerifySnapshot(snapshot) # {}
          /\ Retry(VerifySnapshot(snapshot))
       \/ Retry(ExecutionFailed)
       \/ /\ ~Raises(snapshot)
          /\ \E c \in Criteria :
               /\ Form[c] = "human_test"
               /\ Retry({f \in VerifySnapshot(snapshot) : f.subject # c} \cup
                        {Finding("CANDIDATE_EXECUTION_FAILED", c, {TestFile[c]})})
    /\ Record("verification_failed", "BUILDING")
    /\ UNCHANGED <<given, candidate, snapshot, changed, calls, bytes, result, manifest>>

VerificationPassed ==
    /\ pc = "verifying"
    /\ ~Raises(snapshot) /\ VerifySnapshot(snapshot) = {}
    /\ findings' = {}
    /\ pc' = "review"
    /\ UNCHANGED <<given, candidate, snapshot, changed, previous, attempt,
                   calls, bytes, events, result, manifest>>

\* The advisory review shares the call budget; whatever comes of it, the run
\* is released with the manifest of the verified snapshot.
ReviewAndRelease ==
    /\ pc = "review"
    /\ \/ /\ calls < max_model_calls
          /\ calls' = calls + 1
          /\ \E size \in {0} \cup Sizes : bytes' = bytes + size
       \/ /\ calls >= max_model_calls
          /\ UNCHANGED <<calls, bytes>>
    /\ manifest' = snapshot
    /\ Finish("release_ready", "RELEASE_READY")
    /\ UNCHANGED <<given, candidate, snapshot, changed, findings, previous,
                   attempt>>

\* A response: new content for some files, "absent" for the ones it omits.
SourceEdits == [Sources -> SourceKinds \cup {"absent"}]
TestEdits == [Tests -> TestKinds \cup {"absent"}]

EngineStep ==
    \/ Validate \/ Baseline \/ RefuseBaseline
    \/ AttemptsExhausted \/ CallsExhausted
    \/ \E size \in {0} \cup Sizes : CallFails(size)
    \/ \E size \in Sizes :
         \/ RefuseResponse(size)
         \/ \E src \in SourceEdits : PartialWrite(size, src)
         \/ \E src \in SourceEdits, tst \in TestEdits : CoderCompleted(size, src, tst)
    \/ HaltOnRepeat \/ SecurityFailed \/ StartVerification \/ CheckQuality
    \/ QualityFailed \/ VerificationFailed \/ VerificationPassed
    \/ ReviewAndRelease

\* stop_requested answers yes at one of the two places it is asked.
Stop == StopBeforeBaseline \/ StopBeforeAttempt

Next == EngineStep \/ Stop \/ Abort

\* The engine is one thread that always has its next statement to run, and
\* provider and sandbox calls return (both have timeouts).  Nothing obliges
\* anyone to stop the run or the process to die.
Spec == Init /\ [][Next]_vars /\ WF_vars(EngineStep)

-----------------------------------------------------------------------------
(* Properties *)

\* RELEASE_READY names exactly what was proven: the manifest is the candidate
\* in the workspace, every criterion passes on it, no blocking security
\* finding is in it, and every protected test in it is the one compiled.  Each
\* criterion that needed an implementation failed by assertion on the untouched
\* template, so its green is the coder's doing
\* (docs/acceptance-criteria-grammar.md, Baseline gate).
ReleaseIsProven ==
    result = "RELEASE_READY" =>
        /\ manifest = candidate
        /\ \A c \in Criteria : Outcome(c, manifest) = "passed"
        /\ \A c \in Criteria : manifest[Module[c]] # "mutates"
        /\ SecurityFindings(manifest) = {}
        /\ \A t \in Tests : manifest[t] = "original"
        /\ \A c \in NonTemplate : Outcome(c, WithTests(template)) = "failed"

Core == INSTANCE FrozenCore
          WITH core <- IF events = <<>> THEN "NONE" ELSE events[Len(events)].state

\* The ledger's states move as the frozen core allows: terminal events are
\* last, RELEASE_READY only follows VERIFYING.
ImplementsCore == Core!Spec

\* Under bounded provider and sandbox calls every run ends.
RunEnds == <>(pc \in {"done", "aborted"})
=============================================================================
