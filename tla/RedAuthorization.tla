-------------------------- MODULE RedAuthorization --------------------------
(* From a compiled plan to the authorization of an implementation: the plan  *)
(* store (testing/store.py), the isolated execution kernel                   *)
(* (execution/kernel.py) and the meaningful-red gate with its adapters       *)
(* (evidence/), over the compiler and the ledger of receipts.  Several       *)
(* processes use one run directory; each may die anywhere and the machine    *)
(* may lose power.                                                           *)
EXTENDS TestPlanCompiler, AdmissionReceipts

CONSTANTS
  Requests,    \* the inputs admit is called with; a request stands for its plan
  Commits,     \* the commits an authorization is asked for
  Reports(_),  \* the reports a run of tests for these nodes may leave
  MaxCalls,    \* bound on the calls of admit and authorize_implementation
  MaxDeaths    \* bound on deaths of a process and losses of power

\* A test passes, is skipped or fails, in one of the phases a runner reports.
ASSUME ReportsAssumption ==
  \A request \in Requests : \A nodes \in SUBSET NodeSpecs(request.contract) : \A report \in Reports(nodes) :
    \A node \in DOMAIN report.tests :
      /\ report.tests[node].outcome \in {"passed", "skipped", "failed"}
      /\ report.tests[node].phase \in {"setup", "call", "teardown"}

ASSUME RequestsAssumption == None \notin Requests

VARIABLES
  run,        \* the run directory: the plan's and the receipt's file
  runSynced,  \* the same as of the last fsync of the directory
  caller,     \* what each caller is doing
  granted,    \* history: the authorizations returned
  began,      \* calls begun, bounded by MaxCalls
  deaths      \* deaths and losses of power, bounded by MaxDeaths

storeVars == <<run, runSynced, caller, granted, began, deaths>>
redVars == <<storeVars, receiptVars>>

Idle == [doing |-> "idle"]

\* A file that is not there; a file that is keeps its temporary name as a
\* second link until _persist has unlinked it.
NoFile == [value |-> None, temp |-> FALSE]
Names == {"plan", "receipt"}

PlanArtifact(request) == [kind |-> "TEST_PLAN", of |-> <<request>>]

(* What is executed for a plan: one expectation per command, with the nodes  *)
(* that must be red.  Oracles and executions are bound to these              *)
(* expectations, which leave out the rest of the plan.                       *)
Commands(request) == {CommandOf(request, node) : node \in MeaningfulRed(request)}

NodesOf(request, command) == {node \in MeaningfulRed(request) : CommandOf(request, node) = command}

\* A command that two adapters claim is ambiguous.
Ambiguous(request) ==
  \E command \in Commands(request) :
    \E one, other \in NodesOf(request, command) : AdapterOf(request, one) # AdapterOf(request, other)

Expectations(request) ==
  [commit |-> request.snapshot.commit,
   commands |-> {[command |-> command, nodes |-> NodesOf(request, command)] : command \in Commands(request)}]

Oracle(request, command) == [kind |-> "HIDDEN_ORACLE_ASSERTION", of |-> <<Expectations(request), command>>]

Execution(bound, command, report) ==
  [kind |-> "RED_TEST_EXECUTION", of |-> <<bound, command, report>>]

(***************************************************************************)
(* Evidence adapters.  A report is the behaviour of every test that ran for *)
(* a planned node (tests), whether an unplanned test ran (stranger),        *)
(* whether the runner was the system's own (trusted) and whether the run    *)
(* was complete: no timeout, usage, collection,                             *)
(* configuration or internal failure and no malformed output.  A behaviour  *)
(* is a test's outcome, the phase it failed in and the assertion its        *)
(* failure carries.                                                         *)
(***************************************************************************)
Failing(behaviour) == behaviour.outcome = "failed"

\* Blocking: the report cannot be read as results of the planned tests.
PytestBlocks(report) ==
  \/ ~report.complete
  \/ DOMAIN report.tests = {} /\ ~report.stranger
  \/ \E node \in DOMAIN report.tests : report.tests[node].phase = "teardown"

TapBlocks(report) == ~report.complete \/ (DOMAIN report.tests = {} /\ ~report.stranger)

PytestKindOfAnyPhase(behaviour) ==
  CASE behaviour.outcome = "passed" -> "passed"
    [] behaviour.outcome = "skipped" -> "skip"
    [] Failing(behaviour) ->
         CASE behaviour.raises = "own" -> "red"
           [] behaviour.raises = "other" -> "unbound"
           [] OTHER -> "error"

\* A failure counts as the node's own assertion only if it is raised by the
\* test body and its message names that assertion and no other.
PytestKind(behaviour) ==
  CASE behaviour.outcome = "passed" -> "passed"
    [] behaviour.outcome = "skipped" -> "skip"
    [] Failing(behaviour) /\ behaviour.phase = "setup" -> "configuration"
    [] Failing(behaviour) /\ behaviour.phase # "setup" ->
         CASE behaviour.raises = "own" -> "red"
           [] behaviour.raises = "other" -> "unbound"
           [] OTHER -> "error"

TapKind(behaviour) ==
  CASE behaviour.outcome = "passed" -> "passed"
    [] behaviour.outcome = "skipped" -> "skip"
    [] Failing(behaviour) -> IF behaviour.phase = "call" /\ behaviour.raises = "own" THEN "red" ELSE "error"

Blocks(request, node, report) ==
  IF AdapterOf(request, node) = "pytest" THEN PytestBlocks(report) ELSE TapBlocks(report)

KindOf(request, node, report) ==
  IF AdapterOf(request, node) = "pytest" THEN PytestKind(report.tests[node]) ELSE TapKind(report.tests[node])

(* MeaningfulRedGate.evaluate: every command has its execution, whose        *)
(* receipt and oracle verify, and whose results are those of the planned     *)
(* nodes, each passed or red.                                                *)
CommandPasses(request, command, submission) ==
  /\ VerifiedReceipt(submission.execution)
  /\ VerifiedReceipt(submission.oracle)
  /\ submission.report.trusted
  /\ ~submission.report.stranger
  /\ DOMAIN submission.report.tests = NodesOf(request, command)
  /\ \A node \in NodesOf(request, command) :
       /\ ~Blocks(request, node, submission.report)
       /\ KindOf(request, node, submission.report) \in {"passed", "red"}

Gate(request, submissions) ==
  /\ DOMAIN submissions = Commands(request)
  /\ \A command \in Commands(request) : CommandPasses(request, command, submissions[command])

\* The store asks for more than the gate: every planned node is red.
AllRed(request, submissions) ==
  \A command \in Commands(request) : \A node \in NodesOf(request, command) :
    KindOf(request, node, submissions[command].report) = "red"

(***************************************************************************)
(* The store and the kernel.                                                *)
(***************************************************************************)
Do(c, what) == caller' = [caller EXCEPT ![c] = what]

Finish(c) == Do(c, Idle)

\* Readers refuse a file with more than one link.
Readable(name) == ~run[name].temp

Waits(c, doing) == caller[c].doing = doing

RedInit ==
  /\ ReceiptInit
  /\ run = [name \in Names |-> NoFile] /\ runSynced = [name \in Names |-> NoFile]
  /\ caller = [c \in Callers |-> Idle]
  /\ granted = {} /\ began = 0 /\ deaths = 0

\* admit: only a plan the compiler admits is taken to the ledger.
AdmitPlan(c) ==
  /\ Waits(c, "idle") /\ began < MaxCalls
  /\ began' = began + 1
  /\ \E request \in Requests :
       IF Admitted(request)
       THEN Ask(c, PlanArtifact(request)) /\ Do(c, [doing |-> "admitting", request |-> request])
       ELSE UNCHANGED <<asking, caller>>
  /\ UNCHANGED <<run, runSynced, granted, deaths, receipts, synced, holder, keyring, given>>

\* The receipt is there; both files are read, and must be absent or the same.
CompareFiles(c) ==
  /\ Waits(c, "admitting") /\ At(c, "given")
  /\ LET request == caller[c].request
         fresh == [plan |-> request, receipt |-> asking[c].receipt]
     IN IF /\ \A name \in Names : Readable(name) /\ run[name].value \in {None, fresh[name]}
        THEN Do(c, [doing |-> "writing", request |-> request, fresh |-> fresh,
                    left |-> {name \in Names : run[name].value = None}])
        ELSE Finish(c)
  /\ asking' = [asking EXCEPT ![c] = Absent]
  /\ UNCHANGED <<run, runSynced, granted, began, deaths, receipts, synced, holder, keyring, given>>

\* The plan is persisted before the receipt.
Pending(c) == IF "plan" \in caller[c].left THEN "plan" ELSE "receipt"

\* _persist, first half: the temporary file is linked under its name; a file
\* that got there first must have the same bytes and only one link.
LinkFile(c) ==
  /\ Waits(c, "writing") /\ caller[c].left # {}
  /\ LET name == Pending(c) IN
     IF run[name].value = None
     THEN /\ run' = [run EXCEPT ![name] = [value |-> caller[c].fresh[name], temp |-> TRUE]]
          /\ Do(c, [caller[c] EXCEPT !.doing = "linked"])
     ELSE /\ IF Readable(name) /\ run[name].value = caller[c].fresh[name]
             THEN Do(c, [caller[c] EXCEPT !.left = @ \ {name}])
             ELSE Finish(c)
          /\ UNCHANGED run
  /\ UNCHANGED <<runSynced, granted, began, deaths, receiptVars>>

\* Then the directory is synced; a failure raises once the link is removed.
SyncFile(c) ==
  /\ Waits(c, "linked")
  /\ \/ runSynced' = run /\ Do(c, [caller[c] EXCEPT !.doing = "synced"])
     \/ UNCHANGED runSynced /\ Do(c, [caller[c] EXCEPT !.doing = "failed"])
  /\ UNCHANGED <<run, granted, began, deaths, receiptVars>>

\* Last the temporary name is unlinked, which nothing syncs.
UnlinkFile(c) ==
  /\ Waits(c, "synced") \/ Waits(c, "failed")
  /\ run' = [run EXCEPT ![Pending(c)].temp = FALSE]
  /\ IF Waits(c, "failed") THEN Finish(c)
     ELSE Do(c, [caller[c] EXCEPT !.doing = "writing", !.left = @ \ {Pending(c)}])
  /\ UNCHANGED <<runSynced, granted, began, deaths, receiptVars>>

AdmitReturns(c) ==
  /\ Waits(c, "writing") /\ caller[c].left = {}
  /\ Finish(c)
  /\ UNCHANGED <<run, runSynced, granted, began, deaths, receiptVars>>

\* authorize_implementation: the plan asked for is the persisted one, for the
\* commit asked for, its receipt is in the ledger, and it has commands to run.
Authorize(c) ==
  /\ Waits(c, "idle") /\ began < MaxCalls
  /\ began' = began + 1
  /\ \E request \in Requests, commit \in Commits :
       IF /\ \A name \in Names : Readable(name)
          /\ run["plan"].value = request
          /\ run["receipt"].value # None /\ VerifiedReceipt(run["receipt"].value)
          /\ run["receipt"].value.artifact = PlanArtifact(request)
          /\ commit = request.snapshot.commit
          /\ Commands(request) # {}
       THEN Do(c, [doing |-> "probing", request |-> request, left |-> Commands(request), sent |-> <<>>])
       ELSE UNCHANGED caller
  /\ UNCHANGED <<run, runSynced, granted, deaths, receiptVars>>

(* IsolatedExecutionKernel.execute: the commit is materialized in a private  *)
(* directory and checked object by object, a copy is run in the sandbox, the *)
(* subject is hashed again and the directory removed.  Whatever fails, a     *)
(* timeout, the output limit, missing isolation, a changed subject or the    *)
(* removal, refuses the call; only then is a receipt asked for.              *)
Execute(c, bound, command, reports, next) ==
  \/ \E report \in reports :
       /\ Ask(c, Execution(bound, command, report))
       /\ Do(c, [next EXCEPT !.report = report])
  \/ asking' = [asking EXCEPT ![c] = Absent] /\ Finish(c)

With(c, doing, command) ==
  [doing |-> doing, request |-> caller[c].request, left |-> caller[c].left, sent |-> caller[c].sent,
   command |-> command, report |-> None, oracle |-> None]

\* One command is run first only to learn the subject's digest: what it
\* reports is admitted and never looked at.
Probe(c) ==
  /\ Waits(c, "probing")
  /\ LET command == CHOOSE x \in Commands(caller[c].request) : TRUE IN
     Execute(c, caller[c].request, command, {None}, With(c, "probed", command))
  /\ UNCHANGED <<run, runSynced, granted, began, deaths, receipts, synced, holder, keyring, given>>

\* Only then is a command that two adapters claim refused.
ProbeRefused(c) ==
  /\ Waits(c, "probed") /\ At(c, "given") /\ Ambiguous(caller[c].request)
  /\ Finish(c)
  /\ asking' = [asking EXCEPT ![c] = Absent]
  /\ UNCHANGED <<run, runSynced, granted, began, deaths, receipts, synced, holder, keyring, given>>

\* Each command's oracle is admitted before the command is run.
AskOracle(c) ==
  /\ \/ Waits(c, "probed") /\ At(c, "given") /\ ~Ambiguous(caller[c].request)
     \/ Waits(c, "next")
  /\ caller[c].left # {}
  /\ LET command == CHOOSE x \in caller[c].left : TRUE IN
     /\ Ask(c, Oracle(caller[c].request, command))
     /\ Do(c, With(c, "oracle", command))
  /\ UNCHANGED <<run, runSynced, granted, began, deaths, receipts, synced, holder, keyring, given>>

RunCommand(c) ==
  /\ Waits(c, "oracle") /\ At(c, "given")
  /\ Execute(c, Expectations(caller[c].request), caller[c].command,
             Reports(NodesOf(caller[c].request, caller[c].command)),
             [With(c, "running", caller[c].command) EXCEPT !.oracle = asking[c].receipt])
  /\ UNCHANGED <<run, runSynced, granted, began, deaths, receipts, synced, holder, keyring, given>>

Submit(c) ==
  /\ Waits(c, "running") /\ At(c, "given")
  /\ LET submission == [execution |-> asking[c].receipt, oracle |-> caller[c].oracle,
                        report |-> caller[c].report]
         command == caller[c].command
     IN Do(c, [With(c, "next", None) EXCEPT
                 !.left = caller[c].left \ {command},
                 !.sent = [x \in DOMAIN caller[c].sent \cup {command} |->
                             IF x = command THEN submission ELSE caller[c].sent[x]]])
  /\ asking' = [asking EXCEPT ![c] = Absent]
  /\ UNCHANGED <<run, runSynced, granted, began, deaths, receipts, synced, holder, keyring, given>>

\* Every command was run: the gate and the store decide.
Decide(c) ==
  /\ Waits(c, "next") /\ caller[c].left = {}
  /\ LET request == caller[c].request IN
     IF Gate(request, caller[c].sent) /\ AllRed(request, caller[c].sent)
     THEN granted' = granted \cup {[request |-> request, sent |-> caller[c].sent]}
     ELSE UNCHANGED granted
  /\ Finish(c)
  /\ UNCHANGED <<run, runSynced, began, deaths, receiptVars>>

\* An admission that was refused ends the call that asked for it.
AdmissionRefused(c) ==
  /\ At(c, "refused")
  /\ Finish(c)
  /\ asking' = [asking EXCEPT ![c] = Absent]
  /\ UNCHANGED <<run, runSynced, granted, began, deaths, receipts, synced, holder, keyring, given>>

Die(c) ==
  /\ ~Waits(c, "idle") /\ deaths < MaxDeaths
  /\ deaths' = deaths + 1
  /\ Finish(c)
  /\ ReceiptsAfterDeath(c)
  /\ UNCHANGED <<run, runSynced, granted, began>>

\* Of each file the machine keeps what was synced or what is there now.
PowerLoss ==
  /\ deaths < MaxDeaths
  /\ deaths' = deaths + 1
  /\ \E kept \in SUBSET Names :
       run' = [name \in Names |-> IF name \in kept THEN run[name] ELSE runSynced[name]]
  /\ runSynced' = run'
  /\ caller' = [c \in Callers |-> Idle]
  /\ ReceiptsAfterPowerLoss
  /\ UNCHANGED <<granted, began>>

Receipting ==
  /\ RotateKey \/ \E c \in Callers : AdmitStep(c)
  /\ UNCHANGED storeVars

RedNext ==
  \/ \E c \in Callers :
       \/ AdmitPlan(c) \/ CompareFiles(c) \/ LinkFile(c) \/ SyncFile(c) \/ UnlinkFile(c) \/ AdmitReturns(c)
       \/ Authorize(c) \/ Probe(c) \/ ProbeRefused(c) \/ AskOracle(c) \/ RunCommand(c) \/ Submit(c)
       \/ Decide(c) \/ AdmissionRefused(c) \/ Die(c)
  \/ Receipting \/ PowerLoss

RedSpec == RedInit /\ [][RedNext]_redVars

(***************************************************************************)
(* Properties.                                                              *)
(***************************************************************************)
\* A receipt that was handed out is the artifact's receipt for good: no crash,
\* loss of power, racing caller or key rotation takes it away or replaces it.
\* And what the run directory holds is what the ledger admitted: a receipt
\* file belongs to the plan beside it and is in the ledger as it stands.
RunIsBacked ==
  LET plan == run["plan"].value
      receipt == run["receipt"].value
  IN /\ GivenStands
     /\ receipt # None =>
          /\ plan # None => receipt.artifact = PlanArtifact(plan)
          /\ Stored(receipt.artifact) /\ receipts[receipt.artifact] = receipt

\* An authorization rests on one run of each of the plan's commands in which
\* every planned test, and no other, failed in its body through its own
\* assertion, and whose receipt is in the ledger for good.
AuthorizationIsRed ==
  \A a \in granted : \A node \in MeaningfulRed(a.request) :
    LET sent == a.sent[CommandOf(a.request, node)] IN
    /\ sent.report.trusted /\ ~sent.report.stranger
    /\ Failing(sent.report.tests[node])
    /\ sent.report.tests[node].phase = "call" /\ sent.report.tests[node].raises = "own"
    /\ Stored(sent.execution.artifact)
=============================================================================
