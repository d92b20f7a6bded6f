--------------------------- MODULE MCReleaseGates ---------------------------
(* The gates between a contract and a release, and the personal runtime and  *)
(* execution beside them, each checked on its own: a behaviour is a          *)
(* behaviour of one of them, chosen in the initial state, while the others'  *)
(* variables keep their initial values.                                      *)
EXTENDS RedAuthorization, ExecutionKernel, MergeAdmission, ContractRules, WorkflowRun, PersonalRuntime, PersonalExecution, TLC

VARIABLE part

(***************************************************************************)
(* Contracts and requests for the compiler and the red gate.                *)
(***************************************************************************)
Item(section, id, covers, evidence, category) ==
  [section |-> section, id |-> id, covers |-> covers, evidence |-> evidence, category |-> category]

Requirement == Item("functional", "FR1", {}, "automated", None)
Criterion == Item("criteria", "AC1", {"FR1"}, "both", None)
Security == Item("security", "SEC1", {}, "automated", None)

Pool ==
  {Requirement, Criterion, Security,
   Item("functional", "FR2", {}, "automated", None),
   Item("criteria", "AC2", {"FR2"}, "manual", None),
   Item("expectations", "QE1", {"AC1"}, "automated", None),
   Item("non_functional", "NFR1", {}, "both", "PERFORMANCE"),
   Item("guardrails", "GR1", {}, "automated", None),
   Item("risks", "RISK1", {}, "automated", "SECURITY_PRIVACY"),
   Item("rollback", "RB1", {}, "automated", None),
   Item("accessibility", "ACC1", {}, "manual", None),
   Item("release_gates", "RG1", {}, "automated", None),
   Item("release", "REL1", {}, "automated", None)}

Contract(items, whole) == [items |-> items, boundaries |-> whole, journey |-> whole]

MCContracts == {Contract(items, whole) : items \in SUBSET Pool, whole \in BOOLEAN}

Capability(class, command, tool) ==
  [class |-> class, command |-> command, tool |-> tool, starts |-> tool, lists |-> FALSE, structured |-> TRUE, adapter |-> tool,
   paths |-> {"config"}]

Snapshot == [commit |-> "h1", complete |-> TRUE, tools |-> {"pytest"},
             declared |-> {<<"config", "node:test">>}, paths |-> {"config"}]

Request(items, capabilities) ==
  LET contract == Contract(items, FALSE) IN
  [contract |-> contract, admissible |-> contract, snapshot |-> Snapshot,
   architecture |-> [admitted |-> TRUE, contract |-> contract, snapshot |-> Snapshot],
   capabilities |-> capabilities]

\* The second request has a command that two adapters claim; the others are
\* refused: a node nothing serves, a command that only lists tests, one
\* that redirects its report, an architecture of another snapshot.
MCRequests ==
  {Request({Requirement, Criterion, Security},
           {Capability("UNIT", "t", "pytest"), Capability("SECURITY_PRIVACY", "s", "node:test")}),
   Request({Requirement, Security},
           {Capability("UNIT", "t", "pytest"), Capability("SECURITY_PRIVACY", "t", "node:test")}),
   Request({Requirement}, {}),
   Request({Requirement}, {[Capability("UNIT", "t", "pytest") EXCEPT !.lists = TRUE]}),
   Request({Requirement}, {[Capability("UNIT", "t", "pytest") EXCEPT !.structured = FALSE]}),
   [Request({Requirement}, {Capability("UNIT", "t", "pytest")}) EXCEPT !.architecture.snapshot.commit = "h2"]}

Test(outcome, phase, raises) == [outcome |-> outcome, phase |-> phase, raises |-> raises]
RedTest == Test("failed", "call", "own")

TestReport(nodes, test, stranger, complete) ==
  [tests |-> [node \in nodes |-> test], stranger |-> stranger, complete |-> complete, trusted |-> TRUE]

MCReports(nodes) ==
  {TestReport(nodes, test, FALSE, TRUE) :
     test \in {RedTest, Test("passed", "call", "none"), Test("failed", "call", "other"), Test("failed", "setup", "own"),
               Test("skipped", "call", "none")}}
    \cup {TestReport(nodes \ {node}, RedTest, FALSE, TRUE) : node \in nodes}
    \cup {TestReport(nodes, RedTest, TRUE, TRUE), TestReport(nodes, RedTest, FALSE, FALSE),
          [TestReport(nodes, RedTest, FALSE, TRUE) EXCEPT !.trusted = FALSE]}

(***************************************************************************)
(* Bundles for the contract rules: a clean one, and every combination of    *)
(* the departures named below.                                              *)
(***************************************************************************)
Approval(id, scope, of, role, actor) ==
  [id |-> id, scope |-> scope, of |-> of, exact |-> 1, role |-> role, actor |-> actor, status |-> "ACTIVE",
   decision |-> "APPROVED", from |-> 1, at |-> 2, until |-> 9, version |-> 1, supersedes |-> {}, by |-> Nil]

Owner(id) == Approval(id, BundleScope, "bundle", "PRODUCT_OWNER", id)
MetricOwner(actor) == Approval("maturity", MaturityScope, "policy", "METRIC_POLICY_OWNER", actor)
ReportingOwner == Approval("reporting", ReportingScope, "report", "METRIC_POLICY_OWNER", "metrics")

Days(n) == [days |-> n, calendar |-> FALSE, exact |-> TRUE]

Policy(operator) ==
  [id |-> "policy", metric |-> "metric", owner |-> "metrics", approval |-> "maturity", reporting |-> "report",
   target |-> [status |-> "APPROVED", operator |-> operator, value |-> 1, unit |-> "percent"], window |-> Days(3),
   windows |-> {Days(1)},
   stages |-> {"DRAFT_PR", "STAGING"}, exact |-> 1]

Authority(actor, role, until) == [actor |-> actor, role |-> role, active |-> TRUE, from |-> 0, until |-> until]

Bundle(stage, approvals, operator, product) ==
  [id |-> "bundle", exact |-> 1, product |-> product, status |-> "APPROVED", stage |-> stage, approvals |-> approvals,
   releaseRefs |-> {a.id : a \in approvals} \cap {"ann", "bob"}, decisionRefs |-> {"ann"},
   required |-> {[id |-> "first", role |-> "PRODUCT_OWNER", before |-> "DRAFT_PR"],
                 [id |-> "second", role |-> "PRODUCT_OWNER", before |-> "STAGING"]},
   policies |-> {Policy(operator)}, northStars |-> {"policy"}, mvp |-> "policy",
   endState |-> "policy",
   reporting |-> {[id |-> "report", owner |-> "metrics", approval |-> "reporting", exact |-> 1]},
   environment |-> IF stage = "DRAFT_PR" THEN "LOCAL" ELSE stage,
   expected |-> {"DRAFT_PR", "STAGING"}, launch |-> "INTERNAL", zeroLoss |-> TRUE, rpo |-> 0]

Superseded == [Owner("old") EXCEPT !.status = "SUPERSEDED", !.by = "ann", !.at = 1, !.version = 0]

\* Bob's approval comes late, expires early, is of another bundle or gone.
BobsApprovals ==
  {{Owner("bob")}, {[Owner("bob") EXCEPT !.at = 7]}, {[Owner("bob") EXCEPT !.until = 5]},
   {[Owner("bob") EXCEPT !.exact = 0]}, {[Owner("bob") EXCEPT !.status = "REVOKED"]}, {}}

AnnsApprovals ==
  {{Owner("ann")}, {[Owner("ann") EXCEPT !.supersedes = {"old"}], Superseded}, {Owner("ann"), Superseded}}

MetricApprovals ==
  {MetricOwner("metrics"), MetricOwner("ann"), [MetricOwner("metrics") EXCEPT !.until = 5],
   [MetricOwner("metrics") EXCEPT !.exact = 0]}

MCGuardrails ==
  {[id |-> "guard", policy |-> "policy", comparator |-> c, boundary |-> b, unit |-> "percent"] :
     c \in {"MAX_INCLUSIVE", "MAX_EXCLUSIVE", "MIN_INCLUSIVE", "MIN_EXCLUSIVE"}, b \in 0..2}

Context(approvals, now, secondBy, annUntil) ==
  LET people == {Authority("ann", "PRODUCT_OWNER", annUntil), Authority("bob", "PRODUCT_OWNER", 9),
                    Authority("old", "PRODUCT_OWNER", 9), Authority("ann", "METRIC_POLICY_OWNER", 9),
                    Authority("metrics", "METRIC_POLICY_OWNER", 9)}
      grants == {[requirement |-> "first", approval |-> "ann"]}
                  \cup {[requirement |-> "second", approval |-> by] : by \in secondBy}
  IN [now |-> now, received |-> 3, lineage |-> "l1", attempt |-> "t1", correction |-> Nil, duplicate |-> FALSE,
      signed |-> TRUE, receipt |-> [lineage |-> "l1", attempt |-> "t1", at |-> 3, correction |-> Nil],
      authority |-> people, requirementGrants |-> grants,
      attested |-> [signed |-> TRUE, bundle |-> 1, approvals |-> approvals, authority |-> people,
                    requirementGrants |-> grants]]

\* A correction of the lineage, one of another lineage, a possible duplicate,
\* and a context that the receipt or the authority source did not sign.
Contexts(context) ==
  {context, [context EXCEPT !.duplicate = TRUE], [context EXCEPT !.receipt.attempt = "t2"],
   [context EXCEPT !.attested.authority = {}], [context EXCEPT !.receipt.at = 7]}
    \cup {[context EXCEPT !.correction = [lineage |-> lineage, attempt |-> "t0"],
                          !.receipt = [@ EXCEPT !.correction = [lineage |-> lineage, attempt |-> "t0"], !.at = 4]] :
             lineage \in {"l1", "l2"}}

Token(concept) == [concept |-> concept, spelling |-> "plain", letters |-> 6]
Text(concepts) == [tokens |-> {Token(x) : x \in concepts}, negative |-> FALSE, delegates |-> FALSE]

Functionals == {[id |-> "FR1", criteria |-> {"AC1"}, entity |-> "E1", integration |-> "mail", priority |-> "MUST",
                 statement |-> Text({"retain", "note"})]}

Extension(constraint) ==
  [id |-> "X1", schema |-> "repository-extension 1.0.0", intact |-> TRUE, targets |-> {"FR1"},
   constraints |-> {constraint}]

Constraint(pointer, operator) ==
  [pointer |-> pointer, operator |-> operator, text |-> "eu", allowed |-> {<<"number", 1>>, <<"string", "us">>}, bound |-> 1,
   pattern |-> [length |-> 3, grouped |-> FALSE, doubled |-> FALSE, unbounded |-> 1, optional |-> 0, matches |-> {"us"}]]

GoodProduct ==
  [platform |-> "WEB", lacking |-> {}, offset |-> 0, guardrailRefs |-> {}, compiled |-> TRUE, source |-> "s",
   problem |-> Text({"retain", "note", "loss"}), hypothesis |-> {Text({"retain", "note", "trust"})},
   outcome |-> {Text({"retain", "note", "trust"})}, scope |-> {Text({"retain", "note"})},
   nonGoals |-> {Text({"share"})}, experience |-> {Text({"retain", "page"})}, interfaces |-> {Text({"note", "call"})},
   data |-> {Text({"note", "trace"})},
   allowed |-> {[name |-> "count", spelling |-> "plain"]}, prohibited |-> {[name |-> "email", spelling |-> "plain"]},
   value |-> (<<"bundle_id">> :> <<"string", "bundle">> @@ <<"region">> :> <<"string", "us">>
                @@ <<"limit">> :> <<"number", 1>> @@ <<"approvals", "ann">> :> <<"string", "ann">>
                @@ <<"strict">> :> <<"bool", TRUE>>),
   fields |-> (RequiredPaths \cup DataPaths \cup {"/api_contracts", "/technical_constraints", "/ux/responsive_requirements"})
                \ {"/functional_requirements", "/acceptance_criteria", "/ux/primary_journey",
                   "/observability/requirements", "/metrics/leading"},
   registry |->
     ("/functional_requirements" :> Functionals
        @@ "/acceptance_criteria" :> {[id |-> "AC1", requirements |-> {"FR1"}]}
        @@ "/ux/edge_cases" :> {[id |-> "EC1", requirements |-> {"FR1"}]}
        @@ "/quality_assurance/expectations" :> {[id |-> "QE1", requirements |-> {"FR1", "NFR1"}]}
        @@ "/non_functional_requirements" :> {[id |-> "NFR1", category |-> "OTHER", source |-> "latency"]}
        @@ "/data/entities" :> {[id |-> "E1"]}
        @@ "/dependencies" :> {[id |-> "D1", names |-> {"mail"}]} @@ "/integrations" :> {[id |-> "I1"]}
        @@ "/ux/primary_journey" :> {[id |-> "J1", screen |-> "S1"]}
        @@ "/ux/screens" :> {[id |-> "S1", states |-> {"U1"}]} @@ "/ux/ui_states" :> {[id |-> "U1"]}
        @@ "/risks" :> {[id |-> "R1", severity |-> "HIGH"]}
        @@ "/observability/requirements" :> {[id |-> "O1", signal |-> "count"]}
        @@ "/metrics/success" :> {[id |-> "metric", definition |-> Text({"retain", "note", "rate"})]}
        @@ "/metrics/north_stars" :> {} @@ "/guardrails" :> {} @@ "/unresolved_product_truth" :> {}
        @@ "/metrics/leading" :> {[id |-> "lead", definition |-> Text({"retain", "draft"})]}
        @@ "/open_questions" :> {[id |-> "Q1", resolution |-> [opens |-> "daily", goesOn |-> FALSE]]}
        @@ "/source_identity_mappings" :> {[id |-> "M1", pointer |-> <<"bundle_id">>, source |-> "s", at |-> 1]}
        @@ "/extensions" :> {Extension(Constraint(<<"region">>, "REQUIRE_PRESENT"))})]

ProductWith(pointer, records) == [GoodProduct EXCEPT !.registry[pointer] = records]
Requirements(product, f(_)) ==
  [product EXCEPT !.registry["/functional_requirements"] = {f(r) : r \in @}]

\* Products that depart from the good one in one respect, and some that leave
\* out what another departure would have needed.
Departures ==
  {[GoodProduct EXCEPT !.fields = @ \ {path}] : path \in {"/privacy/telemetry", "/api_contracts", "/ux/flows"}}
    \cup {Requirements([GoodProduct EXCEPT !.fields = @ \ {"/privacy/telemetry"}, !.registry["/risks"] = risks],
                       LAMBDA r : [r EXCEPT !.entity = Nil]) :
            risks \in {{}, {[id |-> "R1", severity |-> "LOW"]}, {[id |-> "R1", severity |-> "CRITICAL"]}}}
    \cup {Requirements(ProductWith("/dependencies", dependencies), LAMBDA r : [r EXCEPT !.integration = name]) :
            dependencies \in {{}, {[id |-> "D1", names |-> {"mail"}]}}, name \in {Nil, "", "mail", "maps"}}
    \cup {ProductWith("/acceptance_criteria", {[id |-> "AC1", requirements |-> {ref}]}) : ref \in {"FR1", "NFR1"}}
    \cup {ProductWith("/ux/screens", screens) : screens \in {{}, {[id |-> "S1", states |-> {"U2"}]}}}
    \cup {ProductWith("/observability/requirements", {[id |-> "O1", signal |-> "email"]})}
    \cup {[GoodProduct EXCEPT !.allowed = {[name |-> "email", spelling |-> s]}] : s \in {"plain", "capital"}}
    \cup {ProductWith("/open_questions", {[id |-> "Q1", resolution |-> answer]}) :
            answer \in {Nil, [opens |-> "tbd", goesOn |-> TRUE], [opens |-> "?", goesOn |-> TRUE]}}
    \cup {ProductWith("/non_functional_requirements", {[id |-> "NFR1", category |-> "OTHER", source |-> Nil]}),
          ProductWith("/data/entities", {}), ProductWith("/unresolved_product_truth", {[id |-> "T1"]}),
          ProductWith("/metrics/leading", {[id |-> "lead", definition |-> Text({"retain", "note", "rate"})]}),
          [GoodProduct EXCEPT !.offset = 1], [GoodProduct EXCEPT !.lacking = {"target"}],
          [GoodProduct EXCEPT !.guardrailRefs = {"guard"}], [GoodProduct EXCEPT !.problem = Text({"retain", "loss"})]}
    \cup {ProductWith("/source_identity_mappings",
               {[id |-> "M1", pointer |-> <<"bundle_id">>, source |-> "s", at |-> 1],
                [id |-> "M2", pointer |-> pointer, source |-> "s", at |-> at]}) :
            pointer \in {<<"region">>, <<"bundle_id">>, <<"gone">>}, at \in {1, 2}}
    \cup {ProductWith("/source_identity_mappings", {})}
    \cup {ProductWith("/extensions", {Extension(Constraint(pointer, operator))}) :
            pointer \in DOMAIN GoodProduct.value \cup {<<"gone">>},
            operator \in {"REQUIRE_PRESENT", "FORBID_VALUE", "MATCH_PATTERN", "LIMIT_ALLOWED_VALUES", "SET_MAXIMUM",
                          "SET_MINIMUM", "EXTEND"}}
    \cup {[GoodProduct EXCEPT !.nonGoals = {text}] :
            text \in {Text({"retain", "note"}), [Text({"retain"}) EXCEPT !.negative = TRUE],
                      [Text({"support"}) EXCEPT !.negative = TRUE], [Text({"share"}) EXCEPT !.delegates = TRUE]}}
    \cup {[GoodProduct EXCEPT !.data = {[Text({"note"}) EXCEPT !.negative = TRUE]}],
          [GoodProduct EXCEPT !.scope = {Text({"print"})}]}

GoodApprovals == {Owner("ann"), Owner("bob"), MetricOwner("metrics"), ReportingOwner}

MCJudgements ==
  {[bundle |-> Bundle(stage, approvals, "AT_LEAST", GoodProduct), context |-> Context(approvals, now, secondBy, annUntil)] :
     stage \in {"DRAFT_PR", "STAGING", "PRODUCTION"},
     approvals \in {ann \cup bob \cup {metric, ReportingOwner} :
                      ann \in AnnsApprovals, bob \in BobsApprovals, metric \in MetricApprovals},
     now \in {3, 6}, secondBy \in {{"ann"}, {"bob"}, {"ann", "bob"}}, annUntil \in {5, 9}}
    \cup
  {[bundle |-> Bundle("STAGING", GoodApprovals, operator, ProductWith("/guardrails", {guardrail})),
    context |-> Context(GoodApprovals, 6, {"bob"}, 9)] :
     operator \in {"AT_LEAST", "AT_MOST", "EXACT"}, guardrail \in MCGuardrails}
    \cup
  {[bundle |-> Bundle("STAGING", GoodApprovals, "AT_LEAST", product), context |-> context] :
     product \in Departures, context \in Contexts(Context(GoodApprovals, 6, {"bob"}, 9))}

(***************************************************************************)
(* Specifications for the workflow, by what is wrong with them.             *)
(***************************************************************************)
GoodSpec ==
  [schema |-> TRUE, structural |-> FALSE, questions |-> FALSE, irreversible |-> FALSE, vacuous |-> FALSE,
   findings |-> "none", gates |-> TRUE, traceable |-> TRUE]

MCSpecs ==
  {[GoodSpec EXCEPT !.questions = TRUE, !.findings = "safe"],
   [GoodSpec EXCEPT !.irreversible = TRUE], [GoodSpec EXCEPT !.findings = "blocking"],
   [GoodSpec EXCEPT !.traceable = FALSE],
   [GoodSpec EXCEPT !.schema = FALSE], [GoodSpec EXCEPT !.structural = TRUE], [GoodSpec EXCEPT !.vacuous = TRUE],
   [GoodSpec EXCEPT !.gates = FALSE]}

LegacyBlocked ==
  [status |-> [step \in Steps |-> CASE step = "ingest" -> "done" [] step = "validate" -> "blocked" [] OTHER -> "pending"],
   finished |-> 0, outcome |-> "blocked", completed |-> NoState, days |-> NoState]

MCLegacyStates == {LegacyBlocked, [LegacyBlocked EXCEPT !.status["validate"] = "running"]}

(***************************************************************************)
(* Personal requests: one source is cited, another may only be known.  The   *)
(* facts a workflow needs are split between the two in every way.            *)
(***************************************************************************)
PersonalInput(sources) ==
  [subject |-> "x", sources |-> sources, checks |-> {}, records |-> {}, events |-> {}, option |-> "x",
   options |-> {"x", "y"}, actions |-> {"release.publish"},
   limits |-> [rate |-> 90, latency |-> 5, cost |-> 2, unsafe |-> 0]]

PersonalCheck(id, pass) == [id |-> id, pass |-> pass, sources |-> {"s1"}]

PersonalRequest(inputs, facts, elsewhere) ==
  [schema |-> TRUE, outcome |-> TRUE, fits |-> TRUE, selected |-> DOMAIN inputs, inputs |-> inputs,
   evidence |-> {[id |-> "s1", intact |-> TRUE, facts |-> facts], [id |-> "s2", intact |-> TRUE, facts |-> elsewhere]}]

Only(w, input) == [x \in {w} |-> input]

SplitRequests(w, inputs, facts) ==
  {PersonalRequest(Only(w, input), here, facts \ here) : input \in inputs, here \in SUBSET facts}

\* Twenty cases of which some are slow.
Cases(slow) ==
  {[id |-> n, sources |-> {"s1"}, correct |-> n > 1, safe |-> TRUE, latency |-> IF n <= slow THEN 9 ELSE 5, cost |-> 1] :
     n \in 1..20}
CaseFacts(cases, candidate, limits) ==
  {<<"case", c.id, candidate, c.correct, c.safe, c.latency, c.cost>> : c \in cases}
    \cup {<<"policy", candidate, 1..20, limits>>}
EvalRequests ==
  {LET input == [PersonalInput({"s1"}) EXCEPT !.records = Cases(slow)]
   IN PersonalRequest(Only("eval", input), CaseFacts(Cases(slow), candidate, input.limits), {}) :
     slow \in 0..2, candidate \in {"x", "y"}}

Meetings == {[id |-> 1, start |-> 1, end |-> 4], [id |-> 2, start |-> 2, end |-> 3], [id |-> 3, start |-> 3, end |-> 5],
             [id |-> 4, start |-> 4, end |-> 6], [id |-> 5, start |-> 6, end |-> 6]}
WeeklyRequests ==
  {PersonalRequest(Only("weekly", [PersonalInput({"s1"}) EXCEPT !.events = events]),
                   {<<"calendar", events>>, <<"commitments", "x">>, <<"messages", "x">>}, {}) : events \in SUBSET Meetings}

CheckedInputs ==
  {[PersonalInput(sources) EXCEPT !.checks = {PersonalCheck(1, TRUE), PersonalCheck(2, pass)}] :
     sources \in {{"s1"}, {"s1", "s2"}, {"s2"}}, pass \in BOOLEAN}

PackRecord(id, key, value) == [id |-> id, key |-> key, value |-> value, sources |-> {"s1"}]
PackRecords == {PackRecord(1, "release_checks", TRUE), PackRecord(2, "risk_owners", TRUE), PackRecord(3, "rollback", TRUE)}
PackInputs ==
  {[PersonalInput({"s1"}) EXCEPT !.checks = {PersonalCheck(1, TRUE)}, !.records = records, !.actions = actions] :
     records \in {PackRecords, PackRecords \cup {PackRecord(4, "rollback", FALSE)}},
     actions \in {{"release.publish"}, {"git.merge"}}}

Passed(id, candidate) == <<"passed", id, candidate>>

BothWorkflows ==
  PersonalRequest([w \in {"goal", "meeting"} |-> [PersonalInput({"s1"}) EXCEPT !.checks = {PersonalCheck(1, TRUE)}]],
                  {Passed(1, "x"), <<"meeting", "x">>}, {})

MCPersonalRequests ==
  SplitRequests("goal", CheckedInputs, {Passed(1, "x"), Passed(2, "x"), Passed(2, "y")})
    \cup SplitRequests("issue", CheckedInputs, {Passed(1, "x"), Passed(2, "x"), <<"issue", "x">>})
    \cup SplitRequests("meeting", {PersonalInput({"s1"})}, {<<"meeting", "x">>})
    \cup SplitRequests("roadmap", {[PersonalInput({"s1"}) EXCEPT !.checks = {PersonalCheck(1, TRUE)},
                                     !.records = {[id |-> 1, sources |-> {"s1"}]}]},
                       {Passed(1, "x"), <<"claim", 1>>, <<"decision", "x">>, <<"decision", "y">>})
    \cup SplitRequests("readiness", PackInputs,
                       {<<"result", 1>>} \cup {<<"record", n, TRUE>> : n \in 1..3} \cup {<<"record", 4, FALSE>>})
    \cup EvalRequests \cup WeeklyRequests
    \cup {BothWorkflows, [BothWorkflows EXCEPT !.fits = FALSE], [BothWorkflows EXCEPT !.selected = {"goal"}]}

MCCompanies == {{"planner", "assistant"}, {"recovery"}, {"learner", "evaluator"}, {"worker"}}

(***************************************************************************)
(* The sum.                                                                 *)
(***************************************************************************)
Others(which) ==
  /\ UNCHANGED part
  /\ which # "red" => UNCHANGED redVars
  /\ which # "compile" => UNCHANGED compiled
  /\ which # "kernel" => UNCHANGED kernelVars
  /\ which # "merge" => UNCHANGED mergeVars
  /\ which # "rules" => UNCHANGED judged
  /\ which # "workflow" => UNCHANGED workflowVars
  /\ which # "runtime" => UNCHANGED runtimeVars
  /\ which # "personal" => UNCHANGED personalVars

Init ==
  /\ RedInit /\ CompileInit /\ KernelInit /\ MergeInit /\ RulesInit /\ WorkflowInit /\ RuntimeInit /\ PersonalInit
  /\ part \in {"red", "compile", "kernel", "merge", "rules", "workflow", "runtime", "personal"}
  /\ part # "workflow" => disk = NoState /\ spec = CHOOSE s \in Specs : TRUE
  /\ part # "runtime" => company = CHOOSE actors \in Companies : TRUE

Next ==
  \/ part = "red" /\ RedNext /\ Others("red")
  \/ part = "compile" /\ Compile /\ Others("compile")
  \/ part = "kernel" /\ KernelNext /\ Others("kernel")
  \/ part = "merge" /\ MergeNext /\ Others("merge")
  \/ part = "rules" /\ RulesNext /\ Others("rules")
  \/ part = "workflow" /\ WorkflowNext /\ Others("workflow")
  \/ part = "runtime" /\ RuntimeNext /\ Others("runtime")
  \/ part = "personal" /\ PersonalNext /\ Others("personal")

Spec ==
  Init /\ [][Next]_<<part, redVars, compiled, kernelVars, mergeVars, judged, workflowVars, runtimeVars, personalVars>>

Symmetry == Permutations(Callers) \cup Permutations(Heads)
=============================================================================
