---------------------------- MODULE ProductRules ----------------------------
(* The rules of the contract validator about product truth                   *)
(* (validation/contracts.py), each as the predicate that it finds nothing.   *)
(* A product keeps its registries as a function from JSON pointers to sets   *)
(* of records with an id, the other pointers at which something is present   *)
(* in fields, and in value the JSON values that constraints can point to.    *)
(* A text is the set of its tokens and what two patterns find in it.         *)
EXTENDS Integers, Sequences, FiniteSets

CONSTANT Nil

RuleIds(registry) == {record.id : record \in registry}

\* The registry at a pointer; a missing one reads as empty.
Registry(product, pointer) == IF pointer \in DOMAIN product.registry THEN product.registry[pointer] ELSE {}

Present(product, pointer) == pointer \in product.fields \/ Registry(product, pointer) # {}

Functional(product) == Registry(product, "/functional_requirements")

AllRegistryIds(product) == UNION {RuleIds(product.registry[p]) : p \in DOMAIN product.registry}

(***************************************************************************)
(* Completeness.                                                            *)
(***************************************************************************)
RequiredPaths ==
  {"/product", "/product/problem/statement", "/product/outcome/customer_outcome", "/product/outcome/business_outcome",
   "/product/outcome/measurable_change", "/product/hypothesis/statement",
   "/product/hypothesis/falsification_condition", "/product/target_customers", "/product/product_name",
   "/metrics", "/metrics/success", "/metrics/leading", "/metrics/north_stars/mvp", "/metrics/north_stars/end_state",
   "/metrics/maturity_policies", "/metrics/reporting_policies", "/guardrails", "/scope", "/scope/in_scope",
   "/scope/non_goals", "/functional_requirements", "/acceptance_criteria", "/ux", "/ux/primary_journey",
   "/ux/user_stories", "/ux/flows", "/ux/edge_cases", "/ux/accessibility", "/release", "/release/launch_intent",
   "/rollback", "/rollback/requirements", "/rollback/rto", "/observability", "/observability/requirements",
   "/quality_assurance", "/quality_assurance/expectations", "/quality_assurance/release_gates",
   "/non_functional_requirements", "/approvals", "/required_approvals", "/product_decisions"}

DataPaths ==
  {"/data", "/data/requirements", "/security", "/security/requirements", "/privacy", "/privacy/requirements",
   "/privacy/telemetry"}

DataIsApplicable(product) ==
  \/ \E risk \in Registry(product, "/risks") : risk.severity \in {"HIGH", "CRITICAL"}
  \/ \E r \in Functional(product) : r.entity # Nil

IntegrationIsApplicable(product) ==
  Registry(product, "/integrations") # {} \/ \E r \in Functional(product) : r.integration # Nil

\* A high risk asks for nothing of its own.
ApplicablePathsUncontrolled(product, stage) ==
  (IF \E r \in Functional(product) : r.entity # Nil THEN DataPaths ELSE {})
    \cup (IF IntegrationIsApplicable(product) THEN {"/dependencies", "/integrations"} ELSE {})

ApplicablePaths(product, stage) ==
  (IF DataIsApplicable(product) THEN DataPaths ELSE {})
    \cup (IF IntegrationIsApplicable(product) THEN {"/dependencies", "/integrations"} ELSE {})
    \cup (IF product.platform \in {"API", "WEB", "MOBILE"} THEN {"/api_contracts"} ELSE {})
    \cup (IF stage \in {"STAGING", "CANARY", "PRODUCTION"} THEN {"/technical_constraints"} ELSE {})
    \cup (IF product.platform \in {"WEB", "MOBILE", "DESKTOP"}
          THEN {"/ux/screens", "/ux/ui_states", "/ux/responsive_requirements"} ELSE {})

\* Metric policies miss no field: lacking names the fields of theirs that are
\* absent.
Completeness(product, stage) ==
  /\ \A p \in RequiredPaths \cup ApplicablePaths(product, stage) : Present(product, p)
  /\ product.lacking = {}
  /\ \A r \in Registry(product, "/non_functional_requirements") : r.category = "OTHER" => r.source # Nil

(* A duration of weeks, days and time; one with months or years, or finer    *)
(* than a microsecond, has no value.                                         *)
Duration(d) == IF d.calendar \/ ~d.exact THEN Nil ELSE d.days

\* published_at is a UTC instant and every window can be evaluated.
TemporalValidity(product, windows) == product.offset = 0 /\ \A d \in windows : Duration(d) # Nil

UnresolvedProductTruth(product) == Registry(product, "/unresolved_product_truth") = {}

Sentinels ==
  {"-", "?", "later", "n/a", "na", "none", "not decided", "pending", "tbc", "tbd", "todo", "to be decided",
   "to be determined", "unknown", "unresolved"}

\* An answer that is, or begins with, a word for "not yet" is none; a
\* resolution is its first words and whether it goes on.
ResolvedProductAnswer(resolution) ==
  /\ resolution # Nil
  /\ resolution.opens \in Sentinels => resolution.goesOn /\ resolution.opens \in {"-", "?"}

OpenQuestions(product) == \A q \in Registry(product, "/open_questions") : ResolvedProductAnswer(q.resolution)

(***************************************************************************)
(* References.                                                              *)
(***************************************************************************)
\* Criteria and edge cases name functional requirements, expectations also
\* non-functional ones.
RefRequirement(product) ==
  LET functional == RuleIds(Functional(product))
      other == RuleIds(Registry(product, "/non_functional_requirements"))
      within(pointer, allowed) == \A record \in Registry(product, pointer) : record.requirements \subseteq allowed
  IN /\ within("/acceptance_criteria", functional)
     /\ within("/ux/edge_cases", functional)
     /\ within("/quality_assurance/expectations", functional \cup other)

RefAcceptance(product) ==
  \A r \in Functional(product) : r.criteria \subseteq RuleIds(Registry(product, "/acceptance_criteria"))

RefEntity(product) ==
  \A r \in Functional(product) : r.entity # Nil => r.entity \in RuleIds(Registry(product, "/data/entities"))

RefGuardrail(product) == product.guardrailRefs \subseteq RuleIds(Registry(product, "/guardrails"))

RefUx(product) ==
  /\ \A step \in Registry(product, "/ux/primary_journey") :
       step.screen # Nil => step.screen \in RuleIds(Registry(product, "/ux/screens"))
  /\ \A screen \in Registry(product, "/ux/screens") :
       screen.states \subseteq RuleIds(Registry(product, "/ux/ui_states"))

\* A compiled contract that is approved maps its root to its source.
RootIsMapped(product, status) ==
  product.compiled /\ status = "APPROVED" =>
    \E m \in Registry(product, "/source_identity_mappings") :
      m.pointer = <<"bundle_id">> /\ m.source = product.source

\* Every mapping points to something, and no two share a pointer or a source.
RefSourceIdentity(product) ==
  LET mappings == Registry(product, "/source_identity_mappings") IN
  /\ \A m \in mappings : m.pointer \in DOMAIN product.value
  /\ \A m, n \in mappings : m # n => m.pointer # n.pointer /\ <<m.source, m.at>> # <<n.source, n.at>>

(***************************************************************************)
(* Texts.                                                                   *)
(***************************************************************************)
\* Words are the tokens of four letters or more; concepts those of three or
\* more, with other spellings of a concept taken for it.
Words(text) == {<<t.concept, t.spelling>> : t \in {x \in text.tokens : x.letters >= 4}}
Concepts(texts) == UNION {{t.concept : t \in {x \in text.tokens : x.letters >= 3}} : text \in texts}

GenericConcepts == {"capability", "customer", "feature", "product", "service", "support", "system"}
MetricGenericConcepts ==
  {"contract", "delivery", "engineering", "owner", "metric", "outcome", "product", "system", "traceable"}

\* Two sets of concepts are linked by two shared ones, and an empty one to
\* everything.
Linked(left, right) == left = {} \/ right = {} \/ Cardinality(left \cap right) >= 2

\* One of two texts about the same concept negates it.
ContradictoryText(left, right) ==
  LET shared == Concepts({left}) \cap Concepts({right}) IN
  /\ left.negative # right.negative
  /\ Cardinality(shared) >= 2 \/ shared \ GenericConcepts # {}

Excluded(text, nonGoals) == \E n \in nonGoals : text = n \/ ContradictoryText(text, n)

Statements(product) == {r.statement : r \in Functional(product)}

OutcomeHypothesis(product) ==
  /\ Linked(Concepts({product.problem}), Concepts(product.hypothesis))
  /\ Linked(Concepts(product.hypothesis), Concepts(product.outcome))

ScopeNonGoal(product) == ~\E text \in product.scope : Excluded(text, product.nonGoals)

SolutionNonGoal(product) ==
  ~\E text \in Statements(product) \cup product.outcome : Excluded(text, product.nonGoals)

MetricOutcome(product) ==
  \A m \in Registry(product, "/metrics/success") \cup Registry(product, "/metrics/north_stars") :
    LET metric == Concepts({m.definition})
        outcome == Concepts(product.outcome)
    IN metric = {} \/ outcome = {} \/ Cardinality((metric \cap outcome) \ MetricGenericConcepts) >= 2

LeadingDistinct(product) ==
  {m.definition : m \in Registry(product, "/metrics/leading")}
    \cap {m.definition : m \in Registry(product, "/metrics/success") \cup Registry(product, "/metrics/north_stars")} = {}

\* A mandatory requirement shares a word with the scope.
RequirementScope(product) ==
  LET scope == UNION {Words(text) : text \in product.scope} IN
  \A r \in Functional(product) :
    r.priority = "MUST" => Words(r.statement) = {} \/ scope = {} \/ Words(r.statement) \cap scope # {}

AlignmentCrossChannel(product) ==
  LET technical == product.interfaces \cup product.data IN
  \A pair \in (product.experience \X technical) \cup (product.hypothesis \X Statements(product))
                \cup (product.hypothesis \X product.outcome) \cup (Statements(product) \X technical) :
    ~ContradictoryText(pair[1], pair[2])

\* No text of a product-owned section leaves the decision to engineering; of
\* the texts here only those of the interfaces are not product-owned.
OwnershipProductTruth(product) ==
  \A text \in {product.problem} \cup product.hypothesis \cup product.outcome \cup product.scope \cup product.nonGoals
                \cup Statements(product) \cup product.experience \cup product.data : ~text.delegates

\* A dependency names every integration that a capability asks for.
AlignmentDependency(product) ==
  \A r \in Functional(product) :
    r.integration \in {Nil, ""} \/ \E d \in Registry(product, "/dependencies") : r.integration \in d.names

(***************************************************************************)
(* Telemetry.  A field is its name without case, and its spelling.          *)
(***************************************************************************)
SecurityPrivacy(product) == product.allowed \cap product.prohibited = {}

ObservabilityReporting(product) ==
  \A r \in Registry(product, "/observability/requirements") : r.signal \notin {field.name : field \in product.prohibited}

(***************************************************************************)
(* Repository extensions.  A JSON value is its type and its content.        *)
(***************************************************************************)
\* A number that is not finite has a type of its own.
NotFinite == <<"not finite", 0>>

\* Equality that does not take a truth value for a number.
JsonConstraintEqual(target, candidate) == candidate # NotFinite /\ target = candidate

\* Only a small linear pattern language is evaluated; the rest fails.
SafeExtensionPatternMatches(pattern, target) ==
  /\ pattern.length <= 256 /\ target # <<"string", "overlong">>
  /\ ~pattern.grouped /\ ~pattern.doubled /\ pattern.unbounded <= 1 /\ pattern.optional <= 8
  /\ target[2] \in pattern.matches

ConstraintSatisfied(product, constraint) ==
  LET target == product.value[constraint.pointer]
      number == target[1] = "number"
  IN CASE constraint.operator = "REQUIRE_PRESENT" -> TRUE
       [] constraint.operator = "FORBID_VALUE" -> target[1] = "string" /\ target[2] # constraint.text
       [] constraint.operator = "MATCH_PATTERN" ->
            target[1] = "string" /\ SafeExtensionPatternMatches(constraint.pattern, target)
       [] constraint.operator = "LIMIT_ALLOWED_VALUES" ->
            \E candidate \in constraint.allowed : JsonConstraintEqual(target, candidate)
       [] constraint.operator = "SET_MAXIMUM" -> number /\ target[2] <= constraint.bound
       [] constraint.operator = "SET_MINIMUM" -> number /\ target[2] >= constraint.bound
       [] OTHER -> FALSE

\* The registered schema and version, and the payload its digest names.
ExtensionSupported(product) ==
  \A e \in Registry(product, "/extensions") : e.schema = "repository-extension 1.0.0" /\ e.intact

ExtensionTargets(product) ==
  \A e \in Registry(product, "/extensions") : e.targets \subseteq AllRegistryIds(product)

\* A constraint holds, of something that exists and is not governance.
ExtensionConstraint(product) ==
  \A e \in Registry(product, "/extensions") : \A c \in e.constraints :
    /\ c.pointer \in DOMAIN product.value
    /\ Head(c.pointer) \notin {"extensions", "approvals"}
    /\ ConstraintSatisfied(product, c)
=============================================================================
