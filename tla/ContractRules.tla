---------------------------- MODULE ContractRules ----------------------------
(* The rules of the contract validator about references, approvals and       *)
(* metric policies (validation/contracts.py), each as the predicate that it  *)
(* finds nothing, and the eligibility computed beside them.  A bundle keeps  *)
(* its registries as sets of records with an id; exact stands for a          *)
(* subject's version and canonical digest.  A context has the instant of     *)
(* evaluation, the authority grants and the grants of required approvals.    *)
EXTENDS ProductRules

CONSTANT Judgements  \* the pairs of a bundle and a context that are validated

VARIABLE judged  \* the pair being validated, or Nil

\* Registries are mappings from ids, instants and quantities are numbers in
\* one unit each, and dependencies are present only as a registry.
ASSUME JudgementsAssumption ==
  \A judgement \in Judgements :
    LET bundle == judgement.bundle
        context == judgement.context
    IN /\ IsFiniteSet(bundle.approvals)
       /\ \A a, b \in bundle.approvals : a.id = b.id => a = b
       /\ \A p, q \in bundle.policies : p.id = q.id => p = q
       /\ {context.now, context.received} \subseteq Int
       /\ \A a \in bundle.approvals : {a.at, a.from, a.until} \subseteq Int
       /\ \A p \in bundle.policies :
            /\ p.window.days \in Int /\ p.target.value \in Int
            /\ p.target.operator \in {"AT_LEAST", "AT_MOST", "EXACT"}
       /\ \A g \in Registry(bundle.product, "/guardrails") :
            /\ g.boundary \in Int
            /\ g.comparator \in {"MAX_INCLUSIVE", "MAX_EXCLUSIVE", "MIN_INCLUSIVE", "MIN_EXCLUSIVE"}
       /\ "/dependencies" \notin bundle.product.fields

ASSUME NilAssumption == Nil \notin Judgements /\ Nil \notin [eligible : Int, due : Int]

BundleScope == "CANONICAL_BUNDLE_EXCLUDING_APPROVALS"
MaturityScope == "NAMED_METRIC_MATURITY_POLICY"
ReportingScope == "NAMED_METRIC_REPORTING_POLICY"

(***************************************************************************)
(* References.                                                              *)
(***************************************************************************)
RefMetric(bundle) ==
  {p.metric : p \in bundle.policies} \subseteq
    UNION {RuleIds(Registry(bundle.product, kind)) : kind \in {"/metrics/leading", "/metrics/north_stars", "/metrics/success"}}

RefMetricPolicy(bundle) == bundle.northStars \subseteq RuleIds(bundle.policies)

RefReportingPolicy(bundle) == \A p \in bundle.policies : p.reporting \in RuleIds(bundle.reporting)

RefApproval(bundle) ==
  bundle.releaseRefs \cup bundle.decisionRefs
    \cup {record.approval : record \in bundle.policies \cup bundle.reporting}
    \cup (UNION {a.supersedes : a \in bundle.approvals})
    \cup {a.by : a \in {x \in bundle.approvals : x.by # Nil}} \subseteq RuleIds(bundle.approvals)

(***************************************************************************)
(* Approvals.                                                               *)
(***************************************************************************)
StageOrder == [s \in {"CONTRACT_APPROVAL", "DRAFT_PR", "STAGING", "CANARY", "PRODUCTION"} |->
                 CASE s = "CONTRACT_APPROVAL" -> 0 [] s = "DRAFT_PR" -> 1 [] s = "STAGING" -> 2
                   [] s = "CANARY" -> 3 [] s = "PRODUCTION" -> 4]

\* Required approvals without a stage, or up to the requested one.
Applicable(bundle) ==
  {r \in bundle.required : r.before = Nil \/ StageOrder[r.before] <= StageOrder[bundle.stage]}

\* The one grant of a requirement; two grants count as none.
GrantsOf(context, requirement) == {g \in context.requirementGrants : g.requirement = requirement.id}

BindsBundle(bundle, approval) ==
  approval.scope = BundleScope /\ approval.of = bundle.id /\ approval.exact = bundle.exact

RequirementGranted(bundle, context, requirement) ==
  /\ Cardinality(GrantsOf(context, requirement)) = 1
  /\ \E g \in GrantsOf(context, requirement), a \in bundle.approvals :
       /\ a.id = g.approval
       /\ a.id \in bundle.releaseRefs
       /\ a.status = "ACTIVE" /\ a.decision = "APPROVED"
       /\ a.role = requirement.role
       /\ BindsBundle(bundle, a)

ApprovalRequiredShared(bundle, context) ==
  bundle.status = "APPROVED" /\ \A r \in Applicable(bundle) : RequirementGranted(bundle, context, r)

\* Every applicable requirement is granted, each by an approval of its own.
ApprovalRequired(bundle, context) ==
  /\ bundle.status = "APPROVED"
  /\ \A r \in Applicable(bundle) : RequirementGranted(bundle, context, r)
  /\ \A r, s \in Applicable(bundle) :
       r # s => {g.approval : g \in GrantsOf(context, r)} \cap {g.approval : g \in GrantsOf(context, s)} = {}

\* What refers to an approval as current.
CurrentRefs(bundle) ==
  bundle.releaseRefs \cup bundle.decisionRefs
    \cup {record.approval : record \in bundle.policies \cup bundle.reporting}

\* A superseded approval has an active successor for the same subject, later
\* and of a higher version, that names it.
Succeeded(bundle, a) ==
  \E next \in bundle.approvals :
    /\ next.id = a.by /\ next.status = "ACTIVE" /\ a.id \in next.supersedes
    /\ <<next.scope, next.of, next.exact>> = <<a.scope, a.of, a.exact>>
    /\ next.at > a.at /\ next.version > a.version

ApprovalActive(bundle) ==
  \A a \in bundle.approvals :
    /\ a.status \in {"ACTIVE", "SUPERSEDED"} /\ a.decision = "APPROVED"
    /\ a.status = "SUPERSEDED" => a.id \notin CurrentRefs(bundle) /\ Succeeded(bundle, a)
    /\ \A old \in a.supersedes :
         \E p \in bundle.approvals : p.id = old /\ p.status = "SUPERSEDED" /\ p.by = a.id

\* A superseded approval has to have been valid when it was given, an active
\* one now as well.
ApprovalFreshness(bundle, context) ==
  \A a \in bundle.approvals :
    LET instant == IF a.status = "SUPERSEDED" THEN a.at ELSE context.now IN
    /\ a.at <= context.now
    /\ a.from <= a.at /\ a.at < a.until
    /\ a.from <= instant /\ instant < a.until

HasActiveGrant(context, a, instants) ==
  \E g \in context.authority :
    /\ g.actor = a.actor /\ g.role = a.role /\ g.active
    /\ \A instant \in instants : g.from <= instant /\ instant < g.until

\* Whose approval a scope asks for: the role, and the policy's owner.
AuthorityForScope(bundle, a) ==
  CASE a.scope = BundleScope -> a.role = "PRODUCT_OWNER"
    [] a.scope = MaturityScope ->
         a.role = "METRIC_POLICY_OWNER" /\ \E p \in bundle.policies : p.id = a.of /\ p.owner = a.actor
    [] a.scope = ReportingScope ->
         a.role = "METRIC_POLICY_OWNER" /\ \E p \in bundle.reporting : p.id = a.of /\ p.owner = a.actor
    [] OTHER -> TRUE

ApprovalAuthority(bundle, context) ==
  \A a \in bundle.approvals :
    /\ HasActiveGrant(context, a, IF a.status = "SUPERSEDED" THEN {a.at} ELSE {a.at, context.now})
    /\ AuthorityForScope(bundle, a)

\* The record an approval names, exactly as it stands now.
BindsPolicy(policies, scope, a) ==
  a.scope = scope /\ \E p \in policies : p.id = a.of /\ p.exact = a.exact

Presented(bundle, ref) == {a \in bundle.approvals : a.id = ref}

ApprovalSubject(bundle) ==
  /\ \A a \in bundle.approvals : a.status # "SUPERSEDED" =>
       \/ BindsBundle(bundle, a)
       \/ BindsPolicy(bundle.policies, MaturityScope, a)
       \/ BindsPolicy(bundle.reporting, ReportingScope, a)
  /\ \A p \in bundle.policies : \E a \in Presented(bundle, p.approval) : BindsPolicy({p}, MaturityScope, a)
  /\ \A p \in bundle.reporting : \E a \in Presented(bundle, p.approval) : BindsPolicy({p}, ReportingScope, a)
  /\ \A ref \in bundle.releaseRefs \cup bundle.decisionRefs :
       \E a \in Presented(bundle, ref) : BindsBundle(bundle, a)

(***************************************************************************)
(* Metric policies and the requested stage.                                 *)
(***************************************************************************)
\* Two policies of one metric agree on target, windows and reporting.
PolicyConsistency(bundle) ==
  \A p, q \in bundle.policies :
    p.metric = q.metric => <<p.target, p.window, p.reporting>> = <<q.target, q.window, q.reporting>>

(* A guardrail is a comparator and a boundary for one policy.  Quantities    *)
(* are in the policy's canonical unit; a guardrail in another unit is        *)
(* skipped.                                                                  *)
Conflict(target, guardrail) ==
  \/ /\ guardrail.comparator = "MAX_INCLUSIVE" /\ target.operator \in {"AT_LEAST", "EXACT"}
     /\ target.value > guardrail.boundary
  \/ /\ guardrail.comparator = "MAX_EXCLUSIVE" /\ target.operator \in {"AT_LEAST", "EXACT"}
     /\ target.value >= guardrail.boundary
  \/ /\ guardrail.comparator = "MIN_INCLUSIVE" /\ target.operator \in {"AT_MOST", "EXACT"}
     /\ target.value < guardrail.boundary
  \/ /\ guardrail.comparator = "MIN_EXCLUSIVE" /\ target.operator \in {"AT_MOST", "EXACT"}
     /\ target.value <= guardrail.boundary

TargetGuardrail(bundle) ==
  \A p \in bundle.policies, g \in Registry(bundle.product, "/guardrails") :
    g.policy = p.id /\ g.unit = p.target.unit => ~Conflict(p.target, g)

\* The policy of the stage's North Star covers the stage, and the target
\* environment, the release expectations and the launch intent fit it.
AlignmentAutonomy(bundle) ==
  /\ \E p \in bundle.policies :
       /\ p.id = IF bundle.stage = "DRAFT_PR" THEN bundle.mvp ELSE bundle.endState
       /\ bundle.stage \in p.stages
  /\ bundle.environment = IF bundle.stage = "DRAFT_PR" THEN "LOCAL" ELSE bundle.stage
  /\ bundle.stage \in bundle.expected
  /\ bundle.stage = "PRODUCTION" => bundle.launch \in {"LIMITED_AVAILABILITY", "GENERAL_AVAILABILITY"}

\* The stage has required approvals of its own, all granted.
ReleaseApproval(bundle, context) ==
  LET stages == IF bundle.stage = "DRAFT_PR" THEN {"CONTRACT_APPROVAL", "DRAFT_PR"} ELSE {bundle.stage}
      own == {r \in bundle.required : r.before \in stages}
  IN own # {} /\ \A r \in own : RequirementGranted(bundle, context, r)

ReleaseRollback(bundle) ==
  bundle.stage \in {"STAGING", "CANARY", "PRODUCTION"} /\ bundle.zeroLoss => bundle.rpo = 0

MetricMaturityPolicy(bundle) ==
  \A p \in bundle.policies :
    /\ p.target.status = "APPROVED"
    /\ \E a \in bundle.approvals :
         a.id = p.approval /\ a.status = "ACTIVE" /\ a.decision = "APPROVED" /\ a.exact = p.exact

\* A correction stays in its lineage.
CorrectionBinding(context) == context.correction # Nil => context.correction.lineage = context.lineage

(***************************************************************************)
(* The validation.  The context has to be the one that intake and the       *)
(* authority source signed, for this bundle; then every rule is evaluated,  *)
(* and the gravest finding disposes.                                        *)
(***************************************************************************)
ValidContext(bundle, context) ==
  /\ context.signed /\ context.attested.signed
  /\ <<context.receipt.lineage, context.receipt.attempt>> = <<context.lineage, context.attempt>>
  /\ context.receipt.correction = context.correction
  /\ context.attested.bundle = bundle.exact /\ context.attested.approvals = bundle.approvals
  /\ context.attested.authority = context.authority
  /\ context.attested.requirementGrants = context.requirementGrants
  /\ context.received <= context.receipt.at /\ context.receipt.at <= context.now
  /\ context.correction = Nil => context.received = context.receipt.at

ReferencesHold(bundle) ==
  /\ RefMetric(bundle) /\ RefMetricPolicy(bundle) /\ RefReportingPolicy(bundle) /\ RefApproval(bundle)
  /\ RefRequirement(bundle.product) /\ RefAcceptance(bundle.product) /\ RefEntity(bundle.product)
  /\ RefGuardrail(bundle.product) /\ RefUx(bundle.product) /\ RefSourceIdentity(bundle.product)
  /\ ExtensionTargets(bundle.product)

ApprovalsHold(bundle, context) ==
  /\ ApprovalRequired(bundle, context) /\ ApprovalActive(bundle) /\ ApprovalFreshness(bundle, context)
  /\ ApprovalAuthority(bundle, context) /\ ApprovalSubject(bundle)
  /\ ReleaseApproval(bundle, context) /\ MetricMaturityPolicy(bundle)

AlignmentHolds(bundle) ==
  /\ PolicyConsistency(bundle) /\ TargetGuardrail(bundle) /\ AlignmentAutonomy(bundle) /\ ReleaseRollback(bundle)
  /\ AlignmentCrossChannel(bundle.product) /\ AlignmentDependency(bundle.product)
  /\ LeadingDistinct(bundle.product) /\ MetricOutcome(bundle.product) /\ ObservabilityReporting(bundle.product)
  /\ OutcomeHypothesis(bundle.product) /\ RequirementScope(bundle.product) /\ ScopeNonGoal(bundle.product)
  /\ SecurityPrivacy(bundle.product) /\ SolutionNonGoal(bundle.product)

ProductTruthHolds(bundle) ==
  /\ Completeness(bundle.product, bundle.stage)
  /\ TemporalValidity(bundle.product, UNION {p.windows \cup {p.window} : p \in bundle.policies})
  /\ UnresolvedProductTruth(bundle.product) /\ OpenQuestions(bundle.product) /\ OwnershipProductTruth(bundle.product)

\* The dispositions of what the registered rules find.
Dispositions(bundle, context) ==
  (IF CorrectionBinding(context) /\ RootIsMapped(bundle.product, bundle.status) THEN {} ELSE {"ERROR"})
    \cup (IF ExtensionSupported(bundle.product) /\ ExtensionConstraint(bundle.product) THEN {}
          ELSE {"UNSUPPORTED_REPOSITORY_EXTENSION"})
    \cup (IF /\ ReferencesHold(bundle) /\ ApprovalsHold(bundle, context)
             /\ AlignmentHolds(bundle) /\ ProductTruthHolds(bundle) THEN {}
          ELSE {"PRODUCT_INPUT_REQUIRED"})
    \cup (IF context.duplicate THEN {"WARNING"} ELSE {})

OverallDisposition(found) ==
  IF "ERROR" \in found THEN "ERROR"
  ELSE IF "UNSUPPORTED_REPOSITORY_EXTENSION" \in found THEN "UNSUPPORTED_REPOSITORY_EXTENSION"
  ELSE IF "PRODUCT_INPUT_REQUIRED" \in found THEN "PRODUCT_INPUT_REQUIRED"
  ELSE IF "WARNING" \in found THEN "WARNING"
  ELSE "ADMITTED"

Disposition(bundle, context) ==
  IF ValidContext(bundle, context) THEN OverallDisposition(Dispositions(bundle, context)) ELSE "ERROR"

(* The metric eligibility of an admitted contract: for every policy the      *)
(* instant it becomes eligible and the end of its delivery window, or Nil.   *)
Ready(bundle, context, p) ==
  \E a \in bundle.approvals :
    /\ a.id = p.approval
    /\ p.target.status = "APPROVED" /\ a.status = "ACTIVE" /\ a.decision = "APPROVED"
    /\ a.scope = MaturityScope /\ a.of = p.id /\ a.exact = p.exact
    /\ a.at <= context.now /\ a.from <= context.now /\ context.now < a.until
    /\ a.role = "METRIC_POLICY_OWNER" /\ a.actor = p.owner
    /\ HasActiveGrant(context, a, {a.at, context.now})

EligibleAt(bundle, context, p) ==
  LET a == CHOOSE x \in bundle.approvals : x.id = p.approval
  IN CHOOSE t \in {context.received, a.at, a.from} : \A u \in {context.received, a.at, a.from} : u <= t

MetricEligibility(bundle, context) ==
  [id \in RuleIds(bundle.policies) |->
     LET p == CHOOSE x \in bundle.policies : x.id = id IN
     IF /\ Disposition(bundle, context) \in {"ADMITTED", "WARNING"}
        /\ Ready(bundle, context, p) /\ Duration(p.window) # Nil
     THEN [eligible |-> EligibleAt(bundle, context, p), due |-> EligibleAt(bundle, context, p) + Duration(p.window)]
     ELSE Nil]

RulesInit == judged = Nil

Validate == judged = Nil /\ judged' \in Judgements

RulesNext == Validate

RulesSpec == RulesInit /\ [][RulesNext]_judged

(***************************************************************************)
(* Properties.                                                              *)
(***************************************************************************)
Judged == judged # Nil
ContractAdmitted == Judged /\ Disposition(judged.bundle, judged.context) \in {"ADMITTED", "WARNING"}

\* An admitted contract has as many people's approvals as it requires: each
\* applicable requirement is matched by an approval of the bundle as it stands
\* that nobody superseded, valid at the instant of evaluation, from someone
\* whose authority at that instant the authority source attested, and no
\* approval serves twice.  The eligibility, written apart from the rules,
\* agrees: every metric policy is eligible, through its owner's approval, and
\* not before that or the contract arrived.
AdmittedIsGranted ==
  ContractAdmitted =>
    LET bundle == judged.bundle
        context == judged.context
        eligibility == MetricEligibility(bundle, context)
        good == {a \in bundle.approvals :
                   /\ a.status = "ACTIVE" /\ BindsBundle(bundle, a)
                   /\ a.from <= context.now /\ context.now < a.until
                   /\ HasActiveGrant(context.attested, a, {context.now})}
    IN /\ Cardinality(Applicable(bundle)) <= Cardinality(good)
       /\ \A p \in bundle.policies : \E a \in bundle.approvals :
            /\ a.id = p.approval /\ a.actor = p.owner /\ context.now < a.until
            /\ eligibility[p.id] # Nil
            /\ eligibility[p.id].eligible >= context.received /\ eligibility[p.id].eligible >= a.at

\* Some quantity meets both the target and the guardrail.  Quantities lie
\* between and beyond the two bounds, so the multiples of a half around them
\* decide.
Attainable(target, guardrail) ==
  LET bounds == {2 * target.value, 2 * guardrail.boundary} IN
  \E x \in UNION {{b - 1, b, b + 1} : b \in bounds} :
    /\ target.operator \in {"AT_LEAST", "EXACT"} => x >= 2 * target.value
    /\ target.operator \in {"AT_MOST", "EXACT"} => x <= 2 * target.value
    /\ guardrail.comparator = "MAX_INCLUSIVE" => x <= 2 * guardrail.boundary
    /\ guardrail.comparator = "MAX_EXCLUSIVE" => x < 2 * guardrail.boundary
    /\ guardrail.comparator = "MIN_INCLUSIVE" => x >= 2 * guardrail.boundary
    /\ guardrail.comparator = "MIN_EXCLUSIVE" => x > 2 * guardrail.boundary

\* No rule lets a contract through because the section it reads is missing:
\* behind every entity or grave risk of an admitted contract stands a
\* telemetry policy, and no signal it prohibits is observed; behind every
\* integration a dependency; and a source identity stands for one record.  The
\* target of every metric can be met within each of its guardrails.
AdmittedIsGrounded ==
  ContractAdmitted =>
    LET product == judged.bundle.product IN
    /\ \A r \in Functional(product) :
         /\ r.entity # Nil => Present(product, "/data/requirements")
         /\ r.integration # Nil => Registry(product, "/dependencies") # {}
    /\ \A risk \in Registry(product, "/risks") :
         risk.severity \in {"HIGH", "CRITICAL"} =>
           /\ Present(product, "/privacy/telemetry")
           /\ \A r \in Registry(product, "/observability/requirements"), f \in product.prohibited : r.signal # f.name
    /\ \A m, n \in Registry(product, "/source_identity_mappings") :
         m.source = n.source /\ m.at = n.at => m = n
    /\ \A p \in judged.bundle.policies, g \in Registry(product, "/guardrails") :
         g.policy = p.id /\ g.unit = p.target.unit => Attainable(p.target, g)
=============================================================================
