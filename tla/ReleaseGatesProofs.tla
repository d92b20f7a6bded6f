------------------------- MODULE ReleaseGatesProofs -------------------------
(* Proofs about the gates between a contract and a release, one section per  *)
(* component: the contract rules, the test plan compiler, receipts and the   *)
(* authorization of an implementation, the execution kernel, merge admission *)
(* and the admission of a contract.  Each section states the inductive       *)
(* invariant its component's properties rest on, shows that every action     *)
(* keeps it, and ends in the theorems.                                       *)
EXTENDS ContractRules, RedAuthorization, ExecutionKernel, MergeAdmission, ContractAdmission,
        FiniteSetTheorems, SequenceTheorems, TLAPS

-----------------------------------------------------------------------------
(* The contract rules *)

\* A contract is admitted only when every rule finds nothing.
LEMMA AdmittedRules ==
  ASSUME ContractAdmitted
  PROVE /\ ValidContext(judged.bundle, judged.context)
        /\ ReferencesHold(judged.bundle) /\ ApprovalsHold(judged.bundle, judged.context)
        /\ AlignmentHolds(judged.bundle) /\ ProductTruthHolds(judged.bundle)
<1> DEFINE found == Dispositions(judged.bundle, judged.context)
<1>1. ValidContext(judged.bundle, judged.context) /\ OverallDisposition(found) \in {"ADMITTED", "WARNING"}
  BY DEF ContractAdmitted, Disposition
<1>2. "PRODUCT_INPUT_REQUIRED" \notin found
  <2> HIDE DEF found
  <2> QED BY <1>1 DEF OverallDisposition
<1>3. ~(/\ ReferencesHold(judged.bundle) /\ ApprovalsHold(judged.bundle, judged.context)
        /\ AlignmentHolds(judged.bundle) /\ ProductTruthHolds(judged.bundle)) => "PRODUCT_INPUT_REQUIRED" \in found
  BY DEF Dispositions
<1> QED BY <1>1, <1>2, <1>3

\* The requirements are matched one to one with good approvals.
LEMMA EnoughApprovals ==
  ASSUME NEW bundle, NEW context, ApprovalRequired(bundle, context), NEW good,
         IsFiniteSet(good),
         \A r \in Applicable(bundle) : \A g \in GrantsOf(context, r), a \in bundle.approvals :
           /\ a.id = g.approval /\ a.status = "ACTIVE" /\ BindsBundle(bundle, a)
           => a \in good
  PROVE Cardinality(Applicable(bundle)) <= Cardinality(good)
<1> DEFINE by(r) == {a \in good : \E g \in GrantsOf(context, r) : a.id = g.approval}
           f == [r \in Applicable(bundle) |-> CHOOSE a \in good : a \in by(r)]
<1>1. ASSUME NEW r \in Applicable(bundle) PROVE f[r] \in good /\ f[r] \in by(r)
  <2>1. PICK g \in GrantsOf(context, r), a \in bundle.approvals :
          a.id = g.approval /\ a.status = "ACTIVE" /\ BindsBundle(bundle, a)
    BY DEF ApprovalRequired, RequirementGranted
  <2>2. a \in good /\ a \in by(r)
    BY <2>1
  <2> HIDE DEF by
  <2> QED BY <2>2
<1>2. ASSUME NEW r \in Applicable(bundle), NEW s \in Applicable(bundle), f[r] = f[s] PROVE r = s
  <2>1. /\ f[r].id \in {g.approval : g \in GrantsOf(context, r)}
        /\ f[s].id \in {g.approval : g \in GrantsOf(context, s)}
    <3> HIDE DEF f
    <3> QED BY <1>1
  <2>2. r # s => {g.approval : g \in GrantsOf(context, r)} \cap {g.approval : g \in GrantsOf(context, s)} = {}
    BY DEF ApprovalRequired
  <2> HIDE DEF f
  <2> QED BY <1>2, <2>1, <2>2
<1>3. f \in Injection(Applicable(bundle), good)
  <2>1. f \in [Applicable(bundle) -> good]
    BY <1>1
  <2>2. DOMAIN f = Applicable(bundle)
    OBVIOUS
  <2> HIDE DEF f
  <2> QED BY <1>2, <2>1, <2>2 DEF Injection, IsInjective
<1> QED
  <2> HIDE DEF f
  <2> QED BY <1>3, FS_Injection

LEMMA LatestOfThree ==
  ASSUME NEW x \in Int, NEW y \in Int, NEW z \in Int
  PROVE LET latest == CHOOSE t \in {x, y, z} : \A u \in {x, y, z} : u <= t
        IN latest \in Int /\ latest >= x /\ latest >= y /\ latest >= z
<1>1. \E t \in {x, y, z} : \A u \in {x, y, z} : u <= t
  <2>1. CASE x >= y /\ x >= z
    BY <2>1
  <2>2. CASE y >= x /\ y >= z
    BY <2>2
  <2>3. CASE z >= x /\ z >= y
    BY <2>3
  <2> QED BY <2>1, <2>2, <2>3
<1> DEFINE latest == CHOOSE t \in {x, y, z} : \A u \in {x, y, z} : u <= t
<1>2. latest \in {x, y, z} /\ \A u \in {x, y, z} : u <= latest
  BY <1>1
<1> HIDE DEF latest
<1>3. latest \in Int /\ latest >= x /\ latest >= y /\ latest >= z
  BY <1>2
<1> QED BY <1>3 DEF latest

\* The approval of a metric policy in an admitted contract: it is the only one
\* with its id, so that what every rule says of it comes together.
LEMMA PolicyApproval ==
  ASSUME NEW bundle, NEW context, ApprovalsHold(bundle, context), NEW p \in bundle.policies,
         \A a, b \in bundle.approvals : a.id = b.id => a = b,
         \A q, r \in bundle.policies : q.id = r.id => q = r
  PROVE \E a \in bundle.approvals :
          /\ a.id = p.approval /\ a.actor = p.owner
          /\ p.target.status = "APPROVED" /\ a.status = "ACTIVE" /\ a.decision = "APPROVED"
          /\ a.scope = MaturityScope /\ a.of = p.id /\ a.exact = p.exact
          /\ a.at <= context.now /\ a.from <= context.now /\ context.now < a.until
          /\ a.role = "METRIC_POLICY_OWNER"
          /\ HasActiveGrant(context, a, {a.at, context.now})
<1>1. PICK a \in bundle.approvals :
        a.id = p.approval /\ a.status = "ACTIVE" /\ a.decision = "APPROVED" /\ a.exact = p.exact
  BY DEF ApprovalsHold, MetricMaturityPolicy
<1>2. p.target.status = "APPROVED"
  BY DEF ApprovalsHold, MetricMaturityPolicy
<1>3. a.scope = MaturityScope /\ a.of = p.id
  <2>1. PICK b \in Presented(bundle, p.approval) : BindsPolicy({p}, MaturityScope, b)
    BY DEF ApprovalsHold, ApprovalSubject
  <2>2. b = a
    BY <1>1, <2>1 DEF Presented
  <2> QED BY <2>1, <2>2 DEF BindsPolicy
<1>4. a.at <= context.now /\ a.from <= context.now /\ context.now < a.until
  BY <1>1 DEF ApprovalsHold, ApprovalFreshness
<1>5. HasActiveGrant(context, a, {a.at, context.now}) /\ AuthorityForScope(bundle, a)
  BY <1>1 DEF ApprovalsHold, ApprovalAuthority
<1>6. a.role = "METRIC_POLICY_OWNER" /\ \E q \in bundle.policies : q.id = a.of /\ q.owner = a.actor
  BY <1>3, <1>5 DEF AuthorityForScope, MaturityScope, BundleScope, ReportingScope
<1> QED BY <1>1, <1>2, <1>3, <1>4, <1>5, <1>6

LEMMA JudgedOK ==
  ASSUME judged \in Judgements, ContractAdmitted
  PROVE AdmittedIsGranted
<1>1. PICK bundle, context : bundle = judged.bundle /\ context = judged.context
  OBVIOUS
<1>2. /\ ValidContext(bundle, context) /\ ApprovalsHold(bundle, context) /\ ProductTruthHolds(bundle)
      /\ Disposition(bundle, context) \in {"ADMITTED", "WARNING"}
  BY <1>1, AdmittedRules DEF ContractAdmitted
<1>3. /\ IsFiniteSet(bundle.approvals)
      /\ \A a, b \in bundle.approvals : a.id = b.id => a = b
      /\ \A p, q \in bundle.policies : p.id = q.id => p = q
      /\ context.now \in Int /\ context.received \in Int
      /\ \A a \in bundle.approvals : a.at \in Int /\ a.from \in Int /\ a.until \in Int
      /\ \A p \in bundle.policies : p.window.days \in Int
  BY <1>1, JudgementsAssumption
<1> DEFINE good == {a \in bundle.approvals :
                      /\ a.status = "ACTIVE" /\ BindsBundle(bundle, a)
                      /\ a.from <= context.now /\ context.now < a.until
                      /\ HasActiveGrant(context.attested, a, {context.now})}
           eligibility == MetricEligibility(bundle, context)
<1>4. Cardinality(Applicable(bundle)) <= Cardinality(good)
  <2>1. IsFiniteSet(good)
    BY <1>3, FS_Subset
  <2>2. ASSUME NEW a \in bundle.approvals, a.status = "ACTIVE", BindsBundle(bundle, a) PROVE a \in good
    <3>1. a.from <= context.now /\ context.now < a.until
      BY <1>2, <2>2 DEF ApprovalsHold, ApprovalFreshness
    <3>2. HasActiveGrant(context, a, {a.at, context.now})
      BY <1>2, <2>2 DEF ApprovalsHold, ApprovalAuthority
    <3>3. context.attested.authority = context.authority
      BY <1>2 DEF ValidContext
    <3>4. HasActiveGrant(context.attested, a, {context.now})
      BY <3>2, <3>3 DEF HasActiveGrant
    <3> QED BY <2>2, <3>1, <3>4
  <2>3. ApprovalRequired(bundle, context)
    BY <1>2 DEF ApprovalsHold
  <2> HIDE DEF good
  <2> QED BY <2>1, <2>2, <2>3, EnoughApprovals
<1>5. ASSUME NEW p \in bundle.policies
      PROVE \E a \in bundle.approvals :
              /\ a.id = p.approval /\ a.actor = p.owner /\ context.now < a.until
              /\ eligibility[p.id] # Nil
              /\ eligibility[p.id].eligible >= context.received /\ eligibility[p.id].eligible >= a.at
  <2>1. PICK a \in bundle.approvals :
          /\ a.id = p.approval /\ a.actor = p.owner
          /\ p.target.status = "APPROVED" /\ a.status = "ACTIVE" /\ a.decision = "APPROVED"
          /\ a.scope = MaturityScope /\ a.of = p.id /\ a.exact = p.exact
          /\ a.at <= context.now /\ a.from <= context.now /\ context.now < a.until
          /\ a.role = "METRIC_POLICY_OWNER"
          /\ HasActiveGrant(context, a, {a.at, context.now})
    BY <1>2, <1>3, PolicyApproval
  <2>2. Ready(bundle, context, p)
    BY <2>1 DEF Ready
  <2>3. Duration(p.window) \in Int /\ Duration(p.window) # Nil
    <3>1. Duration(p.window) # Nil
      BY <1>2 DEF ProductTruthHolds, TemporalValidity
    <3> QED BY <1>3, <3>1 DEF Duration
  <2>4. EligibleAt(bundle, context, p) \in Int /\ EligibleAt(bundle, context, p) >= context.received
        /\ EligibleAt(bundle, context, p) >= a.at
    <3>1. (CHOOSE x \in bundle.approvals : x.id = p.approval) = a
      BY <1>3, <2>1
    <3>2. EligibleAt(bundle, context, p) =
            CHOOSE t \in {context.received, a.at, a.from} : \A u \in {context.received, a.at, a.from} : u <= t
      BY <3>1 DEF EligibleAt
    <3> QED BY <1>3, <3>2, LatestOfThree
  <2>5. (CHOOSE x \in bundle.policies : x.id = p.id) = p
    BY <1>3
  <2>6. p.id \in RuleIds(bundle.policies)
    BY DEF RuleIds
  <2>7. eligibility[p.id] = [eligible |-> EligibleAt(bundle, context, p), due |-> EligibleAt(bundle, context, p) + Duration(p.window)]
    BY <1>2, <2>2, <2>3, <2>5, <2>6 DEF MetricEligibility
  <2>8. eligibility[p.id] \in [eligible : Int, due : Int]
    BY <2>3, <2>4, <2>7
  <2> HIDE DEF eligibility
  <2> QED BY <2>1, <2>4, <2>7, <2>8, NilAssumption
<1> QED BY <1>1, <1>4, <1>5 DEF AdmittedIsGranted

\* A target that a rule did not find in conflict with a guardrail can be met.
LEMMA NoConflictAttainable ==
  ASSUME NEW target, NEW guardrail, ~Conflict(target, guardrail),
         target.value \in Int, guardrail.boundary \in Int,
         target.operator \in {"AT_LEAST", "AT_MOST", "EXACT"},
         guardrail.comparator \in {"MAX_INCLUSIVE", "MAX_EXCLUSIVE", "MIN_INCLUSIVE", "MIN_EXCLUSIVE"}
  PROVE Attainable(target, guardrail)
<1> DEFINE v == 2 * target.value
           b == 2 * guardrail.boundary
           near == UNION {{x - 1, x, x + 1} : x \in {v, b}}
<1>1. v \in Int /\ b \in Int
  OBVIOUS
<1>2. /\ target.value > guardrail.boundary <=> v > b
      /\ target.value >= guardrail.boundary <=> v >= b
  OBVIOUS
<1>3. {v - 1, v, v + 1, b - 1, b, b + 1} \subseteq near
  OBVIOUS
<1> HIDE DEF v, b, near
<1>4. \E x \in near :
        /\ target.operator \in {"AT_LEAST", "EXACT"} => x >= v
        /\ target.operator \in {"AT_MOST", "EXACT"} => x <= v
        /\ guardrail.comparator = "MAX_INCLUSIVE" => x <= b
        /\ guardrail.comparator = "MAX_EXCLUSIVE" => x < b
        /\ guardrail.comparator = "MIN_INCLUSIVE" => x >= b
        /\ guardrail.comparator = "MIN_EXCLUSIVE" => x > b
  <2>1. CASE target.operator = "EXACT"
    <3>1. v \in near
      BY <1>3
    <3> QED BY <1>1, <1>2, <2>1, <3>1 DEF Conflict
  <2>2. CASE target.operator = "AT_LEAST"
    <3>1. CASE guardrail.comparator \in {"MAX_INCLUSIVE", "MAX_EXCLUSIVE"}
      <4>1. v \in near
        BY <1>3
      <4> QED BY <1>1, <1>2, <2>2, <3>1, <4>1 DEF Conflict
    <3>2. CASE guardrail.comparator \in {"MIN_INCLUSIVE", "MIN_EXCLUSIVE"}
      <4>1. v + 1 \in near /\ b + 1 \in near
        BY <1>3
      <4>2. CASE v >= b
        BY <1>1, <2>2, <3>2, <4>1, <4>2
      <4>3. CASE b >= v
        BY <1>1, <2>2, <3>2, <4>1, <4>3
      <4> QED BY <1>1, <4>2, <4>3
    <3> QED BY <3>1, <3>2
  <2>3. CASE target.operator = "AT_MOST"
    <3>1. CASE guardrail.comparator \in {"MIN_INCLUSIVE", "MIN_EXCLUSIVE"}
      <4>1. v \in near
        BY <1>3
      <4> QED BY <1>1, <1>2, <2>3, <3>1, <4>1 DEF Conflict
    <3>2. CASE guardrail.comparator \in {"MAX_INCLUSIVE", "MAX_EXCLUSIVE"}
      <4>1. v - 1 \in near /\ b - 1 \in near
        BY <1>3
      <4>2. CASE v >= b
        BY <1>1, <2>3, <3>2, <4>1, <4>2
      <4>3. CASE b >= v
        BY <1>1, <2>3, <3>2, <4>1, <4>3
      <4> QED BY <1>1, <4>2, <4>3
    <3> QED BY <3>1, <3>2
  <2> QED BY <2>1, <2>2, <2>3
<1> QED BY <1>4 DEF Attainable, v, b, near

LEMMA GroundedOK ==
  ASSUME judged \in Judgements, ContractAdmitted
  PROVE AdmittedIsGrounded
<1>1. PICK bundle, product : bundle = judged.bundle /\ product = bundle.product
  OBVIOUS
<1>2. ReferencesHold(bundle) /\ AlignmentHolds(bundle) /\ ProductTruthHolds(bundle)
  BY <1>1, AdmittedRules
<1>3. /\ "/dependencies" \notin product.fields
      /\ \A p \in bundle.policies :
           p.target.value \in Int /\ p.target.operator \in {"AT_LEAST", "AT_MOST", "EXACT"}
      /\ \A g \in Registry(product, "/guardrails") :
           /\ g.boundary \in Int
           /\ g.comparator \in {"MAX_INCLUSIVE", "MAX_EXCLUSIVE", "MIN_INCLUSIVE", "MIN_EXCLUSIVE"}
  BY <1>1, JudgementsAssumption
<1>4. \A path \in ApplicablePaths(product, bundle.stage) : Present(product, path)
  BY <1>1, <1>2 DEF ProductTruthHolds, Completeness
<1>5. /\ DataIsApplicable(product) => DataPaths \subseteq ApplicablePaths(product, bundle.stage)
      /\ IntegrationIsApplicable(product) => "/dependencies" \in ApplicablePaths(product, bundle.stage)
  BY DEF ApplicablePaths
<1>6. DataIsApplicable(product) => Present(product, "/data/requirements") /\ Present(product, "/privacy/telemetry")
  BY <1>4, <1>5 DEF DataPaths
<1>7. IntegrationIsApplicable(product) => Registry(product, "/dependencies") # {}
  BY <1>3, <1>4, <1>5 DEF Present
<1>8. \A r \in Functional(product) :
        /\ r.entity # Nil => Present(product, "/data/requirements")
        /\ r.integration # Nil => Registry(product, "/dependencies") # {}
  BY <1>6, <1>7 DEF DataIsApplicable, IntegrationIsApplicable
<1>9. \A risk \in Registry(product, "/risks") :
        risk.severity \in {"HIGH", "CRITICAL"} =>
          /\ Present(product, "/privacy/telemetry")
          /\ \A r \in Registry(product, "/observability/requirements"), f \in product.prohibited : r.signal # f.name
  <2>1. ObservabilityReporting(product)
    BY <1>1, <1>2 DEF AlignmentHolds
  <2> QED BY <1>6, <2>1 DEF DataIsApplicable, ObservabilityReporting
<1>10. \A m, n \in Registry(product, "/source_identity_mappings") : m.source = n.source /\ m.at = n.at => m = n
  BY <1>1, <1>2 DEF ReferencesHold, RefSourceIdentity
<1>11. \A p \in bundle.policies, g \in Registry(product, "/guardrails") :
         g.policy = p.id /\ g.unit = p.target.unit => Attainable(p.target, g)
  <2>1. TargetGuardrail(bundle)
    BY <1>2 DEF AlignmentHolds
  <2> QED BY <1>1, <1>3, <2>1, NoConflictAttainable DEF TargetGuardrail
<1> QED BY <1>1, <1>8, <1>9, <1>10, <1>11 DEF AdmittedIsGrounded

LEMMA RulesInv == RulesSpec => [](judged = Nil \/ judged \in Judgements)
<1>1. RulesInit => judged = Nil \/ judged \in Judgements
  BY DEF RulesInit
<1>2. (judged = Nil \/ judged \in Judgements) /\ [RulesNext]_judged => (judged = Nil \/ judged \in Judgements)'
  BY DEF RulesNext, Validate
<1> QED BY <1>1, <1>2, PTL DEF RulesSpec

\* An admitted contract has one valid, attested approval of its own for every
\* applicable requirement, and the eligibility of every metric agrees.
THEOREM AdmittedGranted == RulesSpec => []AdmittedIsGranted
<1>1. (judged = Nil \/ judged \in Judgements) => AdmittedIsGranted
  <2>1. CASE ~ContractAdmitted
    BY <2>1 DEF AdmittedIsGranted
  <2>2. CASE ContractAdmitted /\ judged \in Judgements
    BY <2>2, JudgedOK
  <2> QED BY <2>1, <2>2 DEF ContractAdmitted, Judged
<1> QED BY <1>1, RulesInv, PTL

\* What an admitted contract's sections presuppose is there, and every metric
\* target can be met within its guardrails.
THEOREM AdmittedGrounded == RulesSpec => []AdmittedIsGrounded
<1>1. (judged = Nil \/ judged \in Judgements) => AdmittedIsGrounded
  <2>1. CASE ~ContractAdmitted
    BY <2>1 DEF AdmittedIsGrounded
  <2>2. CASE ContractAdmitted /\ judged \in Judgements
    BY <2>2, GroundedOK
  <2> QED BY <2>1, <2>2 DEF ContractAdmitted, Judged
<1> QED BY <1>1, RulesInv, PTL

-----------------------------------------------------------------------------
(* The test plan compiler *)

LEMMA ModesAre ==
  ASSUME NEW item, item.evidence \in {"automated", "manual", "both"}
  PROVE /\ \E mode : mode \in Modes(item)
        /\ item.evidence # "manual" => Automated \in Modes(item)
BY DEF Modes

\* Every section gives each of its items a node of its own, but for a
\* requirement that a criterion refers to and for the release.
LEMMA NodeOfItem ==
  ASSUME NEW contract \in Contracts, NEW item \in contract.items, item.section \in RequiredSections
  PROVE \E node \in NodeSpecs(contract) :
          /\ item.id \in node.refs
          /\ item.section = "functional" => node.of \notin {"boundaries", "journey"}
          /\ item.section = "criteria" /\ item.evidence # "manual" =>
               node.of = item.id /\ node.mode = Automated /\ node.class = "UNIT"
<1>0. \A other \in contract.items :
        /\ other.evidence \in {"automated", "manual", "both"} /\ other.id \notin {"boundaries", "journey"}
  BY ContractsAssumption
<1>1. \A other \in contract.items : \A refs, class, mode :
        /\ Node(other, refs, class, mode).of = other.id /\ Node(other, refs, class, mode).refs = refs
        /\ Node(other, refs, class, mode).class = class /\ Node(other, refs, class, mode).mode = mode
  BY DEF Node
<1>2. \A other \in contract.items : \A class :
        \E node \in ByEvidence(other, class) :
          /\ node.of = other.id /\ node.refs = {other.id} \cup other.covers /\ node.class = class
          /\ other.evidence # "manual" => node.mode = Automated
  <2> SUFFICES ASSUME NEW other \in contract.items, NEW class
               PROVE \E node \in ByEvidence(other, class) :
                       /\ node.of = other.id /\ node.refs = {other.id} \cup other.covers /\ node.class = class
                       /\ other.evidence # "manual" => node.mode = Automated
    OBVIOUS
  <2>1. PICK mode \in Modes(other) : other.evidence # "manual" => mode = Automated
    BY <1>0, ModesAre
  <2>2. Node(other, {other.id} \cup other.covers, class, mode) \in ByEvidence(other, class)
    BY DEF ByEvidence
  <2> QED BY <1>1, <2>1, <2>2
<1>3. \A other \in contract.items : \A class :
        \E node \in ByItem(other, class) : node.of = other.id /\ node.refs = {other.id}
  BY <1>1 DEF ByItem
<1>4. item \in Of(contract, item.section)
  BY DEF Of
<1>5. CASE item.section = "criteria"
  <2>1. ByEvidence(item, "UNIT") \subseteq NodeSpecs(contract)
    BY <1>4, <1>5 DEF NodeSpecs
  <2> QED BY <1>2, <1>5, <2>1
<1>6. CASE item.section = "functional"
  <2>1. CASE item \in UncoveredFunctional(contract)
    <3>1. ByItem(item, "UNIT") \subseteq NodeSpecs(contract)
      BY <2>1 DEF NodeSpecs
    <3> QED BY <1>0, <1>3, <1>6, <3>1
  <2>2. CASE item \notin UncoveredFunctional(contract)
    <3>1. PICK criterion \in Of(contract, "criteria") : item.id \in criterion.covers
      BY <1>4, <1>6, <2>2 DEF UncoveredFunctional
    <3>2. criterion \in contract.items
      BY DEF Of
    <3>3. ByEvidence(criterion, "UNIT") \subseteq NodeSpecs(contract)
      BY DEF NodeSpecs
    <3>4. PICK node \in ByEvidence(criterion, "UNIT") : node.of = criterion.id /\ node.refs = {criterion.id} \cup criterion.covers
      BY <1>2, <3>2
    <3> QED BY <1>0, <1>6, <3>1, <3>2, <3>3, <3>4
  <2> QED BY <2>1, <2>2
<1>7. CASE item.section = "expectations"
  <2>1. PICK mode : Node(item, {item.id} \cup item.covers, "UNIT", mode) \in ExpectationNodes(contract)
    BY <1>4, <1>7 DEF ExpectationNodes
  <2>2. ExpectationNodes(contract) \subseteq NodeSpecs(contract)
    BY DEF NodeSpecs
  <2> QED BY <1>1, <1>7, <2>1, <2>2
<1>8. CASE item.section \in {"non_functional", "accessibility", "release_gates"}
  <2>1. PICK class : ByEvidence(item, class) \subseteq NodeSpecs(contract)
    BY <1>4, <1>8 DEF NodeSpecs
  <2>2. PICK node \in ByEvidence(item, class) : node.refs = {item.id} \cup item.covers
    BY <1>2
  <2> QED BY <1>8, <2>1, <2>2
<1>9. CASE item.section \in {"guardrails", "security", "privacy", "risks", "rollback"}
  <2>1. PICK class : ByItem(item, class) \subseteq NodeSpecs(contract)
    BY <1>4, <1>9 DEF NodeSpecs
  <2>2. PICK node \in ByItem(item, class) : node.refs = {item.id}
    BY <1>3
  <2> QED BY <1>9, <2>1, <2>2
<1>10. CASE item.section = "release"
  <2>1. item.id \in Ids(Of(contract, "release"))
    BY <1>4, <1>10 DEF Ids
  <2>2. PICK node \in ReleaseNodes(contract) : node.refs = Ids(Of(contract, "release"))
    BY <2>1 DEF ReleaseNodes, Together
  <2>3. ReleaseNodes(contract) \subseteq NodeSpecs(contract)
    BY DEF NodeSpecs
  <2> QED BY <1>10, <2>1, <2>2, <2>3
<1> QED BY <1>5, <1>6, <1>7, <1>8, <1>9, <1>10 DEF RequiredSections

LEMMA PlanOfContract ==
  ASSUME compiled \in Contracts
  PROVE PlanIsComplete
<1>1. Missing(compiled) = {}
  <2> SUFFICES ASSUME NEW item \in compiled.items, item.section \in RequiredSections
               PROVE \E node \in NodeSpecs(compiled) : item.id \in node.refs
    BY DEF Missing, RequiredRefs, Ids
  <2> QED BY NodeOfItem
<1>2. \A item \in Of(compiled, "functional") :
        \E node \in NodeSpecs(compiled) : item.id \in node.refs /\ node.of \notin {"boundaries", "journey"}
  BY NodeOfItem DEF Of, RequiredSections
<1>3. ASSUME NEW item \in Of(compiled, "criteria"), item.evidence # "manual"
      PROVE \E node \in MeaningfulRed([contract |-> compiled]) : node.of = item.id
  <2>1. PICK node \in NodeSpecs(compiled) : node.of = item.id /\ node.mode = Automated /\ node.class = "UNIT"
    BY <1>3, NodeOfItem DEF Of, RequiredSections
  <2>2. node \in MeaningfulRed([contract |-> compiled])
    BY <2>1 DEF MeaningfulRed
  <2> QED BY <2>1, <2>2
<1> QED BY <1>1, <1>2, <1>3 DEF PlanIsComplete

\* Every contract's plan covers every required reference, tests every
\* functional requirement on its own or through a criterion, and makes every
\* automated criterion red first.
THEOREM PlanComplete == CompileSpec => []PlanIsComplete
<1> DEFINE Inv == compiled = None \/ compiled \in Contracts
<1>1. CompileInit => Inv
  BY DEF CompileInit
<1>2. Inv /\ [Compile]_compiled => Inv'
  BY DEF Compile
<1>3. Inv => PlanIsComplete
  <2>1. CASE compiled = None
    BY <2>1 DEF PlanIsComplete
  <2> QED BY <2>1, PlanOfContract
<1> QED BY <1>1, <1>2, <1>3, PTL DEF CompileSpec

-----------------------------------------------------------------------------
(* Receipts and the authorization of an implementation *)

\* The ledger: a receipt is filed under its own artifact, what is synced
\* stands, what was given is synced, and a call that is about to sync holds
\* the stored receipt.
LedgerInv ==
  /\ \A artifact \in DOMAIN receipts : receipts[artifact].artifact = artifact
  /\ \A artifact \in DOMAIN synced : artifact \in DOMAIN receipts /\ receipts[artifact] = synced[artifact]
  /\ \A r \in given : r.artifact \in DOMAIN synced /\ synced[r.artifact] = r

IsCall(ask) == ask = [artifact |-> ask.artifact, step |-> ask.step, receipt |-> ask.receipt]

CallInv(ask) ==
  /\ IsCall(ask)
  /\ ask.step = "publish" => ask.receipt.artifact = ask.artifact
  /\ ask.step = "sync" => Stored(ask.artifact) /\ receipts[ask.artifact] = ask.receipt
  /\ ask.step = "given" => ask.receipt \in given /\ ask.receipt.artifact = ask.artifact

AskingInv ==
  /\ DOMAIN asking = Callers /\ asking = [c \in Callers |-> asking[c]]
  /\ \A c \in Callers : asking[c] # Absent => CallInv(asking[c])

\* The run directory: files are only added to what was synced, a receipt was
\* given, and it is the plan's.
FileInv ==
  /\ \A dir \in {run, runSynced} :
       DOMAIN dir = Names /\ \A name \in Names : dir[name] = [value |-> dir[name].value, temp |-> dir[name].temp]
  /\ \A name \in Names : runSynced[name].value # None => run[name].value = runSynced[name].value
  /\ run["receipt"].value # None => run["receipt"].value \in given
  /\ run["receipt"].value # None /\ run["plan"].value # None =>
       run["receipt"].value.artifact = PlanArtifact(run["plan"].value)

Writers == {"writing", "linked", "synced", "failed"}
Provers == {"probing", "probed", "oracle", "running", "next"}

\* A caller that writes has the plan's receipt; past the plan, the plan is
\* there; and a receipt without a plan is the one it would write.
WriterInv(x) ==
  /\ x = [doing |-> x.doing, request |-> x.request, fresh |-> x.fresh, left |-> x.left]
  /\ x.request \in Requests /\ x.left \subseteq Names
  /\ x.fresh = [plan |-> x.request, receipt |-> x.fresh.receipt]
  /\ x.fresh.receipt \in given /\ x.fresh.receipt.artifact = PlanArtifact(x.request)
  /\ "plan" \notin x.left => run["plan"].value = x.request
  /\ "plan" \in x.left /\ run["plan"].value = None /\ run["receipt"].value # None =>
       run["receipt"].value = x.fresh.receipt
  /\ x.doing # "writing" /\ "plan" \in x.left => run["plan"].value = x.request

\* What a caller that runs the plan's commands has gathered so far.
SentInv(req, sent) ==
  \A command \in DOMAIN sent :
    sent[command].execution \in given /\ sent[command].report \in Reports(NodesOf(req, command))

ProverInv(x) ==
  /\ x.request \in Requests
  /\ SentInv(x.request, x.sent)
  /\ x.doing = "running" => x.report \in Reports(NodesOf(x.request, x.command))

Doing(c) ==
  /\ caller[c].doing \in {"idle", "admitting"} \cup Writers \cup Provers
  /\ Waits(c, "admitting") =>
       caller[c].request \in Requests /\ (asking[c] # Absent => asking[c].artifact = PlanArtifact(caller[c].request))
  /\ caller[c].doing \in Writers => WriterInv(caller[c])
  /\ caller[c].doing \in Provers => ProverInv(caller[c])

CallerInv ==
  /\ DOMAIN caller = Callers /\ caller = [c \in Callers |-> caller[c]]
  /\ \A c \in Callers : Doing(c)

\* What was decided rests on what was gathered.
GrantedInv ==
  \A a \in granted :
    /\ a.request \in Requests
    /\ SentInv(a.request, a.sent) /\ DOMAIN a.sent = Commands(a.request)
    /\ \A command \in Commands(a.request) :
         /\ a.sent[command].report.trusted /\ ~a.sent[command].report.stranger
         /\ DOMAIN a.sent[command].report.tests = NodesOf(a.request, command)
         /\ \A node \in NodesOf(a.request, command) :
              ~Blocks(a.request, node, a.sent[command].report) /\ KindOf(a.request, node, a.sent[command].report) = "red"

RedInv == LedgerInv /\ AskingInv /\ FileInv /\ CallerInv /\ GrantedInv
LEMMA RedInitOK == RedInit => RedInv
<1> SUFFICES ASSUME RedInit PROVE RedInv
  OBVIOUS
<1> USE DEF RedInit, ReceiptInit
<1>1. LedgerInv
  BY DEF LedgerInv
<1>2. AskingInv
  BY DEF AskingInv
<1>3. FileInv
  BY DEF FileInv, Names, NoFile
<1>4. CallerInv
  BY DEF CallerInv, Doing, Waits, Idle, Writers, Provers
<1>5. GrantedInv
  BY DEF GrantedInv
<1> QED BY <1>1, <1>2, <1>3, <1>4, <1>5 DEF RedInv

\* A step of a call of admit keeps the ledger and what the call is for.
LEMMA AdmitStepOK ==
  ASSUME LedgerInv, AskingInv, NEW c \in Callers, AdmitStep(c)
  PROVE /\ LedgerInv' /\ AskingInv'
        /\ given \subseteq given'
        /\ \A d \in Callers : asking'[d] # Absent =>
             asking[d] # Absent /\ asking'[d].artifact = asking[d].artifact
<1> DEFINE ask == asking[c]
<1>1. /\ asking[c] # Absent
      /\ IsCall(asking[c])
  BY DEF AdmitStep, Lock, ReadStored, Publish, SyncReceipt, PersistFails, At, AskingInv, CallInv
<1>2. CASE Lock(c)
  <2>1. asking' = [asking EXCEPT ![c].step = "read"] /\ UNCHANGED <<receipts, synced, given>>
    BY <1>2 DEF Lock, Step
  <2> QED BY <1>1, <2>1 DEF LedgerInv, AskingInv, CallInv, IsCall, Stored
<1>3. CASE ReadStored(c)
  <2>1. UNCHANGED <<receipts, synced, given>>
    BY <1>3 DEF ReadStored
  <2>2. \/ Step(c, "refused")
        \/ Stored(ask.artifact) /\ StepWith(c, "sync", receipts[ask.artifact])
        \/ StepWith(c, "publish", Receipt(ask.artifact, keyring.current))
    BY <1>3 DEF ReadStored
  <2> QED BY <1>1, <2>1, <2>2 DEF LedgerInv, AskingInv, CallInv, IsCall, Stored, Receipt, Step, StepWith
<1>4. CASE Publish(c)
  <2>1. UNCHANGED <<synced, given>>
    BY <1>4 DEF Publish
  <2>2. CASE Stored(ask.artifact)
    <3>1. UNCHANGED receipts /\ StepWith(c, "sync", receipts[ask.artifact])
      BY <1>4, <2>2 DEF Publish
    <3> QED BY <1>1, <2>1, <2>2, <3>1 DEF LedgerInv, AskingInv, CallInv, IsCall, Stored, StepWith
  <2>3. CASE ~Stored(ask.artifact)
    <3>1. /\ receipts' = [x \in DOMAIN receipts \cup {ask.artifact} |-> IF x = ask.artifact THEN ask.receipt ELSE receipts[x]]
          /\ asking' = [asking EXCEPT ![c].step = "sync"]
          /\ ask.receipt.artifact = ask.artifact
      BY <1>1, <1>4, <2>3 DEF Publish, Step, At, AskingInv, CallInv
    <3> QED BY <1>1, <2>1, <2>3, <3>1 DEF LedgerInv, AskingInv, CallInv, IsCall, Stored
  <2> QED BY <2>2, <2>3
<1>5. CASE SyncReceipt(c)
  <2>1. /\ UNCHANGED receipts /\ synced' = receipts /\ given' = given \cup {ask.receipt}
        /\ asking' = [asking EXCEPT ![c].step = "given"]
        /\ Stored(ask.artifact) /\ receipts[ask.artifact] = ask.receipt
    BY <1>1, <1>5 DEF SyncReceipt, Step, At, AskingInv, CallInv
  <2> QED BY <1>1, <2>1 DEF LedgerInv, AskingInv, CallInv, IsCall, Stored
<1>6. CASE PersistFails(c)
  <2>1. asking' = [asking EXCEPT ![c].step = "refused"] /\ UNCHANGED <<receipts, synced, given>>
    BY <1>6 DEF PersistFails, Step
  <2> QED BY <1>1, <2>1 DEF LedgerInv, AskingInv, CallInv, IsCall, Stored
<1> QED BY <1>2, <1>3, <1>4, <1>5, <1>6 DEF AdmitStep

\* More receipts, the same files and callers.
LEMMA GivenGrows ==
  ASSUME FileInv, CallerInv, GrantedInv, given \subseteq given',
         UNCHANGED <<run, runSynced, caller, granted>>,
         \A d \in Callers : asking'[d] # Absent => asking[d] # Absent /\ asking'[d].artifact = asking[d].artifact
  PROVE FileInv' /\ CallerInv' /\ GrantedInv'
<1>1. FileInv'
  BY DEF FileInv
<1>2. ASSUME NEW d \in Callers PROVE Doing(d)'
  BY DEF CallerInv, Doing, Waits, WriterInv, ProverInv, SentInv
<1>3. GrantedInv'
  BY DEF GrantedInv, SentInv
<1> QED BY <1>1, <1>2, <1>3 DEF CallerInv

\* A caller ends its call of admit, or begins one.
LEMMA AskingSet ==
  ASSUME AskingInv, NEW c \in Callers, NEW ask, asking' = [asking EXCEPT ![c] = ask],
         UNCHANGED <<receipts, given>>,
         ask # Absent => ask.step = "lock" /\ IsCall(ask)
  PROVE AskingInv'
BY DEF AskingInv, CallInv, Stored

\* One caller goes on, the files' contents stay.
LEMMA CallerSet ==
  ASSUME CallerInv, NEW c \in Callers, NEW x, caller' = [caller EXCEPT ![c] = x],
         \A name \in Names : run'[name].value = run[name].value,
         UNCHANGED given, \A d \in Callers : d # c => asking'[d] = asking[d],
         Doing(c)'
  PROVE CallerInv'
<1>1. ASSUME NEW d \in Callers, d # c PROVE Doing(d)'
  BY <1>1 DEF CallerInv, Doing, Waits, WriterInv, ProverInv, SentInv, Names
<1> QED BY <1>1 DEF CallerInv

\* What a step that leaves the ledger, the files and the decisions alone keeps.
LEMMA StoreKept ==
  ASSUME RedInv, UNCHANGED <<receipts, synced, given>>
  PROVE /\ LedgerInv'
        /\ UNCHANGED <<run, runSynced>> => FileInv'
        /\ UNCHANGED granted => GrantedInv'
<1>1. LedgerInv'
  BY DEF RedInv, LedgerInv
<1>2. UNCHANGED <<run, runSynced>> => FileInv'
  BY DEF RedInv, FileInv
<1>3. UNCHANGED granted => GrantedInv'
  BY DEF RedInv, GrantedInv, SentInv
<1> QED BY <1>1, <1>2, <1>3

LEMMA NoneAsked ==
  ASSUME RedInv, NEW c \in Callers, UNCHANGED <<receipts, given>>
  PROVE /\ asking' = [asking EXCEPT ![c] = Absent] => AskingInv'
        /\ \A artifact : Ask(c, artifact) => AskingInv'
        /\ UNCHANGED asking => AskingInv'
<1>1. asking' = [asking EXCEPT ![c] = Absent] => AskingInv'
  BY AskingSet DEF RedInv
<1>2. \A artifact : Ask(c, artifact) => AskingInv'
  BY AskingSet DEF RedInv, Ask, IsCall
<1>3. UNCHANGED asking => AskingInv'
  BY DEF RedInv, AskingInv, CallInv, Stored
<1> QED BY <1>1, <1>2, <1>3

\* A caller that ends its call.
LEMMA FinishOK ==
  ASSUME RedInv, NEW c \in Callers, Finish(c), UNCHANGED given,
         \A name \in Names : run'[name].value = run[name].value,
         \A d \in Callers : d # c => asking'[d] = asking[d]
  PROVE CallerInv'
<1>1. caller' = [caller EXCEPT ![c] = Idle]
  BY DEF Finish, Do
<1>2. Doing(c)'
  BY <1>1 DEF Doing, Waits, Idle, Writers, Provers, RedInv, CallerInv
<1> QED BY <1>1, <1>2, CallerSet DEF RedInv

LEMMA OneAsks ==
  ASSUME RedInv, NEW c \in Callers, NEW ask, asking' = [asking EXCEPT ![c] = ask]
  PROVE \A d \in Callers : d # c => asking'[d] = asking[d]
BY DEF RedInv, AskingInv

LEMMA AdmitPlanOK ==
  ASSUME RedInv, NEW c \in Callers, AdmitPlan(c)
  PROVE RedInv'
<1>1. UNCHANGED <<receipts, synced, given, run, runSynced, granted>>
  BY DEF AdmitPlan
<1>2. PICK req \in Requests :
        \/ Ask(c, PlanArtifact(req)) /\ Do(c, [doing |-> "admitting", request |-> req])
        \/ UNCHANGED <<asking, caller>>
  BY DEF AdmitPlan
<1>3. AskingInv'
  BY <1>1, <1>2, NoneAsked
<1>4. CallerInv'
  <2>1. CASE UNCHANGED <<asking, caller>>
    BY <1>1, <2>1, GivenGrows DEF RedInv
  <2>2. CASE Ask(c, PlanArtifact(req)) /\ Do(c, [doing |-> "admitting", request |-> req])
    <3>1. Doing(c)'
      BY <2>2 DEF Doing, Waits, Writers, Provers, Ask, Do, RedInv, CallerInv, AskingInv
    <3>2. \A d \in Callers : d # c => asking'[d] = asking[d]
      BY <2>2, OneAsks DEF Ask
    <3> QED BY <1>1, <2>2, <3>1, <3>2, CallerSet DEF Do, RedInv
  <2> QED BY <1>2, <2>1, <2>2
<1> QED BY <1>1, <1>3, <1>4, StoreKept DEF RedInv

LEMMA CompareFilesOK ==
  ASSUME RedInv, NEW c \in Callers, CompareFiles(c)
  PROVE RedInv'
<1> DEFINE req == caller[c].request
           fresh == [plan |-> req, receipt |-> asking[c].receipt]
           left == {name \in Names : run[name].value = None}
           x == [doing |-> "writing", request |-> req, fresh |-> fresh, left |-> left]
<1>1. /\ UNCHANGED <<receipts, synced, given, run, runSynced, granted>>
      /\ asking' = [asking EXCEPT ![c] = Absent]
  BY DEF CompareFiles
<1>2. \A d \in Callers : d # c => asking'[d] = asking[d]
  BY <1>1, OneAsks
<1>3. /\ req \in Requests /\ asking[c].receipt \in given
      /\ asking[c].receipt.artifact = PlanArtifact(req)
  BY DEF CompareFiles, Waits, At, RedInv, CallerInv, Doing, AskingInv, CallInv
<1>4. CASE Finish(c)
  BY <1>1, <1>2, <1>4, NoneAsked, FinishOK, StoreKept DEF RedInv
<1>5. CASE Do(c, x) /\ \A name \in Names : run[name].value \in {None, fresh[name]}
  <2>1. PICK w : w = x
    OBVIOUS
  <2>2. caller' = [caller EXCEPT ![c] = w] /\ caller'[c] = w
    BY <1>5, <2>1 DEF Do, RedInv, CallerInv
  <2>3. /\ w = [doing |-> w.doing, request |-> w.request, fresh |-> w.fresh, left |-> w.left]
        /\ w.request = req /\ w.left = left /\ w.fresh = fresh /\ w.doing = "writing"
    BY <2>1
  <2>4. fresh = [plan |-> req, receipt |-> fresh.receipt] /\ fresh.receipt = asking[c].receipt /\ fresh.plan = req
    OBVIOUS
  <2>5. /\ "plan" \notin left => run["plan"].value = req
        /\ run["receipt"].value # None => run["receipt"].value = fresh.receipt
    BY <1>5 DEF Names
  <2>6. Doing(c)'
    <3> HIDE DEF x, fresh, left, req
    <3>1. left \subseteq Names
      BY DEF left
    <3>2. WriterInv(w)'
      BY <1>1, <1>3, <2>3, <2>4, <2>5, <3>1 DEF WriterInv
    <3> QED BY <2>2, <2>3, <3>2 DEF Doing, Waits, Writers, Provers
  <2>7. CallerInv'
    BY <1>1, <1>2, <2>2, <2>6, CallerSet DEF RedInv
  <2> QED BY <1>1, <2>7, NoneAsked, StoreKept DEF RedInv
<1> QED BY <1>4, <1>5 DEF CompareFiles

\* A file is linked: the plan first, which then stands for every caller, or
\* the receipt of the plan that is there.
LEMMA LinkFileOK ==
  ASSUME RedInv, NEW c \in Callers, LinkFile(c)
  PROVE RedInv'
<1>1. UNCHANGED <<receipts, synced, given, runSynced, granted, asking>>
  BY DEF LinkFile, receiptVars
<1>2. LedgerInv' /\ AskingInv' /\ GrantedInv' /\ (UNCHANGED run => FileInv')
  BY <1>1, NoneAsked, StoreKept
<1>3. PICK w : w = caller[c]
  OBVIOUS
<1>4. w.doing = "writing" /\ WriterInv(w) /\ w.left # {}
  BY <1>3 DEF LinkFile, Waits, RedInv, CallerInv, Doing, Writers
<1>5. PICK name \in Names :
        /\ name = Pending(c) /\ name \in w.left
        /\ name = "receipt" => "plan" \notin w.left
  BY <1>3, <1>4 DEF Pending, Names, WriterInv
<1>6. CASE run[name].value = None
  <2>1. /\ run' = [run EXCEPT ![name] = [value |-> w.fresh[name], temp |-> TRUE]]
        /\ caller' = [caller EXCEPT ![c] = [w EXCEPT !.doing = "linked"]]
    BY <1>3, <1>5, <1>6 DEF LinkFile, Do
  <2>2. PICK v : v = [w EXCEPT !.doing = "linked"]
    OBVIOUS
  <2>3. /\ v = [doing |-> "linked", request |-> w.request, fresh |-> w.fresh, left |-> w.left]
        /\ caller' = [caller EXCEPT ![c] = v] /\ caller'[c] = v
    BY <1>4, <2>1, <2>2 DEF WriterInv, RedInv, CallerInv
  <2>4. /\ w.fresh["plan"] = w.request /\ w.fresh["receipt"] = w.fresh.receipt
        /\ w.request \in Requests /\ w.request # None /\ w.left \subseteq Names
        /\ w.fresh.receipt \in given /\ w.fresh.receipt.artifact = PlanArtifact(w.request)
    BY <1>4, RequestsAssumption DEF WriterInv
  <2>5. /\ DOMAIN run = Names
        /\ run'["plan"].value = IF name = "plan" THEN w.request ELSE run["plan"].value
        /\ run'["receipt"].value = IF name = "receipt" THEN w.fresh.receipt ELSE run["receipt"].value
        /\ name = "receipt" => run["plan"].value = w.request
    BY <1>4, <1>5, <2>1, <2>4 DEF RedInv, FileInv, Names, WriterInv
  <2>6. FileInv'
    <3>1. /\ DOMAIN run' = Names
          /\ \A other \in Names : run'[other] = [value |-> run'[other].value, temp |-> run'[other].temp]
      BY <2>1 DEF RedInv, FileInv
    <3>2. \A other \in Names : runSynced[other].value # None => run'[other].value = runSynced[other].value
      BY <1>6, <2>1, <2>5 DEF RedInv, FileInv
    <3>3. run'["receipt"].value # None => run'["receipt"].value \in given
      BY <2>4, <2>5 DEF RedInv, FileInv
    <3>4. run'["receipt"].value # None /\ run'["plan"].value # None =>
            run'["receipt"].value.artifact = PlanArtifact(run'["plan"].value)
      BY <1>4, <1>5, <1>6, <2>4, <2>5 DEF RedInv, FileInv, WriterInv, Names
    <3>5. \A dir \in {run', runSynced'} :
            /\ DOMAIN dir = Names
            /\ \A other \in Names : dir[other] = [value |-> dir[other].value, temp |-> dir[other].temp]
      BY <1>1, <3>1 DEF RedInv, FileInv
    <3> QED BY <1>1, <3>2, <3>3, <3>4, <3>5 DEF FileInv
  <2>7. ASSUME NEW d \in Callers, d # c PROVE Doing(d)'
    <3>1. Doing(d) /\ caller'[d] = caller[d]
      BY <2>1, <2>7 DEF RedInv, CallerInv
    <3>2. ASSUME caller[d].doing \in Writers PROVE WriterInv(caller[d])'
      <4>1. PICK x : x = caller[d] /\ x = caller'[d]
        BY <3>1
      <4>2. WriterInv(x)
        BY <3>1, <3>2, <4>1 DEF Doing
      <4>3. x.request # None
        BY <4>2, RequestsAssumption DEF WriterInv
      <4>4. WriterInv(x)'
        BY <1>1, <1>5, <1>6, <2>4, <2>5, <4>2, <4>3 DEF WriterInv, Names
      <4> QED BY <4>1, <4>4
    <3> QED BY <1>1, <3>1, <3>2 DEF Doing, Waits, ProverInv, SentInv
  <2>8. Doing(c)'
    <3>1. WriterInv(v)'
      BY <1>1, <1>4, <1>5, <2>3, <2>4, <2>5 DEF WriterInv, Names
    <3> QED BY <2>3, <3>1 DEF Doing, Waits, Writers, Provers
  <2>9. CallerInv'
    BY <2>1, <2>7, <2>8 DEF RedInv, CallerInv
  <2> QED BY <1>2, <2>6, <2>9 DEF RedInv
<1>7. CASE run[name].value # None
  <2>1. UNCHANGED run
    BY <1>5, <1>7 DEF LinkFile
  <2>2. CASE Finish(c)
    BY <1>1, <1>2, <2>1, <2>2, FinishOK DEF RedInv
  <2>3. CASE run[name].value = w.fresh[name] /\ Do(c, [w EXCEPT !.left = @ \ {name}])
    <3>1. PICK v : v = [w EXCEPT !.left = @ \ {name}]
      OBVIOUS
    <3>2. /\ v = [doing |-> "writing", request |-> w.request, fresh |-> w.fresh, left |-> w.left \ {name}]
          /\ caller' = [caller EXCEPT ![c] = v] /\ caller'[c] = v
      BY <1>4, <2>3, <3>1 DEF WriterInv, Do, RedInv, CallerInv
    <3>3. WriterInv(v)'
      BY <1>1, <1>4, <1>5, <2>1, <2>3, <3>2 DEF WriterInv, Names
    <3>4. Doing(c)'
      BY <3>2, <3>3 DEF Doing, Waits, Writers, Provers
    <3> QED BY <1>1, <1>2, <2>1, <3>2, <3>4, CallerSet DEF RedInv
  <2> QED BY <1>3, <1>5, <1>7, <2>2, <2>3 DEF LinkFile
<1> QED BY <1>6, <1>7

LEMMA SyncFileOK ==
  ASSUME RedInv, NEW c \in Callers, SyncFile(c) \/ UnlinkFile(c)
  PROVE RedInv'
<1>1. UNCHANGED <<receipts, synced, given, granted, asking>>
  BY DEF SyncFile, UnlinkFile, receiptVars
<1>2. LedgerInv' /\ AskingInv' /\ GrantedInv'
  BY <1>1, NoneAsked, StoreKept
<1>3. PICK w : w = caller[c]
  OBVIOUS
<1>4. w.doing \in Writers \ {"writing"} /\ WriterInv(w)
  BY <1>3 DEF SyncFile, UnlinkFile, Waits, RedInv, CallerInv, Doing, Writers
<1>5. CASE SyncFile(c)
  <2>1. PICK doing \in {"synced", "failed"} : caller' = [caller EXCEPT ![c] = [w EXCEPT !.doing = doing]]
    BY <1>3, <1>5 DEF SyncFile, Do
  <2>2. PICK v : v = [w EXCEPT !.doing = doing]
    OBVIOUS
  <2>3. /\ v = [doing |-> doing, request |-> w.request, fresh |-> w.fresh, left |-> w.left]
        /\ caller' = [caller EXCEPT ![c] = v] /\ caller'[c] = v
    BY <1>4, <2>1, <2>2 DEF WriterInv, RedInv, CallerInv
  <2>4. UNCHANGED run /\ runSynced' \in {run, runSynced}
    BY <1>5 DEF SyncFile
  <2>5. FileInv'
    BY <1>1, <2>4 DEF RedInv, FileInv
  <2>6. WriterInv(v)'
    BY <1>1, <1>4, <2>3, <2>4 DEF WriterInv, Writers
  <2>7. Doing(c)'
    BY <2>3, <2>6 DEF Doing, Waits, Writers, Provers
  <2> QED BY <1>1, <1>2, <2>3, <2>4, <2>5, <2>7, CallerSet DEF RedInv
<1>6. CASE UnlinkFile(c)
  <2>1. PICK name \in Names : name = Pending(c) /\ (name = "receipt" => "plan" \notin w.left)
    BY <1>3 DEF Pending, Names
  <2>2. /\ run' = [run EXCEPT ![name].temp = FALSE] /\ UNCHANGED runSynced
    BY <1>6, <2>1 DEF UnlinkFile
  <2>3. /\ DOMAIN run' = Names
        /\ \A other \in Names : /\ run'[other].value = run[other].value
                                 /\ run'[other] = [value |-> run'[other].value, temp |-> run'[other].temp]
    <3>1. /\ DOMAIN run = Names
          /\ \A other \in Names : run[other] = [value |-> run[other].value, temp |-> run[other].temp]
      BY DEF RedInv, FileInv
    <3>2. /\ DOMAIN run' = Names
          /\ run'[name] = [run[name] EXCEPT !.temp = FALSE]
          /\ \A other \in Names : other # name => run'[other] = run[other]
      BY <2>2, <3>1
    <3>3. run'[name] = [value |-> run[name].value, temp |-> FALSE]
      BY <3>1, <3>2
    <3> QED BY <3>1, <3>2, <3>3
  <2>4. FileInv'
    <3>1. \A dir \in {run', runSynced'} :
            /\ DOMAIN dir = Names
            /\ \A other \in Names : dir[other] = [value |-> dir[other].value, temp |-> dir[other].temp]
      BY <2>2, <2>3 DEF RedInv, FileInv
    <3> QED BY <1>1, <2>2, <2>3, <3>1 DEF RedInv, FileInv, Names
  <2>5. CASE Finish(c)
    BY <1>1, <1>2, <2>3, <2>4, <2>5, FinishOK DEF RedInv
  <2>6. CASE Do(c, [w EXCEPT !.doing = "writing", !.left = @ \ {name}])
    <3>1. PICK v : v = [w EXCEPT !.doing = "writing", !.left = @ \ {name}]
      OBVIOUS
    <3>2. /\ v = [doing |-> "writing", request |-> w.request, fresh |-> w.fresh, left |-> w.left \ {name}]
          /\ caller' = [caller EXCEPT ![c] = v] /\ caller'[c] = v
      BY <1>4, <2>6, <3>1 DEF WriterInv, Do, RedInv, CallerInv
    <3>3. WriterInv(v)'
      BY <1>1, <1>4, <2>1, <2>3, <3>2 DEF WriterInv, Names, Writers
    <3>4. Doing(c)'
      BY <3>2, <3>3 DEF Doing, Waits, Writers, Provers
    <3> QED BY <1>1, <1>2, <2>3, <2>4, <3>2, <3>4, CallerSet DEF RedInv
  <2> QED BY <1>3, <1>6, <2>1, <2>5, <2>6 DEF UnlinkFile
<1> QED BY <1>5, <1>6

\* The calls that only leave, or that read the files.
LEMMA LeavesOK ==
  ASSUME RedInv, NEW c \in Callers,
         AdmitReturns(c) \/ ProbeRefused(c) \/ AdmissionRefused(c) \/ Die(c) \/ Authorize(c)
  PROVE RedInv'
<1>1. UNCHANGED <<receipts, synced, given, granted, run, runSynced>>
  BY DEF AdmitReturns, ProbeRefused, AdmissionRefused, Die, Authorize, receiptVars, ReceiptsAfterDeath
<1>2. UNCHANGED asking \/ asking' = [asking EXCEPT ![c] = Absent]
  BY DEF AdmitReturns, ProbeRefused, AdmissionRefused, Die, Authorize, receiptVars, ReceiptsAfterDeath
<1>3. LedgerInv' /\ AskingInv' /\ GrantedInv' /\ FileInv'
  BY <1>1, <1>2, NoneAsked, StoreKept
<1>4. \A d \in Callers : d # c => asking'[d] = asking[d]
  BY <1>2, OneAsks
<1>5. CASE Finish(c)
  BY <1>1, <1>3, <1>4, <1>5, FinishOK DEF RedInv
<1>6. CASE Authorize(c)
  <2>1. PICK req \in Requests :
          \/ Do(c, [doing |-> "probing", request |-> req, left |-> Commands(req), sent |-> <<>>])
          \/ UNCHANGED caller
    BY <1>6 DEF Authorize
  <2>2. UNCHANGED asking
    BY <1>6 DEF Authorize, receiptVars
  <2>3. CASE UNCHANGED caller
    BY <1>1, <1>3, <2>2, <2>3, GivenGrows DEF RedInv
  <2>4. CASE Do(c, [doing |-> "probing", request |-> req, left |-> Commands(req), sent |-> <<>>])
    <3>1. PICK w : w = [doing |-> "probing", request |-> req, left |-> Commands(req), sent |-> <<>>]
      OBVIOUS
    <3>2. caller' = [caller EXCEPT ![c] = w] /\ caller'[c] = w
      BY <2>4, <3>1 DEF Do, RedInv, CallerInv
    <3>3. w.doing = "probing" /\ w.request = req /\ DOMAIN w.sent = {}
      BY <3>1
    <3>4. Doing(c)'
      BY <3>2, <3>3 DEF Doing, Waits, Writers, Provers, ProverInv, SentInv
    <3> QED BY <1>1, <1>3, <1>4, <3>2, <3>4, CallerSet DEF RedInv
  <2> QED BY <2>1, <2>3, <2>4
<1> QED BY <1>5, <1>6 DEF AdmitReturns, ProbeRefused, AdmissionRefused, Die

\* A caller on its way through the commands: the oracle, the run, the
\* submission.
LEMMA ProvesOK ==
  ASSUME RedInv, NEW c \in Callers, Probe(c) \/ AskOracle(c) \/ RunCommand(c) \/ Submit(c)
  PROVE RedInv'
<1>1. UNCHANGED <<receipts, synced, given, granted, run, runSynced>>
  BY DEF Probe, AskOracle, RunCommand, Submit
<1>2. PICK w : w = caller[c]
  OBVIOUS
<1>3. w.doing \in Provers /\ ProverInv(w)
  BY <1>2 DEF Probe, AskOracle, RunCommand, Submit, Waits, RedInv, CallerInv, Doing, Provers
<1>4. \/ asking' = [asking EXCEPT ![c] = Absent]
      \/ \E artifact : Ask(c, artifact)
  BY DEF Probe, AskOracle, RunCommand, Submit, Execute
<1>5. LedgerInv' /\ AskingInv' /\ GrantedInv' /\ FileInv'
  BY <1>1, <1>4, NoneAsked, StoreKept
<1>6. \A d \in Callers : d # c => asking'[d] = asking[d]
  BY <1>4, OneAsks DEF Ask
<1>7. CASE Finish(c)
  BY <1>1, <1>5, <1>6, <1>7, FinishOK DEF RedInv
<1>8. ASSUME NEW v, caller' = [caller EXCEPT ![c] = v], v.doing \in Provers, v.request = w.request,
             SentInv(w.request, v.sent),
             v.doing = "running" => v.report \in Reports(NodesOf(v.request, v.command))
      PROVE RedInv'
  <2>1. caller'[c] = v
    BY <1>8 DEF RedInv, CallerInv
  <2>2. Doing(c)'
    BY <1>1, <1>3, <1>8, <2>1 DEF Doing, Waits, Writers, Provers, ProverInv, SentInv
  <2> QED BY <1>1, <1>5, <1>6, <1>8, <2>2, CallerSet DEF RedInv
<1>9. CASE Probe(c) \/ AskOracle(c)
  <2>1. CASE \E doing \in {"probed", "oracle"} : \E command : Do(c, With(c, doing, command))
    BY <1>2, <1>3, <1>8, <2>1 DEF Do, With, Provers, ProverInv
  <2>2. ASSUME NEW command, Do(c, [With(c, "probed", command) EXCEPT !.report = None])
        PROVE RedInv'
    BY <1>2, <1>3, <1>8, <2>2 DEF Do, With, Provers, ProverInv
  <2> QED BY <1>7, <1>9, <2>1, <2>2 DEF Probe, AskOracle, Execute
<1>10. CASE RunCommand(c)
  <2>1. ASSUME NEW report \in Reports(NodesOf(w.request, w.command)), NEW oracle,
               Do(c, [[With(c, "running", w.command) EXCEPT !.oracle = oracle] EXCEPT !.report = report])
        PROVE RedInv'
    BY <1>2, <1>3, <1>8, <2>1 DEF Do, With, Provers, ProverInv
  <2> QED BY <1>2, <1>7, <1>10, <2>1 DEF RunCommand, Execute
<1>11. CASE Submit(c)
  <2>1. PICK submission : submission = [execution |-> asking[c].receipt, oracle |-> w.oracle, report |-> w.report]
    OBVIOUS
  <2>2. submission.execution \in given /\ submission.report \in Reports(NodesOf(w.request, w.command))
    BY <1>2, <1>3, <1>11, <2>1 DEF Submit, Waits, At, RedInv, AskingInv, CallInv, ProverInv
  <2>3. PICK sent : sent = [x \in DOMAIN w.sent \cup {w.command} |-> IF x = w.command THEN submission ELSE w.sent[x]]
    OBVIOUS
  <2>4. SentInv(w.request, sent)
    BY <1>3, <2>2, <2>3 DEF SentInv, ProverInv
  <2>5. PICK v : v = [With(c, "next", None) EXCEPT !.left = w.left \ {w.command}, !.sent = sent]
    OBVIOUS
  <2>6. v.doing = "next" /\ v.request = w.request /\ v.sent = sent
    BY <1>2, <2>5 DEF With
  <2>7. caller' = [caller EXCEPT ![c] = v]
    BY <1>2, <1>11, <2>1, <2>3, <2>5 DEF Submit, Do
  <2> QED BY <1>8, <2>4, <2>6, <2>7 DEF Provers
<1> QED BY <1>9, <1>10, <1>11

LEMMA DecideOK ==
  ASSUME RedInv, NEW c \in Callers, Decide(c)
  PROVE RedInv'
<1>1. UNCHANGED <<receipts, synced, given, run, runSynced, asking>> /\ Finish(c)
  BY DEF Decide, receiptVars
<1>2. LedgerInv' /\ AskingInv' /\ FileInv' /\ CallerInv'
  BY <1>1, NoneAsked, StoreKept, FinishOK
<1>3. PICK w : w = caller[c]
  OBVIOUS
<1>4. ProverInv(w)
  BY <1>3 DEF Decide, Waits, RedInv, CallerInv, Doing, Provers
<1>5. CASE UNCHANGED granted
  BY <1>1, <1>2, <1>5, StoreKept DEF RedInv
<1>6. CASE /\ Gate(w.request, w.sent) /\ AllRed(w.request, w.sent)
           /\ granted' = granted \cup {[request |-> w.request, sent |-> w.sent]}
  <2>1. PICK a : a = [request |-> w.request, sent |-> w.sent]
    OBVIOUS
  <2>2. a.request = w.request /\ a.sent = w.sent /\ granted' = granted \cup {a}
    BY <1>6, <2>1
  <2>3. /\ a.request \in Requests /\ SentInv(a.request, a.sent) /\ DOMAIN a.sent = Commands(a.request)
        /\ \A command \in Commands(a.request) :
             /\ a.sent[command].report.trusted /\ ~a.sent[command].report.stranger
             /\ DOMAIN a.sent[command].report.tests = NodesOf(a.request, command)
             /\ \A node \in NodesOf(a.request, command) :
                  /\ ~Blocks(a.request, node, a.sent[command].report)
                  /\ KindOf(a.request, node, a.sent[command].report) = "red"
    BY <1>4, <1>6, <2>2 DEF Gate, AllRed, CommandPasses, ProverInv
  <2>4. GrantedInv'
    BY <1>1, <2>2, <2>3 DEF RedInv, GrantedInv, SentInv
  <2> QED BY <1>2, <2>4 DEF RedInv
<1> QED BY <1>3, <1>5, <1>6 DEF Decide

\* Files and receipts fall back to what was synced; what is left of a pair of
\* files still fits.
LEMMA PowerLossOK ==
  ASSUME RedInv, PowerLoss
  PROVE RedInv'
<1>1. PICK kept \in SUBSET (DOMAIN receipts \ DOMAIN synced) : receipts' = Restrict(receipts, DOMAIN synced \cup kept)
  BY DEF PowerLoss, ReceiptsAfterPowerLoss
<1>2. /\ synced' = receipts' /\ asking' = [c \in Callers |-> Absent] /\ UNCHANGED <<given, granted>>
      /\ runSynced' = run' /\ caller' = [c \in Callers |-> Idle]
  BY DEF PowerLoss, ReceiptsAfterPowerLoss
<1>3. DOMAIN receipts' = DOMAIN synced \cup kept /\ \A x \in DOMAIN receipts' : receipts'[x] = receipts[x]
  BY <1>1 DEF Restrict
<1>4. LedgerInv'
  BY <1>1, <1>2, <1>3 DEF RedInv, LedgerInv
<1>5. AskingInv'
  BY <1>2 DEF AskingInv
<1>6. PICK names \in SUBSET Names : run' = [name \in Names |-> IF name \in names THEN run[name] ELSE runSynced[name]]
  BY DEF PowerLoss
<1>7. /\ DOMAIN run' = Names
      /\ \A name \in Names : /\ run'[name] = [value |-> run'[name].value, temp |-> run'[name].temp]
                              /\ run'[name].value \in {None, run[name].value}
  BY <1>6 DEF RedInv, FileInv
<1>8. FileInv'
  BY <1>2, <1>7 DEF RedInv, FileInv, Names
<1>9. CallerInv'
  BY <1>2 DEF CallerInv, Doing, Waits, Idle, Writers, Provers
<1>10. GrantedInv'
  BY <1>2 DEF RedInv, GrantedInv, SentInv
<1> QED BY <1>4, <1>5, <1>8, <1>9, <1>10 DEF RedInv

LEMMA RedStepOK == RedInv /\ [RedNext]_redVars => RedInv'
<1> SUFFICES ASSUME RedInv, [RedNext]_redVars PROVE RedInv'
  OBVIOUS
<1>1. CASE UNCHANGED redVars
  BY <1>1, StoreKept, GivenGrows DEF redVars, storeVars, receiptVars, RedInv, AskingInv, CallInv, Stored
<1>2. CASE PowerLoss
  BY <1>2, PowerLossOK
<1>3. CASE Receipting
  <2>1. CASE RotateKey
    BY <1>3, <2>1, StoreKept, GivenGrows DEF Receipting, RotateKey, storeVars, RedInv, AskingInv, CallInv, Stored
  <2>2. ASSUME NEW c \in Callers, AdmitStep(c) PROVE RedInv'
    BY <1>3, <2>2, AdmitStepOK, GivenGrows DEF Receipting, storeVars, RedInv
  <2> QED BY <1>3, <2>1, <2>2 DEF Receipting
<1>4. ASSUME NEW c \in Callers,
             \/ AdmitPlan(c) \/ CompareFiles(c) \/ LinkFile(c) \/ SyncFile(c) \/ UnlinkFile(c) \/ AdmitReturns(c)
             \/ Authorize(c) \/ Probe(c) \/ ProbeRefused(c) \/ AskOracle(c) \/ RunCommand(c) \/ Submit(c)
             \/ Decide(c) \/ AdmissionRefused(c) \/ Die(c)
      PROVE RedInv'
  BY <1>4, AdmitPlanOK, CompareFilesOK, LinkFileOK, SyncFileOK, LeavesOK, ProvesOK, DecideOK
<1> QED BY <1>1, <1>2, <1>3, <1>4 DEF RedNext

\* What the run directory holds stands in the ledger, and what was given stays
\* there, whoever races, dies or loses power and whenever keys rotate.
THEOREM RunBacked == RedSpec => []RunIsBacked
<1>1. RedInv => RunIsBacked
  BY DEF RedInv, LedgerInv, FileInv, RunIsBacked, GivenStands, Stored
<1> QED BY <1>1, RedInitOK, RedStepOK, PTL DEF RedSpec

\* The results that count as red are failures of the test body through the
\* node's own assertion, under either adapter.
LEMMA RedMeansOwn ==
  ASSUME NEW req, NEW node, NEW report, ~Blocks(req, node, report),
         KindOf(req, node, report) = "red", node \in DOMAIN report.tests,
         report.tests[node].outcome \in {"passed", "skipped", "failed"},
         report.tests[node].phase \in {"setup", "call", "teardown"}
  PROVE /\ Failing(report.tests[node])
        /\ report.tests[node].phase = "call" /\ report.tests[node].raises = "own"
<1>1. CASE AdapterOf(req, node) = "pytest"
  <2>1. report.tests[node].phase # "teardown"
    BY <1>1 DEF Blocks, PytestBlocks
  <2>2. PytestKind(report.tests[node]) = "red"
    BY <1>1 DEF KindOf
  <2> QED BY <2>1, <2>2 DEF PytestKind, Failing
<1>2. CASE AdapterOf(req, node) # "pytest"
  <2>1. TapKind(report.tests[node]) = "red"
    BY <1>2 DEF KindOf
  <2> QED BY <2>1 DEF TapKind, Failing
<1> QED BY <1>1, <1>2

\* No authorization without a run of each command in which every planned test
\* fails through its own assertion and whose receipt is in the ledger.
THEOREM AuthorizationRed == RedSpec => []AuthorizationIsRed
<1>1. ASSUME RedInv PROVE AuthorizationIsRed
  <2> SUFFICES ASSUME NEW a \in granted, NEW node \in MeaningfulRed(a.request)
               PROVE LET sent == a.sent[CommandOf(a.request, node)] IN
                     /\ sent.report.trusted /\ ~sent.report.stranger
                     /\ Failing(sent.report.tests[node])
                     /\ sent.report.tests[node].phase = "call" /\ sent.report.tests[node].raises = "own"
                     /\ Stored(sent.execution.artifact)
    BY DEF AuthorizationIsRed
  <2> DEFINE command == CommandOf(a.request, node)
             sent == a.sent[command]
  <2>1. command \in Commands(a.request) /\ node \in NodesOf(a.request, command)
    BY DEF Commands, NodesOf
  <2>2. /\ a.request \in Requests
        /\ sent.report.trusted /\ ~sent.report.stranger
        /\ DOMAIN sent.report.tests = NodesOf(a.request, command)
        /\ ~Blocks(a.request, node, sent.report) /\ KindOf(a.request, node, sent.report) = "red"
        /\ sent.execution \in given /\ sent.report \in Reports(NodesOf(a.request, command))
    BY <1>1, <2>1 DEF RedInv, GrantedInv, SentInv
  <2>3. NodesOf(a.request, command) \in SUBSET NodeSpecs(a.request.contract)
    BY DEF NodesOf, MeaningfulRed
  <2>4. /\ sent.report.tests[node].outcome \in {"passed", "skipped", "failed"}
        /\ sent.report.tests[node].phase \in {"setup", "call", "teardown"}
    BY <2>1, <2>2, <2>3, ReportsAssumption
  <2>5. Stored(sent.execution.artifact)
    BY <1>1, <2>2 DEF RedInv, LedgerInv, Stored
  <2> HIDE DEF command
  <2> QED BY <2>1, <2>2, <2>4, <2>5, RedMeansOwn DEF command
<1> QED BY <1>1, RedInitOK, RedStepOK, PTL DEF RedSpec

-----------------------------------------------------------------------------
(* The execution kernel *)

KernelTypeOK ==
  /\ exec = Gone \/ exec \in Executions
  /\ child = Gone \/ child \in Processes
  /\ child # Gone => exec # Gone /\ exec.step \in Running
  /\ spent \in Nat
  /\ available \in {"unknown", "yes", "no"}
  /\ subject \in {"commit", "other"}
  /\ workdir \in BOOLEAN

\* How far the time of a call has run at each of its steps: the git commands
\* share one timeout, then come the probe and the sandboxed command.
TimeInv ==
  /\ child # Gone => spent <= child.until
  /\ exec # Gone /\ exec.step \in Git \cup {"extract"} =>
       /\ spent <= Timeout
       /\ child # Gone => child.until <= Timeout
  /\ exec # Gone /\ exec.step = "locate" =>
       spent <= (IF available = "unknown" THEN Timeout ELSE Timeout + ProbeTime)
  /\ exec # Gone /\ exec.step = "probe" =>
       IF child = Gone THEN spent <= Timeout ELSE child.until <= Timeout + ProbeTime
  /\ exec # Gone /\ exec.step = "run" =>
       IF child = Gone THEN spent <= Timeout + ProbeTime ELSE child.until <= Timeout + ProbeTime + Timeout
  /\ spent <= Timeout + ProbeTime + Timeout

\* What is known of the subject and the sandbox on the way to a receipt.
SubjectInv ==
  /\ exec # Gone /\ exec.step \in Git \cup {"extract", "locate", "probe"} => subject = "commit"
  /\ exec # Gone /\ exec.step \in {"locate", "probe", "run", "compare"} => exec.before = "commit"
  /\ exec # Gone /\ exec.step = "compare" => exec.isolated
  /\ exec # Gone /\ exec.step = "cleanup" /\ exec.outcome = "done" => exec.isolated /\ subject = "commit"
  /\ exec # Gone /\ exec.step = "admit" =>
       exec.outcome = "done" /\ exec.isolated /\ subject = "commit" /\ ~workdir
  /\ \A e \in attested : e.isolated /\ e.subject = "commit" /\ e.removed /\ e.outcome = "done"

KernelInv == KernelTypeOK /\ TimeInv /\ SubjectInv /\ ~orphans

\* The git commands of a call.
LEMMA GitSteps ==
  /\ Git = {"resolve", "fsck", "list", "blob"}
  /\ \A i \in 1..Len(Materializing) : Materializing[i] \in Git
  /\ Materializing[1] \in Git
<1>1. Materializing = <<"resolve", "fsck", "list", "blob">> /\ Len(Materializing) = 4
  BY DEF Materializing
<1>2. Git = {"resolve", "fsck", "list", "blob"}  BY <1>1 DEF Git
<1>3. \A i \in 1..4 : Materializing[i] \in Git  BY DEF Git, Materializing
<1> QED  BY <1>1, <1>2, <1>3

\* Whatever its processes do, nothing of a killed group is left.
LEMMA NoSurvivors ==
  ASSUME child \in Processes, ~orphans, EndProcess
  PROVE  child' = Gone /\ ~orphans'
<1>1. KillGroup(child) = [child EXCEPT !.leader = IF child.leader = "runs" THEN "failed" ELSE child.leader,
                                       !.heirs = FALSE]
  BY DEF KillGroup
<1>2. KillGroup(child).leader # "runs" /\ KillGroup(child).heirs = FALSE
  BY <1>1 DEF Processes
<1> QED  BY <1>2 DEF EndProcess, Survivors

\* A call that fails goes to the removal of its directory.
LEMMA RaiseKeeps ==
  ASSUME KernelInv, exec # Gone, NEW why \in Outcomes \ {"done"}, Raise(why),
         child' = Gone, ~orphans', available' \in {"unknown", "yes", "no"},
         spent' = spent, subject' = subject, workdir' = workdir, attested' = attested
  PROVE  KernelInv'
<1>1. exec \in Executions  BY DEF KernelInv, KernelTypeOK
<1>2. /\ exec' \in Executions /\ exec'.step = "cleanup" /\ exec'.outcome = why
  BY <1>1 DEF Raise, Executions
<1>3. KernelTypeOK'  BY <1>2 DEF KernelInv, KernelTypeOK
<1>4. TimeInv'  BY <1>2, GitSteps DEF KernelInv, TimeInv
<1>5. SubjectInv'  BY <1>2, GitSteps DEF KernelInv, SubjectInv
<1> QED  BY <1>3, <1>4, <1>5 DEF KernelInv

\* Every step preserves the kernel's invariant.
LEMMA KernelInvStep == KernelInv /\ [KernelNext]_kernelVars => KernelInv'
<1> SUFFICES ASSUME KernelInv, [KernelNext]_kernelVars PROVE KernelInv'  OBVIOUS
<1> USE KernelAssumption, GitSteps
<1>in. KernelTypeOK /\ TimeInv /\ SubjectInv /\ ~orphans  BY DEF KernelInv
<1>ch. child # Gone => /\ child \in Processes /\ exec # Gone /\ exec \in Executions
                       /\ exec.step \in Running /\ spent <= child.until
  BY <1>in DEF KernelTypeOK, TimeInv
<1>ex. exec # Gone => exec \in Executions  BY <1>in DEF KernelTypeOK
<1>1. CASE BeginExecute
  <2> DEFINE e == [step |-> Materializing[1], outcome |-> "none", isolated |-> FALSE, before |-> "none"]
  <2>1. /\ exec' = e /\ exec = Gone /\ spent' = 0 /\ subject' = "commit" /\ workdir' = TRUE
        /\ child' = child /\ available' = available /\ orphans' = orphans /\ attested' = attested
    BY <1>1 DEF BeginExecute
  <2>2. e \in Executions /\ e.step \in Git  BY DEF Executions, Running, Outcomes
  <2>3. child' = Gone  BY <1>ch, <2>1
  <2> HIDE DEF e
  <2>4. KernelTypeOK'  BY <1>in, <2>1, <2>2, <2>3 DEF KernelTypeOK
  <2>5. TimeInv'  BY <2>1, <2>2, <2>3 DEF TimeInv
  <2>6. SubjectInv'  BY <1>in, <2>1, <2>2 DEF SubjectInv
  <2> QED  BY <1>in, <2>1, <2>4, <2>5, <2>6 DEF KernelInv
<1>2. CASE Spawn
  <2>1. /\ exec # Gone /\ exec.step \in Running /\ child = Gone /\ exec \in Executions
        /\ UNCHANGED <<spent, subject, workdir, orphans, attested>>
    BY <1>2, <1>ex DEF Spawn
  <2>2. CASE \E why \in {"timed out", "unavailable"} : Raise(why) /\ child' = child
    <3>1. available' \in {"unknown", "yes", "no"}
      BY <1>2, <1>in DEF Spawn, Remembered, KernelTypeOK
    <3> QED  BY <1>in, <2>1, <2>2, <3>1, RaiseKeeps DEF Outcomes
  <2>3. CASE child' = NewProcess(Until(exec.step)) /\ UNCHANGED <<exec, available>>
             /\ ~(exec.step \in Git /\ spent >= Timeout)
    <3> DEFINE u == Until(exec.step)
    <3>1. /\ u \in Nat /\ spent <= u
          /\ exec.step \in Git => u <= Timeout
          /\ exec.step = "probe" => u = spent + ProbeTime
          /\ exec.step = "run" => u = spent + Timeout
      BY <1>in, <2>1, <2>3 DEF Until, Least, Running, KernelTypeOK
    <3> HIDE DEF u
    <3>2. NewProcess(u) \in Processes /\ NewProcess(u).until = u
      BY <3>1 DEF NewProcess, Processes
    <3>3. child' \in Processes /\ child'.until = u  BY <2>3, <3>2 DEF u
    <3>4. KernelTypeOK'  BY <1>in, <2>1, <2>3, <3>3 DEF KernelTypeOK
    <3>5. TimeInv'  BY <1>in, <2>1, <2>3, <3>1, <3>3 DEF TimeInv, KernelTypeOK, Running
    <3>6. SubjectInv'  BY <1>in, <2>1, <2>3 DEF SubjectInv
    <3> QED  BY <1>in, <2>1, <3>4, <3>5, <3>6 DEF KernelInv
  <2> QED  BY <1>2, <2>2, <2>3 DEF Spawn
<1>3. CASE ChildActs
  <2>1. /\ child # Gone /\ child \in Processes
        /\ UNCHANGED <<exec, spent, available, subject, workdir, orphans, attested>>
    BY <1>3, <1>ch DEF ChildActs
  <2>2. child' \in Processes /\ child'.until = child.until
    <3>1. CASE ChildWrites(1)  BY <2>1, <3>1 DEF ChildWrites, Processes
    <3>2. CASE ChildForks  BY <2>1, <3>2 DEF ChildForks, Processes
    <3>3. CASE ChildCloses  BY <2>1, <3>3 DEF ChildCloses, Processes
    <3>4. CASE ChildEnds
      <4>1. PICK code \in {"ok", "failed"} :
              child' = [child EXCEPT !.leader = code, !.open = child.open /\ child.heirs]
        BY <3>4 DEF ChildEnds
      <4>2. (child.open /\ child.heirs) \in BOOLEAN  BY <2>1 DEF Processes
      <4> QED  BY <2>1, <4>1, <4>2 DEF Processes
    <3>5. CASE HeirEnds
      <4>1. child' = [child EXCEPT !.heirs = FALSE, !.open = child.open /\ child.leader = "runs"]
        BY <3>5 DEF HeirEnds
      <4>2. (child.open /\ child.leader = "runs") \in BOOLEAN  BY <2>1 DEF Processes
      <4> QED  BY <2>1, <4>1, <4>2 DEF Processes
    <3>6. CASE SandboxReports  BY <2>1, <3>6 DEF SandboxReports, Processes
    <3> QED  BY <1>3, <3>1, <3>2, <3>3, <3>4, <3>5, <3>6 DEF ChildActs
  <2>3. KernelTypeOK'  BY <1>in, <2>1, <2>2 DEF KernelTypeOK
  <2>4. TimeInv'  BY <1>in, <2>1, <2>2 DEF TimeInv
  <2>5. SubjectInv'  BY <1>in, <2>1 DEF SubjectInv
  <2> QED  BY <1>in, <2>1, <2>3, <2>4, <2>5 DEF KernelInv
<1>4. CASE Wait
  <2>1. /\ child # Gone /\ spent < child.until /\ spent' = spent + 1 /\ child.until \in Nat
        /\ UNCHANGED <<exec, child, available, subject, workdir, orphans, attested>>
    BY <1>4, <1>ch DEF Wait, Processes
  <2>2. KernelTypeOK'  BY <1>in, <2>1 DEF KernelTypeOK
  <2>3. TimeInv'  BY <1>in, <1>ch, <2>1 DEF TimeInv, KernelTypeOK, Running
  <2>4. SubjectInv'  BY <1>in, <2>1 DEF SubjectInv
  <2> QED  BY <1>in, <2>1, <2>2, <2>3, <2>4 DEF KernelInv
<1>fail. ASSUME NEW why \in Outcomes \ {"done"}, Fail(why), child # Gone,
                UNCHANGED <<spent, subject, workdir, attested>>
         PROVE  KernelInv'
  <2>1. EndProcess /\ Raise(why) /\ available' \in {"unknown", "yes", "no"}
    BY <1>fail, <1>in DEF Fail, Remembered, KernelTypeOK
  <2>2. child' = Gone /\ ~orphans'  BY <1>in, <1>ch, <1>fail, <2>1, NoSurvivors
  <2> QED  BY <1>ch, <1>fail, <2>1, <2>2, RaiseKeeps
<1>5. CASE ReadChunk
  <2>1. CASE Fail("output limit")  BY <1>5, <1>fail, <2>1 DEF ReadChunk, Outcomes
  <2>2. CASE child' = [child EXCEPT !.read = @ + 1] /\ UNCHANGED <<exec, available, orphans>>
    <3>1. child # Gone /\ child \in Processes /\ UNCHANGED <<spent, subject, workdir, attested>>
      BY <1>5, <1>ch DEF ReadChunk
    <3>2. child' \in Processes /\ child'.until = child.until  BY <2>2, <3>1 DEF Processes
    <3>3. KernelTypeOK'  BY <1>in, <2>2, <3>1, <3>2 DEF KernelTypeOK
    <3>4. TimeInv'  BY <1>in, <2>2, <3>1, <3>2 DEF TimeInv
    <3>5. SubjectInv'  BY <1>in, <2>2, <3>1 DEF SubjectInv
    <3> QED  BY <1>in, <2>2, <3>1, <3>3, <3>4, <3>5 DEF KernelInv
  <2> QED  BY <1>5, <2>1, <2>2 DEF ReadChunk
<1>6. CASE StatusFlood  BY <1>6, <1>fail DEF StatusFlood, Outcomes
<1>7. CASE TimesOut  BY <1>7, <1>fail DEF TimesOut, Outcomes
<1>to. ASSUME NEW step, To(step), exec # Gone, step \in Running \cup {"extract", "locate", "admit"}
       PROVE  /\ exec' \in Executions /\ exec'.step = step /\ exec'.outcome = exec.outcome
              /\ exec'.isolated = exec.isolated /\ exec'.before = exec.before
  BY <1>to, <1>ex DEF To, Executions
<1>8. CASE GitEnds
  <2>1. /\ child # Gone /\ exec # Gone /\ exec.step \in Git /\ child' = Gone /\ ~orphans'
        /\ UNCHANGED <<spent, available, subject, workdir, attested>>
    BY <1>8, <1>in, <1>ch, NoSurvivors DEF GitEnds, Drained
  <2>2. CASE \E why \in {"git failed", "bad object", "timed out"} : Raise(why)
    BY <1>in, <2>1, <2>2, RaiseKeeps DEF Outcomes, KernelTypeOK
  <2>3. CASE \E i \in 1..Len(Materializing) - 1 : To(Materializing[i + 1])
    <3>1. PICK step \in Git : To(step)
      <4>1. PICK i \in 1..Len(Materializing) - 1 : To(Materializing[i + 1])  BY <2>3
      <4>2. i + 1 \in 1..Len(Materializing)  BY DEF Materializing
      <4> QED  BY <4>1, <4>2
    <3>2. exec' \in Executions /\ exec'.step \in Git  BY <1>to, <2>1, <3>1 DEF Running
    <3>3. KernelTypeOK'  BY <1>in, <2>1, <3>2 DEF KernelTypeOK
    <3>4. TimeInv'  BY <1>in, <2>1, <3>2 DEF TimeInv
    <3>5. SubjectInv'  BY <1>in, <2>1, <3>2 DEF SubjectInv
    <3> QED  BY <2>1, <3>3, <3>4, <3>5 DEF KernelInv
  <2>4. CASE To("extract")
    <3>2. exec' \in Executions /\ exec'.step = "extract"  BY <1>to, <2>1, <2>4
    <3>3. KernelTypeOK'  BY <1>in, <2>1, <3>2 DEF KernelTypeOK
    <3>4. TimeInv'  BY <1>in, <2>1, <3>2 DEF TimeInv
    <3>5. SubjectInv'  BY <1>in, <2>1, <3>2 DEF SubjectInv
    <3> QED  BY <2>1, <3>3, <3>4, <3>5 DEF KernelInv
  <2> QED  BY <1>8, <2>2, <2>3, <2>4 DEF GitEnds
<1>9. CASE Extract
  <2>1. /\ exec # Gone /\ exec.step = "extract" /\ exec \in Executions /\ child = Gone /\ child' = Gone
        /\ UNCHANGED <<spent, available, subject, workdir, orphans, attested>>
    BY <1>9, <1>ch, <1>ex DEF Extract, AtStep, Running
  <2>2. CASE Raise("bad archive")
    BY <1>in, <2>1, <2>2, RaiseKeeps DEF Outcomes, KernelTypeOK
  <2>3. CASE exec' = [exec EXCEPT !.step = "locate", !.before = subject]
    <3>1. subject = "commit"  BY <1>in, <2>1 DEF SubjectInv
    <3>2. exec' \in Executions /\ exec'.step = "locate" /\ exec'.before = "commit"
      BY <2>1, <2>3, <3>1 DEF Executions
    <3>3. KernelTypeOK'  BY <1>in, <2>1, <3>2 DEF KernelTypeOK
    <3>4. TimeInv'  BY <1>in, <2>1, <3>2 DEF TimeInv, KernelTypeOK
    <3>5. SubjectInv'  BY <1>in, <2>1, <3>1, <3>2 DEF SubjectInv
    <3> QED  BY <1>in, <2>1, <3>3, <3>4, <3>5 DEF KernelInv
  <2> QED  BY <1>9, <2>2, <2>3 DEF Extract
<1>10. CASE Locate
  <2>1. /\ exec # Gone /\ exec.step = "locate" /\ exec \in Executions /\ child = Gone /\ child' = Gone
        /\ UNCHANGED <<spent, available, subject, workdir, orphans, attested>>
    BY <1>10, <1>ch, <1>ex DEF Locate, AtStep, Running
  <2>2. CASE \E why \in {"unavailable", "not isolated"} : Raise(why)
    BY <1>in, <2>1, <2>2, RaiseKeeps DEF Outcomes, KernelTypeOK
  <2>3. CASE (available = "unknown" /\ To("probe")) \/ (available = "yes" /\ To("run"))
    <3>2. /\ exec' \in Executions /\ exec'.before = exec.before
          /\ \/ available = "unknown" /\ exec'.step = "probe"
             \/ available = "yes" /\ exec'.step = "run"
      BY <1>to, <2>1, <2>3 DEF Running
    <3>3. KernelTypeOK'  BY <1>in, <2>1, <3>2 DEF KernelTypeOK
    <3>4. TimeInv'  BY <1>in, <2>1, <3>2 DEF TimeInv, KernelTypeOK
    <3>5. SubjectInv'  BY <1>in, <2>1, <3>2 DEF SubjectInv
    <3> QED  BY <1>in, <2>1, <3>3, <3>4, <3>5 DEF KernelInv
  <2> QED  BY <1>10, <2>2, <2>3 DEF Locate
<1>11. CASE ProbeEnds
  <2>1. /\ child # Gone /\ exec # Gone /\ exec.step = "probe" /\ child' = Gone /\ ~orphans'
        /\ available' \in {"yes", "no"} /\ To("locate")
        /\ UNCHANGED <<spent, subject, workdir, attested>>
    BY <1>11, <1>in, <1>ch, NoSurvivors DEF ProbeEnds, Drained, Remembered
  <2>2. exec' \in Executions /\ exec'.step = "locate" /\ exec'.before = exec.before
    BY <1>to, <2>1
  <2>3. KernelTypeOK'  BY <1>in, <2>1, <2>2 DEF KernelTypeOK
  <2>4. TimeInv'
    <3>1. spent <= child.until /\ child.until <= Timeout + ProbeTime /\ child.until \in Nat /\ spent \in Nat
      BY <1>in, <1>ch, <2>1 DEF TimeInv, KernelTypeOK, Processes
    <3> QED  BY <2>1, <2>2, <3>1 DEF TimeInv
  <2>5. SubjectInv'  BY <1>in, <2>1, <2>2 DEF SubjectInv
  <2> QED  BY <2>1, <2>3, <2>4, <2>5 DEF KernelInv
<1>12. CASE SandboxEnds
  <2>1. /\ child # Gone /\ exec # Gone /\ exec.step = "run" /\ exec \in Executions /\ child' = Gone /\ ~orphans'
        /\ UNCHANGED <<spent, available, subject, workdir, attested>>
    BY <1>12, <1>in, <1>ch, NoSurvivors DEF SandboxEnds, Drained
  <2>2. CASE Raise("not isolated")
    BY <1>in, <2>1, <2>2, RaiseKeeps DEF Outcomes, KernelTypeOK
  <2>3. CASE exec' = [exec EXCEPT !.step = "compare", !.isolated = TRUE]
    <3>2. exec' \in Executions /\ exec'.step = "compare" /\ exec'.isolated = TRUE /\ exec'.before = exec.before
      BY <2>1, <2>3 DEF Executions
    <3>3. KernelTypeOK'  BY <1>in, <2>1, <3>2 DEF KernelTypeOK
    <3>4. TimeInv'  BY <1>in, <2>1, <3>2 DEF TimeInv
    <3>5. SubjectInv'  BY <1>in, <2>1, <3>2 DEF SubjectInv
    <3> QED  BY <2>1, <3>3, <3>4, <3>5 DEF KernelInv
  <2> QED  BY <1>12, <2>2, <2>3 DEF SandboxEnds
<1>13. CASE SubjectChanges
  <2>1. /\ exec # Gone /\ exec.step = "run" /\ subject' = "other"
        /\ UNCHANGED <<exec, child, spent, available, workdir, orphans, attested>>
    BY <1>13 DEF SubjectChanges, AtStep
  <2>2. KernelTypeOK' /\ TimeInv'  BY <1>in, <2>1 DEF KernelTypeOK, TimeInv
  <2>3. SubjectInv'  BY <1>in, <2>1 DEF SubjectInv
  <2> QED  BY <1>in, <2>1, <2>2, <2>3 DEF KernelInv
<1>14. CASE Compare
  <2>1. /\ exec # Gone /\ exec.step = "compare" /\ exec \in Executions /\ child = Gone /\ child' = Gone
        /\ UNCHANGED <<spent, available, subject, workdir, orphans, attested>>
    BY <1>14, <1>ch, <1>ex DEF Compare, AtStep, Running
  <2>2. CASE subject = exec.before
    <3>1. Raise("done") /\ subject = "commit" /\ exec.isolated
      BY <1>14, <1>in, <2>1, <2>2 DEF Compare, SubjectInv
    <3>2. exec' \in Executions /\ exec'.step = "cleanup" /\ exec'.isolated = exec.isolated
      BY <2>1, <3>1 DEF Raise, Executions, Outcomes
    <3>3. KernelTypeOK'  BY <1>in, <2>1, <3>2 DEF KernelTypeOK
    <3>4. TimeInv'  BY <1>in, <2>1, <3>2 DEF TimeInv
    <3>5. SubjectInv'  BY <1>in, <2>1, <3>1, <3>2 DEF SubjectInv
    <3> QED  BY <1>in, <2>1, <3>3, <3>4, <3>5 DEF KernelInv
  <2>3. CASE subject # exec.before
    <3>1. Raise("subject changed")  BY <1>14, <2>3 DEF Compare
    <3> QED  BY <1>in, <2>1, <3>1, RaiseKeeps DEF Outcomes, KernelTypeOK
  <2> QED  BY <2>2, <2>3
<1>15. CASE Cleanup
  <2>1. /\ exec # Gone /\ exec.step = "cleanup" /\ exec \in Executions /\ child = Gone /\ child' = Gone
        /\ UNCHANGED <<spent, available, subject, orphans, attested>>
        /\ workdir' \in {FALSE, workdir}
    BY <1>15, <1>ch, <1>ex DEF Cleanup, AtStep, Running
  <2>2. CASE exec' = Gone
    BY <1>in, <2>1, <2>2 DEF KernelInv, KernelTypeOK, TimeInv, SubjectInv
  <2>3. CASE exec' # Gone
    <3>1. workdir' = FALSE /\ exec.outcome = "done" /\ To("admit")
      BY <1>15, <2>3 DEF Cleanup
    <3>2. /\ exec' \in Executions /\ exec'.step = "admit" /\ exec'.outcome = exec.outcome
          /\ exec'.isolated = exec.isolated
      BY <1>to, <2>1, <3>1
    <3>3. KernelTypeOK'  BY <1>in, <2>1, <3>1, <3>2 DEF KernelTypeOK
    <3>4. TimeInv'  BY <1>in, <2>1, <3>2 DEF TimeInv
    <3>5. SubjectInv'  BY <1>in, <2>1, <3>1, <3>2 DEF SubjectInv
    <3> QED  BY <1>in, <2>1, <3>3, <3>4, <3>5 DEF KernelInv
  <2> QED  BY <2>2, <2>3
<1>16. CASE AdmitExecution
  <2> DEFINE r == [subject |-> subject, isolated |-> exec.isolated, removed |-> ~workdir, outcome |-> exec.outcome]
  <2>1. /\ exec # Gone /\ exec.step = "admit" /\ exec' = Gone /\ child = Gone /\ child' = Gone
        /\ UNCHANGED <<spent, available, subject, workdir, orphans>>
        /\ attested' \in {attested, attested \cup {r}}
    BY <1>16, <1>ch, <1>ex DEF AdmitExecution, AtStep, Running
  <2>2. r.isolated /\ r.subject = "commit" /\ r.removed /\ r.outcome = "done"
    BY <1>in, <2>1 DEF SubjectInv
  <2> HIDE DEF r
  <2>3. KernelTypeOK' /\ TimeInv'  BY <1>in, <2>1 DEF KernelTypeOK, TimeInv
  <2>4. SubjectInv'  BY <1>in, <2>1, <2>2 DEF SubjectInv
  <2> QED  BY <1>in, <2>1, <2>3, <2>4 DEF KernelInv
<1>17. CASE UNCHANGED kernelVars
  BY <1>in, <1>17 DEF kernelVars, KernelInv, KernelTypeOK, TimeInv, SubjectInv
<1> QED
  BY <1>1, <1>2, <1>3, <1>4, <1>5, <1>6, <1>7, <1>8, <1>9, <1>10, <1>11, <1>12, <1>13, <1>14, <1>15,
     <1>16, <1>17 DEF KernelNext

\* For any timeouts and limits, and however the commands of a call end, hang,
\* fork, flood or close their output: no process outlives the kernel's wait for
\* it, a call waits no longer than its two timeouts and the probe's, and a
\* receipt is only given for an isolated run on the untouched commit
\* (IsolatedExecutionKernel.execute, _run_bounded).
THEOREM ExecutionContained == KernelSpec => []ExecutionIsContained
<1>1. KernelInit => KernelInv
  <2> SUFFICES ASSUME KernelInit PROVE KernelInv  OBVIOUS
  <2>1. exec = Gone /\ child = Gone /\ spent = 0 /\ attested = {} /\ ~orphans  BY DEF KernelInit
  <2>2. KernelTypeOK  BY DEF KernelInit, KernelTypeOK
  <2>3. TimeInv  BY <2>1, KernelAssumption DEF TimeInv
  <2>4. SubjectInv  BY <2>1 DEF SubjectInv
  <2> QED  BY <2>1, <2>2, <2>3, <2>4 DEF KernelInv
<1>2. KernelInv => ExecutionIsContained
  BY DEF KernelInv, TimeInv, SubjectInv, ExecutionIsContained
<1> QED  BY <1>1, <1>2, KernelInvStep, PTL DEF KernelSpec

-----------------------------------------------------------------------------
(* Merge admission *)

Trees == [head : Heads, policy : Nat]

MergeTypeOK ==
  /\ clock \in Nat
  /\ tree \in Trees
  /\ raised \in [Findings -> [state : {"none", "raw", "open", "resolved"}, subject : Heads \cup {Unset}, at : Nat]]
  /\ inventory \in [subject : Heads, findings : SUBSET Findings, watermark : SUBSET Findings, observed : Nat]
  /\ review \in [subject : Heads, state : {"APPROVED", "CHANGES_REQUESTED"}, at : Nat]
  /\ checks \in [Required -> [inputs : Trees, at : Nat, entry : Nat \cup {Unset},
                              status : {"PENDING", "SUCCESS", "FAILURE"}]]
  /\ entry # Unset => entry.at \in Nat
  /\ seen # Unset => seen.tree \in Trees /\ seen.inventory.observed \in Nat

\* A run that succeeded, and an approval, is in the history with its subject.
ChecksVetted(runs) == \A name \in Required : runs[name].status = "SUCCESS" => <<name, runs[name].inputs>> \in vetted
ReviewVetted(r) == r.state = "APPROVED" => <<Unset, [head |-> r.subject, policy |-> 0]>> \in vetted

\* An inventory holds every finding on its subject normalized before it.
InventoryComplete(inv) ==
  \A f \in Findings :
    /\ raised[f].state \in {"open", "resolved"} /\ raised[f].at < inv.observed /\ raised[f].subject = inv.subject
    => f \in inv.findings

VettedInv ==
  /\ ChecksVetted(checks) /\ ReviewVetted(review)
  /\ seen # Unset => ChecksVetted(seen.checks) /\ ReviewVetted(seen.review)

FindingInv ==
  /\ inventory.observed <= clock /\ InventoryComplete(inventory)
  /\ seen # Unset =>
       /\ seen.inventory.observed <= clock /\ InventoryComplete(seen.inventory)
       /\ \A f \in Findings : f \in seen.findings /\ f \notin seen.open => raised[f].state = "resolved"

\* A dequeue that completes after the merge is stamped later.
RaceInv ==
  /\ landed # Unset => entry # Unset /\ landed.at \in Nat
  /\ landed # Unset /\ dequeued # Unset => dequeued \in Nat /\ landed.at < dequeued

MergeInv ==
  /\ MergeTypeOK /\ VettedInv /\ FindingInv /\ RaceInv
  /\ MergedIsVetted /\ RaceIsSettledTruly

\* What a snapshot that may roll out guarantees.
LEMMA RollsOutIsVetted ==
  ASSUME MergeTypeOK, VettedInv, FindingInv, seen # Unset, entry # Unset, RollsOut(seen)
  PROVE  /\ landed.tree = entry.tree
         /\ \A name \in Required : <<name, landed.tree>> \in vetted
         /\ <<Unset, [landed.tree EXCEPT !.policy = 0]>> \in vetted
         /\ \A f \in Findings :
              raised[f].state = "open" /\ raised[f].subject = landed.tree.head =>
                clock <= raised[f].at + InventoryWindow
<1>1. /\ landed.tree = entry.tree /\ landed.tree = seen.tree /\ seen.tree \in Trees
      /\ Valid(seen, entry.boundary, landed.at, entry)
  BY DEF RollsOut, MergeTypeOK
<1>2. ASSUME NEW name \in Required PROVE <<name, landed.tree>> \in vetted
  <2>1. seen.checks[name].status = "SUCCESS" /\ seen.checks[name].inputs = seen.tree
    <3>1. CASE name \in PullChecks
      BY <1>1, <3>1 DEF Valid, PullCheckHolds, CheckHolds
    <3>2. CASE name \in GroupChecks
      BY <1>1, <3>2 DEF Valid, GroupCheckHolds, CheckHolds
    <3> QED  BY <3>1, <3>2 DEF Required
  <2> QED  BY <1>1, <2>1 DEF VettedInv, ChecksVetted
<1>3. <<Unset, [landed.tree EXCEPT !.policy = 0]>> \in vetted
  <2>1. seen.review.state = "APPROVED" /\ seen.review.subject = seen.tree.head
    BY <1>1 DEF Valid, ApprovedFor
  <2>2. [landed.tree EXCEPT !.policy = 0] = [head |-> seen.review.subject, policy |-> 0]
    BY <1>1, <2>1 DEF Trees
  <2> QED  BY <2>1, <2>2 DEF VettedInv, ReviewVetted
<1>4. ASSUME NEW f \in Findings, raised[f].state = "open", raised[f].subject = landed.tree.head
      PROVE  clock <= raised[f].at + InventoryWindow
  <2>1. /\ seen.inventory.subject = seen.tree.head
        /\ seen.inventory.findings = seen.findings
        /\ clock <= seen.inventory.observed + InventoryWindow
        /\ seen.open = {}
        /\ seen.inventory.observed \in Nat /\ raised[f].at \in Nat /\ clock \in Nat
    BY <1>1, MergeAssumption DEF Valid, FreshInventory, MergeTypeOK
  <2>2. ~(raised[f].at < seen.inventory.observed)
    BY <1>1, <1>4, <2>1 DEF FindingInv, InventoryComplete
  <2> QED  BY <2>1, <2>2, MergeAssumption
<1> QED  BY <1>1, <1>2, <1>3, <1>4

\* Every step preserves the invariant.
LEMMA MergeInvStep == MergeInv /\ [MergeNext]_mergeVars => MergeInv'
<1> SUFFICES ASSUME MergeInv, [MergeNext]_mergeVars PROVE MergeInv'  OBVIOUS
<1> USE MergeAssumption
<1>in. MergeTypeOK /\ VettedInv /\ FindingInv /\ RaceInv  BY DEF MergeInv
<1>un. ASSUME decision = Unset, decision' = decision PROVE MergedIsVetted' /\ RaceIsSettledTruly'
  BY <1>un DEF MergedIsVetted, RaceIsSettledTruly
<1>1. CASE Tick /\ decision = Unset
  <2>1. /\ clock' = clock + 1 /\ decision' = decision
        /\ UNCHANGED <<tree, raised, inventory, review, checks, seen, entry, landed, dequeued, vetted>>
    BY <1>1 DEF Tick
  <2>2. MergeTypeOK' /\ VettedInv' /\ RaceInv'
    BY <1>in, <2>1 DEF MergeTypeOK, VettedInv, ChecksVetted, ReviewVetted, RaceInv
  <2>3. FindingInv'  BY <1>in, <2>1 DEF MergeTypeOK, FindingInv, InventoryComplete
  <2> QED  BY <1>1, <1>un, <2>1, <2>2, <2>3 DEF MergeInv
<1>2. CASE (Push \/ ChangePolicy) /\ decision = Unset
  <2>1. /\ decision' = decision /\ tree' \in Trees
        /\ UNCHANGED <<clock, raised, inventory, review, checks, seen, entry, landed, dequeued, vetted>>
    BY <1>in, <1>2 DEF Push, ChangePolicy, Trees, MergeTypeOK
  <2>2. MergeTypeOK' /\ VettedInv' /\ RaceInv' /\ FindingInv'
    BY <1>in, <2>1
       DEF MergeTypeOK, VettedInv, ChecksVetted, ReviewVetted, RaceInv, FindingInv, InventoryComplete
  <2> QED  BY <1>2, <1>un, <2>1, <2>2 DEF MergeInv
<1>3. CASE RevokeAuthority /\ decision = Unset
  <2>1. /\ decision' = decision
        /\ UNCHANGED <<clock, tree, raised, inventory, review, checks, seen, entry, landed, dequeued, vetted>>
    BY <1>3 DEF RevokeAuthority
  <2>2. MergeTypeOK' /\ VettedInv' /\ RaceInv' /\ FindingInv'
    BY <1>in, <2>1
       DEF MergeTypeOK, VettedInv, ChecksVetted, ReviewVetted, RaceInv, FindingInv, InventoryComplete
  <2> QED  BY <1>3, <1>un, <2>1, <2>2 DEF MergeInv
<1>4. ASSUME NEW f \in Findings, RaiseFinding(f) \/ Normalize(f) \/ ResolveFinding(f), decision = Unset
      PROVE  MergeInv'
  <2>1. /\ decision' = decision
        /\ UNCHANGED <<clock, tree, inventory, review, checks, seen, entry, landed, dequeued, vetted>>
        /\ \A g \in Findings \ {f} : raised'[g] = raised[g]
        /\ raised' \in [Findings -> [state : {"none", "raw", "open", "resolved"}, subject : Heads \cup {Unset}, at : Nat]]
    BY <1>in, <1>4 DEF RaiseFinding, Normalize, ResolveFinding, MergeTypeOK, Trees
  <2>2. MergeTypeOK' /\ VettedInv' /\ RaceInv'
    BY <1>in, <2>1 DEF MergeTypeOK, VettedInv, ChecksVetted, ReviewVetted, RaceInv
  <2>3. /\ raised[f].state # "resolved"
        /\ \/ raised'[f].state = "raw"
           \/ /\ raised'[f].state = "open" /\ raised'[f].at = clock /\ raised[f].state = "raw"
           \/ /\ raised'[f].state = "resolved" /\ raised'[f].at = raised[f].at
              /\ raised'[f].subject = raised[f].subject /\ raised[f].state = "open"
    BY <1>in, <1>4 DEF RaiseFinding, Normalize, ResolveFinding, MergeTypeOK
  <2>4. FindingInv'
    <3>1. ASSUME NEW inv, InventoryComplete(inv), inv.observed \in Nat, inv.observed <= clock
          PROVE  \A g \in Findings :
                   /\ raised'[g].state \in {"open", "resolved"} /\ raised'[g].at < inv.observed
                   /\ raised'[g].subject = inv.subject
                   => g \in inv.findings
      <4>1. TAKE g \in Findings
      <4>2. CASE g # f  BY <2>1, <3>1, <4>2 DEF InventoryComplete
      <4>3. CASE g = f
        BY <1>in, <2>1, <2>3, <3>1, <4>3 DEF InventoryComplete, MergeTypeOK
      <4> QED  BY <4>2, <4>3
    <3>2. inventory.observed \in Nat /\ (seen # Unset => seen.inventory.observed \in Nat)
      BY <1>in DEF MergeTypeOK
    <3>3. InventoryComplete(inventory)' /\ inventory'.observed <= clock'
      BY <1>in, <2>1, <3>1, <3>2 DEF FindingInv, InventoryComplete
    <3>4. ASSUME seen' # Unset
          PROVE  /\ InventoryComplete(seen.inventory)' /\ seen'.inventory.observed <= clock'
                 /\ \A g \in Findings : g \in seen'.findings /\ g \notin seen'.open => raised'[g].state = "resolved"
      <4>1. InventoryComplete(seen.inventory)' /\ seen'.inventory.observed <= clock'
        BY <1>in, <2>1, <3>1, <3>2, <3>4 DEF FindingInv, InventoryComplete
      <4>2. ASSUME NEW g \in Findings, g \in seen'.findings, g \notin seen'.open
            PROVE  raised'[g].state = "resolved"
        <5>1. raised[g].state = "resolved"  BY <1>in, <2>1, <3>4, <4>2 DEF FindingInv
        <5> QED  BY <2>1, <2>3, <5>1
      <4> QED  BY <4>1, <4>2
    <3> QED  BY <3>3, <3>4 DEF FindingInv
  <2> QED  BY <1>4, <1>un, <2>1, <2>2, <2>4 DEF MergeInv
<1>5. CASE AttestInventory /\ decision = Unset
  <2>1. /\ decision' = decision
        /\ UNCHANGED <<clock, tree, raised, review, checks, seen, entry, landed, dequeued, vetted>>
        /\ inventory' = [subject |-> tree.head, findings |-> Normalized(tree.head), watermark |-> Watermark,
                         observed |-> clock]
    BY <1>5 DEF AttestInventory
  <2>2. Normalized(tree.head) \in SUBSET Findings /\ Watermark \in SUBSET Findings /\ tree.head \in Heads
    BY <1>in DEF Normalized, Watermark, MergeTypeOK, Trees
  <2>3. MergeTypeOK' /\ VettedInv' /\ RaceInv'
    BY <1>in, <2>1, <2>2 DEF MergeTypeOK, VettedInv, ChecksVetted, ReviewVetted, RaceInv
  <2>4. InventoryComplete(inventory)'  BY <2>1 DEF InventoryComplete, Normalized
  <2>5. FindingInv'  BY <1>in, <2>1, <2>4 DEF MergeTypeOK, FindingInv, InventoryComplete
  <2> QED  BY <1>5, <1>un, <2>1, <2>3, <2>5 DEF MergeInv
<1>6. ASSUME NEW state \in {"APPROVED", "CHANGES_REQUESTED"}, Review(state), decision = Unset
      PROVE  MergeInv'
  <2>1. /\ decision' = decision
        /\ UNCHANGED <<clock, tree, raised, inventory, checks, seen, entry, landed, dequeued>>
        /\ review' = [subject |-> tree.head, state |-> state, at |-> clock]
        /\ vetted' = IF state = "APPROVED" THEN vetted \cup {<<Unset, [tree EXCEPT !.policy = 0]>>} ELSE vetted
    BY <1>6 DEF Review
  <2>2. [tree EXCEPT !.policy = 0] = [head |-> tree.head, policy |-> 0] /\ tree.head \in Heads
    BY <1>in DEF MergeTypeOK, Trees
  <2>3. vetted \subseteq vetted'  BY <2>1
  <2>4. MergeTypeOK'  BY <1>in, <2>1, <2>2 DEF MergeTypeOK
  <2>5. VettedInv'
    <3>1. ReviewVetted(review)'  BY <2>1, <2>2 DEF ReviewVetted
    <3> QED  BY <1>in, <2>1, <2>3, <3>1 DEF VettedInv, ChecksVetted, ReviewVetted
  <2>6. FindingInv' /\ RaceInv'  BY <1>in, <2>1 DEF FindingInv, InventoryComplete, RaceInv
  <2> QED  BY <1>6, <1>un, <2>1, <2>4, <2>5, <2>6 DEF MergeInv
<1>7. ASSUME NEW name \in Required, NEW status \in {"PENDING", "SUCCESS", "FAILURE"}, RunCheck(name, status),
             decision = Unset
      PROVE  MergeInv'
  <2> DEFINE ran == [inputs |-> tree, status |-> status, at |-> clock,
                     entry |-> IF name \in GroupChecks /\ entry # Unset THEN entry.at ELSE Unset]
  <2>1. /\ decision' = decision
        /\ UNCHANGED <<clock, tree, raised, inventory, review, seen, entry, landed, dequeued>>
        /\ checks' = [checks EXCEPT ![name] = ran]
        /\ vetted' = IF status = "SUCCESS" THEN vetted \cup {<<name, tree>>} ELSE vetted
    BY <1>7 DEF RunCheck
  <2>2. /\ ran \in [inputs : Trees, at : Nat, entry : Nat \cup {Unset}, status : {"PENDING", "SUCCESS", "FAILURE"}]
        /\ ran.status = status /\ ran.inputs = tree
    BY <1>in DEF MergeTypeOK
  <2> HIDE DEF ran
  <2>3. /\ checks'[name] = ran
        /\ \A other \in Required \ {name} : checks'[other] = checks[other]
    BY <1>in, <2>1 DEF MergeTypeOK
  <2>4. MergeTypeOK'  BY <1>in, <2>1, <2>2 DEF MergeTypeOK
  <2>5. vetted \subseteq vetted'  BY <2>1
  <2>6. VettedInv'
    <3>1. ASSUME NEW other \in Required, checks'[other].status = "SUCCESS"
          PROVE  <<other, checks'[other].inputs>> \in vetted'
      <4>1. CASE other = name  BY <2>1, <2>2, <2>3, <3>1, <4>1
      <4>2. CASE other # name
        BY <1>in, <2>3, <2>5, <3>1, <4>2 DEF VettedInv, ChecksVetted
      <4> QED  BY <4>1, <4>2
    <3>2. ChecksVetted(checks)'  BY <3>1 DEF ChecksVetted
    <3> QED  BY <1>in, <2>1, <2>5, <3>2 DEF VettedInv, ChecksVetted, ReviewVetted
  <2>7. FindingInv' /\ RaceInv'  BY <1>in, <2>1 DEF FindingInv, InventoryComplete, RaceInv
  <2> QED  BY <1>7, <1>un, <2>1, <2>4, <2>6, <2>7 DEF MergeInv
<1>8. CASE TakeSnapshot /\ decision = Unset
  <2>1. /\ decision' = decision
        /\ UNCHANGED <<clock, tree, raised, inventory, review, checks, entry, landed, dequeued, vetted>>
        /\ seen'.tree = tree /\ seen'.inventory = inventory /\ seen'.review = review /\ seen'.checks = checks
        /\ seen'.findings = Normalized(tree.head) /\ seen'.open = Blocking(tree.head)
    BY <1>8 DEF TakeSnapshot
  <2>2. MergeTypeOK' /\ VettedInv' /\ RaceInv'
    BY <1>in, <2>1 DEF MergeTypeOK, VettedInv, ChecksVetted, ReviewVetted, RaceInv
  <2>3. \A f \in Findings :
          f \in Normalized(tree.head) /\ f \notin Blocking(tree.head) => raised[f].state = "resolved"
    BY DEF Normalized, Blocking
  <2>4. FindingInv'  BY <1>in, <2>1, <2>3 DEF FindingInv, InventoryComplete
  <2> QED  BY <1>8, <1>un, <2>1, <2>2, <2>4 DEF MergeInv
<1>9. CASE (Enqueue \/ NativeMerge \/ Dequeue) /\ decision = Unset
  <2>1. /\ decision' = decision
        /\ UNCHANGED <<clock, tree, raised, inventory, review, checks, seen, vetted>>
    BY <1>9 DEF Enqueue, NativeMerge, Dequeue
  <2>2. entry' # Unset => entry'.at \in Nat
    BY <1>in, <1>9 DEF Enqueue, NativeMerge, Dequeue, MergeTypeOK
  <2>3. MergeTypeOK' /\ VettedInv' /\ FindingInv'
    BY <1>in, <2>1, <2>2 DEF MergeTypeOK, VettedInv, ChecksVetted, ReviewVetted, FindingInv, InventoryComplete
  <2>4. RaceInv'
    <3>1. CASE Enqueue
      <4>1. landed = Unset  BY <1>in, <3>1 DEF Enqueue, RaceInv
      <4> QED  BY <3>1, <4>1 DEF Enqueue, RaceInv
    <3>2. CASE NativeMerge  BY <1>in, <3>2 DEF NativeMerge, RaceInv, MergeTypeOK
    <3>3. CASE Dequeue  BY <1>in, <3>3 DEF Dequeue, RaceInv, MergeTypeOK
    <3> QED  BY <1>9, <3>1, <3>2, <3>3
  <2> QED  BY <1>9, <1>un, <2>1, <2>3, <2>4 DEF MergeInv
<1>still. ASSUME UNCHANGED <<clock, tree, raised, inventory, review, checks, seen, entry, landed, dequeued, vetted>>
          PROVE  MergeTypeOK' /\ VettedInv' /\ FindingInv' /\ RaceInv'
  BY <1>in, <1>still
     DEF MergeTypeOK, VettedInv, ChecksVetted, ReviewVetted, RaceInv, FindingInv, InventoryComplete
<1>10. ASSUME NEW sound \in BOOLEAN, LinearizeMerge(sound), decision = Unset PROVE MergeInv'
  <2>1. /\ UNCHANGED <<clock, tree, raised, inventory, review, checks, seen, entry, landed, dequeued, vetted>>
        /\ landed # Unset /\ seen # Unset /\ entry # Unset
        /\ \/ decision'.outcome = "MERGE_INCIDENT" /\ decision'.rollout = FALSE
           \/ RollsOut(seen) /\ decision'.admitted = TRUE
    BY <1>in, <1>10 DEF LinearizeMerge, RaceInv
  <2>2. MergedIsVetted'  BY <1>in, <2>1, RollsOutIsVetted DEF MergedIsVetted
  <2>3. RaceIsSettledTruly'  BY <2>1 DEF RaceIsSettledTruly
  <2> QED  BY <1>still, <2>1, <2>2, <2>3 DEF MergeInv
<1>11. CASE ResolveExternalRace /\ decision = Unset
  <2>1. /\ UNCHANGED <<clock, tree, raised, inventory, review, checks, seen, entry, landed, dequeued, vetted>>
        /\ decision'.rollout = FALSE
        /\ decision'.admitted = IF DequeuedFirst THEN FALSE ELSE TRUE
    BY <1>11 DEF ResolveExternalRace
  <2>2. MergedIsVetted'  BY <2>1 DEF MergedIsVetted
  <2>3. DequeuedFirst <=> landed = Unset  BY <1>in DEF DequeuedFirst, RaceInv
  <2>4. RaceIsSettledTruly'  BY <2>1, <2>3 DEF RaceIsSettledTruly
  <2> QED  BY <1>still, <2>1, <2>2, <2>4 DEF MergeInv
<1>12. CASE UNCHANGED mergeVars
  <2>1. UNCHANGED <<clock, tree, raised, inventory, review, checks, seen, entry, landed, dequeued, vetted, decision>>
    BY <1>12 DEF mergeVars
  <2>2. MergedIsVetted' /\ RaceIsSettledTruly'
    BY <2>1 DEF MergeInv, MergedIsVetted, RaceIsSettledTruly
  <2> QED  BY <1>still, <2>1, <2>2 DEF MergeInv
<1> QED
  BY <1>1, <1>2, <1>3, <1>4, <1>5, <1>6, <1>7, <1>8, <1>9, <1>10, <1>11, <1>12
     DEF MergeNext, Move, Control, Required

\* The invariant holds when the pull request is made ready.
LEMMA MergeInvInit == MergeInit => MergeInv
<1> SUFFICES ASSUME MergeInit PROVE MergeInv  OBVIOUS
<1>1. tree \in Trees /\ tree.policy = 0 /\ tree.head \in Heads /\ tree = [head |-> tree.head, policy |-> 0]
  BY DEF MergeInit, Trees
<1>2. MergeTypeOK
  BY <1>1 DEF MergeInit, MergeTypeOK
<1>3. VettedInv
  <2>1. seen = Unset  BY DEF MergeInit
  <2>2. ChecksVetted(checks)  BY DEF MergeInit, ChecksVetted, Required
  <2>3. ReviewVetted(review)  BY <1>1 DEF MergeInit, ReviewVetted
  <2> QED  BY <2>1, <2>2, <2>3 DEF VettedInv
<1>4. FindingInv  BY DEF MergeInit, FindingInv, InventoryComplete
<1>5. RaceInv /\ MergedIsVetted /\ RaceIsSettledTruly
  BY DEF MergeInit, RaceInv, MergedIsVetted, RaceIsSettledTruly
<1> QED  BY <1>2, <1>3, <1>4, <1>5 DEF MergeInv

\* A merge that linearize_merge lets roll out was checked and approved on
\* exactly the inputs that landed, and no finding open on it is older than the
\* inventory's window, whatever happened to the pull request in between.
THEOREM MergeVetted == MergeSpec => []MergedIsVetted
BY MergeInvInit, MergeInvStep, PTL DEF MergeSpec, MergeInv

\* resolve_external_race retains an integration exactly when the service
\* merged it, however the merge and the dequeue interleave.
THEOREM RaceSettled == MergeSpec => []RaceIsSettledTruly
BY MergeInvInit, MergeInvStep, PTL DEF MergeSpec, MergeInv

-----------------------------------------------------------------------------
(* Contract admission *)

Verdicts == {"ADMITTED", "REJECTED", "SECURITY_BLOCKED"}

\* The intake ledger with its types: a first attempt begins its own lineage.
ReservationInv ==
  /\ res \in [RetryKeys -> Reservations \cup {Nothing}]
  /\ \A k \in RetryKeys : res[k] # Nothing /\ res[k].pred = Nothing => res[k].lineage = k

IntakeLedgerInv ==
  /\ receipt \in [RetryKeys -> Nat \cup {Nothing}]
  /\ deleted \in [RetryKeys -> Nat \cup {Nothing}]
  /\ disp \in [RetryKeys -> DispositionRecords \cup {Nothing}]

\* Compiler evidence is what the bound payload compiles to.
EvidenceInv ==
  /\ evid \in [RetryKeys -> Evidence \cup {Nothing}]
  /\ \A k \in RetryKeys : evid[k] # Nothing =>
       res[k] # Nothing /\ res[k].bound # Nothing /\ evid[k].kind = EvidenceKind(res[k].bound)

IntakeInv == ReservationInv /\ IntakeLedgerInv /\ EvidenceInv /\ calls \in Nat

\* What an answer that engineering may start needs of the intake of payload p.
Compiled(k, p) ==
  /\ res[k] # Nothing /\ res[k].bound = p
  /\ disp[k] # Nothing /\ disp[k].status = "ADMITTED"
  /\ receipt[k] # Nothing /\ deleted[k] # Nothing /\ VerifiedCompilation(k)

CallSteps ==
  {"examine", "bind", "store", "receipt", "prepare", "finalize", "compile", "evidence", "delete",
   "attest", "predisp", "dispose", "replay", "admit", "record", "recording"}

CallShape(w) ==
  w = [pc |-> w.pc, key |-> w.key, payload |-> w.payload, id |-> w.id, snap |-> w.snap,
       exist |-> w.exist, mine |-> w.mine, want |-> w.want, decision |-> w.decision]

\* A call under way: what it holds, and what it has made sure of.
UnderWay(w) ==
  /\ CallShape(w)
  /\ w.pc \in CallSteps /\ w.key \in RetryKeys /\ w.payload \in Payloads /\ w.id \in Nat
  /\ res[w.key] # Nothing
  /\ w.pc \notin {"examine", "bind"} => res[w.key].bound = w.payload
  /\ w.pc = "bind" => w.exist \in DispositionRecords \cup {Nothing}
  /\ w.pc \in {"replay", "admit"} => w.exist \in DispositionRecords
  /\ w.pc \notin {"examine", "bind", "store", "receipt"} => w.mine \in Nat
  /\ w.pc \in {"delete", "attest", "predisp", "dispose"} => w.want \in Verdicts
  /\ w.pc \in {"record", "recording"} => w.decision \in DecisionRecords /\ Compiled(w.key, w.payload)

ProcessInv(w) ==
  \/ w = Resting(TRUE) \/ w = Resting(FALSE)
  \/ w = Reconciling(TRUE) \/ w = Reconciling(FALSE)
  \/ UnderWay(w)

WorkInv == DOMAIN work = Services /\ \A c \in Services : ProcessInv(work[c])

RecInv ==
  \/ rec = RIdle
  \/ /\ rec = [pc |-> rec.pc, key |-> rec.key, bound |-> rec.bound, mine |-> rec.mine,
               pendD |-> rec.pendD, receipt |-> rec.receipt, deleted |-> rec.deleted, disp |-> rec.disp]
     /\ rec.pc \in {"prepare", "finalize", "delete", "attest", "dispose", "finish"}
     /\ rec.key \in RetryKeys /\ res[rec.key] # Nothing
     /\ rec.mine \in Nat \cup {Nothing} /\ rec.pendD \in DispositionRecords \cup {Nothing}
     /\ rec.pc = "finalize" => rec.mine \in Nat

\* A chain of recorded corrections, from the first attempt of lineage l on.
ChainOf(s, l) ==
  /\ s # <<>>
  /\ \A i \in DOMAIN s : /\ attempts[s[i]] # Nothing /\ res[s[i]].lineage = l
                         /\ res[s[i]].pred = IF i = 1 THEN Nothing ELSE s[i - 1]

Lists == [attempts : SUBSET RetryKeys, lineages : SUBSET RetryKeys]

FilesInv ==
  /\ attempts \in [RetryKeys -> DecisionRecords \cup {Nothing}]
  /\ lineages \in [RetryKeys -> Seq(RetryKeys) \cup {Nothing}]
  /\ catalog \in Lists
  /\ \A k \in RetryKeys : attempts[k] # Nothing => res[k] # Nothing
  /\ \A l \in RetryKeys : lineages[l] # Nothing => ChainOf(lineages[l], l)

\* The watermark: its lineages are chains of its attempts, and each of its
\* attempts is in its lineage.
AnchorInv ==
  /\ anchor.list \in Lists
  /\ DOMAIN anchor.root.lineages = anchor.list.lineages
  /\ \A l \in anchor.list.lineages :
       LET s == anchor.root.lineages[l] IN
       s \in Seq(RetryKeys) /\ ChainOf(s, l) /\ ToSet(s) \subseteq anchor.list.attempts
  /\ \A k \in anchor.list.attempts :
       /\ attempts[k] # Nothing /\ res[k].lineage \in anchor.list.lineages
       /\ k \in ToSet(anchor.root.lineages[res[k].lineage])

\* What the holder of the lock is about to catalog and to anchor.
ListInv ==
  /\ lock.todo \subseteq lock.list.lineages
  /\ lock.recorded => lock.todo = {}
  /\ \A l \in lock.list.lineages \ lock.todo :
       lineages[l] # Nothing /\ ToSet(lineages[l]) \subseteq lock.list.attempts \cup anchor.list.attempts
  /\ \A k \in lock.list.attempts :
       /\ attempts[k] # Nothing /\ res[k].lineage \in lock.list.lineages
       /\ res[k].lineage \notin lock.todo => k \in ToSet(lineages[res[k].lineage])
  /\ ~lock.recorded =>
       /\ \A k \in RetryKeys : attempts[k] # Nothing => k \in lock.list.attempts
       /\ \A l \in lock.todo : \E k \in RetryKeys : attempts[k] # Nothing /\ res[k].lineage = l

\* The files are as the watermark says.
Rooted ==
  /\ catalog = anchor.list
  /\ \A l \in anchor.list.lineages : lineages[l] = anchor.root.lineages[l]

\* Attempt k may be appended to its lineage.
Appendable(k) ==
  LET l == res[k].lineage IN
  \/ res[k].pred = Nothing /\ lineages[l] = Nothing
  \/ /\ res[k].pred # Nothing /\ lineages[l] # Nothing
     /\ l \in anchor.list.lineages /\ Last(lineages[l]) = res[k].pred

\* A call that records holds the lock.
RecordingInv(w) ==
  /\ attempts[w.key] \in {Nothing, w.decision}
  /\ lock.read.attempts \subseteq anchor.list.attempts
  /\ lock.read.lineages \subseteq anchor.list.lineages
  /\ \A k \in lock.read.attempts : res[k].lineage \in lock.read.lineages
  /\ lock.at \in {"check", "attempt", "lineage"} => Rooted
  /\ lock.at = "check" /\ attempts[w.key] # Nothing => w.key \in catalog.attempts
  /\ lock.at = "attempt" => attempts[w.key] = Nothing
  /\ lock.at \in {"attempt", "lineage"} => Appendable(w.key)
  /\ lock.at = "lineage" => attempts[w.key] = w.decision
  /\ lock.at \in {"catalog", "anchor"} /\ lock.recorded =>
       attempts[w.key] = w.decision /\ w.key \in lock.list.attempts

HolderInv ==
  /\ lock = [by |-> lock.by, at |-> lock.at, read |-> lock.read, list |-> lock.list,
             todo |-> lock.todo, recorded |-> lock.recorded]
  /\ lock.by \in Services /\ lock.recorded \in BOOLEAN
  /\ lock.at \in {"catalog", "anchor", "check", "attempt", "lineage"}
  /\ lock.read \in Lists /\ lock.list \in Lists
  /\ lock.at # "catalog" => lock.todo = {}
  /\ lock.at = "anchor" => catalog = lock.list
  /\ lock.at \in {"catalog", "anchor"} => ListInv
  /\ \/ /\ work[lock.by].pc = "reconcile"
        /\ lock.at \in {"catalog", "anchor"} /\ ~lock.recorded
     \/ work[lock.by].pc = "recording" /\ RecordingInv(work[lock.by])

LockInv == lock # Nothing => HolderInv

\* Every answer that engineering may start is backed.
ToldInv ==
  \A t \in told : t[3] = "ENGINEERING_ADMITTED" =>
    /\ t[1] \in RetryKeys /\ Compiled(t[1], t[2])
    /\ t[1] \in anchor.list.attempts /\ attempts[t[1]].verdict = "ADMITTED"

AdmissionInv == IntakeInv /\ WorkInv /\ RecInv /\ FilesInv /\ AnchorInv /\ LockInv /\ ToldInv

-----------------------------------------------------------------------------
(* What no step of the admission undoes. *)

ReservationsKept ==
  \A k \in RetryKeys : res[k] # Nothing =>
    /\ res'[k] # Nothing /\ res'[k].pred = res[k].pred /\ res'[k].lineage = res[k].lineage
    /\ res[k].bound # Nothing => res'[k].bound = res[k].bound

LedgerKept ==
  \A k \in RetryKeys :
    /\ receipt[k] # Nothing => receipt'[k] # Nothing
    /\ deleted[k] # Nothing => deleted'[k] # Nothing
    /\ disp[k] # Nothing => disp'[k] = disp[k]

EvidenceKept == \A k \in RetryKeys : VerifiedCompilation(k) => VerifiedCompilation(k)'

IntakeKept == ReservationsKept /\ LedgerKept /\ EvidenceKept

\* A reservation is made, or changed in what may still change.
LEMMA ReservationUpdated ==
  ASSUME ReservationInv, NEW k \in RetryKeys, NEW r \in Reservations,
         r.pred = Nothing => r.lineage = k,
         res[k] # Nothing => /\ r.pred = res[k].pred /\ r.lineage = res[k].lineage
                             /\ res[k].bound # Nothing => r.bound = res[k].bound,
         res' = Updated(k, r)
  PROVE  ReservationInv' /\ ReservationsKept
<1>1. Nothing \notin Reservations
  BY RecordAssumption
<1>2. /\ res \in [RetryKeys -> Reservations \cup {Nothing}]
      /\ res' = [res EXCEPT ![k] = r]
  BY DEF ReservationInv, Updated
<1>3. \A j \in RetryKeys : res'[j] = IF j = k THEN r ELSE res[j]
  BY <1>2
<1>4. res' \in [RetryKeys -> Reservations \cup {Nothing}]
  BY <1>2
<1> QED BY <1>1, <1>3, <1>4 DEF ReservationInv, ReservationsKept

\* Some fields of a reservation on record change, and not the immutable ones.
LEMMA ReservationChanged ==
  ASSUME ReservationInv, NEW k \in RetryKeys, res[k] # Nothing, NEW r \in Reservations,
         r.pred = res[k].pred, r.lineage = res[k].lineage, r.bound = res[k].bound,
         res' = Updated(k, r)
  PROVE  ReservationInv' /\ ReservationsKept
<1>1. r.pred = Nothing => r.lineage = k
  BY DEF ReservationInv
<1> QED BY <1>1, ReservationUpdated

LEMMA ReservationFields ==
  ASSUME ReservationInv, NEW k \in RetryKeys, res[k] # Nothing
  PROVE  /\ res[k] \in Reservations
         /\ res[k] = [bound |-> res[k].bound, pred |-> res[k].pred, lineage |-> res[k].lineage,
                      corr |-> res[k].corr, recon |-> res[k].recon, pendR |-> res[k].pendR,
                      pendD |-> res[k].pendD]
         /\ res[k].bound \in Payloads \cup {Nothing} /\ res[k].lineage \in RetryKeys
         /\ res[k].pred \in RetryKeys \cup {Nothing}
<1>1. res[k] \in Reservations
  BY DEF ReservationInv
<1> QED BY <1>1 DEF Reservations

\* mark_reconciliation.
LEMMA MarkedKeeps ==
  ASSUME ReservationInv, NEW k \in RetryKeys, res[k] # Nothing, res' = Marked(k)
  PROVE  ReservationInv' /\ ReservationsKept
<1> DEFINE r == [res[k] EXCEPT !.recon = TRUE]
<1>1. r \in Reservations /\ r.pred = res[k].pred /\ r.lineage = res[k].lineage /\ r.bound = res[k].bound
  BY ReservationFields DEF Reservations
<1>2. res' = Updated(k, r)
  BY DEF Marked
<1> HIDE DEF r
<1> QED BY <1>1, <1>2, ReservationChanged

\* clear_reconciliation.
LEMMA ClearedKeeps ==
  ASSUME ReservationInv, NEW k \in RetryKeys, res[k] # Nothing, res' = Cleared(k)
  PROVE  ReservationInv' /\ ReservationsKept
<1> DEFINE r == [res[k] EXCEPT !.recon = FALSE, !.pendR = Nothing, !.pendD = Nothing]
<1>1. r \in Reservations /\ r.pred = res[k].pred /\ r.lineage = res[k].lineage /\ r.bound = res[k].bound
  BY ReservationFields DEF Reservations
<1>2. res' = Updated(k, r)
  BY DEF Cleared
<1> HIDE DEF r
<1> QED BY <1>1, <1>2, ReservationChanged

\* prepare_receipt and its end.
LEMMA PendingReceiptKeeps ==
  ASSUME ReservationInv, NEW k \in RetryKeys, res[k] # Nothing, NEW m \in Nat \cup {Nothing},
         res' = Updated(k, [res[k] EXCEPT !.pendR = m])
  PROVE  ReservationInv' /\ ReservationsKept
<1> DEFINE r == [res[k] EXCEPT !.pendR = m]
<1>1. r \in Reservations /\ r.pred = res[k].pred /\ r.lineage = res[k].lineage /\ r.bound = res[k].bound
  BY ReservationFields DEF Reservations
<1>2. res' = Updated(k, r)
  OBVIOUS
<1> HIDE DEF r
<1> QED BY <1>1, <1>2, ReservationChanged

\* prepare_disposition and its end.
LEMMA PendingDispositionKeeps ==
  ASSUME ReservationInv, NEW k \in RetryKeys, res[k] # Nothing,
         NEW d \in DispositionRecords \cup {Nothing}, NEW b \in BOOLEAN,
         \/ res' = Updated(k, [res[k] EXCEPT !.pendD = d])
         \/ res' = Updated(k, [res[k] EXCEPT !.pendD = d, !.recon = TRUE])
  PROVE  ReservationInv' /\ ReservationsKept
<1>1. CASE res' = Updated(k, [res[k] EXCEPT !.pendD = d])
  <2> DEFINE r == [res[k] EXCEPT !.pendD = d]
  <2>1. r \in Reservations /\ r.pred = res[k].pred /\ r.lineage = res[k].lineage /\ r.bound = res[k].bound
    BY ReservationFields DEF Reservations
  <2>2. res' = Updated(k, r)
    BY <1>1
  <2> HIDE DEF r
  <2> QED BY <2>1, <2>2, ReservationChanged
<1>2. CASE res' = Updated(k, [res[k] EXCEPT !.pendD = d, !.recon = TRUE])
  <2> DEFINE r == [res[k] EXCEPT !.pendD = d, !.recon = TRUE]
  <2>1. r \in Reservations /\ r.pred = res[k].pred /\ r.lineage = res[k].lineage /\ r.bound = res[k].bound
    BY ReservationFields DEF Reservations
  <2>2. res' = Updated(k, r)
    BY <1>2
  <2> HIDE DEF r
  <2> QED BY <2>1, <2>2, ReservationChanged
<1> QED BY <1>1, <1>2

LEMMA ReservationsSame ==
  ASSUME ReservationInv, UNCHANGED res
  PROVE  ReservationInv' /\ ReservationsKept
BY DEF ReservationInv, ReservationsKept

LEMMA LedgerSame ==
  ASSUME IntakeLedgerInv, UNCHANGED <<receipt, disp, deleted>>
  PROVE  IntakeLedgerInv' /\ LedgerKept
BY DEF IntakeLedgerInv, LedgerKept

LEMMA EvidenceSame ==
  ASSUME EvidenceInv, ReservationsKept, UNCHANGED evid
  PROVE  EvidenceInv' /\ EvidenceKept
BY DEF EvidenceInv, EvidenceKept, ReservationsKept, VerifiedCompilation, Complete, Attested

LEMMA CompiledKept ==
  ASSUME IntakeInv, IntakeKept, NEW k \in RetryKeys, NEW p, Compiled(k, p)
  PROVE  Compiled(k, p)'
<1>1. evid[k] # Nothing
  BY DEF Compiled, VerifiedCompilation, Complete
<1>2. res[k].bound # Nothing
  BY <1>1 DEF IntakeInv, EvidenceInv
<1>3. VerifiedCompilation(k)'
  BY DEF IntakeKept, EvidenceKept, Compiled
<1> QED BY <1>2, <1>3 DEF Compiled, IntakeKept, ReservationsKept, LedgerKept

\* A call that does not move keeps what it has made sure of.
LEMMA UnderWayKept ==
  ASSUME IntakeInv, IntakeKept, NEW w, UnderWay(w)
  PROVE  UnderWay(w)'
<1>1. w.key \in RetryKeys /\ res[w.key] # Nothing /\ w.payload \in Payloads /\ Nothing \notin Payloads
  BY AdmissionAssumption DEF UnderWay
<1>2. res'[w.key] # Nothing /\ (res[w.key].bound = w.payload => res'[w.key].bound = w.payload)
  BY <1>1 DEF IntakeKept, ReservationsKept
<1>3. Compiled(w.key, w.payload) => Compiled(w.key, w.payload)'
  BY <1>1, CompiledKept
<1> QED BY <1>2, <1>3 DEF UnderWay

LEMMA CallKept ==
  ASSUME IntakeInv, IntakeKept, NEW w, ProcessInv(w)
  PROVE  ProcessInv(w)'
BY UnderWayKept DEF ProcessInv

LEMMA RecKept ==
  ASSUME RecInv, ReservationsKept, UNCHANGED rec
  PROVE  RecInv'
BY DEF RecInv, ReservationsKept, RIdle

\* One call moves, the others stay.
LEMMA WorkMoved ==
  ASSUME IntakeInv, WorkInv, IntakeKept, NEW c \in Services, NEW w,
         work' = [work EXCEPT ![c] = w], ProcessInv(w)'
  PROVE  WorkInv'
<1>1. DOMAIN work' = Services /\ \A d \in Services : work'[d] = IF d = c THEN w ELSE work[d]
  BY DEF WorkInv
<1>2. ASSUME NEW d \in Services PROVE ProcessInv(work[d])'
  <2>1. PICK v : v = work[d]
    OBVIOUS
  <2>2. ProcessInv(v)'
    BY <2>1, CallKept DEF WorkInv
  <2> QED BY <1>1, <2>1, <2>2
<1> QED BY <1>1, <1>2 DEF WorkInv

LEMMA WorkSame ==
  ASSUME IntakeInv, WorkInv, IntakeKept, UNCHANGED work
  PROVE  WorkInv'
<1>1. ASSUME NEW d \in Services PROVE ProcessInv(work[d])'
  <2>1. PICK v : v = work[d]
    OBVIOUS
  <2>2. ProcessInv(v)'
    BY <2>1, CallKept DEF WorkInv
  <2> QED BY <2>1, <2>2
<1> QED BY <1>1 DEF WorkInv

-----------------------------------------------------------------------------
(* Steps that leave the validation store alone. *)

AttemptsKept == \A k \in RetryKeys : attempts[k] # Nothing => attempts'[k] = attempts[k]

LEMMA ChainKept ==
  ASSUME FilesInv, ReservationsKept, AttemptsKept, NEW s \in Seq(RetryKeys), NEW l, ChainOf(s, l)
  PROVE  ChainOf(s, l)'
<1>1. ASSUME NEW i \in DOMAIN s
      PROVE  /\ s[i] \in RetryKeys /\ attempts'[s[i]] # Nothing
             /\ res'[s[i]].lineage = res[s[i]].lineage /\ res'[s[i]].pred = res[s[i]].pred
  <2>1. s[i] \in RetryKeys /\ attempts[s[i]] # Nothing
    BY DEF ChainOf
  <2>2. res[s[i]] # Nothing
    BY <2>1 DEF FilesInv
  <2> QED BY <2>1, <2>2 DEF ReservationsKept, AttemptsKept
<1> QED BY <1>1 DEF ChainOf

LEMMA FilesKept ==
  ASSUME FilesInv, ReservationsKept, UNCHANGED <<attempts, lineages, catalog>>
  PROVE  FilesInv'
<1>1. AttemptsKept
  BY DEF AttemptsKept
<1>2. ASSUME NEW l \in RetryKeys, lineages[l] # Nothing PROVE ChainOf(lineages[l], l)'
  <2>1. PICK s : s = lineages[l]
    OBVIOUS
  <2>2. s \in Seq(RetryKeys) /\ ChainOf(s, l)
    BY <1>2, <2>1 DEF FilesInv
  <2>3. ChainOf(s, l)'
    BY <1>1, <2>2, ChainKept
  <2> QED BY <2>1, <2>3
<1> QED BY <1>2 DEF FilesInv, ReservationsKept

LEMMA AnchorKept ==
  ASSUME FilesInv, AnchorInv, ReservationsKept, AttemptsKept, UNCHANGED anchor
  PROVE  AnchorInv'
<1>1. ASSUME NEW l \in anchor.list.lineages PROVE ChainOf(anchor.root.lineages[l], l)'
  <2>1. PICK s : s = anchor.root.lineages[l]
    OBVIOUS
  <2>2. s \in Seq(RetryKeys) /\ ChainOf(s, l)
    BY <2>1 DEF AnchorInv
  <2>3. ChainOf(s, l)'
    BY <2>2, ChainKept
  <2> QED BY <2>1, <2>3
<1>2. ASSUME NEW k \in anchor.list.attempts
      PROVE  attempts'[k] # Nothing /\ res'[k].lineage = res[k].lineage
  <2>1. k \in RetryKeys /\ attempts[k] # Nothing
    BY DEF AnchorInv, Lists
  <2>2. res[k] # Nothing
    BY <2>1 DEF FilesInv
  <2> QED BY <2>1, <2>2 DEF ReservationsKept, AttemptsKept
<1> QED BY <1>1, <1>2 DEF AnchorInv

LEMMA ListKept ==
  ASSUME FilesInv, ReservationsKept, lock.list \in Lists, ListInv, UNCHANGED <<attempts, lineages, anchor, lock>>
  PROVE  ListInv'
<1>1. ASSUME NEW k \in RetryKeys, attempts[k] # Nothing PROVE res'[k].lineage = res[k].lineage
  BY <1>1 DEF FilesInv, ReservationsKept
<1>2. lock.list.attempts \subseteq RetryKeys
  BY DEF Lists
<1>3. \A k \in lock.list.attempts :
       /\ attempts[k] # Nothing /\ res'[k].lineage \in lock.list.lineages
       /\ res'[k].lineage \notin lock.todo => k \in ToSet(lineages[res'[k].lineage])
  BY <1>1, <1>2 DEF ListInv
<1>4. ~lock.recorded =>
       \A l \in lock.todo : \E k \in RetryKeys : attempts[k] # Nothing /\ res'[k].lineage = l
  BY <1>1 DEF ListInv
<1> QED BY <1>3, <1>4 DEF ListInv

LEMMA RecordingKept ==
  ASSUME FilesInv, AnchorInv, ReservationsKept, NEW w, w.key \in RetryKeys, res[w.key] # Nothing,
         lock.read \in Lists, RecordingInv(w), UNCHANGED evidenceVars
  PROVE  RecordingInv(w)'
<1>1. res'[w.key].lineage = res[w.key].lineage /\ res'[w.key].pred = res[w.key].pred
  BY DEF ReservationsKept
<1>2. ASSUME NEW k \in lock.read.attempts PROVE res'[k].lineage = res[k].lineage
  <2>1. k \in RetryKeys /\ attempts[k] # Nothing
    BY DEF RecordingInv, AnchorInv, Lists
  <2> QED BY <2>1 DEF FilesInv, ReservationsKept
<1>3. /\ Rooted => Rooted'
      /\ Appendable(w.key) => Appendable(w.key)'
  BY <1>1 DEF Rooted, Appendable, evidenceVars
<1> QED BY <1>2, <1>3 DEF RecordingInv, evidenceVars

\* The validation store, when a step of the intake leaves it alone.
LEMMA ValidationStoreKept ==
  ASSUME IntakeInv, WorkInv, FilesInv, AnchorInv, LockInv, ReservationsKept, UNCHANGED evidenceVars,
         lock # Nothing => work'[lock.by] = work[lock.by]
  PROVE  FilesInv' /\ AnchorInv' /\ LockInv'
<1>1. UNCHANGED <<attempts, lineages, catalog, anchor, lock>>
  BY DEF evidenceVars
<1>2. AttemptsKept
  BY <1>1 DEF AttemptsKept
<1>3. ASSUME lock # Nothing PROVE HolderInv'
  <2>1. HolderInv /\ work'[lock.by] = work[lock.by]
    BY <1>3 DEF LockInv
  <2>2. lock.at \in {"catalog", "anchor"} => ListInv'
    BY <1>1, <2>1, ListKept DEF HolderInv
  <2>3. ASSUME work[lock.by].pc = "recording", RecordingInv(work[lock.by]) PROVE RecordingInv(work[lock.by])'
    <3>1. PICK w : w = work[lock.by]
      OBVIOUS
    <3>2. ProcessInv(w)
      BY <2>1, <3>1 DEF HolderInv, WorkInv
    <3>3. UnderWay(w)
      BY <2>3, <3>1, <3>2 DEF ProcessInv, Resting, Reconciling
    <3>4. RecordingInv(w)'
      BY <2>1, <2>3, <3>1, <3>3, RecordingKept DEF UnderWay, HolderInv
    <3> QED BY <1>1, <2>1, <3>1, <3>4
  <2> QED BY <1>1, <2>1, <2>2, <2>3 DEF HolderInv
<1> QED BY <1>1, <1>2, <1>3, FilesKept, AnchorKept DEF LockInv

\* No new answer is that engineering may start.
Quiet == \A t \in told' : t \in told \/ t[3] # "ENGINEERING_ADMITTED"

LEMMA ToldKept ==
  ASSUME IntakeInv, IntakeKept, AnchorInv, ToldInv, Quiet, AttemptsKept,
         anchor.list.attempts \subseteq anchor'.list.attempts
  PROVE  ToldInv'
<1>1. ASSUME NEW t \in told', t[3] = "ENGINEERING_ADMITTED"
      PROVE  /\ t[1] \in RetryKeys /\ Compiled(t[1], t[2])'
             /\ t[1] \in anchor'.list.attempts /\ attempts'[t[1]].verdict = "ADMITTED"
  <2>1. /\ t[1] \in RetryKeys /\ Compiled(t[1], t[2])
        /\ t[1] \in anchor.list.attempts /\ attempts[t[1]].verdict = "ADMITTED"
    BY <1>1 DEF Quiet, ToldInv
  <2>2. Compiled(t[1], t[2])'
    BY <2>1, CompiledKept
  <2>3. attempts'[t[1]] = attempts[t[1]]
    BY <2>1 DEF AnchorInv, AttemptsKept
  <2> QED BY <2>1, <2>2, <2>3
<1> QED BY <1>1 DEF ToldInv

Outside(c) == work[c].pc \notin {"reconcile", "recording"}

\* A call moves on or is over, and the validation store is not concerned.
LEMMA CallMoves ==
  ASSUME AdmissionInv, IntakeInv', IntakeKept, RecInv', UNCHANGED evidenceVars,
         NEW c \in Services, Outside(c), NEW w, Goto(c, w), ProcessInv(w)', Quiet
  PROVE  AdmissionInv'
<1>1. WorkInv'
  BY WorkMoved DEF AdmissionInv, Goto
<1>2. lock # Nothing => work'[lock.by] = work[lock.by]
  <2>1. ASSUME lock # Nothing PROVE lock.by \in Services /\ lock.by # c
    BY <2>1 DEF AdmissionInv, LockInv, HolderInv, Outside
  <2> QED BY <2>1 DEF AdmissionInv, WorkInv, Goto
<1>3. FilesInv' /\ AnchorInv' /\ LockInv'
  BY <1>2, ValidationStoreKept DEF AdmissionInv, IntakeKept
<1>4. ToldInv'
  BY ToldKept DEF AdmissionInv, AttemptsKept, evidenceVars
<1> QED BY <1>1, <1>3, <1>4 DEF AdmissionInv

\* The call is over.
LEMMA CallAnswered ==
  ASSUME AdmissionInv, IntakeInv', IntakeKept, RecInv', UNCHANGED evidenceVars,
         NEW c \in Services, Outside(c), NEW s, s # "ENGINEERING_ADMITTED", Answer(c, s)
  PROVE  AdmissionInv'
<1>1. Goto(c, Resting(TRUE)) /\ Quiet
  <2>1. \A t \in told' : t \in told \/ t = <<Key(c), work[c].payload, s>>
    BY DEF Answer
  <2>2. <<Key(c), work[c].payload, s>>[3] = s
    OBVIOUS
  <2> QED BY <2>1, <2>2 DEF Answer, Quiet
<1>2. ProcessInv(Resting(TRUE))'
  BY DEF ProcessInv
<1>3. PICK w : w = Resting(TRUE)
  OBVIOUS
<1> QED BY <1>1, <1>2, <1>3, CallMoves

\* Its process died.
LEMMA CallDies ==
  ASSUME AdmissionInv, IntakeInv', IntakeKept, RecInv', UNCHANGED evidenceVars,
         NEW c \in Services, Outside(c), Goto(c, Resting(FALSE)), UNCHANGED told
  PROVE  AdmissionInv'
<1>1. Quiet
  BY DEF Quiet
<1>2. ProcessInv(Resting(FALSE))'
  BY DEF ProcessInv
<1>3. PICK w : w = Resting(FALSE)
  OBVIOUS
<1> QED BY <1>1, <1>2, <1>3, CallMoves

\* The reconciler moves, or nobody does.
LEMMA RecMoves ==
  ASSUME AdmissionInv, IntakeInv', IntakeKept, RecInv', UNCHANGED <<evidenceVars, work, told>>
  PROVE  AdmissionInv'
<1>1. WorkInv'
  BY WorkSame DEF AdmissionInv
<1>2. FilesInv' /\ AnchorInv' /\ LockInv'
  BY ValidationStoreKept DEF AdmissionInv, IntakeKept
<1>3. ToldInv'
  BY ToldKept DEF AdmissionInv, AttemptsKept, evidenceVars, Quiet
<1> QED BY <1>1, <1>2, <1>3 DEF AdmissionInv

\* A call that is at a step of its own holds what a call holds.
LEMMA CallAt ==
  ASSUME AdmissionInv, NEW c \in Services, NEW pc \in CallSteps, InStep(c, pc)
  PROVE  UnderWay(work[c]) /\ work[c].pc = pc
BY DEF AdmissionInv, WorkInv, ProcessInv, InStep, Resting, Reconciling, CallSteps

-----------------------------------------------------------------------------
(* One lemma per step of a call, up to the durable disposition. *)

LEMMA ReserveStep ==
  ASSUME AdmissionInv, NEW c \in Services, NEW k \in RetryKeys, NEW p \in Payloads,
         NEW pred \in RetryKeys \cup {Nothing}, Reserve(c, k, p, pred)
  PROVE  AdmissionInv'
<1>1. PICK r : r = IF Reserved(k) THEN res[k] ELSE NewReservation(k, pred)
  OBVIOUS
<1>2. PICK w : w = [pc |-> "examine", key |-> k, payload |-> p, id |-> calls + 1,
                    snap |-> r, exist |-> Nothing, mine |-> Nothing, want |-> Nothing,
                    decision |-> Nothing]
  OBVIOUS
<1>3. /\ res' = Updated(k, r) /\ Goto(c, w) /\ calls' = calls + 1
      /\ UNCHANGED <<receipt, disp, deleted, quar, evid, evidenceVars, rec, faults, told>>
      /\ work[c] = Resting(TRUE)
  BY <1>1, <1>2 DEF Reserve, Available
<1>4. ReservationInv /\ IntakeLedgerInv /\ EvidenceInv /\ calls \in Nat /\ RecInv
  BY DEF AdmissionInv, IntakeInv
<1>5. /\ r \in Reservations /\ (r.pred = Nothing => r.lineage = k)
      /\ res[k] # Nothing => r = res[k]
  <2>1. CASE res[k] # Nothing
    BY <1>1, <1>4, <2>1, ReservationFields DEF Reserved, ReservationInv
  <2>2. CASE res[k] = Nothing
    <3>1. r = NewReservation(k, pred)
      BY <1>1, <2>2 DEF Reserved
    <3>2. CorrectionState(pred) \in {"NONE", "INVALID", "VALID", "BLOCKED"}
      BY DEF CorrectionState
    <3>3. CorrectionState(pred) \notin {"NONE", "INVALID"} => pred \in RetryKeys /\ res[pred] # Nothing
      BY DEF CorrectionState, Reserved
    <3>4. CorrectionState(pred) \notin {"NONE", "INVALID"} => res[pred].lineage \in RetryKeys
      BY <1>4, <3>3, ReservationFields
    <3>5. pred = Nothing => CorrectionState(pred) = "NONE"
      BY DEF CorrectionState
    <3> HIDE DEF CorrectionState
    <3> QED BY <2>2, <3>1, <3>2, <3>4, <3>5 DEF NewReservation, Reservations
  <2> QED BY <2>1, <2>2
<1>6. ReservationInv' /\ ReservationsKept
  BY <1>3, <1>4, <1>5, ReservationUpdated
<1>7. IntakeLedgerInv' /\ LedgerKept /\ EvidenceInv' /\ EvidenceKept /\ RecInv'
  BY <1>3, <1>4, <1>6, LedgerSame, EvidenceSame, RecKept
<1>8. IntakeInv' /\ IntakeKept
  BY <1>3, <1>4, <1>6, <1>7 DEF IntakeInv, IntakeKept
<1>9. ProcessInv(w)'
  <2>1. res'[k] = r /\ r # Nothing
    BY <1>3, <1>4, <1>5, RecordAssumption DEF ReservationInv, Updated
  <2>2. calls + 1 \in Nat
    BY <1>4
  <2>3. UnderWay(w)'
    BY <1>2, <2>1, <2>2 DEF UnderWay, CallShape, CallSteps
  <2> QED BY <2>3 DEF ProcessInv
<1>10. Outside(c) /\ Quiet
  BY <1>3 DEF Outside, Quiet, Resting
<1> QED BY <1>3, <1>7, <1>8, <1>9, <1>10, CallMoves

\* What an action of call c that starts at step pc has to show.
LEMMA StepOutside ==
  ASSUME NEW c, NEW pc \in CallSteps \ {"recording"}, InStep(c, pc)
  PROVE  Outside(c)
BY DEF Outside, InStep, CallSteps

\* The intake is not changed at all.
LEMMA IntakeSame ==
  ASSUME AdmissionInv, UNCHANGED <<intakeVars, evid, rec, calls>>
  PROVE  IntakeInv' /\ IntakeKept /\ RecInv'
<1>1. UNCHANGED <<res, receipt, disp, deleted>>
  BY DEF intakeVars
<1>2. ReservationInv /\ IntakeLedgerInv /\ EvidenceInv /\ calls \in Nat /\ RecInv
  BY DEF AdmissionInv, IntakeInv
<1>3. ReservationInv' /\ ReservationsKept /\ IntakeLedgerInv' /\ LedgerKept
  BY <1>1, <1>2, ReservationsSame, LedgerSame
<1>4. EvidenceInv' /\ EvidenceKept /\ RecInv'
  BY <1>2, <1>3, EvidenceSame, RecKept
<1> QED BY <1>2, <1>3, <1>4 DEF IntakeInv, IntakeKept

\* Only the reservations are changed.
LEMMA IntakeReserved ==
  ASSUME AdmissionInv, ReservationInv', ReservationsKept,
         UNCHANGED <<receipt, disp, deleted, evid, rec, calls>>
  PROVE  IntakeInv' /\ IntakeKept /\ RecInv'
<1>1. IntakeLedgerInv /\ EvidenceInv /\ calls \in Nat /\ RecInv
  BY DEF AdmissionInv, IntakeInv
<1>2. IntakeLedgerInv' /\ LedgerKept /\ EvidenceInv' /\ EvidenceKept /\ RecInv'
  BY <1>1, LedgerSame, EvidenceSame, RecKept
<1> QED BY <1>1, <1>2 DEF IntakeInv, IntakeKept

LEMMA ExamineStep ==
  ASSUME AdmissionInv, NEW c \in Services, Examine(c)
  PROVE  AdmissionInv'
<1>1. PICK w : w = work[c]
  OBVIOUS
<1>2. InStep(c, "examine") /\ "examine" \in CallSteps /\ UNCHANGED <<receipt, disp, deleted, quar, evid, evidenceVars, rec, calls, faults>>
  BY DEF Examine, CallSteps
<1>3. UnderWay(w) /\ Outside(c) /\ w.key = Key(c)
  BY <1>1, <1>2, CallAt, StepOutside DEF Key
<1>4. CASE Answer(c, SecurityBlocked) /\ (UNCHANGED res \/ res' = Marked(Key(c)))
  <2>1. ReservationInv' /\ ReservationsKept
    BY <1>3, <1>4, ReservationsSame, MarkedKeeps DEF UnderWay, AdmissionInv, IntakeInv
  <2>2. IntakeInv' /\ IntakeKept /\ RecInv'
    BY <1>2, <2>1, IntakeReserved
  <2> QED BY <1>2, <1>3, <1>4, <2>2, CallAnswered DEF SecurityBlocked
<1>5. CASE /\ Goto(c, [Moved(c, "bind") EXCEPT !.exist = disp[Key(c)], !.snap = Nothing])
           /\ UNCHANGED <<res, told>>
  <2>1. PICK v : v = [w EXCEPT !.pc = "bind", !.exist = disp[w.key], !.snap = Nothing]
    OBVIOUS
  <2>2. Goto(c, v)
    BY <1>1, <1>5, <2>1 DEF Moved, Key
  <2>3. IntakeInv' /\ IntakeKept /\ RecInv'
    BY <1>2, <1>5, IntakeSame DEF intakeVars
  <2>4. UnderWay(w)'
    BY <1>3, <2>3, UnderWayKept DEF AdmissionInv
  <2>5. disp[w.key] \in DispositionRecords \cup {Nothing}
    BY <1>3 DEF AdmissionInv, IntakeInv, IntakeLedgerInv, UnderWay
  <2>6. UnderWay(v)'
    BY <2>1, <2>4, <2>5 DEF UnderWay, CallShape, CallSteps
  <2> QED BY <1>2, <1>3, <1>5, <2>2, <2>3, <2>6, CallMoves DEF ProcessInv, Quiet
<1> QED BY <1>4, <1>5 DEF Examine

\* Binding keeps a payload that is bound.
LEMMA BoundKeeps ==
  ASSUME ReservationInv, NEW k \in RetryKeys, res[k] # Nothing, NEW p \in Payloads, NEW r, r = Bound(res[k], p)
  PROVE  /\ r \in Reservations /\ r.pred = res[k].pred /\ r.lineage = res[k].lineage
         /\ res[k].bound # Nothing => r.bound = res[k].bound
         /\ [r EXCEPT !.recon = TRUE] \in Reservations
         /\ [r EXCEPT !.recon = TRUE].pred = res[k].pred
         /\ [r EXCEPT !.recon = TRUE].lineage = res[k].lineage
         /\ [r EXCEPT !.recon = TRUE].bound = r.bound
<1>1. r \in Reservations /\ r.pred = res[k].pred /\ r.lineage = res[k].lineage
      /\ (res[k].bound # Nothing => r.bound = res[k].bound)
  BY ReservationFields DEF Reservations, Bound
<1> QED BY <1>1 DEF Reservations

LEMMA BindStep ==
  ASSUME AdmissionInv, NEW c \in Services, Bind(c)
  PROVE  AdmissionInv'
<1>1. PICK w : w = work[c]
  OBVIOUS
<1>2. PICK k : k = w.key
  OBVIOUS
<1>3. InStep(c, "bind") /\ "bind" \in CallSteps /\ UNCHANGED <<receipt, disp, deleted, quar, evid, evidenceVars, rec, calls, faults>>
  BY DEF Bind, CallSteps
<1>4. UnderWay(w) /\ Outside(c) /\ k = Key(c) /\ w.pc = "bind"
  BY <1>1, <1>2, <1>3, CallAt, StepOutside DEF Key
<1>5. /\ k \in RetryKeys /\ res[k] # Nothing /\ w.payload \in Payloads /\ ReservationInv
      /\ w.exist \in DispositionRecords \cup {Nothing}
  BY <1>2, <1>4 DEF UnderWay, AdmissionInv, IntakeInv
<1>6. PICK r : r = Bound(res[k], w.payload)
  OBVIOUS
<1>7. /\ r \in Reservations /\ r.pred = res[k].pred /\ r.lineage = res[k].lineage
      /\ res[k].bound # Nothing => r.bound = res[k].bound
      /\ [r EXCEPT !.recon = TRUE] \in Reservations
      /\ [r EXCEPT !.recon = TRUE].pred = res[k].pred
      /\ [r EXCEPT !.recon = TRUE].lineage = res[k].lineage
      /\ [r EXCEPT !.recon = TRUE].bound = r.bound
  BY <1>5, <1>6, BoundKeeps
<1>8. res[k].pred = Nothing => res[k].lineage = k
  BY <1>5 DEF ReservationInv
<1>9. ASSUME UNCHANGED res \/ res' = Updated(k, r) \/ res' = Updated(k, [r EXCEPT !.recon = TRUE])
      PROVE  IntakeInv' /\ IntakeKept /\ RecInv'
  <2>1. CASE UNCHANGED res
    BY <1>3, <1>5, <2>1, ReservationsSame, IntakeReserved
  <2>2. CASE res' = Updated(k, r)
    BY <1>3, <1>5, <1>7, <1>8, <2>2, ReservationUpdated, IntakeReserved
  <2>3. CASE res' = Updated(k, [r EXCEPT !.recon = TRUE])
    <3>1. PICK q : q = [r EXCEPT !.recon = TRUE]
      OBVIOUS
    <3> QED BY <1>3, <1>5, <1>7, <1>8, <2>3, <3>1, ReservationUpdated, IntakeReserved
  <2> QED BY <1>9, <2>1, <2>2, <2>3
<1>10. CASE \E s \in {SecurityBlocked, "INTAKE_REJECTED"} :
              /\ Answer(c, s)
              /\ UNCHANGED res \/ res' = Updated(k, r) \/ res' = Updated(k, [r EXCEPT !.recon = TRUE])
  BY <1>3, <1>4, <1>9, <1>10, CallAnswered DEF SecurityBlocked
<1>11. CASE /\ r.bound = w.payload /\ w.exist # Nothing /\ receipt[k] # Nothing
            /\ Goto(c, [Moved(c, "replay") EXCEPT !.snap = Progress(r), !.want = "ADMITTED", !.mine = receipt[k]])
            /\ UNCHANGED told /\ res' = Updated(k, r)
  <2>1. PICK v : v = [w EXCEPT !.pc = "replay", !.snap = Progress(r), !.want = "ADMITTED", !.mine = receipt[k]]
    OBVIOUS
  <2>2. Goto(c, v)
    BY <1>1, <1>11, <2>1 DEF Moved
  <2>3. IntakeInv' /\ IntakeKept /\ RecInv'
    BY <1>9, <1>11
  <2>4. UnderWay(w)' /\ res'[k] = r
    BY <1>4, <1>5, <1>11, <2>3, UnderWayKept DEF AdmissionInv, ReservationInv, Updated
  <2>5. receipt[k] \in Nat
    BY <1>5, <1>11 DEF AdmissionInv, IntakeInv, IntakeLedgerInv
  <2>6. UnderWay(v)'
    BY <1>2, <1>5, <1>11, <2>1, <2>4, <2>5 DEF UnderWay, CallShape, CallSteps
  <2> QED BY <1>3, <1>4, <1>11, <2>2, <2>3, <2>6, CallMoves DEF ProcessInv, Quiet
<1>12. CASE /\ r.bound = w.payload
            /\ \E pc \in {"receipt", "store"} : Goto(c, Moved(c, pc))
            /\ UNCHANGED told /\ res' = Updated(k, r)
  <2>1. PICK pc \in {"receipt", "store"} : Goto(c, Moved(c, pc))
    BY <1>12
  <2>2. PICK v : v = [w EXCEPT !.pc = pc]
    OBVIOUS
  <2>3. Goto(c, v)
    BY <1>1, <2>1, <2>2 DEF Moved
  <2>4. IntakeInv' /\ IntakeKept /\ RecInv'
    BY <1>9, <1>12
  <2>5. UnderWay(w)' /\ res'[k] = r
    BY <1>4, <1>5, <1>12, <2>4, UnderWayKept DEF AdmissionInv, ReservationInv, Updated
  <2>6. UnderWay(v)'
    BY <1>2, <1>12, <2>2, <2>5 DEF UnderWay, CallShape, CallSteps
  <2> QED BY <1>3, <1>4, <1>12, <2>3, <2>4, <2>6, CallMoves DEF ProcessInv, Quiet
<1>13. \/ Answer(c, SecurityBlocked) /\ UNCHANGED res
       \/ /\ r.bound = w.payload /\ w.exist # Nothing /\ receipt[k] # Nothing
          /\ Replay(c, w.exist.status, r) /\ res' = Updated(k, r)
       \/ Answer(c, SecurityBlocked) /\ res' = Updated(k, [r EXCEPT !.recon = TRUE])
       \/ /\ r.bound = w.payload /\ UNCHANGED told /\ res' = Updated(k, r)
          /\ Goto(c, Moved(c, IF r.corr = "BLOCKED" THEN "receipt" ELSE "store"))
  BY <1>1, <1>4, <1>6 DEF Bind
<1>14. ASSUME Replay(c, w.exist.status, r)
       PROVE  \/ Answer(c, SecurityBlocked) \/ Answer(c, "INTAKE_REJECTED")
              \/ /\ Goto(c, [Moved(c, "replay") EXCEPT !.snap = Progress(r), !.want = "ADMITTED", !.mine = receipt[k]])
                 /\ UNCHANGED told
  BY <1>4, <1>14 DEF Replay
<1> QED BY <1>10, <1>11, <1>12, <1>13, <1>14

LEMMA CallGoesOn ==
  ASSUME AdmissionInv, IntakeInv', IntakeKept, RecInv', UNCHANGED <<evidenceVars, told>>,
         NEW c \in Services, Outside(c), NEW w, UnderWay(w), NEW v, Goto(c, v), UnderWay(w)' => UnderWay(v)'
  PROVE  AdmissionInv'
<1>1. UnderWay(v)'
  BY UnderWayKept DEF AdmissionInv
<1> QED BY <1>1, CallMoves DEF ProcessInv, Quiet

\* What is known at a step of a call.
LEMMA CallStands ==
  ASSUME AdmissionInv, NEW c \in Services, NEW pc \in CallSteps \ {"recording"}, InStep(c, pc)
  PROVE  /\ UnderWay(work[c]) /\ work[c].pc = pc /\ Outside(c) /\ CallShape(work[c])
         /\ Key(c) = work[c].key /\ Key(c) \in RetryKeys /\ res[Key(c)] # Nothing
         /\ work[c].payload \in Payloads /\ work[c].id \in Nat
         /\ ReservationInv /\ IntakeLedgerInv /\ EvidenceInv /\ calls \in Nat /\ RecInv
<1>1. UnderWay(work[c]) /\ work[c].pc = pc /\ Outside(c)
  BY CallAt, StepOutside
<1> QED BY <1>1 DEF UnderWay, Key, AdmissionInv, IntakeInv

LEMMA StoreStep ==
  ASSUME AdmissionInv, NEW c \in Services, Store(c)
  PROVE  AdmissionInv'
<1>1. PICK w : w = work[c]
  OBVIOUS
<1>2. /\ InStep(c, "store") /\ "store" \in CallSteps \ {"recording"} /\ Goto(c, Moved(c, "receipt"))
      /\ UNCHANGED <<res, receipt, disp, deleted, evid, evidenceVars, rec, calls, told>>
  BY DEF Store, CallSteps
<1>3. UnderWay(w) /\ w.pc = "store" /\ Outside(c) /\ ReservationInv
  BY <1>1, <1>2, CallStands
<1>4. IntakeInv' /\ IntakeKept /\ RecInv'
  BY <1>2, <1>3, ReservationsSame, IntakeReserved
<1>5. PICK v : v = [w EXCEPT !.pc = "receipt"]
  OBVIOUS
<1>6. Goto(c, v)
  BY <1>1, <1>2, <1>5 DEF Moved
<1>7. UnderWay(w)' => UnderWay(v)'
  BY <1>3, <1>5 DEF UnderWay, CallShape, CallSteps
<1> QED BY <1>2, <1>3, <1>4, <1>6, <1>7, CallGoesOn

LEMMA StoreFailsStep ==
  ASSUME AdmissionInv, NEW c \in Services, StoreFails(c)
  PROVE  AdmissionInv'
<1>1. /\ InStep(c, "store") /\ "store" \in CallSteps \ {"recording"} /\ Answer(c, SecurityBlocked)
      /\ res' = Marked(Key(c)) /\ UNCHANGED <<receipt, disp, deleted, evid, evidenceVars, rec, calls>>
  BY DEF StoreFails, CallSteps
<1>2. Key(c) \in RetryKeys /\ res[Key(c)] # Nothing /\ ReservationInv /\ Outside(c)
  BY <1>1, CallStands
<1>3. PICK k : k = Key(c)
  OBVIOUS
<1>4. ReservationInv' /\ ReservationsKept
  BY <1>1, <1>2, <1>3, MarkedKeeps
<1>5. IntakeInv' /\ IntakeKept /\ RecInv'
  BY <1>1, <1>4, IntakeReserved
<1> QED BY <1>1, <1>2, <1>5, CallAnswered DEF SecurityBlocked

LEMMA ReadReceiptStep ==
  ASSUME AdmissionInv, NEW c \in Services, ReadReceipt(c)
  PROVE  AdmissionInv'
<1>1. PICK w : w = work[c]
  OBVIOUS
<1>2. PICK v : v = [w EXCEPT !.pc = "prepare", !.mine = IF receipt[w.key] = Nothing THEN w.id ELSE receipt[w.key]]
  OBVIOUS
<1>3. /\ InStep(c, "receipt") /\ "receipt" \in CallSteps \ {"recording"} /\ Goto(c, v)
      /\ UNCHANGED <<intakeVars, evid, evidenceVars, rec, calls, told>>
  BY <1>1, <1>2 DEF ReadReceipt, CallSteps, Moved, Key
<1>4. UnderWay(w) /\ w.pc = "receipt" /\ Outside(c) /\ IntakeLedgerInv /\ w.key \in RetryKeys /\ w.id \in Nat
  BY <1>1, <1>3, CallStands
<1>5. IntakeInv' /\ IntakeKept /\ RecInv'
  BY <1>3, IntakeSame
<1>6. (IF receipt[w.key] = Nothing THEN w.id ELSE receipt[w.key]) \in Nat
  BY <1>4 DEF IntakeLedgerInv
<1>7. UnderWay(w)' => UnderWay(v)'
  BY <1>2, <1>4, <1>6 DEF UnderWay, CallShape, CallSteps
<1> QED BY <1>3, <1>4, <1>5, <1>7, CallGoesOn

\* Where a call goes once its receipt is durable.
LEMMA ReceivedGoesOn ==
  ASSUME AdmissionInv, IntakeInv', IntakeKept, RecInv', UNCHANGED <<evidenceVars, told>>,
         NEW c \in Services, Outside(c), UnderWay(work[c]), work[c].pc \in {"prepare", "finalize"}, Received(c)
  PROVE  AdmissionInv'
<1>1. PICK w : w = work[c]
  OBVIOUS
<1>2. UnderWay(w) /\ w.pc \in {"prepare", "finalize"}
  BY <1>1
<1>3. \/ \E x \in {"REJECTED", "SECURITY_BLOCKED"} : Goto(c, [w EXCEPT !.pc = "delete", !.want = x])
      \/ Goto(c, [w EXCEPT !.pc = "compile"])
  BY <1>1 DEF Received, Assessed, Moved
<1>4. ASSUME NEW x \in {"REJECTED", "SECURITY_BLOCKED"}, Goto(c, [w EXCEPT !.pc = "delete", !.want = x])
      PROVE  AdmissionInv'
  <2>1. PICK v : v = [w EXCEPT !.pc = "delete", !.want = x]
    OBVIOUS
  <2>2. UnderWay(w)' => UnderWay(v)'
    BY <1>2, <2>1 DEF UnderWay, CallShape, CallSteps, Verdicts
  <2> QED BY <1>2, <1>4, <2>1, <2>2, CallGoesOn
<1>5. ASSUME Goto(c, [w EXCEPT !.pc = "compile"]) PROVE AdmissionInv'
  <2>1. PICK v : v = [w EXCEPT !.pc = "compile"]
    OBVIOUS
  <2>2. UnderWay(w)' => UnderWay(v)'
    BY <1>2, <2>1 DEF UnderWay, CallShape, CallSteps
  <2> QED BY <1>2, <1>5, <2>1, <2>2, CallGoesOn
<1> QED BY <1>3, <1>4, <1>5

LEMMA PrepareReceiptStep ==
  ASSUME AdmissionInv, NEW c \in Services, PrepareReceipt(c)
  PROVE  AdmissionInv'
<1>1. PICK w : w = work[c]
  OBVIOUS
<1>2. /\ InStep(c, "prepare") /\ "prepare" \in CallSteps \ {"recording"}
      /\ UNCHANGED <<receipt, disp, deleted, quar, evid, evidenceVars, rec, calls, told>>
  BY DEF PrepareReceipt, CallSteps
<1>3. /\ UnderWay(w) /\ w.pc = "prepare" /\ Outside(c) /\ ReservationInv
      /\ w.key \in RetryKeys /\ res[w.key] # Nothing /\ w.key = Key(c)
  BY <1>1, <1>2, CallStands
<1>4. CASE Received(c) /\ UNCHANGED res
  <2>1. IntakeInv' /\ IntakeKept /\ RecInv'
    BY <1>2, <1>3, <1>4, ReservationsSame, IntakeReserved
  <2> QED BY <1>1, <1>2, <1>3, <1>4, <2>1, ReceivedGoesOn
<1>5. CASE Goto(c, Moved(c, "finalize")) /\ res' = Updated(w.key, [res[w.key] EXCEPT !.pendR = w.mine])
  <2>1. w.mine \in Nat
    BY <1>3 DEF UnderWay
  <2>2. ReservationInv' /\ ReservationsKept
    BY <1>3, <1>5, <2>1, PendingReceiptKeeps
  <2>3. IntakeInv' /\ IntakeKept /\ RecInv'
    BY <1>2, <2>2, IntakeReserved
  <2>4. PICK v : v = [w EXCEPT !.pc = "finalize"]
    OBVIOUS
  <2>5. Goto(c, v)
    BY <1>1, <1>5, <2>4 DEF Moved
  <2>6. UnderWay(w)' => UnderWay(v)'
    BY <1>3, <2>4 DEF UnderWay, CallShape, CallSteps
  <2> QED BY <1>2, <1>3, <2>3, <2>5, <2>6, CallGoesOn
<1> QED BY <1>1, <1>3, <1>4, <1>5 DEF PrepareReceipt

\* A receipt is added, or written again.
LEMMA ReceiptWritten ==
  ASSUME IntakeLedgerInv, NEW k \in RetryKeys, NEW m \in Nat, receipt' = [receipt EXCEPT ![k] = m], UNCHANGED <<disp, deleted>>
  PROVE  IntakeLedgerInv' /\ LedgerKept
<1>1. Nothing \notin Nat
  BY AdmissionAssumption
<1> QED BY <1>1 DEF IntakeLedgerInv, LedgerKept

LEMMA IntakeChanged ==
  ASSUME AdmissionInv, ReservationInv', ReservationsKept, IntakeLedgerInv', LedgerKept, UNCHANGED <<evid, calls>>
  PROVE  IntakeInv' /\ IntakeKept
<1>1. EvidenceInv /\ calls \in Nat
  BY DEF AdmissionInv, IntakeInv
<1>2. EvidenceInv' /\ EvidenceKept
  BY <1>1, EvidenceSame
<1> QED BY <1>1, <1>2 DEF IntakeInv, IntakeKept

LEMMA FinalizeReceiptStep ==
  ASSUME AdmissionInv, NEW c \in Services, FinalizeReceipt(c)
  PROVE  AdmissionInv'
<1>1. PICK w : w = work[c]
  OBVIOUS
<1>2. /\ InStep(c, "finalize") /\ "finalize" \in CallSteps \ {"recording"}
      /\ UNCHANGED <<disp, deleted, quar, evid, evidenceVars, rec, calls>>
  BY DEF FinalizeReceipt, CallSteps
<1>3. /\ UnderWay(w) /\ w.pc = "finalize" /\ Outside(c) /\ ReservationInv /\ IntakeLedgerInv /\ RecInv
      /\ w.key \in RetryKeys /\ res[w.key] # Nothing /\ w.key = Key(c)
  BY <1>1, <1>2, CallStands
<1>4. CASE /\ receipt' = [receipt EXCEPT ![w.key] = w.mine]
           /\ res' = Updated(w.key, [res[w.key] EXCEPT !.pendR = Nothing])
           /\ Received(c) /\ UNCHANGED told
  <2>1. w.mine \in Nat
    BY <1>3 DEF UnderWay
  <2>2. ReservationInv' /\ ReservationsKept
    BY <1>3, <1>4, PendingReceiptKeeps
  <2>3. IntakeLedgerInv' /\ LedgerKept
    BY <1>2, <1>3, <1>4, <2>1, ReceiptWritten
  <2>4. IntakeInv' /\ IntakeKept /\ RecInv'
    BY <1>2, <1>3, <2>2, <2>3, IntakeChanged, RecKept
  <2> QED BY <1>1, <1>2, <1>3, <1>4, <2>4, ReceivedGoesOn
<1>5. CASE res' = Marked(w.key) /\ Answer(c, SecurityBlocked) /\ UNCHANGED receipt
  <2>1. ReservationInv' /\ ReservationsKept
    BY <1>3, <1>5, MarkedKeeps
  <2>2. IntakeInv' /\ IntakeKept /\ RecInv'
    BY <1>2, <1>5, <2>1, IntakeReserved
  <2> QED BY <1>2, <1>3, <1>5, <2>2, CallAnswered DEF SecurityBlocked
<1> QED BY <1>1, <1>3, <1>4, <1>5 DEF FinalizeReceipt

LEMMA DieFinalizingReceiptStep ==
  ASSUME AdmissionInv, NEW c \in Services, DieFinalizingReceipt(c)
  PROVE  AdmissionInv'
<1>1. PICK w : w = work[c]
  OBVIOUS
<1>2. /\ InStep(c, "finalize") /\ "finalize" \in CallSteps \ {"recording"}
      /\ receipt' = [receipt EXCEPT ![w.key] = w.mine] /\ Goto(c, Resting(FALSE))
      /\ UNCHANGED <<res, disp, deleted, quar, evid, evidenceVars, rec, calls, told>>
  BY <1>1 DEF DieFinalizingReceipt, CallSteps, Key
<1>3. /\ UnderWay(w) /\ w.pc = "finalize" /\ Outside(c) /\ ReservationInv /\ IntakeLedgerInv /\ RecInv /\ w.key \in RetryKeys
  BY <1>1, <1>2, CallStands
<1>4. w.mine \in Nat
  BY <1>3 DEF UnderWay
<1>5. ReservationInv' /\ ReservationsKept /\ IntakeLedgerInv' /\ LedgerKept
  BY <1>2, <1>3, <1>4, ReceiptWritten, ReservationsSame
<1>6. IntakeInv' /\ IntakeKept /\ RecInv'
  BY <1>2, <1>3, <1>5, IntakeChanged, RecKept
<1> QED BY <1>2, <1>3, <1>6, CallDies

LEMMA CompileContractStep ==
  ASSUME AdmissionInv, NEW c \in Services, CompileContract(c)
  PROVE  AdmissionInv'
<1>1. PICK w : w = work[c]
  OBVIOUS
<1>2. /\ InStep(c, "compile") /\ "compile" \in CallSteps \ {"recording"}
      /\ UNCHANGED <<intakeVars, evid, evidenceVars, rec, calls, faults>>
  BY DEF CompileContract, CallSteps
<1>3. UnderWay(w) /\ w.pc = "compile" /\ Outside(c)
  BY <1>1, <1>2, CallStands
<1>4. IntakeInv' /\ IntakeKept /\ RecInv'
  BY <1>2, IntakeSame
<1>5. CASE Answer(c, "COMPILATION_SECURITY_BLOCKED")
  BY <1>2, <1>3, <1>4, <1>5, CallAnswered
<1>6. CASE UNCHANGED told /\ \E v \in {[w EXCEPT !.pc = "delete", !.want = "ADMITTED"], [w EXCEPT !.pc = "evidence"]} : Goto(c, v)
  <2>1. PICK v \in {[w EXCEPT !.pc = "delete", !.want = "ADMITTED"], [w EXCEPT !.pc = "evidence"]} : Goto(c, v)
    BY <1>6
  <2>2. UnderWay(w)' => UnderWay(v)'
    BY <1>3, <2>1 DEF UnderWay, CallShape, CallSteps, Verdicts
  <2> QED BY <1>2, <1>3, <1>4, <1>6, <2>1, <2>2, CallGoesOn
<1> QED BY <1>1, <1>5, <1>6 DEF CompileContract, Moved

\* Evidence that is complete stays so: another write of it is of the same kind.
LEMMA EvidenceWritten ==
  ASSUME EvidenceInv, ReservationsKept, NEW k \in RetryKeys, NEW p \in Payloads, res[k] # Nothing, res[k].bound = p,
         NEW n \in Nat, Complete(k) => n = AllFiles(EvidenceKind(p)),
         evid' = [evid EXCEPT ![k] = [kind |-> EvidenceKind(p), files |-> n]]
  PROVE  EvidenceInv' /\ EvidenceKept
<1>1. EvidenceKind(p) \in {"blocked", "compiled"} /\ Nothing \notin Payloads /\ Nothing \notin Evidence
  BY AdmissionAssumption, RecordAssumption DEF EvidenceKind
<1>2. PICK e : e = [kind |-> EvidenceKind(p), files |-> n]
  OBVIOUS
<1>3. e \in Evidence /\ e.kind = EvidenceKind(p) /\ e.files = n
  BY <1>1, <1>2 DEF Evidence
<1>4. evid' = [evid EXCEPT ![k] = e] /\ evid \in [RetryKeys -> Evidence \cup {Nothing}]
  BY <1>2 DEF EvidenceInv
<1>5. evid' \in [RetryKeys -> Evidence \cup {Nothing}] /\ \A j \in RetryKeys : evid'[j] = IF j = k THEN e ELSE evid[j]
  BY <1>3, <1>4
<1>6. res'[k] # Nothing /\ res'[k].bound = p /\ p # Nothing
  BY <1>1 DEF ReservationsKept
<1>7. EvidenceInv'
  BY <1>3, <1>5, <1>6 DEF EvidenceInv, ReservationsKept
<1>8. ASSUME VerifiedCompilation(k) PROVE VerifiedCompilation(k)'
  <2>1. evid[k].kind = EvidenceKind(p) /\ evid[k].kind = "compiled" /\ n = AllFiles(EvidenceKind(p))
    BY <1>8 DEF VerifiedCompilation, Complete, EvidenceInv
  <2>2. evid'[k] = e /\ e # Nothing
    BY <1>1, <1>3, <1>5
  <2> QED BY <1>3, <2>1, <2>2 DEF VerifiedCompilation, Complete, Attested
<1>9. ASSUME NEW j \in RetryKeys, j # k, VerifiedCompilation(j) PROVE VerifiedCompilation(j)'
  BY <1>5, <1>9 DEF VerifiedCompilation, Complete, Attested
<1> QED BY <1>7, <1>8, <1>9 DEF EvidenceKept

LEMMA WriteEvidenceStep ==
  ASSUME AdmissionInv, NEW c \in Services, WriteEvidence(c)
  PROVE  AdmissionInv'
<1>1. PICK w : w = work[c]
  OBVIOUS
<1>2. PICK v : v = [w EXCEPT !.pc = "delete", !.want = "ADMITTED"]
  OBVIOUS
<1>3. PICK n : n = AllFiles(EvidenceKind(w.payload))
  OBVIOUS
<1>4. /\ InStep(c, "evidence") /\ "evidence" \in CallSteps \ {"recording"} /\ Goto(c, v)
      /\ evid' = [evid EXCEPT ![w.key] = [kind |-> EvidenceKind(w.payload), files |-> n]]
      /\ UNCHANGED <<intakeVars, evidenceVars, rec, calls, faults, told>>
  BY <1>1, <1>2, <1>3 DEF WriteEvidence, CallSteps, Moved, Key
<1>5. /\ UnderWay(w) /\ w.pc = "evidence" /\ Outside(c) /\ w.key \in RetryKeys /\ w.payload \in Payloads
      /\ res[w.key] # Nothing /\ ReservationInv /\ IntakeLedgerInv /\ EvidenceInv /\ calls \in Nat /\ RecInv
  BY <1>1, <1>4, CallStands
<1>6. res[w.key].bound = w.payload
  BY <1>5 DEF UnderWay
<1>7. UNCHANGED <<res, receipt, disp, deleted>>
  BY <1>4 DEF intakeVars
<1>8. ReservationInv' /\ ReservationsKept /\ IntakeLedgerInv' /\ LedgerKept
  BY <1>5, <1>7, ReservationsSame, LedgerSame
<1>9. n \in Nat
  BY <1>3 DEF AllFiles
<1>10. EvidenceInv' /\ EvidenceKept /\ RecInv'
  BY <1>3, <1>4, <1>5, <1>6, <1>8, <1>9, EvidenceWritten, RecKept
<1>11. IntakeInv' /\ IntakeKept
  BY <1>4, <1>5, <1>8, <1>10 DEF IntakeInv, IntakeKept
<1>12. UnderWay(w)' => UnderWay(v)'
  BY <1>2, <1>5 DEF UnderWay, CallShape, CallSteps, Verdicts
<1> QED BY <1>4, <1>5, <1>10, <1>11, <1>12, CallGoesOn

LEMMA DieWritingEvidenceStep ==
  ASSUME AdmissionInv, NEW c \in Services, DieWritingEvidence(c)
  PROVE  AdmissionInv'
<1>1. PICK w : w = work[c]
  OBVIOUS
<1>2. PICK kind : kind = EvidenceKind(w.payload)
  OBVIOUS
<1>3. PICK had : had = IF evid[w.key] = Nothing THEN 0 ELSE evid[w.key].files
  OBVIOUS
<1>4. /\ InStep(c, "evidence") /\ "evidence" \in CallSteps \ {"recording"} /\ Goto(c, Resting(FALSE))
      /\ UNCHANGED <<intakeVars, evidenceVars, rec, calls, told>>
      /\ \E n \in had .. AllFiles(kind) - 1 :
           evid' = IF n = 0 THEN evid ELSE [evid EXCEPT ![w.key] = [kind |-> kind, files |-> n]]
  BY <1>1, <1>2, <1>3 DEF DieWritingEvidence, CallSteps, Key
<1>5. /\ UnderWay(w) /\ w.pc = "evidence" /\ Outside(c) /\ w.key \in RetryKeys /\ w.payload \in Payloads
      /\ res[w.key] # Nothing /\ ReservationInv /\ IntakeLedgerInv /\ EvidenceInv /\ calls \in Nat /\ RecInv
  BY <1>1, <1>4, CallStands
<1>6. res[w.key].bound = w.payload
  BY <1>5 DEF UnderWay
<1>7. UNCHANGED <<res, receipt, disp, deleted>>
  BY <1>4 DEF intakeVars
<1>8. ReservationInv' /\ ReservationsKept /\ IntakeLedgerInv' /\ LedgerKept
  BY <1>5, <1>7, ReservationsSame, LedgerSame
<1>9. PICK n \in had .. AllFiles(kind) - 1 :
        evid' = IF n = 0 THEN evid ELSE [evid EXCEPT ![w.key] = [kind |-> kind, files |-> n]]
  BY <1>4
<1>10. had \in Nat /\ AllFiles(kind) \in Nat
  BY <1>3, <1>5 DEF EvidenceInv, Evidence, AllFiles
<1>11. n \in Nat /\ had <= n /\ n < AllFiles(kind)
  BY <1>9, <1>10
<1>12. ~Complete(w.key)
  <2>1. SUFFICES ASSUME Complete(w.key) PROVE FALSE
    OBVIOUS
  <2>2. evid[w.key] # Nothing /\ evid[w.key].kind = kind /\ evid[w.key].files = AllFiles(evid[w.key].kind)
    BY <1>2, <1>5, <1>6, <2>1 DEF Complete, Attested, EvidenceInv
  <2>3. had = AllFiles(kind)
    BY <1>3, <2>2
  <2> QED BY <1>10, <1>11, <2>3
<1>13. EvidenceInv' /\ EvidenceKept
  <2>1. CASE n = 0
    BY <1>5, <1>8, <1>9, <2>1, EvidenceSame
  <2>2. CASE n # 0
    <3>1. evid' = [evid EXCEPT ![w.key] = [kind |-> EvidenceKind(w.payload), files |-> n]]
      BY <1>2, <1>9, <2>2
    <3> QED BY <1>5, <1>6, <1>8, <1>11, <1>12, <3>1, EvidenceWritten
  <2> QED BY <2>1, <2>2
<1>14. IntakeInv' /\ IntakeKept /\ RecInv'
  BY <1>4, <1>5, <1>8, <1>13, RecKept DEF IntakeInv, IntakeKept
<1> QED BY <1>4, <1>5, <1>14, CallDies

\* A failure on the way blocks the attempt.
LEMMA BlockedStep ==
  ASSUME AdmissionInv, NEW c \in Services, NEW pc \in CallSteps \ {"recording"}, InStep(c, pc), Blocked(c),
         UNCHANGED <<receipt, disp, deleted, evid, evidenceVars, rec, calls>>
  PROVE  AdmissionInv'
<1>1. PICK w : w = work[c]
  OBVIOUS
<1>2. /\ w.key = Key(c) /\ w.key \in RetryKeys /\ res[w.key] # Nothing /\ ReservationInv /\ Outside(c) /\ w.id \in Nat
  BY <1>1, CallStands
<1>3. PICK d : d = [status |-> "SECURITY_BLOCKED", by |-> w.id]
  OBVIOUS
<1>4. d \in DispositionRecords
  BY <1>2, <1>3 DEF DispositionRecords
<1>5. res' = Updated(w.key, [res[w.key] EXCEPT !.pendD = d, !.recon = TRUE]) /\ Answer(c, SecurityBlocked)
  BY <1>1, <1>2, <1>3 DEF Blocked
<1>6. ReservationInv' /\ ReservationsKept
  BY <1>2, <1>4, <1>5, PendingDispositionKeeps
<1>7. IntakeInv' /\ IntakeKept /\ RecInv'
  BY <1>6, IntakeReserved
<1> QED BY <1>2, <1>5, <1>7, CallAnswered DEF SecurityBlocked

LEMMA DeleteStep ==
  ASSUME AdmissionInv, NEW c \in Services, Delete(c)
  PROVE  AdmissionInv'
<1>1. PICK w : w = work[c]
  OBVIOUS
<1>2. /\ InStep(c, "delete") /\ "delete" \in CallSteps \ {"recording"}
      /\ UNCHANGED <<res, receipt, disp, deleted, evid, evidenceVars, rec, calls>>
  BY DEF Delete, CallSteps
<1>3. UnderWay(w) /\ w.pc = "delete" /\ Outside(c) /\ ReservationInv
  BY <1>1, <1>2, CallStands
<1>4. IntakeInv' /\ IntakeKept /\ RecInv'
  BY <1>2, <1>3, ReservationsSame, IntakeReserved
<1>5. CASE Answer(c, SecurityBlocked)
  BY <1>2, <1>3, <1>4, <1>5, CallAnswered DEF SecurityBlocked
<1>6. CASE Goto(c, Moved(c, "attest")) /\ UNCHANGED told
  <2>1. PICK v : v = [w EXCEPT !.pc = "attest"]
    OBVIOUS
  <2>2. Goto(c, v)
    BY <1>1, <1>6, <2>1 DEF Moved
  <2>3. UnderWay(w)' => UnderWay(v)'
    BY <1>3, <2>1 DEF UnderWay, CallShape, CallSteps
  <2> QED BY <1>2, <1>3, <1>4, <1>6, <2>2, <2>3, CallGoesOn
<1> QED BY <1>5, <1>6 DEF Delete

LEMMA DeleteFailsStep ==
  ASSUME AdmissionInv, NEW c \in Services, DeleteFails(c)
  PROVE  AdmissionInv'
<1>1. /\ InStep(c, "delete") /\ "delete" \in CallSteps \ {"recording"} /\ Blocked(c)
      /\ UNCHANGED <<receipt, disp, deleted, evid, evidenceVars, rec, calls>>
  BY DEF DeleteFails, CallSteps
<1> QED BY <1>1, BlockedStep

\* A deletion is attested.
LEMMA DeletionWritten ==
  ASSUME IntakeLedgerInv, NEW k \in RetryKeys, NEW m \in Nat, deleted' = [deleted EXCEPT ![k] = m], UNCHANGED <<disp, receipt>>
  PROVE  IntakeLedgerInv' /\ LedgerKept
<1>1. Nothing \notin Nat
  BY AdmissionAssumption
<1> QED BY <1>1 DEF IntakeLedgerInv, LedgerKept

LEMMA AttestStep ==
  ASSUME AdmissionInv, NEW c \in Services, Attest(c)
  PROVE  AdmissionInv'
<1>1. PICK w : w = work[c]
  OBVIOUS
<1>2. /\ InStep(c, "attest") /\ "attest" \in CallSteps \ {"recording"}
      /\ UNCHANGED <<receipt, disp, evid, evidenceVars, rec, calls>>
  BY DEF Attest, CallSteps
<1>3. /\ UnderWay(w) /\ w.pc = "attest" /\ Outside(c) /\ ReservationInv /\ IntakeLedgerInv /\ RecInv
      /\ w.key \in RetryKeys /\ w.id \in Nat /\ w.key = Key(c)
  BY <1>1, <1>2, CallStands
<1>4. CASE Blocked(c) /\ UNCHANGED deleted
  BY <1>2, <1>4, BlockedStep
<1>5. CASE /\ deleted' = [deleted EXCEPT ![w.key] = w.id]
           /\ Goto(c, Moved(c, "predisp")) /\ UNCHANGED <<res, told>>
  <2>1. ReservationInv' /\ ReservationsKept /\ IntakeLedgerInv' /\ LedgerKept
    BY <1>2, <1>3, <1>5, DeletionWritten, ReservationsSame
  <2>2. IntakeInv' /\ IntakeKept /\ RecInv'
    BY <1>2, <1>3, <2>1, IntakeChanged, RecKept
  <2>3. PICK v : v = [w EXCEPT !.pc = "predisp"]
    OBVIOUS
  <2>4. Goto(c, v)
    BY <1>1, <1>5, <2>3 DEF Moved
  <2>5. UnderWay(w)' => UnderWay(v)'
    BY <1>3, <2>3 DEF UnderWay, CallShape, CallSteps
  <2> QED BY <1>2, <1>3, <1>5, <2>2, <2>4, <2>5, CallGoesOn
<1> QED BY <1>1, <1>3, <1>4, <1>5 DEF Attest

LEMMA PrepareDispositionStep ==
  ASSUME AdmissionInv, NEW c \in Services, PrepareDisposition(c)
  PROVE  AdmissionInv'
<1>1. PICK w : w = work[c]
  OBVIOUS
<1>2. PICK d : d = [status |-> w.want, by |-> w.id]
  OBVIOUS
<1>3. PICK v : v = [w EXCEPT !.pc = "dispose"]
  OBVIOUS
<1>4. /\ InStep(c, "predisp") /\ "predisp" \in CallSteps \ {"recording"}
      /\ res' = Updated(w.key, [res[w.key] EXCEPT !.pendD = d]) /\ Goto(c, v)
      /\ UNCHANGED <<receipt, disp, deleted, evid, evidenceVars, rec, calls, told>>
  BY <1>1, <1>2, <1>3 DEF PrepareDisposition, CallSteps, Mine, Key, Moved
<1>5. /\ UnderWay(w) /\ w.pc = "predisp" /\ Outside(c) /\ ReservationInv
      /\ w.key \in RetryKeys /\ w.id \in Nat /\ res[w.key] # Nothing
  BY <1>1, <1>4, CallStands
<1>6. d \in DispositionRecords
  BY <1>2, <1>5 DEF UnderWay, Verdicts, DispositionRecords
<1>7. ReservationInv' /\ ReservationsKept
  BY <1>4, <1>5, <1>6, PendingDispositionKeeps
<1>8. IntakeInv' /\ IntakeKept /\ RecInv'
  BY <1>4, <1>7, IntakeReserved
<1>9. UnderWay(w)' => UnderWay(v)'
  BY <1>3, <1>5 DEF UnderWay, CallShape, CallSteps
<1> QED BY <1>4, <1>5, <1>8, <1>9, CallGoesOn

\* A terminal disposition is written where there is none.
LEMMA DispositionWritten ==
  ASSUME IntakeLedgerInv, NEW k \in RetryKeys, NEW d \in DispositionRecords, disp[k] \in {Nothing, d},
         disp' = [disp EXCEPT ![k] = d], UNCHANGED <<receipt, deleted>>
  PROVE  IntakeLedgerInv' /\ LedgerKept
BY DEF IntakeLedgerInv, LedgerKept

LEMMA WriteDispositionStep ==
  ASSUME AdmissionInv, NEW c \in Services, WriteDisposition(c)
  PROVE  AdmissionInv'
<1>1. PICK w : w = work[c]
  OBVIOUS
<1>2. PICK d : d = [status |-> w.want, by |-> w.id]
  OBVIOUS
<1>3. PICK r : r = [res[w.key] EXCEPT !.pendD = Nothing]
  OBVIOUS
<1>4. /\ InStep(c, "dispose") /\ "dispose" \in CallSteps \ {"recording"}
      /\ UNCHANGED <<receipt, deleted, evid, evidenceVars, rec, calls>>
  BY DEF WriteDisposition, CallSteps
<1>5. /\ UnderWay(w) /\ w.pc = "dispose" /\ Outside(c) /\ ReservationInv /\ IntakeLedgerInv /\ RecInv
      /\ w.key \in RetryKeys /\ w.id \in Nat /\ res[w.key] # Nothing /\ w.key = Key(c)
  BY <1>1, <1>4, CallStands
<1>6. d \in DispositionRecords
  BY <1>2, <1>5 DEF UnderWay, Verdicts, DispositionRecords
<1>7. CASE Blocked(c) /\ UNCHANGED disp
  BY <1>4, <1>7, BlockedStep
<1>8. CASE /\ disp[w.key] = Nothing /\ disp' = [disp EXCEPT ![w.key] = d]
           /\ res' = Updated(w.key, r) /\ Disposed(c, r)
  <2>1. ReservationInv' /\ ReservationsKept
    <3>1. Nothing \in DispositionRecords \cup {Nothing}
      OBVIOUS
    <3>2. res' = Updated(w.key, [res[w.key] EXCEPT !.pendD = Nothing])
      BY <1>3, <1>8
    <3> QED BY <1>5, <3>1, <3>2, PendingDispositionKeeps
  <2>2. IntakeLedgerInv' /\ LedgerKept
    BY <1>4, <1>5, <1>6, <1>8, DispositionWritten
  <2>3. IntakeInv' /\ IntakeKept /\ RecInv'
    BY <1>4, <1>5, <2>1, <2>2, IntakeChanged, RecKept
  <2>4. CASE \E s \in {"INTAKE_REJECTED", SecurityBlocked, "COMPILATION_BLOCKED"} : Answer(c, s)
    BY <1>4, <1>5, <2>3, <2>4, CallAnswered DEF SecurityBlocked
  <2>5. CASE Goto(c, [Moved(c, "admit") EXCEPT !.snap = Progress(r), !.exist = d]) /\ UNCHANGED told
    <3>1. PICK v : v = [w EXCEPT !.pc = "admit", !.snap = Progress(r), !.exist = d]
      OBVIOUS
    <3>2. Goto(c, v)
      BY <1>1, <2>5, <3>1 DEF Moved
    <3>3. UnderWay(w)' => UnderWay(v)'
      BY <1>5, <1>6, <3>1 DEF UnderWay, CallShape, CallSteps
    <3> QED BY <1>4, <1>5, <2>3, <2>5, <3>2, <3>3, CallGoesOn
  <2> QED BY <1>1, <1>2, <1>8, <2>4, <2>5 DEF Disposed, Mine
<1> QED BY <1>1, <1>2, <1>3, <1>5, <1>7, <1>8 DEF WriteDisposition, Terminal, Mine

LEMMA WriteDispositionFailsStep ==
  ASSUME AdmissionInv, NEW c \in Services, WriteDispositionFails(c)
  PROVE  AdmissionInv'
<1>1. /\ InStep(c, "dispose") /\ "dispose" \in CallSteps \ {"recording"} /\ Blocked(c)
      /\ UNCHANGED <<receipt, disp, deleted, evid, evidenceVars, rec, calls>>
  BY DEF WriteDispositionFails, CallSteps
<1> QED BY <1>1, BlockedStep

LEMMA DieWritingDispositionStep ==
  ASSUME AdmissionInv, NEW c \in Services, DieWritingDisposition(c)
  PROVE  AdmissionInv'
<1>1. PICK w : w = work[c]
  OBVIOUS
<1>2. PICK d : d = [status |-> w.want, by |-> w.id]
  OBVIOUS
<1>3. /\ InStep(c, "dispose") /\ "dispose" \in CallSteps \ {"recording"} /\ Goto(c, Resting(FALSE))
      /\ disp[w.key] = Nothing /\ disp' = [disp EXCEPT ![w.key] = d]
      /\ UNCHANGED <<res, receipt, deleted, evid, evidenceVars, rec, calls, told>>
  BY <1>1, <1>2 DEF DieWritingDisposition, CallSteps, Mine, Key, Terminal
<1>4. /\ UnderWay(w) /\ w.pc = "dispose" /\ Outside(c) /\ ReservationInv /\ IntakeLedgerInv /\ RecInv
      /\ w.key \in RetryKeys /\ w.id \in Nat
  BY <1>1, <1>3, CallStands
<1>5. d \in DispositionRecords
  BY <1>2, <1>4 DEF UnderWay, Verdicts, DispositionRecords
<1>6. ReservationInv' /\ ReservationsKept /\ IntakeLedgerInv' /\ LedgerKept
  BY <1>3, <1>4, <1>5, DispositionWritten, ReservationsSame
<1>7. IntakeInv' /\ IntakeKept /\ RecInv'
  BY <1>3, <1>4, <1>6, IntakeChanged, RecKept
<1> QED BY <1>3, <1>4, <1>7, CallDies

LEMMA ReplayAdmittedStep ==
  ASSUME AdmissionInv, NEW c \in Services, ReplayAdmitted(c)
  PROVE  AdmissionInv'
<1>1. PICK w : w = work[c]
  OBVIOUS
<1>2. /\ InStep(c, "replay") /\ "replay" \in CallSteps \ {"recording"}
      /\ UNCHANGED <<intakeVars, evid, evidenceVars, rec, calls>>
  BY DEF ReplayAdmitted, CallSteps
<1>3. UnderWay(w) /\ w.pc = "replay" /\ Outside(c)
  BY <1>1, <1>2, CallStands
<1>4. IntakeInv' /\ IntakeKept /\ RecInv'
  BY <1>2, IntakeSame
<1>5. CASE Answer(c, "EVIDENCE_SECURITY_BLOCKED") \/ Answer(c, "COMPILATION_BLOCKED")
  BY <1>2, <1>3, <1>4, <1>5, CallAnswered
<1>6. CASE Goto(c, Moved(c, "admit")) /\ UNCHANGED told
  <2>1. PICK v : v = [w EXCEPT !.pc = "admit"]
    OBVIOUS
  <2>2. Goto(c, v)
    BY <1>1, <1>6, <2>1 DEF Moved
  <2>3. UnderWay(w)' => UnderWay(v)'
    BY <1>3, <2>1 DEF UnderWay, CallShape, CallSteps
  <2> QED BY <1>2, <1>3, <1>4, <1>6, <2>2, <2>3, CallGoesOn
<1> QED BY <1>5, <1>6 DEF ReplayAdmitted

\* The semantic admission rests on what is durable.
LEMMA SemanticAdmitStep ==
  ASSUME AdmissionInv, NEW c \in Services, Admit(c)
  PROVE  AdmissionInv'
<1>1. PICK w : w = work[c]
  OBVIOUS
<1>2. PICK k : k = w.key
  OBVIOUS
<1>3. PICK x : x = Decision(c)
  OBVIOUS
<1>4. /\ InStep(c, "admit") /\ "admit" \in CallSteps \ {"recording"}
      /\ UNCHANGED <<intakeVars, evid, evidenceVars, rec, calls>>
  BY DEF Admit, CallSteps
<1>5. /\ UnderWay(w) /\ w.pc = "admit" /\ Outside(c) /\ k = Key(c) /\ k \in RetryKeys /\ w.id \in Nat
      /\ res[k] # Nothing
  BY <1>1, <1>2, <1>4, CallStands
<1>6. IntakeInv' /\ IntakeKept /\ RecInv'
  BY <1>4, IntakeSame
<1>7. CASE Answer(c, Refusal)
  BY <1>4, <1>5, <1>6, <1>7, CallAnswered DEF Refusal
<1>8. CASE /\ VerifiedIntake(c) /\ VerifiedCompilation(k) /\ StoreIsSettled
           /\ Goto(c, [Moved(c, "record") EXCEPT !.decision = x]) /\ UNCHANGED told
  <2>1. Compiled(k, w.payload)
    <3>1. /\ w.exist \in DispositionRecords /\ w.mine \in Nat /\ res[k].bound = w.payload
      BY <1>2, <1>5 DEF UnderWay
    <3>2. disp[k] = w.exist /\ disp[k].status = "ADMITTED" /\ deleted[k] # Nothing /\ receipt[k] = w.mine
      BY <1>1, <1>5, <1>8 DEF VerifiedIntake
    <3>3. Nothing \notin DispositionRecords /\ Nothing \notin Nat
      BY AdmissionAssumption, RecordAssumption
    <3> QED BY <1>5, <1>8, <3>1, <3>2, <3>3 DEF Compiled
  <2>2. x \in DecisionRecords
    <3>1. k \in catalog.attempts => attempts[k] \in DecisionRecords
      BY <1>5, <1>8 DEF StoreIsSettled, AdmissionInv, AnchorInv, FilesInv
    <3>2. k \in catalog.attempts => attempts[k].by \in Nat
      BY <3>1 DEF DecisionRecords
    <3>3. Verdict(k, w.payload) \in {"ERROR", "PRODUCT_INPUT_REQUIRED", "ADMITTED"}
      BY DEF Verdict
    <3>4. x = [verdict |-> Verdict(k, w.payload), by |-> IF k \in catalog.attempts THEN attempts[k].by ELSE w.id]
      BY <1>1, <1>3, <1>5 DEF Decision
    <3> QED BY <1>5, <3>2, <3>3, <3>4 DEF DecisionRecords
  <2>3. PICK v : v = [w EXCEPT !.pc = "record", !.decision = x]
    OBVIOUS
  <2>4. Goto(c, v)
    BY <1>1, <1>8, <2>3 DEF Moved
  <2>5. Compiled(k, w.payload)'
    BY <1>5, <1>6, <2>1, CompiledKept DEF AdmissionInv
  <2>6. UnderWay(w)' => UnderWay(v)'
    BY <1>2, <1>5, <2>2, <2>3, <2>5 DEF UnderWay, CallShape, CallSteps
  <2> QED BY <1>4, <1>5, <1>6, <1>8, <2>4, <2>6, CallGoesOn
<1> QED BY <1>3, <1>5, <1>7, <1>8 DEF Admit

-----------------------------------------------------------------------------
(* The steps of the reconciler. *)

RecSteps == {"prepare", "finalize", "delete", "attest", "dispose", "finish"}

RecShape(r) ==
  r = [pc |-> r.pc, key |-> r.key, bound |-> r.bound, mine |-> r.mine, pendD |-> r.pendD,
       receipt |-> r.receipt, deleted |-> r.deleted, disp |-> r.disp]

\* The reconciler at work.
Reconciles(r) ==
  /\ RecShape(r) /\ r.pc \in RecSteps /\ r.key \in RetryKeys /\ res[r.key] # Nothing
  /\ r.mine \in Nat \cup {Nothing} /\ r.pendD \in DispositionRecords \cup {Nothing}
  /\ r.pc = "finalize" => r.mine \in Nat

LEMMA RecCases ==
  RecInv <=> (rec = RIdle \/ Reconciles(rec))
BY DEF RecInv, Reconciles, RecShape, RecSteps

LEMMA RecAt ==
  ASSUME AdmissionInv, NEW pc \in RecSteps, RStep(pc)
  PROVE  /\ Reconciles(rec) /\ rec.pc = pc /\ rec.key \in RetryKeys /\ res[rec.key] # Nothing
         /\ ReservationInv /\ IntakeLedgerInv
<1>1. rec # RIdle /\ rec.pc = pc
  BY DEF RStep, RIdle, RecSteps
<1>2. Reconciles(rec)
  BY <1>1, RecCases DEF AdmissionInv
<1> QED BY <1>1, <1>2 DEF Reconciles, AdmissionInv, IntakeInv

\* The reconciler goes on with the same attempt.
LEMMA RecGoesOn ==
  ASSUME AdmissionInv, ReservationInv', ReservationsKept, IntakeLedgerInv', LedgerKept,
         NEW r, rec' = r, r = RIdle \/ Reconciles(r)',
         UNCHANGED <<evid, calls, evidenceVars, work, told>>
  PROVE  AdmissionInv'
<1>1. IntakeInv' /\ IntakeKept
  BY IntakeChanged
<1>2. RecInv'
  <2>1. CASE r = RIdle
    BY <2>1 DEF RecInv, RIdle
  <2>2. CASE Reconciles(r)'
    BY <2>2 DEF RecInv, Reconciles, RecShape, RecSteps
  <2> QED BY <2>1, <2>2
<1> QED BY <1>1, <1>2, RecMoves

\* It gives the attempt up until it looks again.
LEMMA RFailStep ==
  ASSUME AdmissionInv, NEW pc \in RecSteps, RStep(pc), RFail,
         UNCHANGED <<receipt, disp, deleted, evid, calls, evidenceVars, work, told>>
  PROVE  AdmissionInv'
<1>1. PICK k : k = rec.key
  OBVIOUS
<1>2. k \in RetryKeys /\ res[k] # Nothing /\ ReservationInv /\ IntakeLedgerInv
  BY <1>1, RecAt
<1>3. res' = Marked(k) /\ rec' = RIdle
  BY <1>1 DEF RFail
<1>4. ReservationInv' /\ ReservationsKept /\ IntakeLedgerInv' /\ LedgerKept
  BY <1>2, <1>3, MarkedKeeps, LedgerSame
<1>5. PICK r : r = RIdle
  OBVIOUS
<1> QED BY <1>3, <1>4, <1>5, RecGoesOn

\* What the reconciler holds stays good when it goes to its next step.
LEMMA RecNext ==
  ASSUME NEW r, Reconciles(r), ReservationsKept, NEW pc \in RecSteps \ {"finalize"}
  PROVE  Reconciles([r EXCEPT !.pc = pc])'
<1>1. PICK q : q = [r EXCEPT !.pc = pc]
  OBVIOUS
<1>2. Reconciles(q)'
  BY <1>1 DEF Reconciles, RecShape, RecSteps, ReservationsKept
<1> QED BY <1>1, <1>2

LEMMA ReconcileStep ==
  ASSUME AdmissionInv, NEW k \in RetryKeys, Reconcile(k)
  PROVE  AdmissionInv'
<1>1. /\ rec = RIdle /\ res[k] # Nothing
      /\ UNCHANGED <<receipt, disp, deleted, quar, evid, evidenceVars, work, calls, told>>
  BY DEF Reconcile, Reserved
<1>2. ReservationInv /\ IntakeLedgerInv
  BY DEF AdmissionInv, IntakeInv
<1>3. IntakeLedgerInv' /\ LedgerKept
  BY <1>1, <1>2, LedgerSame
<1>4. CASE res' = Cleared(k) /\ UNCHANGED rec
  <2>1. ReservationInv' /\ ReservationsKept
    BY <1>1, <1>2, <1>4, ClearedKeeps
  <2>2. PICK r : r = RIdle
    OBVIOUS
  <2>3. rec' = r
    BY <1>1, <1>4, <2>2
  <2> QED BY <1>1, <1>3, <2>1, <2>2, <2>3, RecGoesOn
<1>5. CASE /\ rec' = [pc |-> "prepare", key |-> k, bound |-> res[k].bound,
                      mine |-> res[k].pendR, pendD |-> res[k].pendD,
                      receipt |-> receipt[k] # Nothing, deleted |-> deleted[k] # Nothing,
                      disp |-> Terminal(k)]
           /\ UNCHANGED res
  <2>1. ReservationInv' /\ ReservationsKept
    BY <1>2, <1>5, ReservationsSame
  <2>2. PICK r : r = [pc |-> "prepare", key |-> k, bound |-> res[k].bound,
                      mine |-> res[k].pendR, pendD |-> res[k].pendD,
                      receipt |-> receipt[k] # Nothing, deleted |-> deleted[k] # Nothing,
                      disp |-> Terminal(k)]
    OBVIOUS
  <2>3. res[k].pendR \in Nat \cup {Nothing} /\ res[k].pendD \in DispositionRecords \cup {Nothing}
    BY <1>1, <1>2, ReservationFields DEF Reservations
  <2>4. RecShape(r) /\ r.pc = "prepare" /\ r.key = k /\ r.mine = res[k].pendR /\ r.pendD = res[k].pendD
    BY <2>2, Zenon DEF RecShape
  <2>5. Reconciles(r)'
    BY <1>1, <1>5, <2>3, <2>4 DEF Reconciles, RecSteps, RecShape
  <2> QED BY <1>1, <1>3, <1>5, <2>1, <2>2, <2>5, RecGoesOn
<1> QED BY <1>4, <1>5 DEF Reconcile

LEMMA RPrepareStep ==
  ASSUME AdmissionInv, RPrepare
  PROVE  AdmissionInv'
<1>1. PICK r : r = rec
  OBVIOUS
<1>2. /\ RStep("prepare") /\ "prepare" \in RecSteps
      /\ UNCHANGED <<receipt, disp, deleted, quar, evid, evidenceVars, work, calls, told>>
  BY DEF RPrepare, RecSteps
<1>3. /\ Reconciles(r) /\ r.key \in RetryKeys /\ res[r.key] # Nothing /\ ReservationInv /\ IntakeLedgerInv
  BY <1>1, <1>2, RecAt
<1>4. IntakeLedgerInv' /\ LedgerKept
  BY <1>2, <1>3, LedgerSame
<1>5. CASE RGoto("delete") /\ UNCHANGED res
  <2>1. ReservationInv' /\ ReservationsKept
    BY <1>3, <1>5, ReservationsSame
  <2>2. PICK q : q = [r EXCEPT !.pc = "delete"]
    OBVIOUS
  <2>3. rec' = q /\ Reconciles(q)'
    BY <1>1, <1>3, <1>5, <2>1, <2>2, RecNext DEF RGoto, RecSteps
  <2> QED BY <1>2, <1>4, <2>1, <2>3, RecGoesOn
<1>6. CASE r.mine # Nothing /\ RGoto("finalize") /\ UNCHANGED res
  <2>1. ReservationInv' /\ ReservationsKept
    BY <1>3, <1>6, ReservationsSame
  <2>2. PICK q : q = [r EXCEPT !.pc = "finalize"]
    OBVIOUS
  <2>3. rec' = q
    BY <1>1, <1>6, <2>2 DEF RGoto
  <2>4. Reconciles(q)'
    BY <1>3, <1>6, <2>2 DEF Reconciles, RecShape, RecSteps
  <2> QED BY <1>2, <1>4, <2>1, <2>3, <2>4, RecGoesOn
<1>7. CASE /\ rec' = [rec EXCEPT !.pc = "finalize", !.mine = Reconciler]
           /\ res' = Updated(r.key, [res[r.key] EXCEPT !.pendR = Reconciler])
  <2>1. Reconciler \in Nat
    BY DEF Reconciler
  <2>2. ReservationInv' /\ ReservationsKept
    BY <1>3, <1>7, <2>1, PendingReceiptKeeps
  <2>3. PICK q : q = [r EXCEPT !.pc = "finalize", !.mine = Reconciler]
    OBVIOUS
  <2>4. rec' = q
    BY <1>1, <1>7, <2>3
  <2>5. Reconciles(q)'
    BY <1>3, <2>1, <2>2, <2>3 DEF Reconciles, RecShape, RecSteps, ReservationsKept
  <2> QED BY <1>2, <1>4, <2>2, <2>4, <2>5, RecGoesOn
<1> QED BY <1>1, <1>5, <1>6, <1>7 DEF RPrepare

LEMMA RFinalizeStep ==
  ASSUME AdmissionInv, RFinalize
  PROVE  AdmissionInv'
<1>1. PICK r : r = rec
  OBVIOUS
<1>2. /\ RStep("finalize") /\ "finalize" \in RecSteps
      /\ UNCHANGED <<disp, deleted, quar, evid, evidenceVars, work, calls, told>>
  BY DEF RFinalize, RecSteps
<1>3. /\ Reconciles(r) /\ r.key \in RetryKeys /\ res[r.key] # Nothing /\ ReservationInv /\ IntakeLedgerInv /\ r.pc = "finalize"
  BY <1>1, <1>2, RecAt
<1>4. CASE /\ receipt' = [receipt EXCEPT ![r.key] = r.mine]
           /\ res' = Updated(r.key, [res[r.key] EXCEPT !.pendR = Nothing])
           /\ RGoto("delete")
  <2>1. r.mine \in Nat
    BY <1>3 DEF Reconciles
  <2>2. ReservationInv' /\ ReservationsKept
    BY <1>3, <1>4, PendingReceiptKeeps
  <2>3. IntakeLedgerInv' /\ LedgerKept
    BY <1>2, <1>3, <1>4, <2>1, ReceiptWritten
  <2>4. PICK q : q = [r EXCEPT !.pc = "delete"]
    OBVIOUS
  <2>5. rec' = q /\ Reconciles(q)'
    BY <1>1, <1>3, <1>4, <2>2, <2>4, RecNext DEF RGoto, RecSteps
  <2> QED BY <1>2, <2>2, <2>3, <2>5, RecGoesOn
<1>5. CASE RFail /\ UNCHANGED receipt
  BY <1>2, <1>5, RFailStep
<1> QED BY <1>1, <1>4, <1>5 DEF RFinalize

LEMMA RDeleteStep ==
  ASSUME AdmissionInv, RDelete
  PROVE  AdmissionInv'
<1>1. PICK q : q = [rec EXCEPT !.pc = "attest"]
  OBVIOUS
<1>2. /\ RStep("delete") /\ "delete" \in RecSteps /\ rec' = q
      /\ UNCHANGED <<res, receipt, disp, deleted, evid, evidenceVars, work, calls, told>>
  BY <1>1 DEF RDelete, RecSteps, RGoto
<1>3. Reconciles(rec) /\ ReservationInv /\ IntakeLedgerInv
  BY <1>2, RecAt
<1>4. ReservationInv' /\ ReservationsKept /\ IntakeLedgerInv' /\ LedgerKept
  BY <1>2, <1>3, ReservationsSame, LedgerSame
<1>5. PICK r : r = rec
  OBVIOUS
<1>6. Reconciles(q)'
  BY <1>1, <1>3, <1>4, <1>5, RecNext DEF RecSteps
<1> QED BY <1>2, <1>4, <1>6, RecGoesOn

LEMMA RDeleteFailsStep ==
  ASSUME AdmissionInv, RDeleteFails
  PROVE  AdmissionInv'
<1>1. /\ RStep("delete") /\ "delete" \in RecSteps /\ RFail
      /\ UNCHANGED <<receipt, disp, deleted, evid, calls, evidenceVars, work, told>>
  BY DEF RDeleteFails, RecSteps
<1> QED BY <1>1, RFailStep

LEMMA RAttestStep ==
  ASSUME AdmissionInv, RAttest
  PROVE  AdmissionInv'
<1>1. PICK r : r = rec
  OBVIOUS
<1>2. /\ RStep("attest") /\ "attest" \in RecSteps
      /\ UNCHANGED <<receipt, disp, quar, evid, evidenceVars, work, calls, told>>
  BY DEF RAttest, RecSteps
<1>3. Reconciles(r) /\ r.key \in RetryKeys /\ ReservationInv /\ IntakeLedgerInv
  BY <1>1, <1>2, RecAt
<1>4. CASE RFail /\ UNCHANGED deleted
  BY <1>2, <1>4, RFailStep
<1>5. CASE /\ RGoto("dispose") /\ UNCHANGED res
           /\ UNCHANGED deleted \/ deleted' = [deleted EXCEPT ![r.key] = Reconciler]
  <2>1. ReservationInv' /\ ReservationsKept
    BY <1>3, <1>5, ReservationsSame
  <2>2. Reconciler \in Nat
    BY DEF Reconciler
  <2>3. IntakeLedgerInv' /\ LedgerKept
    BY <1>2, <1>3, <1>5, <2>2, LedgerSame, DeletionWritten
  <2>4. PICK q : q = [r EXCEPT !.pc = "dispose"]
    OBVIOUS
  <2>5. rec' = q /\ Reconciles(q)'
    BY <1>1, <1>3, <1>5, <2>1, <2>4, RecNext DEF RGoto, RecSteps
  <2> QED BY <1>2, <2>1, <2>3, <2>5, RecGoesOn
<1> QED BY <1>1, <1>4, <1>5 DEF RAttest

LEMMA RDisposeStep ==
  ASSUME AdmissionInv, RDispose
  PROVE  AdmissionInv'
<1>1. PICK r : r = rec
  OBVIOUS
<1>2. PICK d : d = RTerminal
  OBVIOUS
<1>3. /\ RStep("dispose") /\ "dispose" \in RecSteps
      /\ UNCHANGED <<receipt, deleted, quar, evid, evidenceVars, work, calls, told>>
  BY DEF RDispose, RecSteps
<1>4. Reconciles(r) /\ r.key \in RetryKeys /\ res[r.key] # Nothing /\ ReservationInv /\ IntakeLedgerInv
  BY <1>1, <1>3, RecAt
<1>5. d \in DispositionRecords
  <2>1. (IF r.pendD = Nothing THEN Reconciler ELSE r.pendD.by) \in Nat
    BY <1>4 DEF Reconciles, DispositionRecords, Reconciler
  <2> QED BY <1>1, <1>2, <2>1 DEF RTerminal, DispositionRecords
<1>6. CASE RFail /\ UNCHANGED disp
  BY <1>3, <1>6, RFailStep
<1>7. CASE RGoto("finish") /\ UNCHANGED <<res, disp>>
  <2>1. ReservationInv' /\ ReservationsKept /\ IntakeLedgerInv' /\ LedgerKept
    BY <1>3, <1>4, <1>7, ReservationsSame, LedgerSame
  <2>2. PICK q : q = [r EXCEPT !.pc = "finish"]
    OBVIOUS
  <2>3. rec' = q /\ Reconciles(q)'
    BY <1>1, <1>4, <1>7, <2>1, <2>2, RecNext DEF RGoto, RecSteps
  <2> QED BY <1>3, <2>1, <2>3, RecGoesOn
<1>8. CASE /\ disp[r.key] \in {Nothing, d} /\ disp' = [disp EXCEPT ![r.key] = d]
           /\ res' = Updated(r.key, [res[r.key] EXCEPT !.pendD = Nothing])
           /\ RGoto("finish")
  <2>1. Nothing \in DispositionRecords \cup {Nothing}
    OBVIOUS
  <2>2. ReservationInv' /\ ReservationsKept
    BY <1>4, <1>8, <2>1, PendingDispositionKeeps
  <2>3. IntakeLedgerInv' /\ LedgerKept
    BY <1>3, <1>4, <1>5, <1>8, DispositionWritten
  <2>4. PICK q : q = [r EXCEPT !.pc = "finish"]
    OBVIOUS
  <2>5. rec' = q /\ Reconciles(q)'
    BY <1>1, <1>4, <1>8, <2>2, <2>4, RecNext DEF RGoto, RecSteps
  <2> QED BY <1>3, <2>2, <2>3, <2>5, RecGoesOn
<1> QED BY <1>1, <1>2, <1>6, <1>7, <1>8 DEF RDispose, Terminal

LEMMA RFinishStep ==
  ASSUME AdmissionInv, RFinish
  PROVE  AdmissionInv'
<1>1. PICK k : k = rec.key
  OBVIOUS
<1>2. /\ RStep("finish") /\ "finish" \in RecSteps
      /\ UNCHANGED <<receipt, disp, deleted, quar, evid, evidenceVars, work, calls, told>>
  BY DEF RFinish, RecSteps
<1>3. k \in RetryKeys /\ res[k] # Nothing /\ ReservationInv /\ IntakeLedgerInv
  BY <1>1, <1>2, RecAt
<1>4. CASE RFail
  BY <1>2, <1>4, RFailStep
<1>5. CASE rec' = RIdle /\ res' = Cleared(k)
  <2>1. ReservationInv' /\ ReservationsKept /\ IntakeLedgerInv' /\ LedgerKept
    BY <1>2, <1>3, <1>5, ClearedKeeps, LedgerSame
  <2>2. PICK r : r = RIdle
    OBVIOUS
  <2> QED BY <1>2, <1>5, <2>1, <2>2, RecGoesOn
<1> QED BY <1>1, <1>4, <1>5 DEF RFinish

LEMMA ReconcilerDiesStep ==
  ASSUME AdmissionInv, ReconcilerDies
  PROVE  AdmissionInv'
<1>1. PICK r : r = RIdle
  OBVIOUS
<1>2. rec' = r /\ UNCHANGED <<res, receipt, disp, deleted, evid, evidenceVars, work, calls, told>>
  BY <1>1 DEF ReconcilerDies, intakeVars
<1>3. ReservationInv' /\ ReservationsKept /\ IntakeLedgerInv' /\ LedgerKept
  BY <1>2, ReservationsSame, LedgerSame DEF AdmissionInv, IntakeInv
<1> QED BY <1>1, <1>2, <1>3, RecGoesOn

-----------------------------------------------------------------------------
(* The steps of the validation store. *)

\* The intake and the reconciler stand still.
StoreOnly == UNCHANGED <<intakeVars, evid, rec, calls>>

\* The holder of the lock gives it back, and its operation is over.
LEMMA Unlocks ==
  ASSUME AdmissionInv, StoreOnly, UNCHANGED <<attempts, lineages, catalog>>, AnchorInv', lock' = Nothing,
         NEW c \in Services, NEW w, w = Resting(TRUE) \/ w = Resting(FALSE), Goto(c, w), ToldInv'
  PROVE  AdmissionInv'
<1>1. IntakeInv' /\ IntakeKept /\ RecInv'
  BY IntakeSame DEF StoreOnly
<1>2. WorkInv'
  BY <1>1, WorkMoved DEF AdmissionInv, Goto, ProcessInv
<1>3. FilesInv' /\ LockInv'
  BY <1>1, FilesKept DEF AdmissionInv, IntakeKept, LockInv
<1> QED BY <1>1, <1>2, <1>3 DEF AdmissionInv

LEMMA AnswerQuiet ==
  ASSUME NEW c, NEW s, s # "ENGINEERING_ADMITTED", Answer(c, s)
  PROVE  Quiet
<1>1. \A t \in told' : t \in told \/ t = <<Key(c), work[c].payload, s>>
  BY DEF Answer
<1>2. <<Key(c), work[c].payload, s>>[3] = s
  OBVIOUS
<1> QED BY <1>1, <1>2 DEF Quiet

\* The lock is held by a call that records or by a process that reconciles.
LEMMA HolderAt ==
  ASSUME AdmissionInv, NEW c \in Services, lock # Nothing, lock.by = c
  PROVE  /\ HolderInv
         /\ \/ work[c].pc = "reconcile" /\ (work[c] = Reconciling(TRUE) \/ work[c] = Reconciling(FALSE))
            \/ work[c].pc = "recording" /\ UnderWay(work[c])
<1>1. HolderInv /\ ProcessInv(work[c])
  BY DEF AdmissionInv, LockInv, WorkInv
<1> QED BY <1>1 DEF HolderInv, ProcessInv, Resting, Reconciling, UnderWay, CallSteps

\* An operation on the store raises.
LEMMA RefuseStep ==
  ASSUME AdmissionInv, StoreOnly, UNCHANGED <<attempts, lineages, catalog, anchor>>,
         NEW c \in Services, lock # Nothing, lock.by = c, Refuse(c)
  PROVE  AdmissionInv'
<1>1. IntakeInv' /\ IntakeKept /\ AttemptsKept
  BY IntakeSame DEF StoreOnly, AttemptsKept
<1>2. AnchorInv'
  BY <1>1, AnchorKept DEF AdmissionInv, IntakeKept
<1>3. lock' = Nothing
  BY DEF Refuse, Unlock
<1>4. PICK w : w = IF work[c].pc = "reconcile" THEN Resting(work[c].open) ELSE Resting(TRUE)
  OBVIOUS
<1>5. Goto(c, w)
  BY <1>4 DEF Refuse, Answer
<1>6. w = Resting(TRUE) \/ w = Resting(FALSE)
  <2>1. \/ work[c] = Reconciling(TRUE) \/ work[c] = Reconciling(FALSE) \/ work[c].pc = "recording"
    BY HolderAt
  <2>2. Reconciling(TRUE).open = TRUE /\ Reconciling(FALSE).open = FALSE
    BY DEF Reconciling
  <2>3. CASE work[c] = Reconciling(TRUE)
    BY <1>4, <2>2, <2>3
  <2>4. CASE work[c] = Reconciling(FALSE)
    BY <1>4, <2>2, <2>4
  <2>5. CASE work[c].pc = "recording"
    BY <1>4, <2>5
  <2> QED BY <2>1, <2>3, <2>4, <2>5
<1>7. Quiet
  <2>1. CASE UNCHANGED told
    BY <2>1 DEF Quiet
  <2>2. CASE Answer(c, Refusal)
    BY <2>2, AnswerQuiet DEF Refusal
  <2> QED BY <2>1, <2>2 DEF Refuse
<1>8. ToldInv'
  BY <1>1, <1>7, ToldKept DEF AdmissionInv
<1> QED BY <1>2, <1>3, <1>5, <1>6, <1>8, Unlocks

\* A process dies, with the lock or without it.
LEMMA ProcessDiesStep ==
  ASSUME AdmissionInv, NEW c \in Services, ProcessDies(c)
  PROVE  AdmissionInv'
<1>1. /\ StoreOnly /\ UNCHANGED <<attempts, lineages, catalog, anchor, told>> /\ Goto(c, Resting(FALSE))
      /\ lock' = IF lock # Nothing /\ lock.by = c THEN Nothing ELSE lock
  BY DEF ProcessDies, StoreOnly
<1>2. IntakeInv' /\ IntakeKept /\ RecInv' /\ AttemptsKept /\ Quiet
  BY <1>1, IntakeSame DEF StoreOnly, AttemptsKept, Quiet
<1>3. AnchorInv' /\ ToldInv' /\ FilesInv'
  BY <1>1, <1>2, AnchorKept, ToldKept, FilesKept DEF AdmissionInv, IntakeKept
<1>4. PICK w : w = Resting(FALSE)
  OBVIOUS
<1>5. CASE lock # Nothing /\ lock.by = c
  BY <1>1, <1>3, <1>4, <1>5, Unlocks
<1>6. CASE ~(lock # Nothing /\ lock.by = c)
  <2>1. WorkInv'
    BY <1>1, <1>2, <1>4, WorkMoved DEF AdmissionInv, Goto, ProcessInv
  <2>2. lock # Nothing => work'[lock.by] = work[lock.by]
    <3>1. ASSUME lock # Nothing PROVE lock.by \in Services /\ lock.by # c
      BY <1>6, <3>1 DEF AdmissionInv, LockInv, HolderInv
    <3> QED BY <1>1, <3>1 DEF AdmissionInv, WorkInv, Goto
  <2>3. LockInv'
    BY <1>1, <1>2, <1>6, <2>2, ValidationStoreKept DEF AdmissionInv, IntakeKept, evidenceVars
  <2> QED BY <1>2, <1>3, <2>1, <2>3 DEF AdmissionInv
<1> QED BY <1>5, <1>6

\* A step under the lock whose holder stays where it is.
LEMMA LockMoves ==
  ASSUME AdmissionInv, StoreOnly, UNCHANGED <<work, told>>, FilesInv', AnchorInv', lock' # Nothing => HolderInv',
         AttemptsKept, anchor.list.attempts \subseteq anchor'.list.attempts
  PROVE  AdmissionInv'
<1>1. IntakeInv' /\ IntakeKept /\ RecInv' /\ Quiet
  BY IntakeSame DEF StoreOnly, Quiet
<1>2. WorkInv' /\ ToldInv'
  BY <1>1, WorkSame, ToldKept DEF AdmissionInv
<1> QED BY <1>1, <1>2 DEF AdmissionInv, LockInv

LEMMA SettledRooted ==
  ASSUME StoreIsSettled PROVE Rooted
BY DEF StoreIsSettled, AnchorHolds, Root, Rooted

\* What is found on file is what a rebuilt index will list.
LEMMA FoundIsListed ==
  ASSUME ReservationInv, FilesInv
  PROVE  /\ Found \in Lists
         /\ \A k \in Found.attempts : k \in RetryKeys /\ attempts[k] # Nothing /\ res[k].lineage \in Found.lineages
         /\ \A k \in RetryKeys : attempts[k] # Nothing => k \in Found.attempts
         /\ \A l \in Found.lineages : \E k \in RetryKeys : attempts[k] # Nothing /\ res[k].lineage = l
<1>1. /\ Found.attempts = {k \in RetryKeys : attempts[k] # Nothing}
      /\ Found.lineages = {l \in RetryKeys : OfLineage(l) # {}}
      /\ Found = [attempts |-> Found.attempts, lineages |-> Found.lineages]
  BY DEF Found, Listed
<1>2. \A l : OfLineage(l) = {k \in RetryKeys : attempts[k] # Nothing /\ res[k].lineage = l}
  BY DEF OfLineage
<1>3. Found \in Lists
  <2>1. PICK f : f = Found
    OBVIOUS
  <2>2. f.attempts \subseteq RetryKeys /\ f.lineages \subseteq RetryKeys
        /\ f = [attempts |-> f.attempts, lineages |-> f.lineages]
    BY <1>1, <2>1
  <2>3. f \in Lists
    BY <2>2 DEF Lists
  <2> QED BY <2>1, <2>3
<1>4. ASSUME NEW k \in RetryKeys, attempts[k] # Nothing
      PROVE  k \in Found.attempts /\ res[k].lineage \in Found.lineages
  <2>1. res[k] # Nothing
    BY <1>4 DEF FilesInv
  <2>2. res[k].lineage \in RetryKeys
    BY <2>1, ReservationFields
  <2>3. k \in OfLineage(res[k].lineage)
    BY <1>2, <1>4
  <2> QED BY <1>1, <1>4, <2>2, <2>3
<1> QED BY <1>1, <1>2, <1>3, <1>4

\* The lock of a rebuild that begins.
LEMMA RebuildBegins ==
  ASSUME AdmissionInv, NEW c \in Services, Rebuild(c), UNCHANGED <<res, attempts, lineages, catalog, anchor>>
  PROVE  /\ lock' = [by |-> c, at |-> "catalog", read |-> catalog, list |-> lock'.list,
                     todo |-> lock'.list.lineages, recorded |-> FALSE]
         /\ lock'.list \in Lists /\ ListInv'
<1>1. PICK f : f = Found
  OBVIOUS
<1>2. lock' = [by |-> c, at |-> "catalog", read |-> catalog, list |-> f, todo |-> f.lineages, recorded |-> FALSE]
  BY <1>1 DEF Rebuild
<1>3. /\ f \in Lists
      /\ \A k \in f.attempts : k \in RetryKeys /\ attempts[k] # Nothing /\ res[k].lineage \in f.lineages
      /\ \A k \in RetryKeys : attempts[k] # Nothing => k \in f.attempts
      /\ \A l \in f.lineages : \E k \in RetryKeys : attempts[k] # Nothing /\ res[k].lineage = l
  BY <1>1, FoundIsListed DEF AdmissionInv, IntakeInv
<1>4. lock'.list = f /\ lock'.todo = f.lineages /\ lock'.recorded = FALSE
  BY <1>2
<1>5. ListInv'
  BY <1>3, <1>4 DEF ListInv
<1> QED BY <1>2, <1>3, <1>4, <1>5

\* Opening the store, or reconciling it.
LEMMA ReconcileBegins ==
  ASSUME AdmissionInv, NEW c \in Services, lock = Nothing, Rebuild(c), NEW b \in BOOLEAN, Goto(c, Reconciling(b)),
         StoreOnly, UNCHANGED <<attempts, lineages, catalog, anchor, told>>
  PROVE  AdmissionInv'
<1>1. IntakeInv' /\ IntakeKept /\ RecInv' /\ AttemptsKept /\ Quiet
  BY IntakeSame DEF StoreOnly, AttemptsKept, Quiet
<1>2. PICK w : w = Reconciling(b)
  OBVIOUS
<1>3. WorkInv' /\ work'[c] = w
  BY <1>1, <1>2, WorkMoved DEF AdmissionInv, Goto, ProcessInv, WorkInv
<1>4. FilesInv' /\ AnchorInv' /\ ToldInv'
  BY <1>1, FilesKept, AnchorKept, ToldKept DEF AdmissionInv, IntakeKept
<1>5. UNCHANGED res
  BY DEF StoreOnly, intakeVars
<1>6. /\ lock' = [by |-> c, at |-> "catalog", read |-> catalog, list |-> lock'.list,
                  todo |-> lock'.list.lineages, recorded |-> FALSE]
      /\ lock'.list \in Lists /\ ListInv'
  BY <1>5, RebuildBegins
<1>7. catalog \in Lists
  BY DEF AdmissionInv, FilesInv
<1>8. w.pc = "reconcile"
  BY <1>2 DEF Reconciling
<1>9. HolderInv'
  <2>1. PICK f : f = lock'.list
    OBVIOUS
  <2>2. lock' = [by |-> c, at |-> "catalog", read |-> catalog, list |-> f, todo |-> f.lineages, recorded |-> FALSE]
    BY <1>6, <2>1
  <2>3. /\ lock'.by = c /\ lock'.at = "catalog" /\ lock'.read = catalog /\ lock'.list = f
        /\ lock'.todo = f.lineages /\ lock'.recorded = FALSE
    BY <2>2
  <2>4. work'[lock'.by].pc = "reconcile"
    BY <1>3, <1>8, <2>3
  <2>5. lock'.list \in Lists /\ lock'.read \in Lists
    BY <1>6, <1>7, <2>3
  <2> QED BY <1>6, <2>2, <2>3, <2>4, <2>5 DEF HolderInv
<1> QED BY <1>1, <1>3, <1>4, <1>9 DEF AdmissionInv, LockInv

LEMMA OpenStep ==
  ASSUME AdmissionInv, NEW c \in Services, Open(c)
  PROVE  AdmissionInv'
BY ReconcileBegins DEF Open, StoreOnly

LEMMA RebuildStoreStep ==
  ASSUME AdmissionInv, NEW c \in Services, RebuildStore(c)
  PROVE  AdmissionInv'
BY ReconcileBegins DEF RebuildStore, StoreOnly

-----------------------------------------------------------------------------
(* Recording a decision, and the indexes. *)

\* The lock after a step of its holder.
LEMMA HolderHolds ==
  ASSUME NEW c \in Services, NEW at \in {"catalog", "anchor", "check", "attempt", "lineage"},
         NEW rd \in Lists, NEW ls \in Lists, NEW td, NEW b \in BOOLEAN, NEW w,
         lock' = [by |-> c, at |-> at, read |-> rd, list |-> ls, todo |-> td, recorded |-> b],
         at # "catalog" => td = {},
         at = "anchor" => catalog' = ls,
         at \in {"catalog", "anchor"} => ListInv',
         work'[c] = w,
         \/ w.pc = "reconcile" /\ at \in {"catalog", "anchor"} /\ ~b
         \/ w.pc = "recording" /\ RecordingInv(w)'
  PROVE  HolderInv'
<1>1. /\ lock'.by = c /\ lock'.at = at /\ lock'.read = rd /\ lock'.list = ls
      /\ lock'.todo = td /\ lock'.recorded = b
  OBVIOUS
<1>2. work'[lock'.by] = w
  BY <1>1
<1>3. RecordingInv(w)' => RecordingInv(work[lock.by])'
  BY <1>2
<1> QED BY <1>1, <1>2, <1>3 DEF HolderInv

\* record takes the lock.
LEMMA RecordStep ==
  ASSUME AdmissionInv, NEW c \in Services, Record(c)
  PROVE  AdmissionInv'
<1>1. PICK w : w = work[c]
  OBVIOUS
<1>2. PICK k : k = w.key
  OBVIOUS
<1>3. /\ InStep(c, "record") /\ "record" \in CallSteps \ {"recording"} /\ lock = Nothing
      /\ StoreOnly /\ UNCHANGED <<attempts, lineages, catalog, anchor>>
  BY DEF Record, CallSteps, StoreOnly
<1>4. UnderWay(w) /\ w.pc = "record" /\ Outside(c) /\ k = Key(c) /\ k \in RetryKeys /\ res[k] # Nothing /\ CallShape(w)
  BY <1>1, <1>2, <1>3, CallStands
<1>5. IntakeInv' /\ IntakeKept /\ RecInv' /\ AttemptsKept
  BY <1>3, IntakeSame DEF StoreOnly, AttemptsKept
<1>6. CASE Answer(c, Refusal) /\ UNCHANGED lock
  BY <1>3, <1>4, <1>5, <1>6, CallAnswered DEF Refusal, evidenceVars
<1>7. CASE /\ StoreIsSettled /\ attempts[k] \in {Nothing, w.decision}
           /\ IF Unindexed(k) THEN Rebuild(c)
              ELSE lock' = [by |-> c, at |-> "check", read |-> catalog, list |-> catalog, todo |-> {}, recorded |-> FALSE]
           /\ Goto(c, Moved(c, "recording")) /\ UNCHANGED told
  <2>1. PICK v : v = [w EXCEPT !.pc = "recording"]
    OBVIOUS
  <2>2. /\ v.pc = "recording" /\ v.key = w.key /\ v.payload = w.payload /\ v.id = w.id /\ v.mine = w.mine
        /\ v.decision = w.decision /\ CallShape(v)
    BY <1>4, <2>1 DEF CallShape
  <2>3. UnderWay(w)'
    BY <1>4, <1>5, UnderWayKept DEF AdmissionInv
  <2>4. UnderWay(v)'
    BY <1>4, <2>2, <2>3 DEF UnderWay, CallSteps
  <2>5. Goto(c, v)
    BY <1>1, <1>7, <2>1 DEF Moved
  <2>6. WorkInv' /\ work'[c] = v
    BY <1>5, <2>4, <2>5, WorkMoved DEF AdmissionInv, Goto, ProcessInv, WorkInv
  <2>7. FilesInv' /\ AnchorInv' /\ ToldInv'
    BY <1>3, <1>5, <1>7, FilesKept, AnchorKept, ToldKept DEF AdmissionInv, IntakeKept, Quiet
  <2>8. Rooted /\ Rooted' /\ UNCHANGED res
    BY <1>3, <1>7, SettledRooted DEF Rooted, StoreOnly, intakeVars
  <2>9. catalog \in Lists /\ \A j \in catalog.attempts : res[j].lineage \in catalog.lineages
    BY <2>8 DEF AdmissionInv, FilesInv, AnchorInv, Rooted
  <2>10. CASE Unindexed(k)
    <3>1. PICK f : f = lock'.list
      OBVIOUS
    <3>2. lock' = [by |-> c, at |-> "catalog", read |-> catalog, list |-> f, todo |-> f.lineages, recorded |-> FALSE]
          /\ f \in Lists /\ ListInv'
      BY <1>3, <1>7, <2>8, <2>10, <3>1, RebuildBegins
    <3>3. lock'.at = "catalog" /\ lock'.read = catalog /\ lock'.recorded = FALSE
      BY <3>2
    <3>4. RecordingInv(v)'
      BY <1>2, <1>3, <1>7, <2>2, <2>8, <2>9, <3>3 DEF RecordingInv, Rooted
    <3>5. HolderInv'
      BY <2>2, <2>6, <2>9, <3>2, <3>4, HolderHolds
    <3> QED BY <1>5, <2>6, <2>7, <3>5 DEF AdmissionInv, LockInv
  <2>11. CASE ~Unindexed(k)
    <3>1. lock' = [by |-> c, at |-> "check", read |-> catalog, list |-> catalog, todo |-> {}, recorded |-> FALSE]
      BY <1>7, <2>11
    <3>2. lock'.at = "check" /\ lock'.read = catalog /\ lock'.recorded = FALSE
      BY <3>1
    <3>3. attempts[k] # Nothing => k \in catalog.attempts
      BY <2>11 DEF Unindexed
    <3>4. RecordingInv(v)'
      BY <1>2, <1>3, <1>7, <2>2, <2>8, <2>9, <3>2, <3>3 DEF RecordingInv, Rooted
    <3>5. HolderInv'
      BY <2>2, <2>6, <2>9, <3>1, <3>4, HolderHolds
    <3> QED BY <1>5, <2>6, <2>7, <3>5 DEF AdmissionInv, LockInv
  <2> QED BY <2>10, <2>11
<1> QED BY <1>1, <1>4, <1>6, <1>7 DEF Record

\* What the holder of the lock has.
LEMMA HolderFields ==
  ASSUME AdmissionInv, NEW c \in Services, lock # Nothing, lock.by = c
  PROVE  /\ lock = [by |-> c, at |-> lock.at, read |-> lock.read, list |-> lock.list,
                    todo |-> lock.todo, recorded |-> lock.recorded]
         /\ lock.at \in {"catalog", "anchor", "check", "attempt", "lineage"} /\ lock.recorded \in BOOLEAN
         /\ lock.read \in Lists /\ lock.list \in Lists
         /\ lock.at # "catalog" => lock.todo = {}
         /\ lock.at = "anchor" => catalog = lock.list
         /\ lock.at \in {"catalog", "anchor"} => ListInv
         /\ \/ work[c].pc = "reconcile" /\ lock.at \in {"catalog", "anchor"} /\ ~lock.recorded
            \/ /\ work[c].pc = "recording" /\ RecordingInv(work[c]) /\ UnderWay(work[c])
               /\ Key(c) = work[c].key /\ Key(c) \in RetryKeys
<1>1. HolderInv
  BY DEF AdmissionInv, LockInv
<1>2. work[c].pc = "recording" => UnderWay(work[c])
  BY HolderAt
<1>3. UnderWay(work[c]) => Key(c) = work[c].key /\ Key(c) \in RetryKeys
  BY DEF UnderWay, Key
<1> QED BY <1>1, <1>2, <1>3 DEF HolderInv

\* The catalog is written.
LEMMA WriteCatalogStep ==
  ASSUME AdmissionInv, NEW c \in Services, WriteCatalog(c)
  PROVE  AdmissionInv'
<1>1. /\ lock # Nothing /\ lock.by = c /\ lock.at = "catalog" /\ lock.todo = {} /\ catalog' = lock.list
      /\ lock' = [lock EXCEPT !.at = "anchor"] /\ StoreOnly /\ UNCHANGED <<attempts, lineages, anchor, work, told>>
  BY DEF WriteCatalog, Locked, LockAt, StoreOnly
<1>2. PICK w, rd, ls, b : w = work[c] /\ rd = lock.read /\ ls = lock.list /\ b = lock.recorded
  OBVIOUS
<1>3. /\ lock = [by |-> c, at |-> "catalog", read |-> rd, list |-> ls, todo |-> {}, recorded |-> b]
      /\ b \in BOOLEAN /\ rd \in Lists /\ ls \in Lists /\ ListInv
      /\ \/ w.pc = "reconcile" /\ ~b
         \/ w.pc = "recording" /\ RecordingInv(w)
  BY <1>1, <1>2, HolderFields
<1>4. lock' = [by |-> c, at |-> "anchor", read |-> rd, list |-> ls, todo |-> {}, recorded |-> b]
  BY <1>1, <1>3
<1>5. /\ lock.list = ls /\ lock.read = rd /\ lock.todo = {} /\ lock.recorded = b /\ lock.at = "catalog"
      /\ lock'.list = ls /\ lock'.read = rd /\ lock'.todo = {} /\ lock'.recorded = b /\ lock'.at = "anchor"
  BY <1>3, <1>4
<1>6. UNCHANGED res /\ AttemptsKept
  BY <1>1 DEF StoreOnly, intakeVars, AttemptsKept
<1>7. ListInv'
  BY <1>1, <1>3, <1>5, <1>6 DEF ListInv
<1>8. RecordingInv(w) => RecordingInv(w)'
  BY <1>1, <1>5, <1>6 DEF RecordingInv
<1>9. HolderInv'
  BY <1>1, <1>2, <1>3, <1>4, <1>7, <1>8, HolderHolds
<1>10. FilesInv' /\ AnchorInv'
  <2>1. AnchorInv'
    BY <1>1, <1>6 DEF AdmissionInv, AnchorInv, ChainOf
  <2>2. FilesInv'
    BY <1>1, <1>3, <1>5, <1>6 DEF AdmissionInv, FilesInv, ChainOf
  <2> QED BY <2>1, <2>2
<1> QED BY <1>1, <1>6, <1>9, <1>10, LockMoves

\* An attempt is written.
LEMMA WriteAttemptStep ==
  ASSUME AdmissionInv, NEW c \in Services, WriteAttempt(c)
  PROVE  AdmissionInv'
<1>1. /\ lock # Nothing /\ lock.by = c /\ lock.at = "attempt"
      /\ attempts' = [attempts EXCEPT ![Key(c)] = work[c].decision]
      /\ lock' = [lock EXCEPT !.at = "lineage"] /\ StoreOnly /\ UNCHANGED <<lineages, catalog, anchor, work, told>>
  BY DEF WriteAttempt, Locked, LockAt, StoreOnly
<1>2. PICK w, k, rd, ls, b : w = work[c] /\ k = w.key /\ rd = lock.read /\ ls = lock.list /\ b = lock.recorded
  OBVIOUS
<1>3. /\ lock = [by |-> c, at |-> "attempt", read |-> rd, list |-> ls, todo |-> {}, recorded |-> b]
      /\ b \in BOOLEAN /\ rd \in Lists /\ ls \in Lists
      /\ w.pc = "recording" /\ RecordingInv(w) /\ UnderWay(w) /\ k = Key(c) /\ k \in RetryKeys
  BY <1>1, <1>2, HolderFields
<1>4. lock' = [by |-> c, at |-> "lineage", read |-> rd, list |-> ls, todo |-> {}, recorded |-> b]
  BY <1>1, <1>3
<1>5. lock.read = rd /\ lock'.read = rd /\ lock'.at = "lineage" /\ lock.at = "attempt"
  BY <1>3, <1>4
<1>6. UNCHANGED res /\ ReservationsKept
  BY <1>1 DEF StoreOnly, intakeVars, ReservationsKept
<1>7. attempts[k] = Nothing /\ w.decision \in DecisionRecords /\ res[k] # Nothing /\ Appendable(k) /\ Rooted
  BY <1>2, <1>3, <1>5 DEF RecordingInv, UnderWay
<1>8. /\ attempts' \in [RetryKeys -> DecisionRecords \cup {Nothing}]
      /\ \A j \in RetryKeys : attempts'[j] = IF j = k THEN w.decision ELSE attempts[j]
  BY <1>1, <1>2, <1>3, <1>7 DEF AdmissionInv, FilesInv
<1>9. AttemptsKept
  BY <1>7, <1>8 DEF AttemptsKept
<1>10. AnchorInv'
  BY <1>1, <1>6, <1>9, AnchorKept DEF AdmissionInv
<1>11. FilesInv'
  <2>1. ASSUME NEW l \in RetryKeys, lineages[l] # Nothing PROVE ChainOf(lineages[l], l)'
    <3>1. PICK s : s = lineages[l]
      OBVIOUS
    <3>2. s \in Seq(RetryKeys) /\ ChainOf(s, l)
      BY <2>1, <3>1 DEF AdmissionInv, FilesInv
    <3>3. ChainOf(s, l)'
      BY <1>6, <1>9, <3>2, ChainKept DEF AdmissionInv
    <3> QED BY <1>1, <3>1, <3>3
  <2> QED BY <1>1, <1>6, <1>7, <1>8, <2>1 DEF AdmissionInv, FilesInv
<1>12. RecordingInv(w)'
  <2>1. Rooted' /\ Appendable(k)'
    BY <1>1, <1>6, <1>7 DEF Rooted, Appendable
  <2> QED BY <1>1, <1>2, <1>3, <1>5, <1>6, <1>8, <2>1 DEF RecordingInv
<1>13. HolderInv'
  BY <1>1, <1>2, <1>3, <1>4, <1>12, HolderHolds
<1> QED BY <1>1, <1>9, <1>10, <1>11, <1>13, LockMoves

\* A correction at the end of its chain makes a chain.
LEMMA ChainExtended ==
  ASSUME FilesInv, ReservationInv, NEW k \in RetryKeys, attempts[k] # Nothing, Appendable(k),
         NEW l, l = res[k].lineage, NEW s, s = IF lineages[l] = Nothing THEN <<k>> ELSE Append(lineages[l], k)
  PROVE  /\ l \in RetryKeys /\ s \in Seq(RetryKeys) /\ ChainOf(s, l) /\ k \in ToSet(s)
         /\ lineages[l] = Nothing => ToSet(s) = {k}
         /\ lineages[l] # Nothing => ToSet(s) = ToSet(lineages[l]) \cup {k}
<1>1. res[k] # Nothing
  BY DEF FilesInv
<1>2. l \in RetryKeys
  BY <1>1, ReservationFields
<1>3. CASE lineages[l] = Nothing
  <2>1. s = <<k>> /\ res[k].pred = Nothing
    BY <1>3 DEF Appendable
  <2>2. DOMAIN s = {1} /\ s[1] = k /\ s \in Seq(RetryKeys) /\ s # <<>>
    <3>1. s \in Seq(RetryKeys) /\ Len(s) = 1 /\ s[1] = k
      <4>1. <<k>> \in Seq(RetryKeys)
        OBVIOUS
      <4>2. Len(<<k>>) = 1 /\ <<k>>[1] = k
        OBVIOUS
      <4> QED BY <2>1, <4>1, <4>2
    <3>2. DOMAIN s = 1 .. 1
      BY <3>1, LenProperties
    <3>3. s # <<>>
      BY <3>1, EmptySeq
    <3> QED BY <3>1, <3>2, <3>3
  <2>3. ChainOf(s, l)
    BY <2>1, <2>2 DEF ChainOf
  <2>4. ToSet(s) = {k}
    BY <2>2 DEF ToSet
  <2> QED BY <1>2, <1>3, <2>2, <2>3, <2>4
<1>4. CASE lineages[l] # Nothing
  <2>1. PICK r : r = lineages[l]
    OBVIOUS
  <2>2. r \in Seq(RetryKeys) /\ ChainOf(r, l)
    BY <1>2, <1>4, <2>1 DEF FilesInv
  <2>3. res[k].pred # Nothing /\ Last(r) = res[k].pred
    BY <1>4, <2>1 DEF Appendable
  <2>4. s = Append(r, k)
    BY <1>4, <2>1
  <2>5. PICK n : n = Len(r)
    OBVIOUS
  <2>6. /\ s \in Seq(RetryKeys) /\ s # <<>> /\ Len(s) = n + 1 /\ n \in Nat
        /\ \A i \in 1 .. n : s[i] = r[i]
        /\ s[n + 1] = k
    <3>1. n \in Nat
      BY <2>2, <2>5, LenProperties
    <3>2. /\ Append(r, k) \in Seq(RetryKeys) /\ Append(r, k) # <<>> /\ Len(Append(r, k)) = Len(r) + 1
          /\ \A i \in 1 .. Len(r) : Append(r, k)[i] = r[i]
          /\ Append(r, k)[Len(r) + 1] = k
      BY <2>2, AppendProperties
    <3> QED BY <2>4, <2>5, <3>1, <3>2
  <2>7. n > 0 /\ r[n] = res[k].pred
    <3>1. r # <<>>
      BY <2>2 DEF ChainOf
    <3>2. n > 0
      BY <2>2, <2>5, <3>1, EmptySeq
    <3> QED BY <2>3, <2>5, <3>2 DEF Last
  <2>8. DOMAIN s = 1 .. n + 1 /\ DOMAIN r = 1 .. n
    BY <2>2, <2>5, <2>6, LenProperties
  <2>9. \A i \in 1 .. n : /\ attempts[r[i]] # Nothing /\ res[r[i]].lineage = l
                          /\ res[r[i]].pred = IF i = 1 THEN Nothing ELSE r[i - 1]
    BY <2>2, <2>8 DEF ChainOf
  <2>10. ASSUME NEW i \in 1 .. n + 1
         PROVE  /\ attempts[s[i]] # Nothing /\ res[s[i]].lineage = l
                /\ res[s[i]].pred = IF i = 1 THEN Nothing ELSE s[i - 1]
    <3>1. CASE i = n + 1
      <4>1. i # 1 /\ i - 1 = n /\ n \in 1 .. n
        BY <2>6, <2>7, <3>1
      <4>2. s[i - 1] = r[n] /\ s[i] = k
        BY <2>6, <3>1, <4>1
      <4> QED BY <2>7, <4>1, <4>2
    <3>2. CASE i # n + 1
      <4>1. i \in 1 .. n /\ (i # 1 => i - 1 \in 1 .. n)
        BY <2>6, <3>2
      <4>2. s[i] = r[i] /\ (i # 1 => s[i - 1] = r[i - 1])
        BY <2>6, <4>1
      <4> QED BY <2>9, <4>1, <4>2
    <3> QED BY <3>1, <3>2
  <2>11. ChainOf(s, l)
    BY <2>6, <2>8, <2>10 DEF ChainOf
  <2>12. ToSet(s) = ToSet(r) \cup {k}
    <3>1. ToSet(s) = {s[i] : i \in 1 .. n + 1} /\ ToSet(r) = {r[i] : i \in 1 .. n}
      BY <2>8 DEF ToSet
    <3>2. 1 .. n + 1 = (1 .. n) \cup {n + 1}
      BY <2>6
    <3>3. ASSUME NEW x PROVE x \in ToSet(s) <=> x \in ToSet(r) \/ x = k
      <4>1. x \in ToSet(s) <=> \E i \in 1 .. n + 1 : x = s[i]
        BY <3>1
      <4>2. x \in ToSet(r) <=> \E i \in 1 .. n : x = r[i]
        BY <3>1
      <4> QED BY <2>6, <3>2, <4>1, <4>2
    <3> QED BY <3>3
  <2> QED BY <1>2, <1>4, <2>1, <2>6, <2>11, <2>12
<1> QED BY <1>3, <1>4

\* The lineage is extended.
LEMMA WriteLineageStep ==
  ASSUME AdmissionInv, NEW c \in Services, WriteLineage(c)
  PROVE  AdmissionInv'
<1>1. PICK w, k, l, rd, ls, b : /\ w = work[c] /\ k = w.key /\ l = res[k].lineage
                                /\ rd = lock.read /\ ls = lock.list /\ b = lock.recorded
  OBVIOUS
<1>2. PICK s : s = IF lineages[l] = Nothing THEN <<k>> ELSE Append(lineages[l], k)
  OBVIOUS
<1>3. PICK n : n = Listed(rd.attempts \cup {k}, rd.lineages \cup {l})
  OBVIOUS
<1>4. lock # Nothing /\ lock.by = c /\ lock.at = "lineage"
  BY DEF WriteLineage, Locked
<1>5. /\ lock = [by |-> c, at |-> "lineage", read |-> rd, list |-> ls, todo |-> {}, recorded |-> b]
      /\ b \in BOOLEAN /\ rd \in Lists /\ ls \in Lists
      /\ w.pc = "recording" /\ RecordingInv(w) /\ UnderWay(w) /\ k = Key(c) /\ k \in RetryKeys
  BY <1>1, <1>4, HolderFields
<1>6. /\ lineages' = [lineages EXCEPT ![l] = s]
      /\ lock' = [lock EXCEPT !.at = "catalog", !.recorded = TRUE, !.list = n]
      /\ StoreOnly /\ UNCHANGED <<attempts, catalog, anchor, work, told>>
  BY <1>1, <1>2, <1>3, <1>5 DEF WriteLineage, StoreOnly
<1>7. lock' = [by |-> c, at |-> "catalog", read |-> rd, list |-> n, todo |-> {}, recorded |-> TRUE]
  BY <1>5, <1>6
<1>8. /\ lock.read = rd /\ lock.at = "lineage"
      /\ lock'.read = rd /\ lock'.at = "catalog" /\ lock'.list = n /\ lock'.todo = {} /\ lock'.recorded = TRUE
  BY <1>5, <1>7
<1>9. /\ attempts[k] = w.decision /\ w.decision \in DecisionRecords /\ Rooted /\ Appendable(k)
      /\ rd.attempts \subseteq anchor.list.attempts /\ rd.lineages \subseteq anchor.list.lineages
      /\ \A j \in rd.attempts : res[j].lineage \in rd.lineages
  BY <1>1, <1>5, <1>8 DEF RecordingInv, UnderWay
<1>10. attempts[k] # Nothing
  BY <1>9, RecordAssumption
<1>11. FilesInv /\ AnchorInv /\ ReservationInv
  BY DEF AdmissionInv, IntakeInv
<1>12. /\ l \in RetryKeys /\ s \in Seq(RetryKeys) /\ ChainOf(s, l) /\ k \in ToSet(s)
       /\ lineages[l] = Nothing => ToSet(s) = {k}
       /\ lineages[l] # Nothing => ToSet(s) = ToSet(lineages[l]) \cup {k}
  BY <1>1, <1>2, <1>5, <1>9, <1>10, <1>11, ChainExtended
<1>13. UNCHANGED res /\ AttemptsKept
  BY <1>6 DEF StoreOnly, intakeVars, AttemptsKept
<1>14. AnchorInv'
  BY <1>6, <1>11, <1>13 DEF AnchorInv, ChainOf
<1>15. /\ lineages' \in [RetryKeys -> Seq(RetryKeys) \cup {Nothing}]
       /\ \A m \in RetryKeys : lineages'[m] = IF m = l THEN s ELSE lineages[m]
  BY <1>6, <1>11, <1>12 DEF FilesInv
<1>16. FilesInv'
  <2>1. ASSUME NEW m \in RetryKeys, lineages'[m] # Nothing PROVE ChainOf(lineages[m], m)'
    <3>1. PICK r : r = lineages'[m]
      OBVIOUS
    <3>2. ChainOf(r, m)
      BY <1>11, <1>12, <1>15, <2>1, <3>1 DEF FilesInv
    <3>3. ChainOf(r, m)'
      BY <1>6, <1>13, <3>2 DEF ChainOf
    <3> QED BY <3>1, <3>3
  <2> QED BY <1>6, <1>11, <1>13, <1>15, <2>1 DEF FilesInv
<1>17. n.attempts = rd.attempts \cup {k} /\ n.lineages = rd.lineages \cup {l} /\ n \in Lists
  BY <1>3, <1>5, <1>12 DEF Listed, Lists
<1>18. Nothing \notin Seq(RetryKeys)
  BY RecordAssumption
<1>19. ASSUME NEW m \in anchor.list.lineages
       PROVE  /\ m \in RetryKeys /\ lineages[m] \in Seq(RetryKeys) /\ lineages[m] = anchor.root.lineages[m]
              /\ ToSet(lineages[m]) \subseteq anchor.list.attempts
  BY <1>9, <1>11 DEF AnchorInv, Rooted, Lists
<1>20. ASSUME NEW m \in n.lineages
       PROVE  lineages'[m] # Nothing /\ ToSet(lineages'[m]) \subseteq n.attempts \cup anchor.list.attempts
  <2>1. CASE m = l
    <3>1. lineages[l] # Nothing => l \in anchor.list.lineages
      BY <1>1, <1>9 DEF Appendable
    <3>2. ToSet(s) \subseteq {k} \cup anchor.list.attempts
      BY <1>12, <1>19, <3>1
    <3> QED BY <1>12, <1>15, <1>17, <1>18, <2>1, <3>2
  <2>2. CASE m # l
    <3>1. m \in anchor.list.lineages
      BY <1>9, <1>17, <2>2
    <3> QED BY <1>15, <1>18, <1>19, <2>2, <3>1
  <2> QED BY <2>1, <2>2
<1>21. ASSUME NEW j \in n.attempts
       PROVE  attempts[j] # Nothing /\ res[j].lineage \in n.lineages /\ j \in ToSet(lineages'[res[j].lineage])
  <2>1. CASE j = k
    BY <1>1, <1>10, <1>12, <1>15, <1>17, <2>1
  <2>2. CASE j # k
    <3>1. j \in rd.attempts /\ j \in anchor.list.attempts /\ res[j].lineage \in rd.lineages
      BY <1>9, <1>17, <2>2
    <3>2. PICK m : m = res[j].lineage
      OBVIOUS
    <3>3. attempts[j] # Nothing /\ m \in anchor.list.lineages /\ j \in ToSet(anchor.root.lineages[m])
      BY <1>11, <3>1, <3>2 DEF AnchorInv
    <3>4. j \in ToSet(lineages[m]) /\ m \in RetryKeys /\ lineages[m] # Nothing
      BY <1>18, <1>19, <3>3
    <3>5. j \in ToSet(lineages'[m])
      BY <1>12, <1>15, <3>4
    <3> QED BY <1>17, <3>1, <3>2, <3>3, <3>5
  <2> QED BY <2>1, <2>2
<1>22. ListInv'
  BY <1>6, <1>8, <1>13, <1>20, <1>21 DEF ListInv
<1>23. RecordingInv(w)'
  BY <1>1, <1>6, <1>8, <1>9, <1>13, <1>17 DEF RecordingInv
<1>24. HolderInv'
  <2>1. PICK t \in BOOLEAN : t = TRUE
    OBVIOUS
  <2>2. lock' = [by |-> c, at |-> "catalog", read |-> rd, list |-> n, todo |-> {}, recorded |-> t]
    BY <1>7, <2>1
  <2>3. work'[c] = w
    BY <1>1, <1>6
  <2> QED BY <1>5, <1>17, <1>22, <1>23, <2>2, <2>3, HolderHolds
<1> QED BY <1>6, <1>13, <1>14, <1>16, <1>24, LockMoves

\* The orders of a lineage are chains of all its attempts.
LEMMA OrderIsAChain ==
  ASSUME NEW l, NEW s \in Orders(l), OfLineage(l) # {}
  PROVE  s \in Seq(RetryKeys) /\ ChainOf(s, l) /\ ToSet(s) = OfLineage(l)
<1>1. /\ OfLineage(l) \subseteq RetryKeys
      /\ \A k \in OfLineage(l) : attempts[k] # Nothing /\ res[k].lineage = l
  BY DEF OfLineage
<1>2. IsFiniteSet(OfLineage(l))
  BY <1>1, AdmissionAssumption, FS_Subset
<1>3. PICK n : n = Cardinality(OfLineage(l))
  OBVIOUS
<1>4. n \in Nat
  BY <1>2, <1>3, FS_CardinalityType
<1>5. PICK S : S = OfLineage(l)
  OBVIOUS
<1>6. s \in [1 .. n -> S] /\ ToSet(s) = S /\ Corrects(s)
  BY <1>3, <1>5 DEF Orders
<1>7. s \in Seq(S)
  BY <1>4, <1>6, SeqDef
<1>8. s \in Seq(RetryKeys)
  BY <1>1, <1>4, <1>5, <1>6, SeqDef
<1>9. s # <<>>
  <2>1. PICK x : x \in S
    BY <1>5
  <2>2. \E i \in DOMAIN s : x = s[i]
    BY <1>6, <2>1 DEF ToSet
  <2> QED BY <2>2
<1>10. \A i \in DOMAIN s : s[i] \in S
  BY <1>6
<1> QED BY <1>1, <1>5, <1>6, <1>8, <1>9, <1>10 DEF ChainOf, Corrects

\* A lineage is rebuilt.
LEMMA RebuildLineageStep ==
  ASSUME AdmissionInv, NEW c \in Services, NEW l \in RetryKeys, RebuildLineage(c, l)
  PROVE  AdmissionInv'
<1>1. /\ lock # Nothing /\ lock.by = c /\ lock.at = "catalog" /\ l \in lock.todo
      /\ StoreOnly /\ UNCHANGED <<attempts, catalog, anchor>>
  BY DEF RebuildLineage, Locked, StoreOnly
<1>2. CASE Refuse(c) /\ UNCHANGED lineages
  BY <1>1, <1>2, RefuseStep
<1>3. ASSUME NEW s, s \in Orders(l), lineages' = [lineages EXCEPT ![l] = s],
             lock' = [lock EXCEPT !.todo = lock.todo \ {l}], UNCHANGED <<work, told>>
      PROVE  AdmissionInv'
  <2>1. PICK w, rd, ls, td, b : w = work[c] /\ rd = lock.read /\ ls = lock.list /\ td = lock.todo /\ b = lock.recorded
    OBVIOUS
  <2>2. /\ lock = [by |-> c, at |-> "catalog", read |-> rd, list |-> ls, todo |-> td, recorded |-> b]
        /\ b \in BOOLEAN /\ rd \in Lists /\ ls \in Lists /\ ListInv
        /\ \/ w.pc = "reconcile" /\ ~b
           \/ w.pc = "recording" /\ RecordingInv(w)
    BY <1>1, <2>1, HolderFields
  <2>3. PICK te : te = td \ {l}
    OBVIOUS
  <2>4. lock' = [by |-> c, at |-> "catalog", read |-> rd, list |-> ls, todo |-> te, recorded |-> b]
    BY <1>3, <2>1, <2>2, <2>3
  <2>5. /\ lock.list = ls /\ lock.read = rd /\ lock.todo = td /\ lock.recorded = b /\ lock.at = "catalog"
        /\ lock'.list = ls /\ lock'.read = rd /\ lock'.todo = te /\ lock'.recorded = b /\ lock'.at = "catalog"
    BY <2>2, <2>4
  <2>6. UNCHANGED res /\ AttemptsKept
    BY <1>1 DEF StoreOnly, intakeVars, AttemptsKept
  <2>7. /\ ~b /\ td \subseteq ls.lineages
        /\ \A k \in RetryKeys : attempts[k] # Nothing => k \in ls.attempts
        /\ \E k \in RetryKeys : attempts[k] # Nothing /\ res[k].lineage = l
        /\ \A m \in ls.lineages \ td :
             lineages[m] # Nothing /\ ToSet(lineages[m]) \subseteq ls.attempts \cup anchor.list.attempts
        /\ \A k \in ls.attempts :
             /\ attempts[k] # Nothing /\ res[k].lineage \in ls.lineages
             /\ res[k].lineage \notin td => k \in ToSet(lineages[res[k].lineage])
        /\ \A m \in td : \E k \in RetryKeys : attempts[k] # Nothing /\ res[k].lineage = m
    BY <1>1, <2>2, <2>5 DEF ListInv
  <2>8. OfLineage(l) # {}
    BY <2>7 DEF OfLineage
  <2>9. s \in Seq(RetryKeys) /\ ChainOf(s, l) /\ ToSet(s) = OfLineage(l)
    BY <1>3, <2>8, OrderIsAChain
  <2>10. FilesInv /\ AnchorInv
    BY DEF AdmissionInv
  <2>11. /\ lineages' \in [RetryKeys -> Seq(RetryKeys) \cup {Nothing}]
         /\ \A m \in RetryKeys : lineages'[m] = IF m = l THEN s ELSE lineages[m]
    BY <1>3, <2>9, <2>10 DEF FilesInv
  <2>12. FilesInv'
    <3>1. ASSUME NEW m \in RetryKeys, lineages'[m] # Nothing PROVE ChainOf(lineages[m], m)'
      <4>1. PICK r : r = lineages'[m]
        OBVIOUS
      <4>2. ChainOf(r, m)
        BY <2>9, <2>10, <2>11, <3>1, <4>1 DEF FilesInv
      <4>3. ChainOf(r, m)'
        BY <1>1, <2>6, <4>2 DEF ChainOf
      <4> QED BY <4>1, <4>3
    <3> QED BY <1>1, <2>6, <2>10, <2>11, <3>1 DEF FilesInv
  <2>13. AnchorInv'
    BY <1>1, <2>6, <2>10 DEF AnchorInv, ChainOf
  <2>14. ASSUME NEW m \in ls.lineages \ te
         PROVE  lineages'[m] # Nothing /\ ToSet(lineages'[m]) \subseteq ls.attempts \cup anchor.list.attempts
    <3>1. m \in RetryKeys /\ Nothing \notin Seq(RetryKeys)
      BY <2>2, RecordAssumption DEF Lists
    <3>2. OfLineage(l) \subseteq ls.attempts
      BY <2>7 DEF OfLineage
    <3> QED BY <2>3, <2>7, <2>9, <2>11, <3>1, <3>2
  <2>15. ASSUME NEW k \in ls.attempts
         PROVE  /\ attempts[k] # Nothing /\ res[k].lineage \in ls.lineages
                /\ res[k].lineage \notin te => k \in ToSet(lineages'[res[k].lineage])
    <3>1. PICK m : m = res[k].lineage
      OBVIOUS
    <3>2. attempts[k] # Nothing /\ m \in ls.lineages /\ (m \notin td => k \in ToSet(lineages[m]))
      BY <2>7, <3>1
    <3>3. m \in RetryKeys /\ k \in RetryKeys
      BY <2>2, <3>2 DEF Lists
    <3>4. m = l => k \in OfLineage(l)
      BY <3>1, <3>2, <3>3 DEF OfLineage
    <3> QED BY <2>3, <2>9, <2>11, <3>1, <3>2, <3>3, <3>4
  <2>16. ListInv'
    BY <1>1, <2>3, <2>5, <2>6, <2>7, <2>14, <2>15 DEF ListInv
  <2>17. RecordingInv(w) => RecordingInv(w)'
    BY <1>1, <2>5, <2>6 DEF RecordingInv
  <2>18. work'[c] = w
    BY <1>3, <2>1
  <2>19. HolderInv'
    BY <2>2, <2>4, <2>16, <2>17, <2>18, HolderHolds
  <2> QED BY <1>1, <1>3, <2>6, <2>12, <2>13, <2>19, LockMoves
<1>4. CASE /\ Orders(l) # {}
           /\ lineages' = [lineages EXCEPT ![l] = CHOOSE s \in Orders(l) : TRUE]
           /\ lock' = [lock EXCEPT !.todo = lock.todo \ {l}] /\ UNCHANGED <<work, told>>
  <2>1. PICK s : s = CHOOSE x \in Orders(l) : TRUE
    OBVIOUS
  <2>2. s \in Orders(l)
    BY <1>4, <2>1
  <2> QED BY <1>3, <1>4, <2>1, <2>2
<1> QED BY <1>2, <1>4 DEF RebuildLineage

\* An answer for a recorded decision is backed when the decision is under the
\* watermark.
LEMMA AnswerBacked ==
  ASSUME AdmissionInv, StoreOnly, UNCHANGED attempts, anchor.list.attempts \subseteq anchor'.list.attempts,
         NEW c \in Services, NEW w, w = work[c], UnderWay(w), w.pc = "recording",
         attempts[w.key] = w.decision, w.key \in anchor'.list.attempts,
         Answer(c, StatusOf(w.decision.verdict))
  PROVE  ToldInv' /\ Goto(c, Resting(TRUE))
<1>1. PICK k, p, v : k = w.key /\ p = w.payload /\ v = StatusOf(w.decision.verdict)
  OBVIOUS
<1>2. k \in RetryKeys /\ Compiled(k, p)
  BY <1>1 DEF UnderWay
<1>3. IntakeInv' /\ IntakeKept /\ AttemptsKept
  BY IntakeSame DEF StoreOnly, AttemptsKept
<1>4. Compiled(k, p)'
  BY <1>2, <1>3, CompiledKept DEF AdmissionInv
<1>5. \A t \in told' : t \in told \/ t = <<k, p, v>>
  BY <1>1 DEF Answer, Key
<1>6. <<k, p, v>>[1] = k /\ <<k, p, v>>[2] = p /\ <<k, p, v>>[3] = v
  OBVIOUS
<1>7. v = "ENGINEERING_ADMITTED" => w.decision.verdict = "ADMITTED"
  BY <1>1 DEF StatusOf, Refusal
<1>8. ASSUME NEW t \in told', t[3] = "ENGINEERING_ADMITTED"
      PROVE  /\ t[1] \in RetryKeys /\ Compiled(t[1], t[2])'
             /\ t[1] \in anchor'.list.attempts /\ attempts'[t[1]].verdict = "ADMITTED"
  <2>1. CASE t \in told
    <3>1. /\ t[1] \in RetryKeys /\ Compiled(t[1], t[2])
          /\ t[1] \in anchor.list.attempts /\ attempts[t[1]].verdict = "ADMITTED"
      BY <1>8, <2>1 DEF AdmissionInv, ToldInv
    <3>2. Compiled(t[1], t[2])'
      BY <1>3, <3>1, CompiledKept DEF AdmissionInv
    <3> QED BY <3>1, <3>2
  <2>2. CASE t = <<k, p, v>>
    <3>1. t[1] = k /\ t[2] = p /\ v = "ENGINEERING_ADMITTED"
      BY <1>6, <1>8, <2>2
    <3>2. Compiled(t[1], t[2])'
      BY <1>4, <3>1
    <3> QED BY <1>1, <1>2, <1>7, <3>1, <3>2
  <2> QED BY <1>5, <2>1, <2>2
<1> QED BY <1>8 DEF ToldInv, Answer

\* The watermark is written.
LEMMA WriteAnchorStep ==
  ASSUME AdmissionInv, NEW c \in Services, WriteAnchor(c)
  PROVE  AdmissionInv'
<1>1. /\ lock # Nothing /\ lock.by = c /\ lock.at = "anchor"
      /\ StoreOnly /\ UNCHANGED <<attempts, lineages, catalog>>
  BY DEF WriteAnchor, Locked, StoreOnly
<1>2. CASE Refuse(c) /\ UNCHANGED anchor
  BY <1>1, <1>2, RefuseStep
<1>3. CASE Advances(lock.list) /\ anchor' = [list |-> lock.list, root |-> Root(lock.list)] /\ Committed(c)
  <2>1. PICK w, rd, ls, b : w = work[c] /\ rd = lock.read /\ ls = lock.list /\ b = lock.recorded
    OBVIOUS
  <2>2. /\ lock = [by |-> c, at |-> "anchor", read |-> rd, list |-> ls, todo |-> {}, recorded |-> b]
        /\ b \in BOOLEAN /\ rd \in Lists /\ ls \in Lists /\ ListInv /\ catalog = ls
        /\ \/ w.pc = "reconcile" /\ ~b
           \/ w.pc = "recording" /\ RecordingInv(w) /\ UnderWay(w)
    BY <1>1, <2>1, HolderFields
  <2>3. lock.list = ls /\ lock.read = rd /\ lock.todo = {} /\ lock.recorded = b /\ lock.at = "anchor"
    BY <2>2
  <2>4. /\ anchor.list.attempts \subseteq ls.attempts /\ anchor.list.lineages \subseteq ls.lineages
        /\ anchor'.list = ls /\ DOMAIN anchor'.root.lineages = ls.lineages
        /\ \A l \in ls.lineages : anchor'.root.lineages[l] = lineages[l]
    BY <1>3, <2>1 DEF Advances, Root
  <2>5. /\ \A l \in ls.lineages :
             lineages[l] # Nothing /\ ToSet(lineages[l]) \subseteq ls.attempts \cup anchor.list.attempts
        /\ \A k \in ls.attempts :
             attempts[k] # Nothing /\ res[k].lineage \in ls.lineages /\ k \in ToSet(lineages[res[k].lineage])
        /\ ~b => \A k \in RetryKeys : attempts[k] # Nothing => k \in ls.attempts
    BY <2>2, <2>3 DEF ListInv
  <2>6. UNCHANGED res /\ AttemptsKept /\ ls.lineages \subseteq RetryKeys /\ ls.attempts \subseteq RetryKeys
    BY <1>1, <2>2 DEF StoreOnly, intakeVars, AttemptsKept, Lists
  <2>7. FilesInv /\ FilesInv'
    BY <1>1, <2>6 DEF AdmissionInv, FilesInv, ChainOf
  <2>8. AnchorInv'
    <3>1. ASSUME NEW l \in ls.lineages
          PROVE  /\ anchor'.root.lineages[l] \in Seq(RetryKeys) /\ ChainOf(anchor.root.lineages[l], l)'
                 /\ ToSet(anchor'.root.lineages[l]) \subseteq ls.attempts
      <4>1. PICK s : s = lineages[l]
        OBVIOUS
      <4>2. s \in Seq(RetryKeys) /\ ChainOf(s, l) /\ ToSet(s) \subseteq ls.attempts
        BY <2>4, <2>5, <2>6, <2>7, <4>1 DEF FilesInv
      <4>3. ChainOf(s, l)'
        BY <1>1, <2>6, <4>2 DEF ChainOf
      <4>4. anchor'.root.lineages[l] = s
        BY <2>4, <4>1
      <4> QED BY <4>2, <4>3, <4>4
    <3>2. ASSUME NEW k \in ls.attempts
          PROVE  /\ attempts'[k] # Nothing /\ res'[k].lineage \in ls.lineages
                 /\ k \in ToSet(anchor'.root.lineages[res'[k].lineage])
      BY <1>1, <2>4, <2>5, <2>6
    <3> QED BY <2>2, <2>4, <3>1, <3>2 DEF AnchorInv
  <2>9. CASE w.pc = "reconcile"
    <3>1. lock' = Nothing /\ Goto(c, Resting(TRUE)) /\ UNCHANGED told
      BY <1>3, <2>1, <2>9 DEF Committed, Unlock
    <3>2. IntakeKept
      BY <1>1, IntakeSame DEF StoreOnly
    <3>3. ToldInv'
      BY <2>4, <2>6, <3>1, <3>2, ToldKept DEF AdmissionInv, Quiet
    <3>4. PICK v : v = Resting(TRUE)
      OBVIOUS
    <3> QED BY <1>1, <2>8, <3>1, <3>3, <3>4, Unlocks
  <2>10. CASE w.pc # "reconcile" /\ b
    <3>1. RecordingInv(w) /\ UnderWay(w) /\ w.pc = "recording"
      BY <2>2, <2>10
    <3>2. lock' = Nothing /\ Answer(c, StatusOf(w.decision.verdict))
      BY <1>3, <2>1, <2>10 DEF Committed, Unlock
    <3>3. attempts[w.key] = w.decision /\ w.key \in ls.attempts
      BY <2>3, <2>10, <3>1 DEF RecordingInv
    <3>4. ToldInv' /\ Goto(c, Resting(TRUE))
      BY <1>1, <2>1, <2>4, <3>1, <3>2, <3>3, AnswerBacked
    <3>5. PICK v : v = Resting(TRUE)
      OBVIOUS
    <3> QED BY <1>1, <2>8, <3>2, <3>4, <3>5, Unlocks
  <2>11. CASE w.pc # "reconcile" /\ ~b
    <3>1. RecordingInv(w) /\ UnderWay(w) /\ w.pc = "recording"
      BY <2>2, <2>11
    <3>2. lock' = [lock EXCEPT !.at = "check"] /\ UNCHANGED <<work, told>>
      BY <1>3, <2>1, <2>11 DEF Committed, LockAt
    <3>3. lock' = [by |-> c, at |-> "check", read |-> rd, list |-> ls, todo |-> {}, recorded |-> b]
      BY <2>2, <3>2
    <3>4. lock'.at = "check" /\ lock'.read = rd /\ lock'.recorded = b
      BY <3>3
    <3>5. Rooted'
      BY <1>1, <2>2, <2>4 DEF Rooted
    <3>6. w.key \in RetryKeys
      BY <3>1 DEF UnderWay
    <3>7. /\ attempts[w.key] \in {Nothing, w.decision}
          /\ rd.attempts \subseteq anchor.list.attempts /\ rd.lineages \subseteq anchor.list.lineages
          /\ \A k \in rd.attempts : res[k].lineage \in rd.lineages
      BY <2>3, <3>1 DEF RecordingInv
    <3>8. attempts[w.key] # Nothing => w.key \in catalog.attempts
      BY <2>2, <2>5, <2>11, <3>6
    <3>9. RecordingInv(w)'
      BY <1>1, <2>4, <2>6, <3>4, <3>5, <3>7, <3>8 DEF RecordingInv
    <3>10. work'[c] = w
      BY <2>1, <3>2
    <3>11. HolderInv'
      BY <2>2, <3>1, <3>3, <3>9, <3>10, HolderHolds
    <3> QED BY <1>1, <2>4, <2>6, <2>7, <2>8, <3>2, <3>11, LockMoves
  <2> QED BY <2>9, <2>10, <2>11
<1> QED BY <1>2, <1>3 DEF WriteAnchor

\* The attempt is looked up once the indexes are sound.
LEMMA CheckRecordStep ==
  ASSUME AdmissionInv, NEW c \in Services, CheckRecord(c)
  PROVE  AdmissionInv'
<1>1. /\ lock # Nothing /\ lock.by = c /\ lock.at = "check"
      /\ StoreOnly /\ UNCHANGED <<attempts, lineages, catalog, anchor>>
  BY DEF CheckRecord, Locked, StoreOnly
<1>2. PICK w, k, rd, ls, b : w = work[c] /\ k = w.key /\ rd = lock.read /\ ls = lock.list /\ b = lock.recorded
  OBVIOUS
<1>3. /\ lock = [by |-> c, at |-> "check", read |-> rd, list |-> ls, todo |-> {}, recorded |-> b]
      /\ b \in BOOLEAN /\ rd \in Lists /\ ls \in Lists
      /\ w.pc = "recording" /\ RecordingInv(w) /\ UnderWay(w) /\ k = Key(c) /\ k \in RetryKeys
  BY <1>1, <1>2, HolderFields
<1>4. UNCHANGED res /\ ReservationsKept /\ AttemptsKept
  BY <1>1 DEF StoreOnly, intakeVars, ReservationsKept, AttemptsKept
<1>5. AnchorInv' /\ FilesInv'
  BY <1>1, <1>4, AnchorKept, FilesKept DEF AdmissionInv
<1>6. /\ attempts[k] \in {Nothing, w.decision} /\ Rooted
      /\ attempts[k] # Nothing => k \in catalog.attempts
      /\ rd.attempts \subseteq anchor.list.attempts /\ rd.lineages \subseteq anchor.list.lineages
      /\ \A j \in rd.attempts : res[j].lineage \in rd.lineages
  BY <1>1, <1>2, <1>3 DEF RecordingInv
<1>7. CASE Refuse(c)
  BY <1>1, <1>7, RefuseStep
<1>8. CASE attempts[k] # Nothing /\ Unlock /\ Answer(c, StatusOf(w.decision.verdict))
  <2>1. k \in anchor'.list.attempts /\ attempts[k] = w.decision
    BY <1>1, <1>6, <1>8 DEF Rooted
  <2>2. ToldInv' /\ Goto(c, Resting(TRUE))
    BY <1>1, <1>2, <1>3, <1>8, <2>1, AnswerBacked
  <2>3. PICK v : v = Resting(TRUE)
    OBVIOUS
  <2> QED BY <1>1, <1>5, <1>8, <2>2, <2>3, Unlocks DEF Unlock
<1>9. CASE attempts[k] = Nothing /\ Recordable(k) /\ LockAt("attempt") /\ UNCHANGED <<work, told>>
  <2>1. lock' = [by |-> c, at |-> "attempt", read |-> rd, list |-> ls, todo |-> {}, recorded |-> b]
    BY <1>3, <1>9 DEF LockAt
  <2>2. lock'.at = "attempt" /\ lock'.read = rd
    BY <2>1
  <2>3. Appendable(k)
    BY <1>9 DEF Recordable, Appendable, Summarised, StoreIsSettled
  <2>4. Rooted' /\ Appendable(k)'
    BY <1>1, <1>4, <1>6, <2>3 DEF Rooted, Appendable
  <2>5. RecordingInv(w)'
    BY <1>1, <1>2, <1>4, <1>6, <1>9, <2>2, <2>4 DEF RecordingInv
  <2>6. work'[c] = w
    BY <1>2, <1>9
  <2>7. HolderInv'
    BY <1>3, <2>1, <2>5, <2>6, HolderHolds
  <2> QED BY <1>1, <1>4, <1>5, <1>9, <2>7, LockMoves
<1> QED BY <1>2, <1>3, <1>7, <1>8, <1>9 DEF CheckRecord

-----------------------------------------------------------------------------
(* The theorems of the admission. *)

LEMMA AdmissionInit ==
  ASSUME Init PROVE AdmissionInv
<1>1. IntakeInv
  BY DEF Init, IntakeInv, ReservationInv, IntakeLedgerInv, EvidenceInv
<1>2. WorkInv /\ RecInv
  BY DEF Init, WorkInv, ProcessInv, RecInv
<1>3. FilesInv
  BY DEF Init, FilesInv, Listed, Lists
<1>4. AnchorInv
  <2>1. anchor.list.attempts = {} /\ anchor.list.lineages = {} /\ DOMAIN anchor.root.lineages = {}
        /\ anchor.list = [attempts |-> {}, lineages |-> {}]
    BY DEF Init, Listed
  <2> QED BY <2>1 DEF AnchorInv, Lists
<1>5. LockInv /\ ToldInv
  BY DEF Init, LockInv, ToldInv
<1> QED BY <1>1, <1>2, <1>3, <1>4, <1>5 DEF AdmissionInv

LEMMA AdmissionStands ==
  ASSUME AdmissionInv, UNCHANGED vars
  PROVE  AdmissionInv'
<1>1. UNCHANGED <<intakeVars, evid, rec, calls>> /\ UNCHANGED <<evidenceVars, work, told>>
  BY DEF vars
<1>2. IntakeInv' /\ IntakeKept /\ RecInv'
  BY <1>1, IntakeSame
<1> QED BY <1>1, <1>2, RecMoves

LEMMA CallStep ==
  ASSUME AdmissionInv, NEW c \in Services, Call(c)
  PROVE  AdmissionInv'
<1>1. ASSUME NEW l \in RetryKeys, RebuildLineage(c, l) PROVE AdmissionInv'
  BY <1>1, RebuildLineageStep
<1>2. CASE Examine(c) \/ Bind(c) \/ Store(c) \/ ReadReceipt(c) \/ PrepareReceipt(c)
  BY <1>2, ExamineStep, BindStep, StoreStep, ReadReceiptStep, PrepareReceiptStep
<1>3. CASE FinalizeReceipt(c) \/ CompileContract(c) \/ WriteEvidence(c) \/ Delete(c) \/ Attest(c)
  BY <1>3, FinalizeReceiptStep, CompileContractStep, WriteEvidenceStep, DeleteStep, AttestStep
<1>4. CASE PrepareDisposition(c) \/ WriteDisposition(c) \/ ReplayAdmitted(c) \/ Admit(c) \/ Record(c)
  BY <1>4, PrepareDispositionStep, WriteDispositionStep, ReplayAdmittedStep, SemanticAdmitStep, RecordStep
<1>5. CASE WriteCatalog(c) \/ WriteAnchor(c) \/ CheckRecord(c) \/ WriteAttempt(c) \/ WriteLineage(c)
  BY <1>5, WriteCatalogStep, WriteAnchorStep, CheckRecordStep, WriteAttemptStep, WriteLineageStep
<1> QED BY <1>1, <1>2, <1>3, <1>4, <1>5 DEF Call

LEMMA RStepsStep ==
  ASSUME AdmissionInv, RSteps
  PROVE  AdmissionInv'
<1>1. ASSUME NEW k \in RetryKeys, Reconcile(k) PROVE AdmissionInv'
  BY <1>1, ReconcileStep
<1> QED BY <1>1, RPrepareStep, RFinalizeStep, RDeleteStep, RAttestStep, RDisposeStep, RFinishStep DEF RSteps

LEMMA FaultStep ==
  ASSUME AdmissionInv, Fault
  PROVE  AdmissionInv'
<1>1. ASSUME NEW c \in Services,
             \/ StoreFails(c) \/ DeleteFails(c) \/ WriteDispositionFails(c) \/ DieWritingEvidence(c)
             \/ ProcessDies(c) \/ DieFinalizingReceipt(c) \/ DieWritingDisposition(c)
      PROVE  AdmissionInv'
  BY <1>1, StoreFailsStep, DeleteFailsStep, WriteDispositionFailsStep, DieWritingEvidenceStep,
     ProcessDiesStep, DieFinalizingReceiptStep, DieWritingDispositionStep
<1> QED BY <1>1, RDeleteFailsStep, ReconcilerDiesStep DEF Fault

\* Every step of the admission keeps the invariant.
LEMMA AdmissionNext ==
  ASSUME AdmissionInv, [Next]_vars
  PROVE  AdmissionInv'
<1>1. ASSUME NEW c \in Services, NEW r \in Submissions, Reserve(c, r.key, r.payload, r.pred) PROVE AdmissionInv'
  <2>1. PICK k, p, q : k = r.key /\ p = r.payload /\ q = r.pred
    OBVIOUS
  <2>2. k \in RetryKeys /\ p \in Payloads /\ q \in RetryKeys \cup {Nothing}
    BY <2>1, AdmissionAssumption
  <2> QED BY <1>1, <2>1, <2>2, ReserveStep
<1>2. ASSUME NEW c \in Services, Call(c) \/ Open(c) \/ RebuildStore(c) PROVE AdmissionInv'
  BY <1>2, CallStep, OpenStep, RebuildStoreStep
<1> QED BY <1>1, <1>2, RStepsStep, FaultStep, AdmissionStands DEF Next

\* The records of an attempt, the calls that hold parts of them, and the files
\* of the validation store agree in every state, whoever dies or stalls.
THEOREM AdmissionInvariant == Spec => []AdmissionInv
BY AdmissionInit, AdmissionNext, PTL DEF Spec

LEMMA BackedFollows ==
  ASSUME AdmissionInv PROVE AdmittedIsBacked
<1>1. ASSUME NEW t \in told, t[3] = "ENGINEERING_ADMITTED"
      PROVE  /\ Terminal(t[1]) /\ disp[t[1]].status = "ADMITTED"
             /\ res[t[1]].bound = t[2] /\ receipt[t[1]] # Nothing /\ deleted[t[1]] # Nothing
             /\ Complete(t[1]) /\ evid[t[1]].kind = "compiled"
             /\ t[1] \in anchor.list.attempts /\ attempts[t[1]].verdict = "ADMITTED"
             /\ \E i \in DOMAIN anchor.root.lineages[res[t[1]].lineage] :
                  anchor.root.lineages[res[t[1]].lineage][i] = t[1]
  <2>1. PICK k, p : k = t[1] /\ p = t[2]
    OBVIOUS
  <2>2. k \in RetryKeys /\ Compiled(k, p) /\ k \in anchor.list.attempts /\ attempts[k].verdict = "ADMITTED"
    BY <1>1, <2>1 DEF AdmissionInv, ToldInv
  <2>3. PICK s : s = anchor.root.lineages[res[k].lineage]
    OBVIOUS
  <2>4. k \in ToSet(s)
    BY <2>2, <2>3 DEF AdmissionInv, AnchorInv
  <2>5. \E i \in DOMAIN s : s[i] = k
    BY <2>4 DEF ToSet
  <2> QED BY <2>1, <2>2, <2>3, <2>5 DEF Compiled, Terminal, VerifiedCompilation
<1> QED BY <1>1 DEF AdmittedIsBacked

\* AdmittedIsBacked: an answer that engineering may start rests on durable
\* records of exactly these bytes, and on a decision under the watermark.
THEOREM AdmittedBacked == Spec => []AdmittedIsBacked
BY AdmissionInvariant, BackedFollows, PTL

LEMMA ChainFollows ==
  ASSUME AdmissionInv PROVE LineageIsAChain
<1>1. ASSUME NEW l \in DOMAIN anchor.root.lineages
      PROVE  LET s == anchor.root.lineages[l] IN
             /\ Len(s) > 0 /\ s[1] = l
             /\ \A i \in DOMAIN s : /\ s[i] \in anchor.list.attempts /\ res[s[i]].lineage = l
                                    /\ i > 1 => res[s[i]].pred = s[i - 1]
  <2>1. PICK s : s = anchor.root.lineages[l]
    OBVIOUS
  <2>2. s \in Seq(RetryKeys) /\ ChainOf(s, l) /\ ToSet(s) \subseteq anchor.list.attempts
    BY <2>1 DEF AdmissionInv, AnchorInv
  <2>3. Len(s) > 0 /\ DOMAIN s = 1 .. Len(s) /\ Len(s) \in Nat
    BY <2>2, EmptySeq, LenProperties DEF ChainOf
  <2>4. \A i \in DOMAIN s : s[i] \in anchor.list.attempts
    BY <2>2 DEF ToSet
  <2>5. s[1] = l
    <3>1. 1 \in DOMAIN s
      BY <2>3
    <3>2. s[1] \in RetryKeys /\ attempts[s[1]] # Nothing /\ res[s[1]].lineage = l /\ res[s[1]].pred = Nothing
      BY <2>2, <3>1 DEF ChainOf
    <3>3. res[s[1]] # Nothing
      BY <3>2 DEF AdmissionInv, FilesInv
    <3> QED BY <3>2, <3>3 DEF AdmissionInv, IntakeInv, ReservationInv
  <2>6. ASSUME NEW i \in DOMAIN s PROVE res[s[i]].lineage = l /\ (i > 1 => res[s[i]].pred = s[i - 1])
    <3>1. i \in Nat
      BY <2>3
    <3> QED BY <2>2, <3>1 DEF ChainOf
  <2> QED BY <2>1, <2>3, <2>4, <2>5, <2>6
<1> QED BY <1>1 DEF LineageIsAChain

\* LineageIsAChain: what the watermark lists is chains of corrections, each
\* from one first attempt.
THEOREM LineageChain == Spec => []LineageIsAChain
BY AdmissionInvariant, ChainFollows, PTL

=============================================================================
