------------------------- MODULE LifecycleControl -------------------------
(***************************************************************************)
(* The lifecycle control plane (orchestration/lifecycle.py): a run moves    *)
(* through thirty states, one appended ledger event per move.  Every event  *)
(* is appended by a compare-and-swap on the ledger's last digest, so of two *)
(* controllers that loaded the same ledger only the first one's next event  *)
(* is accepted.  Moves that change something outside the run (a pull        *)
(* request, staging, canary, production) name an attempt that was journaled *)
(* before an adapter could execute it and whose result was recorded.        *)
(*                                                                          *)
(* The ledger is represented by what replaying it yields (led): the state,  *)
(* the last stops, the bindings, the recorded results and the budget usage. *)
(* Digests, signatures and timestamps of evidence are left out: a caller    *)
(* either presents evidence that is valid for what really is the case, or   *)
(* the move is denied, which is itself an event.                            *)
(***************************************************************************)
EXTENDS Integers, FiniteSets

CONSTANTS
  Controllers,        \* processes that hold a loaded control plane
  Findings,           \* identities of engineering findings
  MaxHeads,           \* bound: versions of the candidate
  Tries,              \* bound: attempts in the mutation journal, per action
  MaxUsed,            \* bound: metered delivery usage
  MaxOpen,            \* bound: attempts without a settled result at a time
  Restarts,           \* bound: a run may start over after its first plan
  MaxReloads,         \* bound: loads of an existing ledger
  MaxExtensions,      \* bound: admitted budget extensions
  DeliveryLimit, RepairsPerFinding, RepairsPerStage, SafetyUnits

ASSUME BoundsAssumption ==
  /\ {MaxHeads, DeliveryLimit} \subseteq Nat \ {0}
  /\ \A action \in DOMAIN Tries : Tries[action] \in Nat
  /\ Restarts \in BOOLEAN
  /\ {MaxOpen, MaxUsed, MaxReloads, MaxExtensions, RepairsPerFinding, RepairsPerStage,
      SafetyUnits} \subseteq Nat

VARIABLES
  meta,       \* the run's metadata file exists
  led,        \* what the ledger on disk replays to
  mem,        \* [Controllers -> what the controller's own events replay to]
  fresh,      \* controllers whose last event is the ledger's last event
  journal,    \* the mutation journal: [journaled attempts -> head the plan names]
  released,   \* attempts an adapter may still execute
  outcome,    \* [attempts -> what the adapter reports]
  live,       \* the rollout resources that really exist
  head,       \* the candidate's current head
  challenge,  \* controllers holding an unused budget challenge
  reloads     \* loads so far

vars == <<meta, led, mem, fresh, journal, released, outcome, live, head,
          challenge, reloads>>

(***************************************************************************)
(* The transition table.                                                    *)
(***************************************************************************)
Rule(source, target, reason, guards, action) ==
  [source |-> source, target |-> target, reason |-> reason,
   guards |-> guards, action |-> action]

Forward  == {"authority", "budget"}
Mutation == Forward \cup {"mutation"}
Safety   == {"safety", "mutation"}
None     == "NONE"

PlanningRules == {
  Rule("CONTRACT_RECEIVED", "CONTRACT_INVALID", "contract_rejected", {}, None),
  Rule("CONTRACT_RECEIVED", "BLOCKED", "quarantine_disposition_indeterminate",
       {"security_incident_block"}, None),
  Rule("CONTRACT_INVALID", "CONTRACT_RECEIVED", "corrected_contract", {}, None),
  Rule("CONTRACT_RECEIVED", "PRODUCT_INPUT_REQUIRED", "product_truth_missing", {"safe_stop"}, None),
  Rule("PRODUCT_INPUT_REQUIRED", "CONTRACT_RECEIVED", "superseding_contract", {}, None),
  Rule("CONTRACT_RECEIVED", "CONTRACT_APPROVED", "contract_admitted", Forward, None),
  Rule("CONTRACT_APPROVED", "REPOSITORY_ANALYSED", "repository_admitted", Forward, None),
  Rule("CONTRACT_APPROVED", "BLOCKED", "repository_unavailable", {"safe_stop"}, None),
  Rule("REPOSITORY_ANALYSED", "ARCHITECTURE_PROPOSED", "architecture_compiled", Forward, None),
  Rule("ARCHITECTURE_PROPOSED", "PRODUCT_INPUT_REQUIRED", "architecture_input_missing",
       {"safe_stop"}, None),
  Rule("ARCHITECTURE_PROPOSED", "ARCHITECTURE_APPROVED", "architecture_approved", Forward, None),
  Rule("ARCHITECTURE_APPROVED", "TEST_PLAN_CREATED", "test_plan_compiled", Forward, None),
  Rule("ARCHITECTURE_APPROVED", "PRODUCT_INPUT_REQUIRED", "test_oracle_missing", {"safe_stop"}, None),
  Rule("TEST_PLAN_CREATED", "TEST_PLAN_VALIDATED", "test_plan_validated", Forward, None),
  Rule("TEST_PLAN_CREATED", "PRODUCT_INPUT_REQUIRED", "test_oracle_missing", {"safe_stop"}, None),
  Rule("TEST_PLAN_VALIDATED", "IMPLEMENTATION_PLANNED", "implementation_planned", Forward, None) }

WorkRules == {
  Rule("IMPLEMENTATION_PLANNED", "DRAFT_PR_OPEN", "draft_pr_admitted", Mutation, "open_draft_pr"),
  Rule("DRAFT_PR_OPEN", "IMPLEMENTATION_IN_PROGRESS", "begin_work", Forward, None),
  Rule("DRAFT_PR_OPEN", "BUDGET_EXCEEDED", "delivery_budget_exhausted", {"budget_stop"}, None),
  Rule("DRAFT_PR_OPEN", "PRODUCT_INPUT_REQUIRED", "meaningful_red_needs_product_truth",
       {"product_input"}, None),
  Rule("IMPLEMENTATION_IN_PROGRESS", "VERIFICATION_FAILED", "candidate_ready_for_verification",
       Forward, None),
  Rule("IMPLEMENTATION_IN_PROGRESS", "REVIEW_REQUIRED", "verification_passed", Forward, None),
  Rule("IMPLEMENTATION_IN_PROGRESS", "BUDGET_EXCEEDED", "delivery_budget_exhausted",
       {"budget_stop"}, None),
  Rule("IMPLEMENTATION_IN_PROGRESS", "PRODUCT_INPUT_REQUIRED", "product_truth_missing",
       {"product_input"}, None),
  Rule("VERIFICATION_FAILED", "REPAIR_IN_PROGRESS", "accepted_finding", Forward \cup {"repair"}, None),
  Rule("VERIFICATION_FAILED", "REVIEW_REQUIRED", "verification_rerun_passed", Forward, None),
  Rule("VERIFICATION_FAILED", "BUDGET_EXCEEDED", "verification_budget_exhausted",
       {"budget_stop"}, None),
  Rule("VERIFICATION_FAILED", "PRODUCT_INPUT_REQUIRED", "product_truth_missing",
       {"product_input"}, None),
  Rule("VERIFICATION_FAILED", "BLOCKED", "verification_infrastructure_missing", {"safe_stop"}, None),
  Rule("REPAIR_IN_PROGRESS", "VERIFICATION_FAILED", "repair_candidate_ready", Forward, None),
  Rule("REPAIR_IN_PROGRESS", "REVIEW_REQUIRED", "repair_verified", Forward, None),
  Rule("REPAIR_IN_PROGRESS", "BUDGET_EXCEEDED", "delivery_budget_exhausted", {"budget_stop"}, None),
  Rule("REPAIR_IN_PROGRESS", "PRODUCT_INPUT_REQUIRED", "product_truth_missing",
       {"product_input"}, None) }

ReviewRules == {
  Rule("REVIEW_REQUIRED", "PR_READY", "advisory_readiness_clear",
       Mutation \cup {"review_clear"}, "mark_pr_ready"),
  Rule("REVIEW_REQUIRED", "REVIEW_FAILED", "blocking_finding", {"blocking_finding"}, None),
  Rule("REVIEW_REQUIRED", "VERIFICATION_FAILED", "check_stale", {}, None),
  Rule("REVIEW_REQUIRED", "IMPLEMENTATION_IN_PROGRESS", "head_changed", {}, None),
  Rule("REVIEW_REQUIRED", "REPOSITORY_ANALYSED", "repository_drift", {"drift"}, None),
  Rule("REVIEW_FAILED", "REPAIR_IN_PROGRESS", "accepted_finding", Forward \cup {"repair"}, None),
  Rule("REVIEW_FAILED", "REVIEW_REQUIRED", "finding_rejected_with_evidence",
       Forward \cup {"no_blocking_finding", "finding_disposition"}, None),
  Rule("REVIEW_FAILED", "PRODUCT_INPUT_REQUIRED", "product_truth_missing", {"product_input"}, None),
  Rule("PR_READY", "PR_MERGED", "native_merge_linearized",
       Mutation \cup {"merge_binding", "no_blocking_finding"}, "enqueue_merge"),
  Rule("PR_READY", "REVIEW_FAILED", "blocking_finding",
       {"blocking_finding", "mutation"}, "convert_pr_to_draft"),
  Rule("PR_READY", "VERIFICATION_FAILED", "required_check_invalidated", {}, None),
  Rule("PR_READY", "IMPLEMENTATION_IN_PROGRESS", "head_changed", {}, None),
  Rule("PR_READY", "REPOSITORY_ANALYSED", "repository_drift", {"drift"}, None),
  Rule("PR_READY", "BLOCKED", "merge_protection_incident", {"safe_stop"}, None),
  Rule("PR_READY", "PRODUCT_INPUT_REQUIRED", "authority_invalidated",
       {"product_input", "mutation"}, "convert_pr_to_draft") }

StagingRules == {
  Rule("PR_MERGED", "BLOCKED", "post_merge_blocking_finding", {"blocking_finding", "safe_stop"}, None),
  Rule("PR_MERGED", "STAGING_DEPLOYED", "staging_admitted",
       Mutation \cup {"no_blocking_finding", "integrated_merge", "staging_bundle"}, "deploy_staging"),
  Rule("PR_MERGED", "STAGING_FAILED", "staging_failed", Safety, "cleanup_staging"),
  Rule("PR_MERGED", "BLOCKED", "staging_infrastructure_missing", {"safe_stop"}, None),
  Rule("STAGING_DEPLOYED", "CANARY_DEPLOYED", "canary_admitted",
       Mutation \cup {"no_blocking_finding", "canary_binding"}, "deploy_canary"),
  Rule("STAGING_DEPLOYED", "STAGING_FAILED", "staging_cleanup", Safety, "cleanup_staging"),
  Rule("STAGING_DEPLOYED", "ROLLBACK_IN_PROGRESS", "canary_mutation_indeterminate",
       Safety, "rollback"),
  Rule("STAGING_DEPLOYED", "BUDGET_EXCEEDED", "delivery_budget_exhausted",
       {"budget_stop", "mutation"}, "cleanup_staging"),
  Rule("STAGING_DEPLOYED", "BLOCKED", "canary_authorization_missing",
       {"safe_stop", "mutation"}, "cleanup_staging"),
  Rule("STAGING_FAILED", "PR_MERGED", "fresh_deployment_required", Forward, None),
  Rule("STAGING_FAILED", "PRODUCT_INPUT_REQUIRED", "product_authority_invalidated",
       {"product_input"}, None),
  Rule("STAGING_FAILED", "REPOSITORY_ANALYSED", "candidate_remediation", {}, None),
  Rule("STAGING_FAILED", "BLOCKED", "infrastructure_unavailable",
       {"safety_block"}, "cleanup_staging") }

CanaryRules == {
  Rule("CANARY_DEPLOYED", "PRODUCTION_APPROVAL_REQUIRED", "canary_window_passed",
       Forward \cup {"active_canary", "no_blocking_finding", "canary_window"}, None),
  Rule("CANARY_DEPLOYED", "CANARY_FAILED", "canary_breach_recorded",
       {"active_canary", "canary_breach"}, None),
  Rule("CANARY_DEPLOYED", "ROLLBACK_IN_PROGRESS", "canary_failed",
       Safety \cup {"active_canary"}, "rollback"),
  Rule("CANARY_DEPLOYED", "ROLLBACK_IN_PROGRESS", "governance_stop",
       Safety \cup {"active_canary"}, "rollback"),
  Rule("CANARY_FAILED", "ROLLBACK_IN_PROGRESS", "rollback_started", Safety, "rollback") }

ApprovalRules == {
  Rule("PRODUCTION_APPROVAL_REQUIRED", "CANARY_FAILED", "canary_breach_recorded",
       {"active_canary", "canary_breach"}, None),
  Rule("PRODUCTION_APPROVAL_REQUIRED", "PRODUCTION_DEPLOYED", "production_admitted",
       Mutation \cup {"production_approval", "active_canary", "no_blocking_finding"},
       "deploy_production"),
  Rule("PRODUCTION_APPROVAL_REQUIRED", "ROLLBACK_IN_PROGRESS", "canary_breach",
       Safety \cup {"active_canary"}, "rollback"),
  Rule("PRODUCTION_APPROVAL_REQUIRED", "ROLLBACK_IN_PROGRESS",
       "production_mutation_indeterminate", Safety, "rollback"),
  Rule("PRODUCTION_APPROVAL_REQUIRED", "STAGING_DEPLOYED", "approval_reset_no_defect",
       Safety \cup {"canary_teardown"}, "teardown_canary"),
  Rule("PRODUCTION_APPROVAL_REQUIRED", "STAGING_FAILED", "approval_reset_cleanup",
       Safety, "cleanup_staging") }

ProductionRules == {
  Rule("PRODUCTION_DEPLOYED", "COMPLETED", "observation_window_passed",
       {"authority", "completion", "no_blocking_finding"}, None),
  Rule("PRODUCTION_DEPLOYED", "LIVE_VERIFICATION_FAILED", "live_gate_failed",
       {"live_failure"}, None),
  Rule("PRODUCTION_DEPLOYED", "ROLLBACK_IN_PROGRESS", "governance_stop", Safety, "rollback"),
  Rule("LIVE_VERIFICATION_FAILED", "ROLLBACK_IN_PROGRESS", "rollback_started", Safety, "rollback"),
  Rule("ROLLBACK_IN_PROGRESS", "ROLLED_BACK", "rollback_verified",
       {"mutation", "zero_exposure"}, "rollback"),
  Rule("ROLLBACK_IN_PROGRESS", "BLOCKED", "rollback_indeterminate", {"safety_block"}, "rollback"),
  Rule("ROLLED_BACK", "STAGING_DEPLOYED", "no_defect_readmission", Forward, None),
  Rule("ROLLED_BACK", "STAGING_FAILED", "staging_cleanup", Safety, "cleanup_staging"),
  Rule("ROLLED_BACK", "PRODUCT_INPUT_REQUIRED", "product_truth_missing", {"product_input"}, None),
  Rule("ROLLED_BACK", "REPOSITORY_ANALYSED", "candidate_remediation", {}, None),
  Rule("ROLLED_BACK", "BUDGET_EXCEEDED", "delivery_budget_exhausted", {"budget_stop"}, None) }

StopRules == {
  Rule("BLOCKED", "ROLLBACK_IN_PROGRESS", "resume_safety_rollback", {"safety_resume"}, "rollback"),
  Rule("BLOCKED", "STAGING_FAILED", "resume_safety_cleanup", {"safety_resume"}, "cleanup_staging"),
  Rule("BLOCKED", "CONTRACT_RECEIVED", "superseding_contract", {"safe_stop"}, None),
  Rule("BLOCKED", "REPOSITORY_ANALYSED", "repository_readmitted", {"safe_stop"}, None),
  Rule("BUDGET_EXCEEDED", "BLOCKED", "extension_unavailable", {"safe_stop"}, None),
  Rule("COMPLETED", "LIVE_VERIFICATION_FAILED", "completion_evidence_invalidated",
       {"revoke_completion"}, None),
  Rule("COMPLETED", "BLOCKED", "completion_evidence_unavailable",
       {"revoke_completion", "safe_stop"}, None) }

CandidateStates ==
  {"DRAFT_PR_OPEN", "IMPLEMENTATION_IN_PROGRESS", "VERIFICATION_FAILED", "REPAIR_IN_PROGRESS"}
PlanStates ==
  {"ARCHITECTURE_PROPOSED", "ARCHITECTURE_APPROVED", "TEST_PLAN_CREATED", "TEST_PLAN_VALIDATED",
   "IMPLEMENTATION_PLANNED"}

DriftRules ==
  {Rule(s, "REPOSITORY_ANALYSED", "repository_drift", {"drift"}, None) :
     s \in PlanStates \cup CandidateStates \cup {"REVIEW_FAILED"}}

AuthorityRules ==
  {Rule(s, "PRODUCT_INPUT_REQUIRED", "authority_invalidated", {"product_input"}, None) :
     s \in PlanStates \cup CandidateStates \cup
           {"CONTRACT_APPROVED", "REPOSITORY_ANALYSED", "REVIEW_REQUIRED", "REVIEW_FAILED",
            "PR_MERGED", "BUDGET_EXCEEDED"}}

Policy == UNION {PlanningRules, WorkRules, ReviewRules, StagingRules, CanaryRules,
                 ApprovalRules, ProductionRules, StopRules, DriftRules, AuthorityRules}

\* The targets of recorded_safe_resume, from BLOCKED and from BUDGET_EXCEEDED.
BudgetSafeResume == CandidateStates \cup {"PR_MERGED", "ROLLED_BACK"}
OrdinarySafeResume ==
  BudgetSafeResume \cup {"CONTRACT_RECEIVED", "CONTRACT_APPROVED", "REPOSITORY_ANALYSED",
                         "PR_READY", "PRODUCTION_DEPLOYED", "BUDGET_EXCEEDED"}
SafeResume(state) == IF state = "BLOCKED" THEN OrdinarySafeResume ELSE BudgetSafeResume

Actions == {r.action : r \in Policy} \ {None}
\* An attempt: its action and its number among the attempts at that action.
Attempts == UNION {{action} \X (1 .. Tries[action]) : action \in Actions}
RepairStages == {"VERIFICATION_FAILED", "REVIEW_FAILED"}
Stops == {"BLOCKED", "PRODUCT_INPUT_REQUIRED", "BUDGET_EXCEEDED"}

ASSUME AttemptAssumption == \A a \in Attempts : a # None

(***************************************************************************)
(* What a ledger replays to.                                                *)
(***************************************************************************)
\* The stop events are looked up only while the run is in that stop, where the
\* latest one is the one that put it there.
NoStop == [resume |-> None, attempt |-> None, reason |-> None]

\* A ledger that holds only its creation event.
Created ==
  [state |-> "CONTRACT_RECEIVED", only |-> TRUE,
   blocked |-> NoStop,                                 \* the stop a blocked run is in
   budget |-> None,                                    \* resume state of the budget stop it is in
   review |-> 0, reviewed |-> FALSE,                   \* head of the review binding, still valid
   merge |-> 0,                                        \* head of the merge binding
   canary |-> None, production |-> None,                 \* attempts of the last admissions
   result |-> [a \in Attempts |-> None], consumed |-> {},
   used |-> 0, safety |-> 0,
   finding |-> [f \in Findings |-> 0], stage |-> [s \in RepairStages |-> 0],
   extra |-> 0,                                        \* admitted budget extensions
   claim |-> FALSE]

Absent == [Created EXCEPT !.state = None]

\* Every admitted extension raises the delivery limit and the reserve by one.
Limit(m) == DeliveryLimit + m.extra
Reserve(m) == SafetyUnits + m.extra

(***************************************************************************)
(* The guards.  A context c carries what the caller presents: the rollout   *)
(* status of each environment, the metered usage, a finding, an attempt.    *)
(***************************************************************************)
Environments == {"staging", "canary", "production"}

\* A caller reports what exists as ACTIVE, what does not as NONE, or UNKNOWN.
\* (Only an unknown canary opens a way that the true status closes; every other
\* UNKNOWN counts as a resource and is covered by the move being denied.)
Observed == [e \in Environments |-> IF e \in live THEN "ACTIVE" ELSE "NONE"]
Observations == {Observed, [Observed EXCEPT !["canary"] = "UNKNOWN"]}

HasExposure(o) == \E e \in {"canary", "production"} : o[e] # "NONE"
HasResources(o) == \E e \in Environments : o[e] # "NONE"

\* No adapter may execute anything for this run any more.
Quiescent == released = {}

\* _merge_budget_usage: usage that is reported may not be less than before.
Metered(m) == m.used .. MaxUsed

Exhausted(m, c) == c.used >= Limit(m)

\* A stop leaves no exposure behind, except the two blocks that record it.
ExposureAdmitted(r, c) ==
  \/ r.target \notin Stops
  \/ ~HasExposure(c.rollout)
  \/ r.reason \in {"rollback_indeterminate", "quarantine_disposition_indeterminate"}

StatusAdmitted(r, c) ==
  /\ r.target = "STAGING_FAILED" => ~HasResources(c.rollout)
  /\ r.source = "CANARY_DEPLOYED" => c.rollout["canary"] # "NONE"
  /\ r.reason = "canary_mutation_indeterminate" => c.rollout["canary"] = "UNKNOWN"
  /\ r.reason = "canary_breach" => c.rollout["canary"] # "NONE"

DriftAdmitted(c) == ~HasResources(c.rollout) /\ Quiescent

IncidentAdmitted(c) == Quiescent

\* Variant: adapters may still be working when the run stops.
SafeStopBusy(c) == ~HasResources(c.rollout)

SafeStopAdmitted(c) == ~HasResources(c.rollout) /\ Quiescent

ProductInputAdmitted(c) == ~HasResources(c.rollout) /\ Quiescent

BudgetStopAdmitted(m, c) ==
  /\ Exhausted(m, c)
  /\ Quiescent
  /\ ~HasResources(c.rollout)

RepairAdmitted(m, r, c) ==
  /\ c.finding \in Findings
  /\ m.finding[c.finding] < RepairsPerFinding
  /\ m.stage[r.source] < RepairsPerStage

FindingAdmitted(c) == c.finding \in Findings
NoFindingAdmitted(c) == c.finding \notin Findings

\* The attempt is journaled for the action of the rule.
Journaled(r, c) ==
  /\ c.attempt \in DOMAIN journal
  /\ c.attempt[1] = r.action

ResultUsable(m, c) == m.result[c.attempt] = "SUCCEEDED" /\ c.attempt \notin m.consumed

MutationAdmitted(m, r, c) ==
  /\ Journaled(r, c)
  /\ r.target # "ROLLBACK_IN_PROGRESS" => ResultUsable(m, c)

\* Variant: any merge that succeeded, of any candidate.
MergeOfAny(m, c) ==
  m.review # 0 /\ c.attempt \in DOMAIN journal /\ m.result[c.attempt] = "SUCCEEDED"

\* The attempt was planned for the head that was reviewed, or merged.
BoundToReview(m, c) ==
  m.review # 0 /\ c.attempt \in DOMAIN journal /\ journal[c.attempt] = m.review
BoundToMerge(m, c) ==
  m.merge # 0 /\ c.attempt \in DOMAIN journal /\ journal[c.attempt] = m.merge

MergeAdmitted(m, c) == BoundToReview(m, c) /\ m.result[c.attempt] = "SUCCEEDED"

StagingAdmitted(m, c) == BoundToMerge(m, c)

CanaryAdmitted(c) == c.rollout["canary"] = "ACTIVE"

ActiveCanaryAdmitted(m, r, c) ==
  /\ m.canary # None
  /\ c.rollout["canary"] \in
       IF r.target = "ROLLBACK_IN_PROGRESS" THEN {"ACTIVE", "UNKNOWN"} ELSE {"ACTIVE"}
  /\ r.target = "PRODUCTION_DEPLOYED" =>
       /\ c.attempt \in DOMAIN journal
       /\ journal[c.attempt] = journal[m.canary]

TeardownAdmitted(c) == c.rollout["canary"] = "NONE"
ZeroExposureAdmitted(c) == ~HasExposure(c.rollout)

SafetyAdmitted(m) == m.safety < Reserve(m)

SafetyResumeAdmitted(m, r, c) ==
  /\ m.blocked.resume = r.target
  /\ m.blocked.attempt = c.attempt
  /\ Journaled(r, c)

\* The release that runs in production is the merge of the reviewed candidate.
CompletionAdmitted(m) ==
  /\ ~m.claim
  /\ m.review # 0 /\ m.reviewed
  /\ m.production # None => journal[m.production] = IF m.merge # 0 THEN m.merge ELSE m.review

LiveFailureAdmitted(m) == m.production # None
RevocationAdmitted(m) == m.claim

\* A guard that is not named here is decided by the evidence alone.
GuardAdmitted(g, m, r, c) ==
  /\ g = "budget"                   => ~Exhausted(m, c)
  /\ g = "drift"                    => DriftAdmitted(c)
  /\ g = "security_incident_block"  => IncidentAdmitted(c)
  /\ g = "safe_stop"                => SafeStopAdmitted(c)
  /\ g = "product_input"            => ProductInputAdmitted(c)
  /\ g = "budget_stop"              => BudgetStopAdmitted(m, c)
  /\ g = "repair"                   => RepairAdmitted(m, r, c)
  /\ g = "blocking_finding"         => FindingAdmitted(c)
  /\ g = "no_blocking_finding"      => NoFindingAdmitted(c)
  /\ g = "mutation"                 => MutationAdmitted(m, r, c)
  /\ g = "merge_binding"            => MergeAdmitted(m, c)
  /\ g = "integrated_merge"         => StagingAdmitted(m, c)
  /\ g = "canary_binding"           => CanaryAdmitted(c)
  /\ g = "active_canary"            => ActiveCanaryAdmitted(m, r, c)
  /\ g = "canary_teardown"          => TeardownAdmitted(c)
  /\ g = "zero_exposure"            => ZeroExposureAdmitted(c)
  /\ g = "safety"                   => SafetyAdmitted(m)
  /\ g = "safety_block"             => Journaled(r, c)
  /\ g = "safety_resume"            => SafetyResumeAdmitted(m, r, c)
  /\ g = "live_failure"             => LiveFailureAdmitted(m)
  /\ g = "completion"               => CompletionAdmitted(m)
  /\ g = "revoke_completion"        => RevocationAdmitted(m)

Admitted(m, r, c) ==
  /\ ExposureAdmitted(r, c)
  /\ StatusAdmitted(r, c)
  /\ \A g \in r.guards : GuardAdmitted(g, m, r, c)

(***************************************************************************)
(* The effect of an admitted move on what the ledger replays to.            *)
(***************************************************************************)
\* Variant: always where it stopped.
ResumeAtSource(m, r) == r.source

\* Where a stop says the run may go on.
ResumeState(m, r) ==
  IF "security_incident_block" \in r.guards THEN "CONTRACT_RECEIVED"
  ELSE IF "safety_block" \in r.guards
  THEN IF r.action = "rollback" THEN "ROLLBACK_IN_PROGRESS" ELSE "STAGING_FAILED"
  ELSE IF "budget_stop" \in r.guards THEN IF r.source = "STAGING_DEPLOYED" THEN "PR_MERGED" ELSE r.source
  ELSE CASE r.reason = "post_merge_blocking_finding"     -> "REPOSITORY_ANALYSED"
         [] r.reason = "canary_authorization_missing"    -> "PR_MERGED"
         [] r.reason = "completion_evidence_unavailable" -> "PRODUCTION_DEPLOYED"
         [] r.reason = "extension_unavailable" /\ m.budget # None -> m.budget
         [] OTHER -> r.source

Invalidating == {"blocking_finding", "check_stale", "head_changed"}

\* The attempt whose success the move consumes, if any.
Consumes(m, r, c) ==
  IF "mutation" \in r.guards /\ m.result[c.attempt] = "SUCCEEDED" THEN {c.attempt} ELSE {}

Bindings(m, r, c) ==
  [m EXCEPT
     !.review = IF r.reason = "advisory_readiness_clear" THEN journal[c.attempt] ELSE @,
     !.reviewed = (@ /\ r.reason \notin Invalidating) \/ r.reason = "advisory_readiness_clear",
     !.merge = IF r.reason = "native_merge_linearized" THEN journal[c.attempt] ELSE @,
     !.canary = IF r.reason = "canary_admitted" THEN c.attempt ELSE @,
     !.production = IF r.reason = "production_admitted" THEN c.attempt ELSE @]

Counted(m, r, c) ==
  [m EXCEPT
     !.used = c.used,
     !.safety = IF "safety" \in r.guards THEN @ + 1 ELSE @,
     !.finding = IF "repair" \in r.guards THEN [m.finding EXCEPT ![c.finding] = @ + 1] ELSE @,
     !.stage = IF "repair" \in r.guards THEN [m.stage EXCEPT ![r.source] = @ + 1] ELSE @,
     !.consumed = @ \cup Consumes(m, r, c)]

Applied(m, r, c) ==
  [Counted(Bindings(m, r, c), r, c) EXCEPT
     !.state = r.target,
     !.only = FALSE,
     !.blocked = IF r.target = "BLOCKED"
                 THEN [resume |-> ResumeState(m, r), reason |-> r.reason,
                       attempt |-> IF "safety_block" \in r.guards THEN c.attempt ELSE None]
                 ELSE NoStop,
     !.budget = IF r.target = "BUDGET_EXCEEDED" THEN ResumeState(m, r) ELSE None,
     !.claim = IF r.target = "COMPLETED" THEN TRUE ELSE @ /\ r.source # "COMPLETED"]

(***************************************************************************)
(* The controllers.                                                         *)
(***************************************************************************)
world == <<journal, released, outcome, live, head>>

\* Append one event: only a controller that has seen every event may.
\* (Bound: a controller that falls two events behind has ended.)
AppendEvent(p, m) ==
  /\ p \in fresh
  /\ led' = m
  /\ mem' = [q \in Controllers |-> IF q = p THEN m ELSE IF q \in fresh THEN mem[q] ELSE Absent]
  /\ fresh' = {p}

\* create(): metadata and first event; an interrupted call leaves the metadata.
Create(p) ==
  /\ led = Absent
  /\ meta' = TRUE
  /\ led' = Created
  /\ mem' = [mem EXCEPT ![p] = Created]
  /\ fresh' = {p}
  /\ UNCHANGED <<world, challenge, reloads>>

CreateInterrupted ==
  /\ ~meta
  /\ meta' = TRUE
  /\ UNCHANGED <<led, mem, fresh, world, challenge, reloads>>

\* admit_legacy_migration() on a run that was just created.
AdmitMigration(p) ==
  /\ mem[p].state # None /\ mem[p].only
  /\ AppendEvent(p, [mem[p] EXCEPT !.state = "PRODUCT_INPUT_REQUIRED", !.only = FALSE])
  /\ UNCHANGED <<meta, world, challenge, reloads>>

\* load(), also after a crash: what the process held is gone.
Load(p) ==
  /\ led # Absent
  /\ reloads < MaxReloads
  /\ reloads' = reloads + 1
  /\ mem' = [mem EXCEPT ![p] = led]
  /\ fresh' = fresh \cup {p}
  /\ challenge' = challenge \ {p}
  /\ UNCHANGED <<meta, led, world>>

Within(target) ==
  Restarts \/ DOMAIN journal = {} \/ target \notin {"CONTRACT_RECEIVED", "REPOSITORY_ANALYSED"}

Transition(p, r) ==
  /\ Within(r.target)
  /\ r.source = mem[p].state
  /\ \E a \in (IF r.action = None THEN {None} ELSE {b \in DOMAIN journal : b[1] = r.action}),
       f \in Findings \cup {None}, o \in Observations, u \in Metered(mem[p]) :
      LET c == [attempt |-> a, finding |-> f, rollout |-> o, used |-> u] IN
      /\ Admitted(mem[p], r, c)
      /\ AppendEvent(p, Applied(mem[p], r, c))
      /\ UNCHANGED <<meta, world, challenge, reloads>>

\* A refused move is recorded too, with the usage the caller's meter signed.
Deny(p) ==
  \E u \in Metered(mem[p]) :
    /\ mem[p].state # None
    /\ AppendEvent(p, [mem[p] EXCEPT !.used = u, !.only = FALSE])
    /\ UNCHANGED <<meta, world, challenge, reloads>>

\* record_observation(): an event that changes nothing but the ledger's end.
RecordObservation(p) ==
  /\ mem[p].state # None
  /\ AppendEvent(p, [mem[p] EXCEPT !.only = FALSE])
  /\ UNCHANGED <<meta, world, challenge, reloads>>

\* What a stopped run must show before it goes on.
ResumeCleared(m, o, u) ==
  /\ ~HasResources(o)
  /\ Quiescent
  /\ u < Limit(m)

Resumed(m, recorded, u) ==
  [m EXCEPT !.state = recorded, !.used = u, !.blocked = NoStop,
            !.budget = IF recorded = "BUDGET_EXCEEDED" THEN recorded ELSE None]

\* resume(): only to the state the last stop recorded.
Resume(p) ==
  LET m == mem[p]
      recorded == IF m.state = "BLOCKED" THEN m.blocked.resume ELSE m.budget
  IN \E u \in Metered(m), o \in Observations :
       /\ m.state \in {"BLOCKED", "BUDGET_EXCEEDED"}
       /\ recorded \in SafeResume(m.state)
       /\ Within(recorded)
       /\ recorded = "PR_READY" => head = m.review
       /\ ResumeCleared(m, o, u)
       /\ AppendEvent(p, Resumed(m, recorded, u))
       /\ UNCHANGED <<meta, world, challenge, reloads>>

IssueChallenge(p) ==
  /\ mem[p].state # None
  /\ mem[p].extra < MaxExtensions
  /\ challenge' = challenge \cup {p}
  /\ UNCHANGED <<meta, led, mem, fresh, world, reloads>>

Extended(m) == [m EXCEPT !.extra = @ + 1, !.only = FALSE]

\* The challenge is used up before the event is appended.
AdmitBudgetPolicy(p) ==
  /\ p \in challenge
  /\ challenge' = challenge \ {p}
  /\ IF p \in fresh
     THEN AppendEvent(p, Extended(mem[p]))
     ELSE UNCHANGED <<led, mem, fresh>>
  /\ UNCHANGED <<meta, world, reloads>>

\* The subject a plan must name: the candidate, the review, the merge, the canary.
Subject(m, action) ==
  CASE action = "enqueue_merge"     -> m.review
    [] action = "deploy_staging"    -> m.merge
    [] action = "deploy_canary"     -> m.merge
    [] action = "deploy_production" -> IF m.canary = None THEN 0 ELSE journal[m.canary]
    [] OTHER                        -> head

\* _mutation_authorization_valid: the table moves on from here by this action.
Authorized(m, action) == \E r \in Policy : r.source = m.state /\ r.action = action

PrejournalMutation(p, action) ==
  LET m == mem[p]
      a == <<action, Cardinality({b \in DOMAIN journal : b[1] = action}) + 1>>
  IN
  /\ a \in Attempts
  /\ Cardinality({b \in DOMAIN journal : m.result[b] \notin {"SUCCEEDED", "FAILED"}}) < MaxOpen
  /\ p \in fresh
  /\ Authorized(m, action)
  /\ action \in {"enqueue_merge", "deploy_staging"} => Subject(m, action) # 0
  /\ journal' = [b \in DOMAIN journal \cup {a} |-> IF b = a THEN Subject(m, action) ELSE journal[b]]
  /\ released' = released \cup {a}
  /\ UNCHANGED <<meta, led, mem, fresh, outcome, live, head, challenge, reloads>>

\* record_mutation_result(): an unknown result may still be settled, a settled one stays.
RecordResult(p, a, status) ==
  /\ a \in DOMAIN journal
  /\ status = IF outcome[a] = None THEN "UNKNOWN" ELSE outcome[a]
  /\ \/ mem[p].result[a] = None
     \/ mem[p].result[a] = "UNKNOWN" /\ status # "UNKNOWN"
  /\ AppendEvent(p, [mem[p] EXCEPT !.result[a] = status, !.only = FALSE])
  /\ UNCHANGED <<meta, world, challenge, reloads>>

(***************************************************************************)
(* The world outside: adapters, the work controller and the workers.        *)
(***************************************************************************)
Effect(action) ==
  CASE action = "deploy_staging"    -> live \cup {"staging"}
    [] action = "deploy_canary"     -> live \cup {"canary"}
    [] action = "deploy_production" -> live \cup {"production"}
    [] action = "cleanup_staging"   -> live \ {"staging"}
    [] action = "teardown_canary"   -> live \ {"canary"}
    [] action = "rollback"          -> live \ {"canary", "production"}
    [] OTHER                        -> live

\* An adapter succeeds, or fails with or without having changed anything.
Execute(a) ==
  /\ a \in released
  /\ released' = released \ {a}
  /\ \/ outcome' = [outcome EXCEPT ![a] = "SUCCEEDED"] /\ live' = Effect(a[1])
     \/ outcome' = [outcome EXCEPT ![a] = "FAILED"] /\ live' \in {live, Effect(a[1])}
  /\ UNCHANGED <<meta, led, mem, fresh, journal, head, challenge, reloads>>

\* The work controller takes the capability back: what has not run will not.
Revoke ==
  /\ released # {}
  /\ released' = {}
  /\ outcome' = [a \in Attempts |-> IF a \in released THEN "FAILED" ELSE outcome[a]]
  /\ UNCHANGED <<meta, led, mem, fresh, journal, live, head, challenge,
                 reloads>>

\* A commit on the pull request's branch, while it is open.
Push ==
  /\ head < MaxHeads
  /\ led.state \in CandidateStates \cup {"REVIEW_REQUIRED", "REVIEW_FAILED", "PR_READY"}
  /\ head' = head + 1
  /\ UNCHANGED <<meta, led, mem, fresh, journal, released, outcome, live, challenge,
                 reloads>>

Init ==
  /\ meta = FALSE
  /\ led = Absent
  /\ mem = [p \in Controllers |-> Absent]
  /\ fresh = {}
  /\ journal = [a \in {} |-> 0]
  /\ released = {}
  /\ outcome = [a \in Attempts |-> None]
  /\ live = {}
  /\ head = 1
  /\ challenge = {}
  /\ reloads = 0

Next ==
  \/ CreateInterrupted
  \/ \E p \in Controllers :
       \/ Create(p)
       \/ AdmitMigration(p)
       \/ Load(p)
       \/ \E r \in Policy : Transition(p, r)
       \/ Deny(p)
       \/ RecordObservation(p)
       \/ Resume(p)
       \/ IssueChallenge(p)
       \/ AdmitBudgetPolicy(p)
       \/ \E action \in Actions : PrejournalMutation(p, action)
       \/ \E a \in Attempts, status \in {"SUCCEEDED", "FAILED", "UNKNOWN"} :
            RecordResult(p, a, status)
  \/ \E a \in Attempts : Execute(a)
  \/ Revoke
  \/ Push

Spec == Init /\ [][Next]_vars

(***************************************************************************)
(* Properties.                                                              *)
(***************************************************************************)

\* A run that was stopped in the ordinary way (safe_stop, product_input,
\* budget_stop) has no canary and no changed production exposed, and none can
\* appear while it is stopped: an adapter that was released before the stop
\* must not be able to expose the candidate after it.
StoppedIsUnexposed ==
  led.state \in Stops /\ (led.state = "BLOCKED" =>
       led.blocked.attempt = None /\ led.blocked.reason # "quarantine_disposition_indeterminate")
    => live \cap {"canary", "production"} = {}

\* Every stop records a state from which the run can go on: a target resume()
\* admits, or the safety action of the journaled attempt that was interrupted,
\* also when a budget stop was itself interrupted by a missing extension.
EveryStopCanResume ==
  /\ led.state = "BUDGET_EXCEEDED" => led.budget \in BudgetSafeResume
  /\ led.state = "BLOCKED" =>
       \/ led.blocked.attempt = None /\ led.blocked.resume \in OrdinarySafeResume
       \/ /\ led.blocked.attempt \in DOMAIN journal
          /\ \E r \in Policy : /\ "safety_resume" \in r.guards
                               /\ r.target = led.blocked.resume
                               /\ r.action = led.blocked.attempt[1]

\* From the merge on, the merged candidate is the one the standing review is
\* about, however the head moved between plan, review and merge, and however
\* late an adapter executed an older plan.
ReleaseIsReviewed ==
  led.state \in {"PR_MERGED", "STAGING_DEPLOYED", "STAGING_FAILED", "CANARY_DEPLOYED",
                 "CANARY_FAILED", "PRODUCTION_APPROVAL_REQUIRED", "PRODUCTION_DEPLOYED",
                 "ROLLBACK_IN_PROGRESS", "ROLLED_BACK", "COMPLETED"}
    => led.merge # 0 /\ led.merge = led.review /\ led.reviewed

============================================================================
