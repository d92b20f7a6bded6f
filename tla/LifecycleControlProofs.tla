----------------------- MODULE LifecycleControlProofs -----------------------
(***************************************************************************)
(* Proofs about LifecycleControl.  A controller that may append knows the  *)
(* ledger, so the argument is about the ledger alone: what the transition  *)
(* table says of each rule, and what the guards say of the moment at which *)
(* the rule is applied.                                                    *)
(***************************************************************************)
EXTENDS LifecycleControl, TLAPS

-----------------------------------------------------------------------------
(* What the transition table says. *)

Released == {"PR_MERGED", "STAGING_DEPLOYED", "STAGING_FAILED", "CANARY_DEPLOYED",
             "CANARY_FAILED", "PRODUCTION_APPROVAL_REQUIRED", "PRODUCTION_DEPLOYED",
             "LIVE_VERIFICATION_FAILED", "ROLLBACK_IN_PROGRESS", "ROLLED_BACK", "COMPLETED"}

\* How a run comes to be released, ready or stopped.
EntersProperly(r) ==
  /\ r.target \in Released =>
       \/ r.source \in Released /\ r.reason # "native_merge_linearized"
       \/ /\ r.source = "PR_READY" /\ r.reason = "native_merge_linearized"
          /\ "merge_binding" \in r.guards
       \/ /\ r.source = "BLOCKED" /\ "safety_resume" \in r.guards
          /\ r.reason # "native_merge_linearized"
  /\ r.target \in Released \cup Stops => r.reason \notin Invalidating \cup {"advisory_readiness_clear"}
  /\ r.target = "PR_READY" <=> r.reason = "advisory_readiness_clear"
  /\ r.target \in Stops => r.reason # "native_merge_linearized"

\* What guards a stop, and what a stopped run may plan.
StopsProperly(r) ==
  /\ r.target \in Stops =>
       \/ {"safe_stop", "product_input", "budget_stop"} \cap r.guards # {}
       \/ /\ r.target = "BLOCKED"
          /\ "safety_block" \in r.guards \/ r.reason = "quarantine_disposition_indeterminate"
  /\ r.reason = "rollback_indeterminate" => "safety_block" \in r.guards
  /\ r.reason = "quarantine_disposition_indeterminate" => r.target = "BLOCKED"
  /\ r.source \in Stops => r.action \in {None, "rollback", "cleanup_staging"}
  /\ r.source # None /\ (r.source = "CONTRACT_RECEIVED" => r.action = None)

\* Where a stop resumes: budget is the resume state of the budget stop the run
\* is in when the rule applies.
ResumesProperly(m, r) ==
  /\ r.target = "BUDGET_EXCEEDED" =>
       /\ ResumeState(m, r) \in BudgetSafeResume
       /\ ResumeState(m, r) \in Released => r.source \in Released
  /\ r.target = "BLOCKED" /\ "safety_block" \notin r.guards =>
       \/ /\ r.source # "BUDGET_EXCEEDED"
          /\ ResumeState(m, r) \in OrdinarySafeResume \ {"BUDGET_EXCEEDED"}
          /\ ResumeState(m, r) \in Released => r.source \in Released
          /\ ResumeState(m, r) = "PR_READY" => r.source = "PR_READY"
       \/ /\ r.source = "BUDGET_EXCEEDED"
          /\ m.budget # None => ResumeState(m, r) = m.budget
  /\ r.target = "BLOCKED" /\ "safety_block" \in r.guards =>
       /\ r.source \in Released
       /\ <<r.action, ResumeState(m, r)>> \in
            {<<"rollback", "ROLLBACK_IN_PROGRESS">>, <<"cleanup_staging", "STAGING_FAILED">>}

LEMMA PolicyProper == \A r \in Policy : EntersProperly(r) /\ StopsProperly(r)
BY DEF Policy, PlanningRules, WorkRules, ReviewRules, StagingRules, CanaryRules, ApprovalRules, ProductionRules,
   StopRules, DriftRules, AuthorityRules, PlanStates, CandidateStates,
   Rule, EntersProperly, StopsProperly, Released, Stops, Invalidating, Forward, Mutation, Safety, None

LEMMA PolicyResumes == ASSUME NEW m PROVE \A r \in Policy : ResumesProperly(m, r)
BY DEF Policy, PlanningRules, WorkRules, ReviewRules, StagingRules, CanaryRules, ApprovalRules, ProductionRules,
   StopRules, DriftRules, AuthorityRules, PlanStates, CandidateStates,
   Rule, ResumesProperly, ResumeState, BudgetSafeResume, OrdinarySafeResume, Released, Forward,
   Mutation, Safety, None

-----------------------------------------------------------------------------
(* The inductive invariant. *)

IsLedger(m) ==
  /\ m = [state |-> m.state, only |-> m.only, blocked |-> m.blocked, budget |-> m.budget,
          review |-> m.review, reviewed |-> m.reviewed, merge |-> m.merge, canary |-> m.canary,
          production |-> m.production, result |-> m.result, consumed |-> m.consumed,
          used |-> m.used, safety |-> m.safety, finding |-> m.finding, stage |-> m.stage,
          extra |-> m.extra, claim |-> m.claim]
  /\ m.only \in BOOLEAN /\ m.reviewed \in BOOLEAN

\* What the bindings are worth to a run in state s, or about to resume there.
Standing(m, s) ==
  /\ s \in Released => m.merge # 0 /\ m.merge = m.review /\ m.reviewed
  /\ s = "PR_READY" => m.reviewed

BindingsStand(m) ==
  /\ Standing(m, m.state)
  /\ m.state = "BLOCKED" => Standing(m, m.blocked.resume)
  /\ m.state = "BUDGET_EXCEEDED" => Standing(m, m.budget)

SafetyResumes == {<<"rollback", "ROLLBACK_IN_PROGRESS">>, <<"cleanup_staging", "STAGING_FAILED">>}

\* EveryStopCanResume, without the detour over a second budget stop.
StopsResume(m) ==
  /\ m.state = "BUDGET_EXCEEDED" => m.budget \in BudgetSafeResume
  /\ m.state = "BLOCKED" =>
       \/ m.blocked.attempt = None /\ m.blocked.resume \in OrdinarySafeResume \ {"BUDGET_EXCEEDED"}
       \/ /\ m.blocked.attempt \in DOMAIN journal
          /\ <<m.blocked.attempt[1], m.blocked.resume>> \in SafetyResumes

OrdinaryStop(m) ==
  /\ m.state \in Stops
  /\ m.state = "BLOCKED" =>
       m.blocked.attempt = None /\ m.blocked.reason # "quarantine_disposition_indeterminate"

Exposing == {"deploy_canary", "deploy_production"}

\* Nothing is exposed and no adapter can expose anything.
Unexposed ==
  /\ live \cap {"canary", "production"} = {}
  /\ \A a \in released : a[1] \notin Exposing

ControlInv ==
  /\ IsLedger(led)
  /\ fresh \subseteq Controllers /\ DOMAIN mem = Controllers
  /\ \A p \in fresh : mem[p] = led
  /\ DOMAIN journal \subseteq Attempts
  /\ led.only => led.state \in {None, "CONTRACT_RECEIVED"} /\ live = {} /\ released = {}
  /\ BindingsStand(led)
  /\ StopsResume(led)
  /\ OrdinaryStop(led) => Unexposed

-----------------------------------------------------------------------------
(* Events *)

LEMMA BindingsFacts ==
  ASSUME NEW m, IsLedger(m), NEW r, NEW c
  PROVE  LET n == Bindings(m, r, c)
         IN  /\ IsLedger(n) /\ n.state = m.state /\ n.result = m.result
             /\ n.review = IF r.reason = "advisory_readiness_clear" THEN journal[c.attempt] ELSE m.review
             /\ n.reviewed = ((m.reviewed /\ r.reason \notin Invalidating)
                               \/ r.reason = "advisory_readiness_clear")
             /\ n.merge = IF r.reason = "native_merge_linearized" THEN journal[c.attempt] ELSE m.merge
<1> DEFINE review == IF r.reason = "advisory_readiness_clear" THEN journal[c.attempt] ELSE m.review
           reviewed == (m.reviewed /\ r.reason \notin Invalidating)
                         \/ r.reason = "advisory_readiness_clear"
           merge == IF r.reason = "native_merge_linearized" THEN journal[c.attempt] ELSE m.merge
           canary == IF r.reason = "canary_admitted" THEN c.attempt ELSE m.canary
           production == IF r.reason = "production_admitted" THEN c.attempt ELSE m.production
<1>1. Bindings(m, r, c) = [m EXCEPT !.review = review, !.reviewed = reviewed, !.merge = merge,
                             !.canary = canary, !.production = production]
  BY DEF Bindings
<1>2. reviewed \in BOOLEAN
  OBVIOUS
<1>3. PICK x : x = reviewed
  OBVIOUS
<1> HIDE DEF review, merge, canary, production
<1>4. Bindings(m, r, c) = [m EXCEPT !.review = review, !.reviewed = x, !.merge = merge,
                             !.canary = canary, !.production = production]
  BY <1>1, <1>3
<1> HIDE DEF reviewed
<1>5. PICK n : n = Bindings(m, r, c)
  OBVIOUS
<1>6. /\ IsLedger(n) /\ n.state = m.state /\ n.result = m.result
      /\ n.review = review /\ n.reviewed = x /\ n.merge = merge
  BY <1>2, <1>3, <1>4, <1>5 DEF IsLedger
<1> QED BY <1>3, <1>5, <1>6 DEF review, reviewed, merge

LEMMA CountedFacts ==
  ASSUME NEW m, IsLedger(m), NEW r, NEW c
  PROVE  LET n == Counted(m, r, c)
         IN  /\ IsLedger(n) /\ n.review = m.review /\ n.reviewed = m.reviewed /\ n.merge = m.merge
<1> DEFINE uses == Consumes(m, r, c)
           finding == IF "repair" \in r.guards THEN [m.finding EXCEPT ![c.finding] = @ + 1] ELSE m.finding
           stage == IF "repair" \in r.guards THEN [m.stage EXCEPT ![r.source] = @ + 1] ELSE m.stage
           safety == IF "safety" \in r.guards THEN m.safety + 1 ELSE m.safety
<1>1. Counted(m, r, c) = [m EXCEPT !.used = c.used, !.safety = safety, !.finding = finding,
                            !.stage = stage, !.consumed = m.consumed \cup uses]
  BY DEF Counted
<1> HIDE DEF uses, finding, stage, safety
<1> QED BY <1>1 DEF IsLedger

\* What the move r, made in the context c, makes of the ledger m.
Moved(n, m, r, c) ==
  /\ IsLedger(n) /\ n.state = r.target /\ n.only = FALSE
  /\ n.review = IF r.reason = "advisory_readiness_clear" THEN journal[c.attempt] ELSE m.review
  /\ n.reviewed = ((m.reviewed /\ r.reason \notin Invalidating)
                    \/ r.reason = "advisory_readiness_clear")
  /\ n.merge = IF r.reason = "native_merge_linearized" THEN journal[c.attempt] ELSE m.merge
  /\ r.target = "BLOCKED" =>
       /\ n.blocked.resume = ResumeState(m, r) /\ n.blocked.reason = r.reason
       /\ n.blocked.attempt = IF "safety_block" \in r.guards THEN c.attempt ELSE None
  /\ r.target = "BUDGET_EXCEEDED" => n.budget = ResumeState(m, r)

LEMMA AppliedFacts ==
  ASSUME NEW m, IsLedger(m), NEW r, NEW c, NEW n, n = Applied(m, r, c)
  PROVE  Moved(n, m, r, c)
<1>1. PICK b : b = Bindings(m, r, c)
  OBVIOUS
<1>2. PICK k : k = Counted(b, r, c)
  OBVIOUS
<1>3. /\ IsLedger(b)
      /\ b.review = IF r.reason = "advisory_readiness_clear" THEN journal[c.attempt] ELSE m.review
      /\ b.reviewed = ((m.reviewed /\ r.reason \notin Invalidating)
                        \/ r.reason = "advisory_readiness_clear")
      /\ b.merge = IF r.reason = "native_merge_linearized" THEN journal[c.attempt] ELSE m.merge
  BY <1>1, BindingsFacts
<1>4. IsLedger(k) /\ k.review = b.review /\ k.reviewed = b.reviewed /\ k.merge = b.merge
  BY <1>2, <1>3, CountedFacts
<1> DEFINE stop == IF r.target = "BLOCKED"
                   THEN [resume |-> ResumeState(m, r), reason |-> r.reason,
                         attempt |-> IF "safety_block" \in r.guards THEN c.attempt ELSE None]
                   ELSE NoStop
           budget == IF r.target = "BUDGET_EXCEEDED" THEN ResumeState(m, r) ELSE None
           claim == IF r.target = "COMPLETED" THEN TRUE ELSE k.claim /\ r.source # "COMPLETED"
<1>5. Applied(m, r, c) = [k EXCEPT !.state = r.target, !.only = FALSE, !.blocked = stop,
                            !.budget = budget, !.claim = claim]
  BY <1>1, <1>2 DEF Applied
<1>6. r.target = "BLOCKED" =>
        /\ stop.resume = ResumeState(m, r) /\ stop.reason = r.reason
        /\ stop.attempt = IF "safety_block" \in r.guards THEN c.attempt ELSE None
  OBVIOUS
<1>7. r.target = "BUDGET_EXCEEDED" => budget = ResumeState(m, r)
  OBVIOUS
<1> HIDE DEF stop, budget, claim
<1>8. /\ IsLedger(n) /\ n.state = r.target /\ n.only = FALSE /\ n.review = k.review
      /\ n.reviewed = k.reviewed /\ n.merge = k.merge /\ n.blocked = stop /\ n.budget = budget
  BY <1>4, <1>5 DEF IsLedger
<1> QED BY <1>3, <1>4, <1>6, <1>7, <1>8 DEF Moved

\* An event that fits the invariant may be appended.
LEMMA AppendKeeps ==
  ASSUME ControlInv, NEW p \in Controllers, NEW m, AppendEvent(p, m), UNCHANGED world,
         IsLedger(m), m.only = FALSE, BindingsStand(m), StopsResume(m), OrdinaryStop(m) => Unexposed
  PROVE  ControlInv'
<1>1. /\ led' = m /\ fresh' = {p} /\ DOMAIN mem' = Controllers /\ mem'[p] = m
      /\ journal' = journal /\ released' = released /\ live' = live
  BY DEF AppendEvent, world
<1>2. BindingsStand(led') /\ (OrdinaryStop(led') => Unexposed')
  BY <1>1 DEF Unexposed
<1>3. StopsResume(led)'
  BY <1>1 DEF StopsResume
<1> QED BY <1>1, <1>2, <1>3 DEF ControlInv

\* Most events leave the state, the stop and the bindings alone.
LEMMA NoteKeeps ==
  ASSUME ControlInv, NEW p \in Controllers, NEW m, AppendEvent(p, m), UNCHANGED world,
         IsLedger(m), m.only = FALSE, m.state = led.state, m.blocked = led.blocked,
         m.budget = led.budget, m.review = led.review, m.reviewed = led.reviewed, m.merge = led.merge
  PROVE  ControlInv'
<1>1. BindingsStand(m) /\ StopsResume(m) /\ (OrdinaryStop(m) => Unexposed)
  BY DEF ControlInv, BindingsStand, Standing, StopsResume, OrdinaryStop
<1> QED BY <1>1, AppendKeeps

LEMMA FreshKnows ==
  ASSUME ControlInv, NEW p \in Controllers, NEW m, AppendEvent(p, m)
  PROVE  mem[p] = led
BY DEF ControlInv, AppendEvent

-----------------------------------------------------------------------------
(* Moves *)

\* What a caller's observation without resources says of the world.
LEMMA NothingObserved ==
  ASSUME NEW o \in Observations, ~HasResources(o), Quiescent
  PROVE  Unexposed
<1>1. \A e \in Environments : o[e] = "NONE"
  BY DEF HasResources
<1>2. o = Observed
  BY <1>1 DEF Observations, Observed, Environments
<1>3. live \cap {"canary", "production"} = {}
  BY <1>1, <1>2 DEF Observed, Environments
<1> QED BY <1>3 DEF Quiescent, Unexposed

LEMMA TransitionKeeps ==
  ASSUME ControlInv, NEW p \in Controllers, NEW r \in Policy, Transition(p, r)
  PROVE  ControlInv'
<1>1. PICK c : /\ r.source = mem[p].state /\ c.rollout \in Observations
               /\ Admitted(mem[p], r, c) /\ AppendEvent(p, Applied(mem[p], r, c))
               /\ UNCHANGED world
  <2>1. PICK a, f : \E o \in Observations, u \in Metered(mem[p]) :
          LET c == [attempt |-> a, finding |-> f, rollout |-> o, used |-> u] IN
          /\ Admitted(mem[p], r, c) /\ AppendEvent(p, Applied(mem[p], r, c))
          /\ UNCHANGED <<meta, world, challenge, reloads>>
    BY DEF Transition
  <2>2. PICK o \in Observations, u \in Metered(mem[p]) :
          LET c == [attempt |-> a, finding |-> f, rollout |-> o, used |-> u] IN
          /\ Admitted(mem[p], r, c) /\ AppendEvent(p, Applied(mem[p], r, c))
          /\ UNCHANGED <<meta, world, challenge, reloads>>
    BY <2>1
  <2>3. PICK c : c = [attempt |-> a, finding |-> f, rollout |-> o, used |-> u]
    OBVIOUS
  <2>4. Admitted(mem[p], r, c) /\ AppendEvent(p, Applied(mem[p], r, c)) /\ UNCHANGED world
    BY <2>2, <2>3
  <2>5. c.rollout \in Observations
    BY <2>3
  <2> QED BY <2>4, <2>5 DEF Transition
<1>2. mem[p] = led
  BY <1>1, FreshKnows
<1>3. PICK n : n = Applied(led, r, c)
  OBVIOUS
<1>4. /\ r.source = led.state /\ Admitted(led, r, c) /\ AppendEvent(p, n) /\ UNCHANGED world
      /\ IsLedger(led)
  BY <1>1, <1>2, <1>3 DEF ControlInv
<1>5. /\ IsLedger(n) /\ n.state = r.target /\ n.only = FALSE
      /\ n.review = IF r.reason = "advisory_readiness_clear" THEN journal[c.attempt] ELSE led.review
      /\ n.reviewed = ((led.reviewed /\ r.reason \notin Invalidating)
                        \/ r.reason = "advisory_readiness_clear")
      /\ n.merge = IF r.reason = "native_merge_linearized" THEN journal[c.attempt] ELSE led.merge
      /\ r.target = "BLOCKED" =>
           /\ n.blocked.resume = ResumeState(led, r) /\ n.blocked.reason = r.reason
           /\ n.blocked.attempt = IF "safety_block" \in r.guards THEN c.attempt ELSE None
      /\ r.target = "BUDGET_EXCEEDED" => n.budget = ResumeState(led, r)
  <2>1. PICK m : m = led
    OBVIOUS
  <2>2. IsLedger(m) /\ n = Applied(m, r, c)
    BY <1>3, <1>4, <2>1
  <2>3. Moved(n, m, r, c)
    BY <2>2, AppliedFacts
  <2> QED BY <2>1, <2>3 DEF Moved
<1>6. EntersProperly(r) /\ StopsProperly(r) /\ ResumesProperly(led, r)
  BY PolicyProper, PolicyResumes
<1>7. \A g \in r.guards : GuardAdmitted(g, led, r, c)
  BY <1>4 DEF Admitted
<1>8. BindingsStand(led) /\ StopsResume(led) /\ DOMAIN journal \subseteq Attempts
  BY DEF ControlInv
<1>9. ASSUME r.target \in Released \cup Stops, r.reason # "native_merge_linearized", NEW s, Standing(led, s)
      PROVE  Standing(n, s)
  BY <1>5, <1>6, <1>9 DEF EntersProperly, Standing
<1>10. Standing(n, r.target)
  <2>1. CASE r.target = "PR_READY"
    BY <1>5, <1>6, <2>1 DEF EntersProperly, Standing, Released
  <2>2. CASE r.target \in Released /\ r.source \in Released /\ r.reason # "native_merge_linearized"
    BY <1>4, <1>5, <1>6, <1>8, <2>2 DEF EntersProperly, BindingsStand, Standing
  <2>3. CASE /\ r.target \in Released /\ r.source = "PR_READY"
             /\ r.reason = "native_merge_linearized" /\ "merge_binding" \in r.guards
    <3>1. MergeAdmitted(led, c)
      BY <1>7, <2>3 DEF GuardAdmitted
    <3>2. led.reviewed
      BY <1>4, <1>8, <2>3 DEF BindingsStand, Standing
    <3> QED BY <1>5, <1>6, <2>3, <3>1, <3>2 DEF EntersProperly, MergeAdmitted, BoundToReview, Standing, Released
  <2>4. CASE /\ r.target \in Released /\ r.source = "BLOCKED" /\ "safety_resume" \in r.guards
             /\ r.reason # "native_merge_linearized"
    <3>1. led.blocked.resume = r.target
      BY <1>7, <2>4 DEF GuardAdmitted, SafetyResumeAdmitted
    <3>2. Standing(led, r.target)
      BY <1>4, <1>8, <2>4, <3>1 DEF BindingsStand
    <3> QED BY <1>9, <2>4, <3>2
  <2>5. CASE r.target \notin Released \cup {"PR_READY"}
    BY <2>5 DEF Standing
  <2> QED BY <1>6, <2>1, <2>2, <2>3, <2>4, <2>5 DEF EntersProperly
<1>11. r.target \in Stops => r.reason # "native_merge_linearized"
  BY <1>6 DEF EntersProperly
<1>12. r.target = "BUDGET_EXCEEDED" => Standing(n, n.budget)
  <2> SUFFICES ASSUME r.target = "BUDGET_EXCEEDED" PROVE Standing(n, ResumeState(led, r))
    BY <1>5
  <2>1. /\ ResumeState(led, r) \in BudgetSafeResume
        /\ ResumeState(led, r) \in Released => r.source \in Released
    BY <1>6 DEF ResumesProperly
  <2>2. Standing(led, ResumeState(led, r))
    BY <1>4, <1>8, <2>1 DEF BindingsStand, Standing, BudgetSafeResume, CandidateStates
  <2> QED BY <1>9, <1>11, <2>2 DEF Stops
<1>13. r.target = "BLOCKED" => Standing(n, n.blocked.resume)
  <2> SUFFICES ASSUME r.target = "BLOCKED" PROVE Standing(n, ResumeState(led, r))
    BY <1>5
  <2>1. Standing(led, ResumeState(led, r))
    <3>1. CASE "safety_block" \in r.guards
      BY <1>4, <1>6, <1>8, <3>1 DEF ResumesProperly, BindingsStand, Standing, Released
    <3>2. CASE "safety_block" \notin r.guards /\ r.source # "BUDGET_EXCEEDED"
      BY <1>4, <1>6, <1>8, <3>2 DEF ResumesProperly, BindingsStand, Standing
    <3>3. CASE "safety_block" \notin r.guards /\ r.source = "BUDGET_EXCEEDED"
      <4>1. led.budget \in BudgetSafeResume /\ Standing(led, led.budget)
        BY <1>4, <1>8, <3>3 DEF StopsResume, BindingsStand
      <4>2. led.budget # None
        BY <4>1 DEF BudgetSafeResume, CandidateStates, None
      <4> QED BY <1>6, <3>3, <4>1, <4>2 DEF ResumesProperly
    <3> QED BY <3>1, <3>2, <3>3
  <2> QED BY <1>9, <1>11, <2>1 DEF Stops
<1>14. BindingsStand(n)
  BY <1>5, <1>10, <1>12, <1>13 DEF BindingsStand
<1>15. StopsResume(n)
  <2>1. r.target = "BUDGET_EXCEEDED" => n.budget \in BudgetSafeResume
    BY <1>5, <1>6 DEF ResumesProperly
  <2>2. CASE r.target = "BLOCKED" /\ "safety_block" \in r.guards
    <3>1. Journaled(r, c)
      BY <1>7, <2>2 DEF GuardAdmitted
    <3>2. <<r.action, ResumeState(led, r)>> \in SafetyResumes
      BY <1>6, <2>2 DEF ResumesProperly, SafetyResumes
    <3> QED BY <1>5, <2>1, <2>2, <3>1, <3>2 DEF StopsResume, Journaled
  <2>3. CASE r.target = "BLOCKED" /\ "safety_block" \notin r.guards
    <3>1. ResumeState(led, r) \in OrdinarySafeResume \ {"BUDGET_EXCEEDED"}
      <4>1. CASE r.source # "BUDGET_EXCEEDED"
        BY <1>6, <2>3, <4>1 DEF ResumesProperly
      <4>2. CASE r.source = "BUDGET_EXCEEDED"
        <5>1. led.budget \in BudgetSafeResume
          BY <1>4, <1>8, <4>2 DEF StopsResume
        <5>2. ResumeState(led, r) = led.budget
          BY <1>6, <2>3, <4>2, <5>1 DEF ResumesProperly, BudgetSafeResume, CandidateStates, None
        <5> QED BY <5>1, <5>2 DEF OrdinarySafeResume, BudgetSafeResume, CandidateStates
      <4> QED BY <4>1, <4>2
    <3> QED BY <1>5, <2>1, <2>3, <3>1 DEF StopsResume
  <2>4. CASE r.target # "BLOCKED"
    BY <1>5, <2>1, <2>4 DEF StopsResume
  <2> QED BY <2>2, <2>3, <2>4
<1>16. OrdinaryStop(n) => Unexposed
  <2> SUFFICES ASSUME OrdinaryStop(n) PROVE Unexposed
    OBVIOUS
  <2>1. r.target \in Stops
    BY <1>5 DEF OrdinaryStop
  <2>2. ~(r.target = "BLOCKED" /\ "safety_block" \in r.guards)
    <3> SUFFICES ASSUME r.target = "BLOCKED", "safety_block" \in r.guards PROVE FALSE
      OBVIOUS
    <3>1. c.attempt \in Attempts /\ n.blocked.attempt = c.attempt
      BY <1>5, <1>7, <1>8 DEF GuardAdmitted, Journaled
    <3> QED BY <1>5, <3>1, AttemptAssumption DEF OrdinaryStop
  <2>3. PICK g \in {"safe_stop", "product_input", "budget_stop"} : g \in r.guards
    BY <1>5, <1>6, <2>1, <2>2 DEF StopsProperly, OrdinaryStop
  <2>4. GuardAdmitted(g, led, r, c)
    BY <1>7, <2>3
  <2>5. ~HasResources(c.rollout) /\ Quiescent
    BY <2>3, <2>4 DEF GuardAdmitted, SafeStopAdmitted, ProductInputAdmitted, BudgetStopAdmitted
  <2> QED BY <1>1, <2>5, NothingObserved
<1> QED BY <1>4, <1>5, <1>14, <1>15, <1>16, AppendKeeps

LEMMA ResumeKeeps == ASSUME ControlInv, NEW p \in Controllers, Resume(p) PROVE ControlInv'
<1>1. PICK m : m = mem[p]
  OBVIOUS
<1>2. m = led
  BY <1>1 DEF Resume, ControlInv, AppendEvent
<1> DEFINE recorded == IF m.state = "BLOCKED" THEN m.blocked.resume ELSE m.budget
           budget == IF recorded = "BUDGET_EXCEEDED" THEN recorded ELSE None
<1>3. PICK u \in Metered(m), o \in Observations :
        /\ m.state \in {"BLOCKED", "BUDGET_EXCEEDED"}
        /\ recorded \in SafeResume(m.state)
        /\ AppendEvent(p, [m EXCEPT !.state = recorded, !.used = u, !.blocked = NoStop,
                             !.budget = budget])
        /\ UNCHANGED world
  BY <1>1 DEF Resume, Resumed
<1>4. /\ IsLedger(m) /\ BindingsStand(m) /\ StopsResume(m)
      /\ m.only => m.state \in {None, "CONTRACT_RECEIVED"}
  BY <1>2 DEF ControlInv
<1>5. recorded \notin Stops /\ Standing(m, recorded)
  <2>1. recorded \in OrdinarySafeResume \ {"BUDGET_EXCEEDED"}
    BY <1>3, <1>4 DEF StopsResume, SafeResume, OrdinarySafeResume, BudgetSafeResume,
         CandidateStates, SafetyResumes
  <2> QED BY <1>3, <1>4, <2>1 DEF BindingsStand, OrdinarySafeResume, BudgetSafeResume,
         CandidateStates, Stops
<1>6. m.only = FALSE
  BY <1>3, <1>4 DEF IsLedger, None
<1> HIDE DEF recorded, budget
<1>7. PICK n : n = [m EXCEPT !.state = recorded, !.used = u, !.blocked = NoStop, !.budget = budget]
  OBVIOUS
<1>8. /\ IsLedger(n) /\ n.only = FALSE /\ n.state = recorded /\ n.review = m.review
      /\ n.reviewed = m.reviewed /\ n.merge = m.merge
  BY <1>4, <1>6, <1>7 DEF IsLedger
<1>9. BindingsStand(n) /\ StopsResume(n) /\ (OrdinaryStop(n) => Unexposed)
  BY <1>5, <1>8 DEF BindingsStand, Standing, StopsResume, OrdinaryStop, Stops
<1>10. AppendEvent(p, n) /\ UNCHANGED world
  BY <1>3, <1>7
<1> QED BY <1>8, <1>9, <1>10, AppendKeeps

-----------------------------------------------------------------------------
(* The other events *)

LEMMA CreatedFacts ==
  /\ IsLedger(Created) /\ Created.only = TRUE /\ Created.state = "CONTRACT_RECEIVED"
  /\ IsLedger(Absent) /\ Absent.only = TRUE /\ Absent.state = None
<1>1. /\ IsLedger(Created) /\ Created.only = TRUE /\ Created.state = "CONTRACT_RECEIVED"
  BY DEF Created, IsLedger
<1>2. PICK m : m = Created
  OBVIOUS
<1>3. Absent = [m EXCEPT !.state = None]
  BY <1>2 DEF Absent
<1>4. IsLedger(m) /\ m.only = TRUE
  BY <1>1, <1>2
<1>5. PICK n : n = Absent
  OBVIOUS
<1>6. IsLedger(n) /\ n.only = TRUE /\ n.state = None
  BY <1>3, <1>4, <1>5 DEF IsLedger
<1> QED BY <1>1, <1>5, <1>6

LEMMA CreateKeeps == ASSUME ControlInv, NEW p \in Controllers, Create(p) PROVE ControlInv'
<1>1. /\ led' = Created /\ fresh' = {p} /\ DOMAIN mem' = Controllers /\ mem'[p] = Created
      /\ journal' = journal /\ released' = released /\ live' = live
  BY DEF Create, world, ControlInv
<1>2. live = {} /\ released = {}
  BY CreatedFacts DEF Create, ControlInv
<1>3. led'.state \notin Released \cup Stops \cup {"PR_READY"}
  BY <1>1, CreatedFacts DEF Released, Stops
<1>4. BindingsStand(led)' /\ StopsResume(led)' /\ ~OrdinaryStop(led)'
  BY <1>3 DEF BindingsStand, Standing, StopsResume, OrdinaryStop, Stops
<1>5. IsLedger(led')
  BY <1>1, CreatedFacts
<1>6. /\ (fresh \subseteq Controllers /\ DOMAIN mem = Controllers)'
      /\ (\A q \in fresh : mem[q] = led)'
      /\ (DOMAIN journal \subseteq Attempts)'
      /\ (led.only => led.state \in {None, "CONTRACT_RECEIVED"} /\ live = {} /\ released = {})'
  BY <1>1, <1>2, CreatedFacts DEF ControlInv
<1> QED BY <1>4, <1>5, <1>6 DEF ControlInv

LEMMA MigrationKeeps == ASSUME ControlInv, NEW p \in Controllers, AdmitMigration(p) PROVE ControlInv'
<1>1. PICK m : m = mem[p]
  OBVIOUS
<1>2. PICK n : n = [m EXCEPT !.state = "PRODUCT_INPUT_REQUIRED", !.only = FALSE]
  OBVIOUS
<1>3. AppendEvent(p, n) /\ UNCHANGED world /\ m.only
  BY <1>1, <1>2 DEF AdmitMigration
<1>4. m = led
  BY <1>1, <1>3, FreshKnows
<1>5. IsLedger(m)
  BY <1>4 DEF ControlInv
<1>6. IsLedger(n) /\ n.only = FALSE /\ n.state = "PRODUCT_INPUT_REQUIRED"
  BY <1>2, <1>5 DEF IsLedger
<1>7. Unexposed
  BY <1>3, <1>4 DEF ControlInv, Unexposed
<1>8. BindingsStand(n) /\ StopsResume(n)
  BY <1>6 DEF BindingsStand, Standing, StopsResume, Released
<1> QED BY <1>3, <1>6, <1>7, <1>8, AppendKeeps

LEMMA LoadKeeps == ASSUME ControlInv, NEW p \in Controllers, Load(p) PROVE ControlInv'
<1>1. /\ led' = led /\ journal' = journal /\ released' = released /\ live' = live
      /\ fresh' = fresh \cup {p} /\ mem' = [mem EXCEPT ![p] = led]
  BY DEF Load, world
<1>2. BindingsStand(led)' /\ StopsResume(led)' /\ (OrdinaryStop(led) => Unexposed)'
  BY <1>1 DEF ControlInv, BindingsStand, Standing, StopsResume, OrdinaryStop, Unexposed
<1>3. IsLedger(led')
  BY <1>1 DEF ControlInv
<1>4. /\ (fresh \subseteq Controllers /\ DOMAIN mem = Controllers)'
      /\ (\A q \in fresh : mem[q] = led)'
      /\ (DOMAIN journal \subseteq Attempts)'
      /\ (led.only => led.state \in {None, "CONTRACT_RECEIVED"} /\ live = {} /\ released = {})'
  BY <1>1 DEF ControlInv
<1> QED BY <1>2, <1>3, <1>4 DEF ControlInv

LEMMA DenyKeeps == ASSUME ControlInv, NEW p \in Controllers, Deny(p) PROVE ControlInv'
<1>1. PICK m : m = mem[p]
  OBVIOUS
<1>2. PICK u \in Metered(m) :
        AppendEvent(p, [m EXCEPT !.used = u, !.only = FALSE]) /\ UNCHANGED world
  BY <1>1 DEF Deny
<1>3. PICK n : n = [m EXCEPT !.used = u, !.only = FALSE]
  OBVIOUS
<1>4. m = led
  BY <1>1, <1>2, FreshKnows
<1>5. IsLedger(m)
  BY <1>4 DEF ControlInv
<1>6. /\ IsLedger(n) /\ n.only = FALSE /\ n.state = m.state /\ n.blocked = m.blocked
      /\ n.budget = m.budget /\ n.review = m.review /\ n.reviewed = m.reviewed /\ n.merge = m.merge
  BY <1>3, <1>5 DEF IsLedger
<1>7. AppendEvent(p, n) /\ UNCHANGED world
  BY <1>2, <1>3
<1> QED BY <1>4, <1>6, <1>7, NoteKeeps

LEMMA ObservationKeeps ==
  ASSUME ControlInv, NEW p \in Controllers, RecordObservation(p) PROVE ControlInv'
<1>1. PICK m : m = mem[p]
  OBVIOUS
<1>2. PICK n : n = [m EXCEPT !.only = FALSE]
  OBVIOUS
<1>3. AppendEvent(p, n) /\ UNCHANGED world
  BY <1>1, <1>2 DEF RecordObservation
<1>4. m = led
  BY <1>1, <1>3, FreshKnows
<1>5. IsLedger(m)
  BY <1>4 DEF ControlInv
<1>6. /\ IsLedger(n) /\ n.only = FALSE /\ n.state = m.state /\ n.blocked = m.blocked
      /\ n.budget = m.budget /\ n.review = m.review /\ n.reviewed = m.reviewed /\ n.merge = m.merge
  BY <1>2, <1>5 DEF IsLedger
<1> QED BY <1>3, <1>4, <1>6, NoteKeeps

LEMMA ResultKeeps ==
  ASSUME ControlInv, NEW p \in Controllers, NEW a \in Attempts, NEW status, RecordResult(p, a, status)
  PROVE  ControlInv'
<1>1. PICK m : m = mem[p]
  OBVIOUS
<1>2. PICK result : result = [m.result EXCEPT ![a] = status]
  OBVIOUS
<1>3. PICK n : n = [m EXCEPT !.result = result, !.only = FALSE]
  OBVIOUS
<1>4. [m EXCEPT !.result[a] = status, !.only = FALSE] = n
  BY <1>2, <1>3
<1>5. AppendEvent(p, n) /\ UNCHANGED world
  BY <1>1, <1>4 DEF RecordResult
<1>6. m = led
  BY <1>1, <1>5, FreshKnows
<1>7. IsLedger(m)
  BY <1>6 DEF ControlInv
<1>8. /\ IsLedger(n) /\ n.only = FALSE /\ n.state = m.state /\ n.blocked = m.blocked
      /\ n.budget = m.budget /\ n.review = m.review /\ n.reviewed = m.reviewed /\ n.merge = m.merge
  BY <1>3, <1>7 DEF IsLedger
<1> QED BY <1>5, <1>6, <1>8, NoteKeeps

\* Steps that touch neither the ledger nor the world leave the invariant alone.
LEMMA IdleKeeps ==
  ASSUME ControlInv, UNCHANGED <<led, mem, fresh, journal, released, live>> PROVE ControlInv'
<1>1. BindingsStand(led)' /\ StopsResume(led)' /\ (OrdinaryStop(led) => Unexposed)'
  BY DEF ControlInv, BindingsStand, Standing, StopsResume, OrdinaryStop, Unexposed
<1>2. IsLedger(led')
  BY DEF ControlInv
<1>3. /\ (fresh \subseteq Controllers /\ DOMAIN mem = Controllers)'
      /\ (\A q \in fresh : mem[q] = led)'
      /\ (DOMAIN journal \subseteq Attempts)'
      /\ (led.only => led.state \in {None, "CONTRACT_RECEIVED"} /\ live = {} /\ released = {})'
  BY DEF ControlInv
<1> QED BY <1>1, <1>2, <1>3 DEF ControlInv

LEMMA BudgetKeeps ==
  ASSUME ControlInv, NEW p \in Controllers, AdmitBudgetPolicy(p) PROVE ControlInv'
<1>1. CASE p \notin fresh
  BY <1>1, IdleKeeps DEF AdmitBudgetPolicy, world
<1>2. CASE p \in fresh
  <2>1. PICK m : m = mem[p]
    OBVIOUS
  <2>2. PICK n : n = [m EXCEPT !.extra = m.extra + 1, !.only = FALSE]
    OBVIOUS
  <2>3. AppendEvent(p, n) /\ UNCHANGED world
    BY <1>2, <2>1, <2>2 DEF AdmitBudgetPolicy, Extended
  <2>4. m = led
    BY <2>1, <2>3, FreshKnows
  <2>5. IsLedger(m)
    BY <2>4 DEF ControlInv
  <2>6. /\ IsLedger(n) /\ n.only = FALSE /\ n.state = m.state /\ n.blocked = m.blocked
        /\ n.budget = m.budget /\ n.review = m.review /\ n.reviewed = m.reviewed /\ n.merge = m.merge
    BY <2>2, <2>5 DEF IsLedger
  <2> QED BY <2>3, <2>4, <2>6, NoteKeeps
<1> QED BY <1>1, <1>2

-----------------------------------------------------------------------------
(* The world *)

\* A stopped run can plan a rollback or a cleanup only, and a run that was just
\* created nothing: the journal and what is released grow by no exposing attempt.
LEMMA JournalKeeps ==
  ASSUME ControlInv, NEW p \in Controllers, NEW action \in Actions, PrejournalMutation(p, action)
  PROVE  ControlInv'
<1>1. PICK a \in Attempts :
        /\ a = <<action, Cardinality({b \in DOMAIN journal : b[1] = action}) + 1>>
        /\ DOMAIN journal' = DOMAIN journal \cup {a} /\ released' = released \cup {a}
  BY DEF PrejournalMutation
<1>2. /\ led' = led /\ mem' = mem /\ fresh' = fresh /\ live' = live
      /\ p \in fresh
  BY DEF PrejournalMutation
<1>3. PICK r \in Policy : r.source = led.state /\ r.action = action
  BY <1>2 DEF PrejournalMutation, Authorized, ControlInv
<1>4. StopsProperly(r)
  BY PolicyProper
<1>5. action # None /\ a[1] = action
  BY <1>1 DEF Actions
<1>6. ~led.only
  BY <1>3, <1>4, <1>5 DEF ControlInv, StopsProperly
<1>7. led.state \in Stops => a[1] \notin Exposing
  BY <1>3, <1>4, <1>5 DEF StopsProperly, Exposing
<1>8. (OrdinaryStop(led) => Unexposed)'
  BY <1>1, <1>2, <1>7 DEF ControlInv, OrdinaryStop, Unexposed
<1>9. BindingsStand(led)' /\ StopsResume(led)'
  BY <1>1, <1>2 DEF ControlInv, BindingsStand, Standing, StopsResume
<1>10. IsLedger(led')
  BY <1>2 DEF ControlInv
<1>11. /\ (fresh \subseteq Controllers /\ DOMAIN mem = Controllers)'
       /\ (\A q \in fresh : mem[q] = led)'
       /\ (DOMAIN journal \subseteq Attempts)'
       /\ (led.only => led.state \in {None, "CONTRACT_RECEIVED"} /\ live = {} /\ released = {})'
  BY <1>1, <1>2, <1>6 DEF ControlInv
<1> QED BY <1>8, <1>9, <1>10, <1>11 DEF ControlInv

\* An adapter that runs, or is taken back, exposes nothing a stop has ruled out.
LEMMA WorldKeeps ==
  ASSUME ControlInv, UNCHANGED <<led, mem, fresh, journal>>, released' \subseteq released,
         \/ live' = live
         \/ \E a \in released : live' = Effect(a[1])
  PROVE  ControlInv'
<1>1. BindingsStand(led)' /\ StopsResume(led)'
  BY DEF ControlInv, BindingsStand, Standing, StopsResume
<1>2. IsLedger(led')
  BY DEF ControlInv
<1>3. ASSUME NEW a \in released, live' = Effect(a[1]), Unexposed
      PROVE  live' \cap {"canary", "production"} = {}
  <2>1. a[1] \notin {"deploy_canary", "deploy_production"}
    BY <1>3 DEF Unexposed, Exposing
  <2>2. live' \subseteq live \cup {"staging"}
    BY <1>3, <2>1 DEF Effect
  <2> QED BY <1>3, <2>2 DEF Unexposed
<1>4. (OrdinaryStop(led) => Unexposed)'
  BY <1>3 DEF ControlInv, OrdinaryStop, Unexposed
<1>5. /\ (fresh \subseteq Controllers /\ DOMAIN mem = Controllers)'
      /\ (\A q \in fresh : mem[q] = led)'
      /\ (DOMAIN journal \subseteq Attempts)'
      /\ (led.only => led.state \in {None, "CONTRACT_RECEIVED"} /\ live = {} /\ released = {})'
  BY DEF ControlInv
<1> QED BY <1>1, <1>2, <1>4, <1>5 DEF ControlInv

-----------------------------------------------------------------------------
(* The theorems *)

LEMMA InitKeeps == Init => ControlInv
<1> SUFFICES ASSUME Init PROVE ControlInv
  OBVIOUS
<1>1. led = Absent /\ led.state = None /\ IsLedger(led)
  BY CreatedFacts DEF Init
<1>2. led.state \notin Released \cup Stops \cup {"PR_READY"}
  BY <1>1 DEF Released, Stops, None
<1>3. BindingsStand(led) /\ StopsResume(led) /\ ~OrdinaryStop(led)
  BY <1>2 DEF BindingsStand, Standing, StopsResume, OrdinaryStop, Stops
<1> QED BY <1>1, <1>3 DEF Init, ControlInv

LEMMA StepKeeps == ControlInv /\ [Next]_vars => ControlInv'
<1> SUFFICES ASSUME ControlInv, [Next]_vars PROVE ControlInv'
  OBVIOUS
<1>1. CASE UNCHANGED vars
  BY <1>1, IdleKeeps DEF vars
<1>2. CASE CreateInterrupted
  BY <1>2, IdleKeeps DEF CreateInterrupted, world
<1>3. ASSUME NEW p \in Controllers, IssueChallenge(p) PROVE ControlInv'
  BY <1>3, IdleKeeps DEF IssueChallenge, world
<1>4. ASSUME NEW a \in Attempts, Execute(a) PROVE ControlInv'
  BY <1>4, WorldKeeps DEF Execute
<1>5. CASE Revoke
  BY <1>5, WorldKeeps DEF Revoke
<1>6. CASE Push
  BY <1>6, IdleKeeps DEF Push
<1> QED
  BY <1>1, <1>2, <1>3, <1>4, <1>5, <1>6, CreateKeeps, MigrationKeeps, LoadKeeps, TransitionKeeps,
     DenyKeeps, ObservationKeeps, ResumeKeeps, BudgetKeeps, JournalKeeps, ResultKeeps DEF Next

\* The control plane keeps its invariant: a controller that may append knows
\* the ledger, the bindings of a released or ready run stand, a stop records
\* where it resumes, and an ordinary stop finds and leaves nothing exposed.
THEOREM ControlInvariant == Spec => []ControlInv
BY InitKeeps, StepKeeps, PTL DEF Spec

\* From native_merge_linearized on, through stops and resumes, the merge
\* binding names the reviewed candidate and the review stands: merge_binding
\* compares the journaled plan with the review, and no later rule of the table
\* rebinds or invalidates it while the run stays released.
THEOREM ReleaseReviewed == Spec => []ReleaseIsReviewed
<1>1. ControlInv => ReleaseIsReviewed
  BY DEF ControlInv, BindingsStand, Standing, Released, ReleaseIsReviewed
<1> QED BY <1>1, ControlInvariant, PTL

\* Neither canary nor production is exposed while a run is stopped in the
\* ordinary way: safe_stop, product_input and budget_stop see no resource and
\* no released adapter, and prejournal_mutation offers a stopped run only the
\* rollback and the cleanup.
THEOREM StoppedUnexposed == Spec => []StoppedIsUnexposed
<1>1. ControlInv => StoppedIsUnexposed
  BY DEF ControlInv, OrdinaryStop, Unexposed, StoppedIsUnexposed
<1> QED BY <1>1, ControlInvariant, PTL

\* Every stop the table can enter records a state that resume() admits, or a
\* journaled attempt whose safety action the table resumes; a budget stop that
\* a missing extension turns into a block hands its resume state on.
THEOREM StopsCanResume == Spec => []EveryStopCanResume
<1>1. ASSUME NEW action, NEW state, <<action, state>> \in SafetyResumes
      PROVE  \E r \in Policy : "safety_resume" \in r.guards /\ r.target = state /\ r.action = action
  <2>1. CASE action = "rollback" /\ state = "ROLLBACK_IN_PROGRESS"
    <3> DEFINE r == Rule("BLOCKED", "ROLLBACK_IN_PROGRESS", "resume_safety_rollback",
                         {"safety_resume"}, "rollback")
    <3>1. r \in Policy
      BY DEF Policy, StopRules
    <3>2. "safety_resume" \in r.guards /\ r.target = state /\ r.action = action
      BY <2>1 DEF Rule
    <3> QED BY <3>1, <3>2
  <2>2. CASE action = "cleanup_staging" /\ state = "STAGING_FAILED"
    <3> DEFINE r == Rule("BLOCKED", "STAGING_FAILED", "resume_safety_cleanup",
                         {"safety_resume"}, "cleanup_staging")
    <3>1. r \in Policy
      BY DEF Policy, StopRules
    <3>2. "safety_resume" \in r.guards /\ r.target = state /\ r.action = action
      BY <2>2 DEF Rule
    <3> QED BY <3>1, <3>2
  <2> QED BY <1>1, <2>1, <2>2 DEF SafetyResumes
<1>2. ControlInv => EveryStopCanResume
  BY <1>1 DEF ControlInv, StopsResume, EveryStopCanResume
<1> QED BY <1>2, ControlInvariant, PTL

=============================================================================
