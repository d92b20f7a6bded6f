---------------------------- MODULE EngineeringRun ----------------------------
(***************************************************************************)
(* engineering/engine.py with the stores it writes: run-state.json, the    *)
(* findings, the change requests, the candidate manifest, the review       *)
(* snapshots, the production approval and the run's evidence ledger.       *)
(*                                                                         *)
(* Each of these is replaced atomically by one write, and an operation of  *)
(* the engine is several such writes, so an operation is modelled by the   *)
(* successive images it leaves on disk.  A crash drops the images not yet  *)
(* written together with the state in memory; the next process loads       *)
(* run-state.json.  Between any two writes the worktree may change.        *)
(***************************************************************************)
EXTENDS Naturals, Sequences, FiniteSets

CONSTANTS
    Tasks,            \* tasks of the plan, all assigned by the routing
    Reviewers,        \* REVIEWER_NAMES
    ProductKeys,      \* findings (file, line, title) that need a product decision
    MechanicalKeys,   \* findings of low severity that are mechanically fixable
    OtherKeys,        \* findings the owner decides
    Reports,          \* lists of findings a reviewer may submit
    Trees,            \* contents of the worktree, by digest
    MaxFindings,      \* bound: findings in the store
    MaxEdits,         \* bound: changes of the worktree
    MaxCrashes,       \* bound: deaths of the process inside an operation
    TornLedger,       \* whether a crash may leave half a ledger line
    None

ASSUME EngineAssumption ==
    /\ {MaxFindings, MaxEdits, MaxCrashes} \subseteq Nat
    /\ None \notin Trees \cup Reviewers
    /\ TornLedger \in BOOLEAN
    /\ Tasks # {} /\ Reviewers # {} /\ Trees # {}
    /\ Reports \subseteq Seq(ProductKeys \cup MechanicalKeys \cup OtherKeys)

VARIABLES
    disk,      \* what a restart finds
    mem,       \* EngineeringRun._state, None when no process runs
    todo,      \* disk images the current operation has still to write
    tree,      \* digest of the worktree
    clean,     \* nothing uncommitted in the worktree
    crashes,
    edits

vars == <<disk, mem, todo, tree, clean, crashes, edits>>

STAGES == {"assessment", "architecture", "plan", "route", "implement", "integrate",
           "freeze", "review", "reconcile", "fix", "retest", "refreeze", "verify",
           "draft_pr", "deploy", "complete"}

\* Stages left by one artifact or record, with the stage that follows.
Straight == [
    assessment |-> "architecture", architecture |-> "plan", plan |-> "route",
    route |-> "implement", integrate |-> "freeze", draft_pr |-> "deploy",
    deploy |-> "complete"]

InitialState == [
    stage |-> "assessment", implemented |-> {}, candidate |-> None, reviews |-> {},
    readonly |-> {}, accepted |-> {}, fixed |-> {}, tested |-> None, gates |-> FALSE,
    verified |-> {}, deployments |-> {}]

Environments == {"staging", "production"}

\* The states of a run: EngineeringRun._state and run-state.json.
RunStates == [
    stage : STAGES, implemented : SUBSET Tasks,
    candidate : Trees \cup {None}, reviews : SUBSET Reviewers, readonly : SUBSET Reviewers,
    accepted : SUBSET Nat, fixed : SUBSET Nat, tested : Trees \cup {None},
    gates : BOOLEAN, verified : SUBSET Nat, deployments : SUBSET Environments]

ASSUME NoneAssumption == None \notin RunStates

Init ==
    /\ mem = InitialState
    /\ disk = [state |-> InitialState, findings |-> <<>>, pcrs |-> {}, manifest |-> None,
               snapshots |-> [r \in Reviewers |-> None], approval |-> None,
               ledger |-> {}, torn |-> FALSE]
    /\ todo = <<>>
    /\ tree = CHOOSE t \in Trees : TRUE   \* whichever: trees are only compared
    /\ clean = TRUE
    /\ crashes = 0
    /\ edits = 0

-----------------------------------------------------------------------------
(* Writes *)

Recorded(d, event) == [d EXCEPT !.ledger = @ \cup {event}]

Saved(d, m) == [d EXCEPT !.state = m]

\* _save, then _advance (which saves again) when the stage is over.
SavedThenAdvanced(d, m, over, stage) ==
    IF over THEN <<Saved(d, m), Saved(d, [m EXCEPT !.stage = stage])>>
            ELSE <<Saved(d, m)>>

AdvancedIf(m, over, stage) == IF over THEN [m EXCEPT !.stage = stage] ELSE m

\* No operation is in progress.
Idle == mem # None /\ todo = <<>>

\* An operation: the images it will write and the state it leaves in memory.
Operation(images, m) ==
    /\ todo' = images
    /\ mem' = m
    /\ UNCHANGED <<disk, tree, clean, crashes, edits>>

Write ==
    /\ todo # <<>>
    /\ disk' = Head(todo)
    /\ todo' = Tail(todo)
    /\ UNCHANGED <<mem, tree, clean, crashes, edits>>

\* The process dies; a ledger line it was writing may be half written.
Crash ==
    /\ todo # <<>>
    /\ crashes < MaxCrashes
    /\ crashes' = crashes + 1
    /\ mem' = None
    /\ todo' = <<>>
    /\ \/ UNCHANGED disk
       \/ /\ TornLedger
          /\ Head(todo).ledger # disk.ledger
          /\ disk' = [disk EXCEPT !.torn = TRUE]
    /\ UNCHANGED <<tree, clean, edits>>

\* The command that holds the run ends, also after an error.
Exit ==
    /\ Idle
    /\ mem' = None
    /\ UNCHANGED <<disk, todo, tree, clean, crashes, edits>>

\* EngineeringRun.load: the ledger must be readable.
Load ==
    /\ mem = None
    /\ ~disk.torn
    /\ mem' = disk.state
    /\ UNCHANGED <<disk, todo, tree, clean, crashes, edits>>

\* Somebody changes or commits the worktree.
Edit ==
    /\ edits < MaxEdits
    /\ edits' = edits + 1
    /\ tree' \in Trees
    /\ clean' \in BOOLEAN
    /\ UNCHANGED <<disk, mem, todo, crashes>>

-----------------------------------------------------------------------------
(* Operations *)

\* record_assessment, record_draft_pr, record_release_report with every gate
\* of the contract passed, and the artifacts of the architect, the planner,
\* the router and the integration engineer.  The purge of other runs that
\* record_release_report ends with touches nothing of this one.
Proceed ==
    /\ Idle
    /\ mem.stage \in DOMAIN Straight
    /\ LET d1 == Recorded(disk, <<"record", mem.stage>>)
           m  == [mem EXCEPT !.stage = Straight[mem.stage]]
       IN  Operation(<<d1, Saved(d1, m)>>, m)

\* A routed specialist submits the result of one task.
Implement(t) ==
    /\ Idle
    /\ mem.stage = "implement"
    /\ t \notin mem.implemented
    /\ LET d1 == Recorded(disk, <<"task_tests", t>>)
           d2 == Recorded(d1, <<"task_implementation", t>>)
           m  == [mem EXCEPT !.implemented = @ \cup {t}]
           over == Tasks \subseteq m.implemented
       IN  Operation(<<d1, d2>> \o SavedThenAdvanced(d2, m, over, "integrate"),
                     AdvancedIf(m, over, "integrate"))

\* Variant: any tree may be frozen again.
FreezeAnyTree ==
    /\ Idle
    /\ mem.stage \in {"freeze", "refreeze"}
    /\ clean
    /\ LET d1 == [disk EXCEPT !.manifest = tree]
           d2 == Recorded(d1, <<"freeze", tree>>)
           m  == IF mem.stage = "freeze"
                 THEN [mem EXCEPT !.candidate = tree, !.reviews = {}, !.readonly = {},
                                  !.stage = "review"]
                 ELSE [mem EXCEPT !.candidate = tree, !.stage = "verify"]
       IN  Operation(<<d1, d2, Saved(d2, m)>>, m)

\* freeze: the manifest, the evidence, the run state.
Freeze ==
    /\ Idle
    /\ mem.stage \in {"freeze", "refreeze"}
    /\ mem.stage = "refreeze" => mem.tested \in {None, tree}
    /\ clean
    /\ LET d1 == [disk EXCEPT !.manifest = tree]
           d2 == Recorded(d1, <<"freeze", tree>>)
           m  == IF mem.stage = "freeze"
                 THEN [mem EXCEPT !.candidate = tree, !.reviews = {}, !.readonly = {},
                                  !.stage = "review"]
                 ELSE [mem EXCEPT !.candidate = tree, !.stage = "verify"]
       IN  Operation(<<d1, d2, Saved(d2, m)>>, m)

\* begin_review: the tree is the frozen one; keep its snapshot.
BeginReview(r) ==
    /\ Idle
    /\ mem.stage = "review"
    /\ tree = disk.manifest
    /\ disk.snapshots[r] # tree
    /\ Operation(<<[disk EXCEPT !.snapshots[r] = tree]>>, mem)

\* Variant: a review is over when it is submitted or proved read-only.
ReviewOverEither(m) ==
    Reviewers \subseteq m.reviews \/ Reviewers \subseteq m.readonly

\* _maybe_finish_review.
ReviewOver(m) ==
    Reviewers \subseteq m.reviews /\ Reviewers \subseteq m.readonly

\* end_review: the check is recorded whatever it says, and raises when the
\* tree is not the one of the snapshot.
EndReview(r) ==
    /\ Idle
    /\ mem.stage = "review"
    /\ disk.snapshots[r] # None
    /\ IF tree = disk.snapshots[r]
       THEN LET d == Recorded(disk, <<"readonly_check", r, "clean">>)
                m == [mem EXCEPT !.readonly = @ \cup {r}]
            IN  Operation(<<d>> \o SavedThenAdvanced(d, m, ReviewOver(m), "reconcile"),
                          AdvancedIf(m, ReviewOver(m), "reconcile"))
       ELSE Operation(<<Recorded(disk, <<"readonly_check", r, "modified">>)>>, mem)

Proposed(r, key) ==
    [reviewer |-> r, key |-> key, candidate |-> mem.candidate, status |-> "PROPOSED",
     verified_by |-> None]

\* A reviewer submits: FindingsStore.intake writes finding by finding, then
\* the evidence, then the run state.  A review cut short is submitted again.
SubmitReview(r, report) ==
    /\ Idle
    /\ mem.stage = "review"
    /\ r \notin mem.reviews
    /\ \A i \in DOMAIN disk.findings : disk.findings[i].candidate = mem.candidate
    /\ Len(disk.findings) + Len(report) <= MaxFindings
    /\ LET Taken(n) == [disk EXCEPT !.findings =
                           @ \o [i \in 1..n |-> Proposed(r, report[i])]]
           d == Recorded(Taken(Len(report)), <<"submit_review", r>>)
           m == [mem EXCEPT !.reviews = @ \cup {r}]
       IN  Operation([i \in 1..Len(report) |-> Taken(i)] \o <<d>>
                       \o SavedThenAdvanced(d, m, ReviewOver(m), "reconcile"),
                     AdvancedIf(m, ReviewOver(m), "reconcile"))

\* reconcile: what becomes of the i-th finding under the owner's decisions.
Decided(i, decisions) ==
    LET f == disk.findings[i]
    IN  IF f.status # "PROPOSED" THEN f.status
        ELSE IF \E j \in 1..(i - 1) : disk.findings[j].key = f.key THEN "DUPLICATE"
        ELSE IF f.key \in ProductKeys THEN "PRODUCT_DECISION_REQUIRED"
        ELSE IF i \in DOMAIN decisions THEN decisions[i]
        ELSE IF f.key \in MechanicalKeys THEN "ACCEPTED"
        ELSE "PROPOSED"

Undecided(decisions) ==
    {i \in DOMAIN disk.findings : Decided(i, decisions) = "PROPOSED"}

\* The disk when reconcile has treated the findings 1..n, and created the
\* change requests of the first k of them.
Treated(n, k, decisions) ==
    [disk EXCEPT
        !.findings = [i \in DOMAIN @ |->
            IF i <= n THEN [@[i] EXCEPT !.status = Decided(i, decisions)] ELSE @[i]],
        !.pcrs = @ \cup {i \in 1..k :
            /\ disk.findings[i].status = "PROPOSED"
            /\ Decided(i, decisions) = "PRODUCT_DECISION_REQUIRED"}]

\* reconcile_findings: each decision is written, a product decision followed
\* by its change request; once nothing is undecided, the evidence and the
\* stage.  Decisions already taken are kept when it is called again.  A finding
\* that needs no write leaves the disk as it was.
ReconcileFindings(decisions) ==
    /\ Idle
    /\ mem.stage = "reconcile"
    /\ LET n == Len(disk.findings)
           Image(j) == Treated((j + 1) \div 2, j \div 2, decisions)
           written == [j \in 1..(2 * n) |-> Image(j)]
           d1 == Recorded(Image(2 * n), <<"reconcile">>)
           Having(status) == {i \in 1..n : Decided(i, decisions) = status}
           requests == Having("PRODUCT_DECISION_REQUIRED")
           Noted(k) == [d1 EXCEPT !.ledger =
                           @ \cup {<<"change_request_created", i>> : i \in requests \cap 1..k}]
           m == [mem EXCEPT !.accepted = Having("ACCEPTED"),
                            !.stage = IF Having("ACCEPTED") # {} THEN "fix" ELSE "retest"]
       IN  IF Undecided(decisions) # {}
           THEN Operation(written, mem)
           ELSE Operation(written \o <<d1>> \o [k \in 1..n |-> Noted(k)]
                            \o <<Saved(Noted(n), m)>>, m)

\* One entry of the fixer's artifact: recorded, adopted after a crash between
\* the findings store and the run state, or refused.
Fixable(i) == disk.findings[i].status = "ACCEPTED"

\* Variant: only ACCEPTED findings are taken.
AdoptableNever(i) == FALSE

Adoptable(i) == disk.findings[i].status = "FIXED" /\ i \notin mem.fixed

\* The fixer submits.  A refused entry ends the operation without a save:
\* what came before it stays in the findings store and in memory.  An adopted
\* entry leaves the disk as it was.
Fix(entries) ==
    /\ Idle
    /\ mem.stage = "fix"
    /\ LET good == {k \in DOMAIN entries : Fixable(entries[k]) \/ Adoptable(entries[k])}
           n == IF good = DOMAIN entries THEN Len(entries) ELSE Len(entries) - 1
           Fixed(k) == {i \in {entries[j] : j \in 1..k} : Fixable(i)}
           Written(s, e) == [disk EXCEPT
               !.findings = [i \in DOMAIN @ |->
                   IF i \in Fixed(s) THEN [@[i] EXCEPT !.status = "FIXED"] ELSE @[i]],
               !.ledger = @ \cup {<<"fix", i>> : i \in Fixed(e)}]
           written == [j \in 1..(2 * n) |-> Written((j + 1) \div 2, j \div 2)]
           m == [mem EXCEPT !.fixed = @ \cup {entries[k] : k \in 1..n}]
           over == mem.accepted \subseteq m.fixed
       IN  /\ 1..n \subseteq good
           /\ IF n < Len(entries)
              THEN Operation(written, m)
              ELSE Operation(written \o SavedThenAdvanced(Written(n, n), m, over, "retest"),
                             AdvancedIf(m, over, "retest"))

\* record_gates: the evidence names the tree it ran on.  Without a fix that
\* explains it, a pass on another tree than the candidate's is refused after
\* it was recorded, and last_tested_digest stays in memory only.
RecordGates(passed) ==
    /\ Idle
    /\ mem.stage = "retest"
    /\ LET d == Recorded(disk, <<"gates", IF passed THEN "pass" ELSE "fail", tree>>)
           m == [mem EXCEPT !.tested = tree]
           next == [m EXCEPT !.gates = TRUE,
                             !.stage = IF m.accepted # {} THEN "refreeze" ELSE "draft_pr"]
       IN  CASE ~passed -> Operation(<<d, Saved(d, m)>>, m)
             [] passed /\ m.accepted = {} /\ tree # m.candidate -> Operation(<<d>>, m)
             [] OTHER -> Operation(<<d, Saved(d, next)>>, next)

\* record_fix_verification.
VerifyFix(i, v) ==
    /\ Idle
    /\ mem.stage = "verify"
    /\ LET f  == disk.findings[i]
           d1 == [disk EXCEPT !.findings[i].status = "VERIFIED",
                              !.findings[i].verified_by = v]
           d2 == Recorded(d1, <<"verify_fix", i>>)
           m  == [mem EXCEPT !.verified = @ \cup {i}]
           over == mem.accepted \subseteq m.verified
       IN  \/ /\ f.status = "FIXED"
              /\ Operation(<<d1, d2>> \o SavedThenAdvanced(d2, m, over, "draft_pr"),
                           AdvancedIf(m, over, "draft_pr"))
           \/ /\ f.status = "VERIFIED" /\ i \notin mem.verified /\ f.verified_by = v
              /\ Operation(SavedThenAdvanced(disk, m, over, "draft_pr"),
                           AdvancedIf(m, over, "draft_pr"))

\* approve_production, at any time once a candidate is frozen.
ApproveProduction ==
    /\ Idle
    /\ mem.candidate # None
    /\ disk.approval # mem.candidate
    /\ Operation(<<[disk EXCEPT !.approval = mem.candidate]>>, mem)

\* deploy: the tree is the manifest's, the policy allows the environment (for
\* production, an approval of this very candidate).  The fourth part of the
\* event is not in the ledger: the tree verify_frozen read.
Deploy(environment) ==
    /\ Idle
    /\ mem.stage = "deploy"
    /\ tree = disk.manifest
    /\ mem.gates
    /\ environment = "production" => disk.approval = mem.candidate
    /\ LET d == Recorded(disk, <<"deploy", environment, mem.candidate, tree,
                    IF environment = "production" THEN disk.approval ELSE None>>)
           m == [mem EXCEPT !.deployments = @ \cup {environment}]
       IN  Operation(<<d, Saved(d, m)>>, m)

-----------------------------------------------------------------------------

OwnerDecisions ==
    UNION {[ids -> {"ACCEPTED", "REJECTED"}] : ids \in SUBSET DOMAIN disk.findings}

\* Artifacts of the fixer: lists of accepted findings, each at most once.
FixLists ==
    LET A == mem.accepted
    IN  {<<>>} \cup {<<i>> : i \in A} \cup {<<p[1], p[2]>> : p \in {q \in A \X A : q[1] # q[2]}}

EngineStep ==
    \/ Proceed
    \/ \E t \in Tasks : Implement(t)
    \/ Freeze
    \/ \E r \in Reviewers : BeginReview(r) \/ EndReview(r)
    \/ \E r \in Reviewers, report \in Reports : SubmitReview(r, report)
    \/ \E decisions \in OwnerDecisions : ReconcileFindings(decisions)
    \/ \E entries \in (IF mem = None THEN {} ELSE FixLists) : Fix(entries)
    \/ \E passed \in BOOLEAN : RecordGates(passed)
    \/ \E i \in DOMAIN disk.findings, v \in Reviewers : VerifyFix(i, v)
    \/ ApproveProduction
    \/ \E environment \in Environments : Deploy(environment)

Next == EngineStep \/ Write \/ Crash \/ Exit \/ Load \/ Edit

\* A call that started ends unless the process dies, a dead process is
\* restarted, and the fixer keeps submitting: every single fix, and the empty
\* list with which it says that nothing is left.
Fairness ==
    /\ WF_vars(Write)
    /\ WF_vars(Load)
    /\ SF_vars(\E entries \in (IF mem = None THEN {} ELSE FixLists) :
                   Len(entries) = 1 /\ Fix(entries))
    /\ SF_vars(mem # None /\ Fix(<<>>))

Spec == Init /\ [][Next]_vars /\ Fairness

-----------------------------------------------------------------------------
(* Properties *)

Deployments == {e \in disk.ledger : e[1] = "deploy"}

\* The tree that is deployed is the frozen candidate and the very tree on
\* which the executed-test gates passed, through fixes, edits of the worktree
\* between any two calls, and crashes between the manifest and the run state;
\* a production deployment carries an approval of that very candidate, although
\* an approval can be given before the candidate is frozen again.
DeployedIsTested ==
    \A e \in Deployments :
        /\ e[3] = e[4]
        /\ <<"gates", "pass", e[4]>> \in disk.ledger
        /\ e[2] = "production" => e[5] = e[4]

\* Nothing is deployed before every reviewer has submitted and was proved
\* read-only, every finding is decided, and every accepted one is fixed and
\* verified.
AssuranceIsComplete ==
    Deployments # {} =>
        /\ \A r \in Reviewers :
            {<<"submit_review", r>>, <<"readonly_check", r, "clean">>} \subseteq disk.ledger
        /\ \A i \in DOMAIN disk.findings :
            disk.findings[i].status \notin {"PROPOSED", "ACCEPTED", "FIXED"}

\* The crash recovery of the fixer's stage: whatever write of a submission the
\* process died at, resubmitting the fixes gets the run out of the stage, unless
\* the death left half a ledger line, which no call can append after.
FixingContinues ==
    (disk.state.stage = "fix") ~> (disk.state.stage # "fix" \/ disk.torn)

=============================================================================
