--------------------------- MODULE MergeAdmission ---------------------------
(* Merge admission (engineering/merge_admission.py): enqueue signs a token   *)
(* for a snapshot of a pull request, the hosting service merges the queue    *)
(* entry on its own, and linearize_merge decides afterwards, from a second   *)
(* snapshot, whether the merge may roll out; resolve_external_race settles   *)
(* what an event from outside did to an entry.  Everything in a snapshot can *)
(* change between any two of these steps.                                    *)
EXTENDS Naturals, FiniteSets

CONSTANTS
  Heads,            \* commits the pull request may point at
  Findings,         \* findings of the trusted source
  PullChecks,       \* required checks that run on pull requests
  GroupChecks,      \* required checks that run on the merge group
  QueueTimeout,     \* how long a token holds
  InventoryWindow,  \* how long an inventory of findings holds
  MaxClock,         \* bound on time
  MaxPolicy,        \* bound on changes of the base, tree or a policy
  MaxMoves,         \* bound on what happens to the pull request
  Unset

ASSUME MergeAssumption ==
  /\ PullChecks \cap GroupChecks = {}
  /\ QueueTimeout \in Nat \ {0} /\ InventoryWindow \in Nat /\ MaxClock \in Nat /\ MaxPolicy \in Nat /\ MaxMoves \in Nat

VARIABLES
  clock,
  tree,       \* the exact inputs: head, and the version of base and policies
  authority,  \* the version of the contract's and publisher's authority
  boundary,   \* when the last of these was invalidated
  raised,     \* each finding: its state, subject and time of normalization
  inventory,  \* the source's attested inventory of findings
  review,     \* the eligible reviewer's last review
  checks,     \* each required check's last run
  seen,       \* the snapshot last taken, or Unset
  entry,      \* the token of the queued merge, or Unset
  landed,     \* the native merge, or Unset
  dequeued,   \* when the entry was dequeued, or Unset
  incident,   \* the first outside event against the queued entry, or Unset
  decision,   \* what linearize_merge or resolve_external_race returned, or Unset
  vetted,     \* history: the runs and reviews that succeeded, with their subjects
  moves       \* what happened to the pull request, bounded by MaxMoves

mergeVars == <<clock, tree, authority, boundary, raised, inventory, review, checks, seen, entry, landed,
               dequeued, incident, decision, vetted, moves>>

Required == PullChecks \cup GroupChecks

\* A pull request made ready: reviewed, its findings attested, its checks
\* reported, all at the first instant.
MergeInit ==
  /\ clock = 1
  /\ tree \in [head : Heads, policy : {0}]
  /\ authority = 0 /\ boundary = 0
  /\ raised = [f \in Findings |-> [state |-> "none", subject |-> Unset, at |-> 0]]
  /\ inventory = [subject |-> tree.head, findings |-> {}, watermark |-> {}, observed |-> 1]
  /\ review = [subject |-> tree.head, state |-> "APPROVED", at |-> 1]
  /\ checks = [name \in Required |->
                 [inputs |-> tree, at |-> 1, entry |-> Unset,
                  status |-> IF name \in PullChecks THEN "SUCCESS" ELSE "PENDING"]]
  /\ vetted = {<<name, tree>> : name \in PullChecks \cup {Unset}}
  /\ seen = Unset /\ entry = Unset /\ landed = Unset /\ dequeued = Unset
  /\ incident = Unset /\ decision = Unset /\ moves = 0

(***************************************************************************)
(* The pull request, its checks, reviews and findings.                      *)
(***************************************************************************)
Normalized(of) == {f \in Findings : raised[f].state \in {"open", "resolved"} /\ raised[f].subject = of}

\* _blocking_finding: normalized and not resolved by a trusted authority.
Blocking(of) == {f \in Normalized(of) : raised[f].state = "open"}

\* The finding source's high-watermark.
Watermark == {f \in Findings : raised[f].state \in {"open", "resolved"}}

\* The first outside event against an entry that is queued or merged.
Against(kind) ==
  IF incident = Unset /\ entry # Unset THEN [kind |-> kind, at |-> clock] ELSE incident

Tick ==
  /\ clock < MaxClock
  /\ clock' = clock + 1
  /\ UNCHANGED <<tree, authority, boundary, raised, inventory, review, checks, seen, entry, landed, dequeued,
                 incident, decision, vetted>>

Push ==
  /\ \E head \in Heads \ {tree.head} : tree' = [tree EXCEPT !.head = head]
  /\ boundary' = clock
  /\ UNCHANGED <<clock, authority, raised, inventory, review, checks, seen, entry, landed, dequeued, incident,
                 decision, vetted>>

ChangePolicy ==
  /\ tree.policy < MaxPolicy
  /\ tree' = [tree EXCEPT !.policy = @ + 1]
  /\ boundary' = clock
  /\ UNCHANGED <<clock, authority, raised, inventory, review, checks, seen, entry, landed, dequeued, incident,
                 decision, vetted>>

RevokeAuthority ==
  /\ authority = 0
  /\ authority' = 1
  /\ boundary' = clock
  /\ incident' = Against("AUTHORITY_REVOKED")
  /\ UNCHANGED <<clock, tree, raised, inventory, review, checks, seen, entry, landed, dequeued, decision, vetted>>

\* A finding is reported, normalized, and resolved by a trusted authority.
RaiseFinding(f) ==
  /\ raised[f].state = "none"
  /\ raised' = [raised EXCEPT ![f] = [state |-> "raw", subject |-> tree.head, at |-> 0]]
  /\ incident' = Against("BLOCKING_FINDING")
  /\ UNCHANGED <<clock, tree, authority, boundary, inventory, review, checks, seen, entry, landed, dequeued,
                 decision, vetted>>

Normalize(f) ==
  /\ raised[f].state = "raw"
  /\ raised' = [raised EXCEPT ![f].state = "open", ![f].at = clock]
  /\ UNCHANGED <<clock, tree, authority, boundary, inventory, review, checks, seen, entry, landed, dequeued,
                 incident, decision, vetted>>

ResolveFinding(f) ==
  /\ raised[f].state = "open"
  /\ raised' = [raised EXCEPT ![f].state = "resolved"]
  /\ UNCHANGED <<clock, tree, authority, boundary, inventory, review, checks, seen, entry, landed, dequeued,
                 incident, decision, vetted>>

AttestInventory ==
  /\ inventory' = [subject |-> tree.head, findings |-> Normalized(tree.head), watermark |-> Watermark,
                   observed |-> clock]
  /\ UNCHANGED <<clock, tree, authority, boundary, raised, review, checks, seen, entry, landed, dequeued,
                 incident, decision, vetted>>

Review(state) ==
  /\ review' = [subject |-> tree.head, state |-> state, at |-> clock]
  /\ vetted' = IF state = "APPROVED" THEN vetted \cup {<<Unset, [tree EXCEPT !.policy = 0]>>} ELSE vetted
  /\ UNCHANGED <<clock, tree, authority, boundary, raised, inventory, checks, seen, entry, landed, dequeued,
                 incident, decision>>

\* A merge-group run names the entry it runs for.
RunCheck(name, status) ==
  /\ checks' = [checks EXCEPT ![name] =
                  [inputs |-> tree, status |-> status, at |-> clock,
                   entry |-> IF name \in GroupChecks /\ entry # Unset THEN entry.at ELSE Unset]]
  /\ vetted' = IF status = "SUCCESS" THEN vetted \cup {<<name, tree>>} ELSE vetted
  /\ UNCHANGED <<clock, tree, authority, boundary, raised, inventory, review, seen, entry, landed, dequeued,
                 incident, decision>>

TakeSnapshot ==
  /\ seen' = [tree |-> tree, authority |-> authority, watermark |-> Watermark,
              pending |-> \E f \in Findings : raised[f].state = "raw",
              open |-> Blocking(tree.head),
              findings |-> Normalized(tree.head), inventory |-> inventory,
              review |-> review, checks |-> checks]
  /\ UNCHANGED <<clock, tree, authority, boundary, raised, inventory, review, checks, entry, landed, dequeued,
                 incident, decision, vetted>>

(***************************************************************************)
(* _validate_snapshot, for the time as_of and the boundary given.  That     *)
(* digests are well formed, attestations authenticate, the queue is         *)
(* enforced and no bypass was used is left to the callers' sound.           *)
(***************************************************************************)
FreshInventoryAsOf(snapshot, since, asOf) ==
  /\ snapshot.inventory.subject = snapshot.tree.head
  /\ snapshot.inventory.findings = snapshot.findings
  /\ snapshot.inventory.watermark = snapshot.watermark
  /\ since < snapshot.inventory.observed
  /\ asOf \in snapshot.inventory.observed .. snapshot.inventory.observed + InventoryWindow

\* The inventory is that of the snapshot's head, newer than the boundary, and
\* fresh both at the stated time and by the trusted clock.
FreshInventory(snapshot, since, asOf) ==
  /\ snapshot.inventory.subject = snapshot.tree.head
  /\ snapshot.inventory.findings = snapshot.findings
  /\ snapshot.inventory.watermark = snapshot.watermark
  /\ since < snapshot.inventory.observed
  /\ {asOf, clock} \subseteq snapshot.inventory.observed .. snapshot.inventory.observed + InventoryWindow

ApprovedFor(snapshot, since, asOf) ==
  /\ snapshot.review.state = "APPROVED"
  /\ snapshot.review.subject = snapshot.tree.head
  /\ since < snapshot.review.at /\ snapshot.review.at <= asOf

CheckHolds(snapshot, name, asOf) ==
  LET check == snapshot.checks[name] IN
  check.inputs = snapshot.tree /\ check.at <= asOf

PullCheckHolds(snapshot, name, asOf) ==
  CheckHolds(snapshot, name, asOf) /\ snapshot.checks[name].status = "SUCCESS"

\* Before the merge a merge-group check may still run; at the merge it must
\* have succeeded for this very entry.
GroupCheckHolds(snapshot, name, asOf, token) ==
  LET check == snapshot.checks[name] IN
  /\ CheckHolds(snapshot, name, asOf)
  /\ asOf <= check.at + QueueTimeout
  /\ IF token = Unset
     THEN check.status \in {"PENDING", "SUCCESS"}
     ELSE check.status = "SUCCESS" /\ check.entry = token.at /\ token.at <= check.at

Valid(snapshot, since, asOf, token) ==
  /\ snapshot.tree.policy = tree.policy
  /\ ~snapshot.pending
  /\ FreshInventory(snapshot, since, asOf)
  /\ snapshot.open = {}
  /\ ApprovedFor(snapshot, since, asOf)
  /\ \A name \in PullChecks : PullCheckHolds(snapshot, name, asOf)
  /\ \A name \in GroupChecks : GroupCheckHolds(snapshot, name, asOf, token)

\* enqueue: a valid and sound snapshot becomes a signed token.
Enqueue ==
  /\ entry = Unset /\ seen # Unset
  /\ Valid(seen, boundary, clock, Unset)
  /\ entry' = [tree |-> seen.tree, authority |-> seen.authority, watermark |-> seen.watermark,
               at |-> clock, boundary |-> boundary]
  /\ UNCHANGED <<clock, tree, authority, boundary, raised, inventory, review, checks, seen, landed, dequeued,
                 incident, decision, vetted>>

\* The hosting service merges the entry as the pull request then stands.
NativeMerge ==
  /\ entry # Unset /\ landed = Unset /\ dequeued = Unset
  /\ landed' = [tree |-> tree, at |-> clock]
  /\ UNCHANGED <<clock, tree, authority, boundary, raised, inventory, review, checks, seen, entry, dequeued,
                 incident, decision, vetted>>

\* A dequeue answers an event; after the merge it completes without effect.
\* The service does not stamp it with the instant of the merge.
Dequeue ==
  /\ incident # Unset /\ dequeued = Unset
  /\ landed # Unset => landed.at < clock
  /\ dequeued' = clock
  /\ UNCHANGED <<clock, tree, authority, boundary, raised, inventory, review, checks, seen, entry, landed,
                 incident, decision, vetted>>

\* The current snapshot is valid, is the one the token was signed for, and its
\* tree is the merged one.
RollsOut(snapshot) ==
  /\ Valid(snapshot, entry.boundary, landed.at, entry)
  /\ landed.at \in entry.at .. entry.at + QueueTimeout
  /\ snapshot.authority = entry.authority
  /\ snapshot.watermark = entry.watermark
  /\ snapshot.tree = entry.tree
  /\ landed.tree = snapshot.tree

\* linearize_merge: anything short of it is an incident.
LinearizeMerge(sound) ==
  /\ landed # Unset /\ seen # Unset
  /\ decision' = IF sound /\ RollsOut(seen)
                 THEN [admitted |-> TRUE, outcome |-> "PR_MERGED", rollout |-> TRUE]
                 ELSE [admitted |-> FALSE, outcome |-> "MERGE_INCIDENT", rollout |-> FALSE]
  /\ UNCHANGED <<clock, tree, authority, boundary, raised, inventory, review, checks, seen, entry, landed,
                 dequeued, incident, vetted>>

DequeuedFirstSwapped == landed = Unset \/ (dequeued # Unset /\ landed.at <= dequeued)

DequeuedFirst == landed = Unset \/ (dequeued # Unset /\ dequeued <= landed.at)

\* resolve_external_race, asked once the merge or the dequeue is known.
ResolveExternalRace ==
  /\ incident # Unset
  /\ landed # Unset \/ dequeued # Unset
  /\ decision' =
       IF DequeuedFirst
       THEN [admitted |-> FALSE, rollout |-> FALSE,
             outcome |-> IF incident.kind = "AUTHORITY_REVOKED" THEN "PRODUCT_INPUT_REQUIRED" ELSE "REVIEW_FAILED"]
       ELSE [admitted |-> TRUE, rollout |-> FALSE,
             outcome |-> IF incident.kind = "AUTHORITY_REVOKED" THEN "PR_MERGED_PRODUCT_INPUT_BLOCKED"
                         ELSE "PR_MERGED_REMEDIATION_REQUIRED"]
  /\ UNCHANGED <<clock, tree, authority, boundary, raised, inventory, review, checks, seen, entry, landed,
                 dequeued, incident, vetted>>

\* What happens to the pull request.
Move ==
  /\ moves < MaxMoves
  /\ moves' = moves + 1
  /\ \/ Push \/ ChangePolicy \/ RevokeAuthority \/ AttestInventory
     \/ \E f \in Findings : RaiseFinding(f) \/ Normalize(f) \/ ResolveFinding(f)
     \/ \E state \in {"APPROVED", "CHANGES_REQUESTED"} : Review(state)
     \/ \E name \in Required, status \in {"SUCCESS", "FAILURE"} : RunCheck(name, status)
     \/ \E name \in GroupChecks : RunCheck(name, "PENDING")

\* What the release controller, the queue and time do.
Control ==
  /\ \/ Tick \/ TakeSnapshot \/ Enqueue \/ NativeMerge \/ Dequeue \/ ResolveExternalRace
     \/ \E sound \in BOOLEAN : LinearizeMerge(sound)
  /\ UNCHANGED moves

\* The model ends with the decision, which is judged in the world it is made in.
MergeNext == decision = Unset /\ (Move \/ Control)

MergeSpec == MergeInit /\ [][MergeNext]_mergeVars

(***************************************************************************)
(* Properties.                                                              *)
(***************************************************************************)
\* A merge that may roll out landed the very inputs that were enqueued: each
\* required check succeeded on exactly them and their head was approved, though
\* the pull request may have moved between the enqueue, the merge, the second
\* snapshot and the decision.  A finding open on it is newer than the freshness
\* window of the inventory, however old the snapshot of the decision.
MergedIsVetted ==
  decision # Unset /\ decision.rollout =>
    /\ landed.tree = entry.tree
    /\ \A name \in Required : <<name, landed.tree>> \in vetted
    /\ <<Unset, [landed.tree EXCEPT !.policy = 0]>> \in vetted
    /\ \A f \in Findings :
         raised[f].state = "open" /\ raised[f].subject = landed.tree.head => clock <= raised[f].at + InventoryWindow

\* A race between an outside event and the merge is settled as what happened:
\* the integration is retained if and only if the service merged.
RaceIsSettledTruly ==
  decision # Unset /\ decision.outcome # "MERGE_INCIDENT" => (decision.admitted <=> landed # Unset)
=============================================================================
