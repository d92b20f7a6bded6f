------------------------ MODULE MCLifecycleControl ------------------------
EXTENDS LifecycleControl, TLC

\* Up to the merge: two plans to mark the pull request ready (the candidate
\* changes once), one to open, convert and merge it.
ReviewTries ==
  [action \in Actions |->
     CASE action = "mark_pr_ready" -> 2
       [] action \in {"open_draft_pr", "enqueue_merge", "convert_pr_to_draft"} -> 1
       [] OTHER -> 0]

\* The rollout: one plan of every action but the revocation of the ready mark.
RolloutTries == [action \in Actions |-> IF action = "convert_pr_to_draft" THEN 0 ELSE 1]

Symmetry == Permutations(Controllers)
============================================================================
