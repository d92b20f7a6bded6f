----------------------- MODULE RepositoryIntelligence -----------------------
(***************************************************************************)
(* The governance observation (pmpe.repository.governance) taken beside a   *)
(* snapshot, and the command that publishes both (pmpe.cli.repository_cmd). *)
(*                                                                          *)
(* The observation reads facts that others change while it reads: it reads  *)
(* each of them, takes the time, lets a remote provider answer in a killable*)
(* child process, and reads every fact again.  A fact is a version number,  *)
(* new with every change, and a mark that says whether its content blocks   *)
(* an observation (a dirty index, a malformed remote, a prunable worktree). *)
(***************************************************************************)
EXTENDS RepositoryScan

CONSTANTS
  Facts,         \* bound: the mutable facts looked at, out of AllFacts
  MaxChanges,    \* bound: changes others make to the repository
  MaxCrashes     \* bound: crashes of the command

VARIABLES
  facts,         \* the mutable facts, as they are
  commit,        \* the reference's version when the scan resolved it
  remote,        \* whether a remote provider was configured
  seen,          \* what the first pass read
  again,         \* what the second pass read
  unknown,       \* the unknown facts that block the observation
  held,          \* the facts when the clock was read
  observation,   \* the observation handed out
  disk,          \* the published artifacts
  published,     \* every snapshot ever published
  changes, crashes

govVars == <<commit, remote, seen, again, unknown, held, observation>>
diskVars == <<disk, published>>
allVars == <<vars, facts, govVars, diskVars, changes, crashes>>

AllFacts ==
  {"ref", "index", "status", "head", "branch", "remotes", "branches", "worktrees"}
ASSUME FactsAssumption == Facts \subseteq AllFacts /\ "ref" \in Facts

FirstPass == <<"ref", "index", "status", "head", "branch", "remotes", "branches", "worktrees">>
SecondPass == <<"ref", "head", "index", "status", "branch", "remotes", "branches", "worktrees">>

\* The fact a pass reads after those it has read.
ReadsNext(pass, read, f) ==
  /\ f \in Facts \ read
  /\ \E i \in 1 .. Len(pass) :
       pass[i] = f /\ \A j \in 1 .. (i - 1) : pass[j] \notin Facts \ read

NoObservation == [id |-> 0]
Unread == [f \in {} |-> 0]
NoFacts == Unread
Version(n, bad) == [n |-> n, bad |-> bad]
Unknown == Version(-1, TRUE)

Observing == {"probe", "first", "stamp", "remote", "second", "compare", "check",
              "redact", "admit"}

(***************************************************************************)
(* The repository, as others change it, and the caller that cancels.        *)
(***************************************************************************)
\* Only the facts of an index, a worktree or an inventory can be of a kind that
\* blocks.
CanBlock == AllFacts \ {"ref", "head"}

\* The scan reads immutable objects: of the facts, only the reference matters
\* while it runs.
Change(f) ==
  /\ changes < MaxChanges /\ changes' = changes + 1
  /\ f # "ref" => pc \in Observing
  /\ \E bad \in (IF f \in CanBlock THEN BOOLEAN ELSE {FALSE}) :
       facts' = [facts EXCEPT ![f] = Version(facts[f].n + 1, bad)]
  /\ UNCHANGED <<vars, govVars, diskVars, crashes>>

Cancel ==
  /\ sig = "ACTIVE" /\ sig' = "CANCELLED"
  /\ UNCHANGED <<pc, call, byCommand, child, snapshot, scanVars, facts, govVars, diskVars,
                 changes, crashes>>

(***************************************************************************)
(* The scan, as part of a call.                                             *)
(***************************************************************************)
StartScan ==
  /\ \E b \in Budgets, command \in BOOLEAN : Scan(b, command)
  /\ remote' = FALSE /\ commit' = 0 /\ seen' = Unread /\ again' = Unread
  /\ unknown' = {} /\ held' = NoFacts /\ observation' = NoObservation
  /\ UNCHANGED <<facts, diskVars, changes, crashes>>

RunScan ==
  /\ ScanStep
  /\ commit' = IF pc = "identity" THEN facts["ref"].n ELSE commit
  /\ UNCHANGED <<facts, remote, seen, again, unknown, held, observation, diskVars,
                 changes, crashes>>

RunWorker ==
  /\ AdapterWorker
  /\ UNCHANGED <<facts, govVars, diskVars, changes, crashes>>

(***************************************************************************)
(* observe().                                                               *)
(***************************************************************************)
Goto(step) == pc' = step /\ UNCHANGED <<call, byCommand, snapshot, scanVars>>
Raise == Goto("raised") /\ UNCHANGED <<sig, child, govVars>>

\* A new signal; the command observes the commit it has scanned, and never asks
\* a remote provider.  Of the snapshot, the observation needs the identity.
Observe ==
  /\ pc = "scanned" /\ pc' = "probe"
  /\ snapshot' = [id |-> snapshot.id]
  /\ Forgotten /\ UNCHANGED <<call, byCommand>>
  /\ sig' = NewSignal(byCommand)
  /\ remote' \in (IF byCommand THEN {FALSE} ELSE BOOLEAN)
  /\ UNCHANGED <<facts, child, commit, seen, again, unknown, held, observation, diskVars,
                 changes, crashes>>

\* _execute refuses a cancelled observation, and a command can always fail: it
\* is over the budget, it times out, its output is malformed; redaction may fail.
ObserveFails ==
  /\ pc \in {"probe", "first", "redact"}
  /\ Raise
  /\ UNCHANGED <<facts, diskVars, changes, crashes>>

\* The probe for content filters and for the object format.
Probe ==
  /\ pc = "probe" /\ ~Cancelled
  /\ Goto("first")
  /\ UNCHANGED <<sig, child, facts, govVars, diskVars, changes, crashes>>

\* What one reading may find.  The command names the commit itself, which does
\* not change; a branch that cannot be read is unknown, not an error.
ReadRef == IF byCommand THEN {Version(commit, FALSE)} ELSE {facts["ref"]}
CurrentBranch == {facts["branch"], Unknown}
ConfiguredRemotes == {facts["remotes"]}
Branches == {facts["branches"], Unknown}
Worktrees == {facts["worktrees"]}
Reading(f) ==
  CASE f = "ref" -> ReadRef
    [] f = "branch" -> CurrentBranch
    [] f = "remotes" -> ConfiguredRemotes
    [] f = "branches" -> Branches
    [] f = "worktrees" -> Worktrees
    [] OTHER -> {facts[f]}

Read(into, f, v) == [g \in DOMAIN into \cup {f} |-> IF g = f THEN v ELSE into[g]]

ReadFact ==
  /\ pc = "first" /\ ~Cancelled
  /\ \E f \in Facts :
       /\ ReadsNext(FirstPass, DOMAIN seen, f)
       /\ \E v \in Reading(f) :
            IF f = "ref" /\ v.n # commit
            THEN Raise                             \* not the bound snapshot
            ELSE /\ seen' = Read(seen, f, v)
                 /\ unknown' = IF v.bad THEN unknown \cup {f} ELSE unknown
                 /\ Goto(IF Facts \subseteq DOMAIN seen' THEN "stamp" ELSE "first")
                 /\ UNCHANGED <<sig, child, commit, remote, again, held, observation>>
  /\ UNCHANGED <<facts, diskVars, changes, crashes>>

\* The clock is read; the remote provider, if any, is started.
Stamp ==
  /\ pc = "stamp"
  /\ held' = [facts EXCEPT !["ref"] = IF byCommand THEN Version(commit, FALSE) ELSE @]
  /\ Goto(IF remote THEN "remote" ELSE "second")
  /\ child' = IF remote THEN Running ELSE NoChild
  /\ UNCHANGED <<sig, facts, commit, remote, seen, again, unknown, observation, diskVars,
                 changes, crashes>>

\* The provider announces its isolation, then sends one answer.
RemoteWorker ==
  /\ pc = "remote"
  /\ \/ child = Running /\ child' = [kind |-> "ready"]
     \/ child = Running /\ child' = [kind |-> "failed"]
     \/ child.kind = "ready"
          /\ child' \in {[kind |-> k] : k \in {"answer", "malformed", "permission", "failed"}}
  /\ UNCHANGED <<pc, call, byCommand, sig, snapshot, scanVars, facts, govVars, diskVars,
                 changes, crashes>>

\* Whatever comes of it, an answer included, blocks the observation: nothing
\* attests a remote answer.  The provider is stopped in every case.
RemoteAnswers ==
  /\ pc = "remote" /\ child.kind \notin {"running", "ready"}
  /\ unknown' = unknown \cup {CASE child.kind = "answer" -> "remote_collection_attestation"
                                [] child.kind = "malformed" -> "remote_metadata_shape"
                                [] OTHER -> "remote_governance"}
  /\ Goto("second") /\ child' = NoChild
  /\ UNCHANGED <<sig, facts, commit, remote, seen, again, held, observation, diskVars,
                 changes, crashes>>

RemoteStoppedOnCancel ==
  /\ pc = "remote" /\ Cancelled
  /\ unknown' = unknown \cup {"remote_governance"}
  /\ Goto("second") /\ child' = NoChild
  /\ UNCHANGED <<sig, facts, commit, remote, seen, again, held, observation, diskVars,
                 changes, crashes>>

\* The deadline passes, or the loop sees the cancellation.
RemoteStopped ==
  /\ pc = "remote"
  /\ unknown' = unknown \cup {"remote_governance"}
  /\ Goto("second") /\ child' = NoChild
  /\ UNCHANGED <<sig, facts, commit, remote, seen, again, held, observation, diskVars,
                 changes, crashes>>

RereadFact ==
  /\ pc = "second" /\ ~Cancelled
  /\ \E f \in Facts :
       /\ ReadsNext(SecondPass, DOMAIN again, f)
       /\ \E v \in Reading(f) :
            /\ again' = Read(again, f, v)
            /\ unknown' = IF v.bad THEN unknown \cup {f} ELSE unknown
  /\ Goto(IF Facts \subseteq DOMAIN again' THEN "compare" ELSE "second")
  /\ UNCHANGED <<sig, child, facts, commit, remote, seen, held, observation, diskVars,
                 changes, crashes>>

\* A reading of the second pass fails, or is refused after a cancellation.
RereadFails ==
  /\ pc = "second"
  /\ unknown' = unknown \cup {"local_state_revalidation"}
  /\ Goto("check")
  /\ UNCHANGED <<sig, child, facts, commit, remote, seen, again, held, observation,
                 diskVars, changes, crashes>>

AgreeOnRefs == \A f \in Facts \ {"status"} : again[f] = seen[f]
\* The two readings agree on every fact.
Agree == \A f \in Facts : again[f] = seen[f]

Compare ==
  /\ pc = "compare"
  /\ unknown' = IF Agree THEN unknown ELSE unknown \cup {"concurrent_local_mutation"}
  /\ Goto("check")
  /\ UNCHANGED <<sig, child, facts, commit, remote, seen, again, held, observation,
                 diskVars, changes, crashes>>

\* The signal is asked before and after redaction, and made to choose.
SeeCancellation(step, then) ==
  /\ pc = step
  /\ unknown' = IF Cancelled THEN unknown \cup {"observation_cancellation"} ELSE unknown
  /\ Goto(then)
  /\ UNCHANGED <<sig, child, facts, commit, remote, seen, again, held, observation,
                 diskVars, changes, crashes>>
CheckCancellation == SeeCancellation("check", "redact")
Redacted == SeeCancellation("redact", "admit")

AdmitObservation ==
  /\ pc = "admit"
  /\ LET u == IF Cancelled THEN unknown \cup {"observation_cancellation"} ELSE unknown IN
     /\ sig' = IF "observation_cancellation" \in u THEN sig ELSE Claimed(sig)
     /\ unknown' = u
     /\ observation' = [id |-> call, snap |-> snapshot.id, read |-> seen, unknown |-> u,
                        disposition |-> IF u # {} THEN "BLOCKED" ELSE "PARTIAL"]
  /\ Goto("observed")
  /\ UNCHANGED <<child, facts, commit, remote, seen, again, held, diskVars, changes, crashes>>

(***************************************************************************)
(* The command writes the snapshot, then the observation, each by renaming  *)
(* a finished file over the old one.                                        *)
(***************************************************************************)
End(step) == Goto(step) /\ UNCHANGED <<sig, child, facts, govVars, changes>>

WriteSnapshot ==
  /\ byCommand
  /\ pc = "observed" \/ pc = "scanned"              \* with or without --governance-out
  /\ disk' = [disk EXCEPT !.snapshot = snapshot.id]
  /\ published' = published \cup {snapshot.id}
  /\ pc' = IF pc = "observed" THEN "written" ELSE "done"
  /\ snapshot' = [id |-> snapshot.id] /\ Forgotten
  /\ UNCHANGED <<call, byCommand, sig, child, facts, govVars, changes, crashes>>

WriteGovernance ==
  /\ pc = "written"
  /\ disk' = [disk EXCEPT !.governance = [id |-> observation.id, snap |-> observation.snap]]
  /\ End("done") /\ UNCHANGED <<published, crashes>>

\* The output directory was replaced, or the file cannot be written.
WriteFails ==
  /\ byCommand /\ pc \in {"scanned", "observed", "written"}
  /\ End("raised") /\ UNCHANGED <<diskVars, crashes>>

\* The end of a call: nothing of it is left but what is on the disk.
Cleared ==
  /\ pc' = "idle" /\ byCommand' = FALSE /\ sig' = "NONE" /\ child' = NoChild
  /\ snapshot' = NoSnapshot /\ Forgotten
  /\ commit' = 0 /\ remote' = FALSE /\ seen' = Unread /\ again' = Unread
  /\ unknown' = {} /\ held' = NoFacts /\ observation' = NoObservation
  /\ UNCHANGED <<call, facts, diskVars, changes>>

\* The caller has its answer, or its error.
Return ==
  /\ pc \in {"done", "raised"} \/ (~byCommand /\ pc \in {"scanned", "observed"})
  /\ Cleared /\ UNCHANGED crashes

Crash ==
  /\ byCommand /\ pc \notin {"idle", "done", "raised"} /\ crashes < MaxCrashes
  /\ crashes' = crashes + 1 /\ Cleared

CallStep ==
  \/ RunScan \/ Observe \/ ObserveFails \/ Probe \/ ReadFact \/ Stamp
  \/ RemoteAnswers \/ RemoteStopped \/ RereadFact \/ RereadFails \/ Compare
  \/ CheckCancellation \/ Redacted \/ AdmitObservation
  \/ WriteSnapshot \/ WriteGovernance \/ WriteFails \/ Return

Init ==
  /\ ScanInit
  /\ facts = [f \in Facts |-> Version(0, FALSE)]
  /\ commit = 0 /\ remote = FALSE /\ seen = Unread /\ again = Unread
  /\ unknown = {} /\ held = NoFacts /\ observation = NoObservation
  /\ disk = [snapshot |-> 0, governance |-> [id |-> 0, snap |-> 0]] /\ published = {0}
  /\ changes = 0 /\ crashes = 0

Next ==
  \/ StartScan \/ CallStep \/ RunWorker \/ RemoteWorker \/ Cancel \/ Crash
  \/ \E f \in Facts : Change(f)

\* The process goes on taking steps, and its deadlines pass; a worker, the
\* caller and the rest of the world owe nothing.
Spec == Init /\ [][Next]_allVars /\ WF_allVars(CallStep)

(***************************************************************************)
(* Properties.                                                              *)
(***************************************************************************)
\* claim_completion hands each artifact to one side: a snapshot, or an
\* observation, that its caller gets says it was cancelled exactly when the
\* signal is left cancelled, however late the cancellation came.
CancelWins ==
  /\ pc = "scanned" => (Marked(snapshot) <=> sig = "CANCELLED")
  /\ pc = "observed" =>
       ("observation_cancellation" \in observation.unknown <=> sig = "CANCELLED")

\* A category that a snapshot reports as observed, or as not observed, was
\* judged on the whole tree by every adapter that supports it; the one way out,
\* refused evidence, is named by a finding and blocks the snapshot.
PartialIsVisible ==
  pc = "scanned" =>
    \A c \in AuditCategories :
      snapshot.status[c] \in {"OBSERVED", "NOT_OBSERVED"} =>
        /\ \A e \in Entries : e \in files /\ ~Large(e)
        /\ \A i \in 1 .. Len(Adapters) :
             c \in Adapters[i].cats =>
               i \in applied \/ (/\ Has(snapshot.found, "ADAPTER.INVALID_EVIDENCE")
                                 /\ snapshot.disposition = "BLOCKED")

\* An observation that is not blocked is not a mixture: all the facts it reports
\* held together when its clock was read, and its reference is the snapshot's
\* commit.  And whatever write the command died at, an observation it left is
\* about a snapshot that was published before it.
ObservationIsOneInstant ==
  /\ pc = "observed" /\ observation.disposition # "BLOCKED" =>
       observation.read = held /\ observation.read["ref"].n = commit
  /\ disk.governance.snap \in published

\* Every scan and observation ends, whatever its workers do.
CallEnds == pc # "idle" ~> pc = "idle"
=============================================================================
