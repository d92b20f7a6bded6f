--------------------------- MODULE ExecutionKernel ---------------------------
(* IsolatedExecutionKernel.execute (execution/kernel.py) in its parts: every *)
(* git command and the sandboxed command run as a bounded process whose      *)
(* output is read until a deadline or a limit; the commit is materialized    *)
(* into a private directory, a copy is run, and only a run that was          *)
(* isolated, complete and left its subject alone is admitted.  Time passes   *)
(* while a process is waited for; extracting and hashing take none.          *)
EXTENDS Naturals, Sequences

CONSTANTS
  Timeout,        \* policy.timeout_seconds
  GitTime,        \* what one git command is given at most
  ProbeTime,      \* what the probe of the sandbox is given
  MaxOutput,      \* policy.max_output_bytes, in chunks
  MaxExecutions,  \* bound on the calls of execute
  Gone            \* no call, no process

\* The processes of one call: three git commands on the commit, one for the
\* blob of its tree, the probe of the sandbox and the sandboxed command.
Materializing == <<"resolve", "fsck", "list", "blob">>
Git == {Materializing[i] : i \in 1..Len(Materializing)}
Running == Git \cup {"probe", "run"}

Outcomes ==
  {"none", "timed out", "unavailable", "output limit", "not isolated", "git failed", "bad object", "bad archive",
   "subject changed", "done"}

\* A call: where it is, what came of it, whether its run was isolated and the
\* tree that was hashed before it.
Executions ==
  [step : Running \cup {"extract", "locate", "compare", "cleanup", "admit"}, outcome : Outcomes,
   isolated : BOOLEAN, before : {"none", "commit", "other"}]

\* A process: when it is given up, its leader, whether something it started in
\* its group runs, whether anyone still holds its pipes, the chunks written and
\* read, and the sandbox's status.
Processes ==
  [until : Nat, leader : {"runs", "ok", "failed"}, heirs : BOOLEAN, open : BOOLEAN, written : Nat, read : Nat,
   status : {"none", "written", "flood"}]

ASSUME KernelAssumption ==
  /\ {Timeout, GitTime, ProbeTime, MaxOutput, MaxExecutions} \subseteq Nat \ {0}
  /\ Gone \notin Executions \cup Processes

VARIABLES
  exec,       \* the call that runs
  child,      \* the bounded process it waits for
  spent,      \* time since the call began
  available,  \* the sandbox's cached answer: "unknown", "yes" or "no"
  subject,    \* the extracted commit: "commit" or, changed, "other"
  workdir,    \* whether the call's directory is there
  orphans,    \* whether a process of an ended bounded process still runs
  executed,   \* calls so far, bounded by MaxExecutions
  attested    \* history: the executions admitted

kernelVars == <<exec, child, spent, available, subject, workdir, orphans, executed, attested>>

KernelInit ==
  /\ exec = Gone /\ child = Gone /\ spent = 0 /\ available = "unknown"
  /\ subject = "commit" /\ workdir = FALSE /\ orphans = FALSE /\ executed = 0 /\ attested = {}

\* A call whose plan digest is not canonical raises here and changes nothing.
BeginExecute ==
  /\ exec = Gone /\ executed < MaxExecutions
  /\ executed' = executed + 1
  /\ exec' = [step |-> Materializing[1], outcome |-> "none", isolated |-> FALSE, before |-> "none"]
  /\ workdir' = TRUE /\ subject' = "commit" /\ spent' = 0
  /\ UNCHANGED <<child, available, orphans, attested>>

AtStep(step) == exec # Gone /\ exec.step = step

To(step) == exec' = [exec EXCEPT !.step = step]

\* Any failure leads through the removal of the directory.
Raise(why) == exec' = [exec EXCEPT !.step = "cleanup", !.outcome = why]

Least(a, b) == IF a < b THEN a ELSE b

\* When a process is given up.  The git commands of one call share the policy's
\* timeout (remaining_time); the sandboxed command has it for itself.
Until(step) ==
  CASE step \in Git -> Least(spent + GitTime, Timeout)
    [] step = "probe" -> spent + ProbeTime
    [] step = "run" -> spent + Timeout

NewProcess(until) ==
  [until |-> until, leader |-> "runs", heirs |-> FALSE, open |-> TRUE, written |-> 0, read |-> 0, status |-> "none"]

\* What the sandbox remembers of its probe.
Remembered(answer) == IF exec.step = "probe" THEN answer ELSE available

\* The process is started, unless its executable is missing or, for git, the
\* time is up.
Spawn ==
  /\ exec # Gone /\ exec.step \in Running /\ child = Gone
  /\ IF exec.step \in Git /\ spent >= Timeout
     THEN Raise("timed out") /\ UNCHANGED <<child, available>>
     ELSE \/ child' = NewProcess(Until(exec.step)) /\ UNCHANGED <<exec, available>>
          \/ Raise("unavailable") /\ available' = Remembered("no") /\ UNCHANGED child
  /\ UNCHANGED <<spent, subject, workdir, orphans, executed, attested>>

(* What the process does by itself: it writes, starts another process,       *)
(* closes its pipes or ends; its heirs may outlive it and keep the pipes.    *)
ChildWrites(chunks) == child.leader = "runs" /\ child.open /\ child' = [child EXCEPT !.written = @ + chunks]
ChildForks == child.leader = "runs" /\ ~child.heirs /\ child' = [child EXCEPT !.heirs = TRUE]
ChildCloses == child.leader = "runs" /\ child.open /\ ~child.heirs /\ child' = [child EXCEPT !.open = FALSE]
ChildEnds == /\ child.leader = "runs"
             /\ \E code \in {"ok", "failed"} :
                  child' = [child EXCEPT !.leader = code, !.open = @ /\ child.heirs]
HeirEnds == child.heirs /\ child' = [child EXCEPT !.heirs = FALSE, !.open = @ /\ child.leader = "runs"]
SandboxReports ==
  /\ exec.step = "run" /\ child.status = "none" /\ child.leader = "runs"
  /\ \E status \in {"written", "flood"} : child' = [child EXCEPT !.status = status]

ChildActs ==
  /\ child # Gone /\ child.written <= MaxOutput
  /\ ChildWrites(1) \/ ChildForks \/ ChildCloses \/ ChildEnds \/ HeirEnds \/ SandboxReports
  /\ UNCHANGED <<exec, spent, available, subject, workdir, orphans, executed, attested>>

\* Time passes while a process is waited for, up to its deadline.
Wait ==
  /\ child # Gone /\ spent < child.until
  /\ spent' = spent + 1
  /\ UNCHANGED <<exec, child, available, subject, workdir, orphans, executed, attested>>

Survivors(process) == process.leader = "runs" \/ process.heirs

KillLeader(process) == [process EXCEPT !.leader = IF @ = "runs" THEN "failed" ELSE @]

\* _kill_process_group, on every way out of a bounded process.
KillGroup(process) == [process EXCEPT !.leader = IF @ = "runs" THEN "failed" ELSE @, !.heirs = FALSE]

EndProcess == child' = Gone /\ orphans' = (orphans \/ Survivors(KillGroup(child)))

\* A probe that cannot be completed makes the sandbox unavailable, which is
\* remembered for good.
Fail(why) ==
  /\ EndProcess
  /\ Raise(why)
  /\ available' = Remembered("no")

\* A chunk is read; beyond the limit the process is killed.
ReadChunk ==
  /\ child # Gone /\ spent < child.until /\ child.read < child.written
  /\ IF child.read + 1 > MaxOutput
     THEN Fail("output limit")
     ELSE child' = [child EXCEPT !.read = @ + 1] /\ UNCHANGED <<exec, available, orphans>>
  /\ UNCHANGED <<spent, subject, workdir, executed, attested>>

StatusFlood ==
  /\ child # Gone /\ spent < child.until /\ child.status = "flood"
  /\ Fail("not isolated")
  /\ UNCHANGED <<spent, subject, workdir, executed, attested>>

\* The deadline passes while a pipe is open or, after it, the leader runs.
TimesOut ==
  /\ child # Gone /\ spent >= child.until
  /\ child.open \/ child.read < child.written \/ child.leader = "runs" \/ child.status = "flood"
  /\ Fail("timed out")
  /\ UNCHANGED <<spent, subject, workdir, executed, attested>>

Drained == child # Gone /\ ~child.open /\ child.read = child.written /\ child.leader # "runs" /\ child.status # "flood"

\* _exact_commit_archive: each git command must succeed; the blobs are checked
\* against their object ids and the archive is extracted and hashed.
GitEnds ==
  /\ Drained /\ exec.step \in Git
  /\ EndProcess
  /\ \/ child.leader = "failed" /\ Raise("git failed")
     \/ Raise("bad object")
     \/ /\ child.leader = "ok" /\ exec.step # "blob"
        /\ \E i \in 1..Len(Materializing) - 1 : Materializing[i] = exec.step /\ To(Materializing[i + 1])
     \/ child.leader = "ok" /\ exec.step = "blob" /\ IF spent < Timeout THEN To("extract") ELSE Raise("timed out")
  /\ UNCHANGED <<spent, available, subject, workdir, executed, attested>>

\* The archive is extracted, copied and hashed; a member that is not a plain
\* file or directory, or too many of them, refuses the commit.
Extract ==
  /\ AtStep("extract")
  /\ \/ exec' = [exec EXCEPT !.step = "locate", !.before = subject]
     \/ Raise("bad archive")
  /\ UNCHANGED <<child, spent, available, subject, workdir, orphans, executed, attested>>

\* The executable must exist inside the sandbox and the sandbox's own tools on
\* the host; the probe is run once for all calls.
Locate ==
  /\ AtStep("locate")
  /\ \/ Raise("unavailable")
     \/ available = "no" /\ Raise("not isolated")
     \/ available = "unknown" /\ To("probe")
     \/ available = "yes" /\ To("run")
  /\ UNCHANGED <<child, spent, available, subject, workdir, orphans, executed, attested>>

ProbeEnds ==
  /\ Drained /\ exec.step = "probe"
  /\ EndProcess
  /\ available' = Remembered(IF child.leader = "ok" THEN "yes" ELSE "no")
  /\ To("locate")
  /\ UNCHANGED <<spent, subject, workdir, executed, attested>>

\* A command that ends without a status of the sandbox was never isolated.
SandboxEnds ==
  /\ Drained /\ exec.step = "run"
  /\ EndProcess
  /\ IF child.status = "written"
     THEN exec' = [exec EXCEPT !.step = "compare", !.isolated = TRUE]
     ELSE Raise("not isolated")
  /\ UNCHANGED <<spent, available, subject, workdir, executed, attested>>

\* Something changes the subject while the command runs.
SubjectChanges ==
  /\ AtStep("run") /\ subject = "commit"
  /\ subject' = "other"
  /\ UNCHANGED <<exec, child, spent, available, workdir, orphans, executed, attested>>

Compare ==
  /\ AtStep("compare")
  /\ Raise(IF subject = exec.before THEN "done" ELSE "subject changed")
  /\ UNCHANGED <<child, spent, available, subject, workdir, orphans, executed, attested>>

\* The directory is removed whatever happened; a removal that fails refuses a
\* run that was done.
Cleanup ==
  /\ AtStep("cleanup")
  /\ \/ workdir' = FALSE /\ IF exec.outcome = "done" THEN To("admit") ELSE exec' = Gone
     \/ UNCHANGED workdir /\ exec' = Gone
  /\ UNCHANGED <<child, spent, available, subject, orphans, executed, attested>>

\* The receipt is asked for; the ledger may refuse it.
AdmitExecution ==
  /\ AtStep("admit")
  /\ exec' = Gone
  /\ attested' \in {attested, attested \cup {[subject |-> subject, isolated |-> exec.isolated, removed |-> ~workdir,
                                              outcome |-> exec.outcome]}}
  /\ UNCHANGED <<child, spent, available, subject, workdir, orphans, executed>>

KernelNext ==
  \/ BeginExecute \/ Spawn \/ ChildActs \/ Wait \/ ReadChunk \/ StatusFlood \/ TimesOut
  \/ GitEnds \/ Extract \/ Locate \/ ProbeEnds \/ SandboxEnds \/ SubjectChanges \/ Compare \/ Cleanup \/ AdmitExecution

KernelSpec == KernelInit /\ [][KernelNext]_kernelVars

(***************************************************************************)
(* Properties.                                                              *)
(***************************************************************************)
\* However a command ends, hangs, forks, floods or closes its output, no
\* process of it runs once the kernel went on, and all commands of a call
\* together are waited for no longer than the timeout for git, the probe and
\* the timeout for the sandbox.  A receipt is only given for a run that
\* finished in a sandbox that reported itself, on the commit as it was
\* extracted, after its directory was removed.
ExecutionIsContained ==
  /\ ~orphans /\ spent <= Timeout + ProbeTime + Timeout
  /\ \A e \in attested : e.isolated /\ e.subject = "commit" /\ e.removed /\ e.outcome = "done"
=============================================================================
