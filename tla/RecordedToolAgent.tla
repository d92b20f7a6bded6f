-------------------------- MODULE RecordedToolAgent --------------------------
(***************************************************************************)
(* run_recorded_tool_agent (recorded_tool_agent.py) on top of its evidence *)
(* ledger: the replay of one recorded transcript under a wall-time budget. *)
(* Every line it writes is an append of EvidenceLedger with all of that    *)
(* module's interleavings, failures and crashes; the last one, the release *)
(* event, is the guarded append.  A timeout is answered by a halt event,   *)
(* so the two terminal events race the clock.                              *)
(***************************************************************************)
EXTENDS EvidenceLedger

CONSTANTS
    agent,        \* the writer that runs the transcript
    plan_blob,    \* the blob every event of the run references
    Steps         \* transcript events replayed

ASSUME AgentAssumption ==
    /\ agent \in Writers /\ plan_blob \in Blobs /\ Steps \in Nat
    /\ {"VALIDATED", "BUILDING", "VERIFYING", "RELEASE_READY", "HALTED"}
         \subseteq AppendStates

VARIABLES
    apc,       \* "start", "run", "appending", "halting", "halting_append",
               \* "returned", "raised", "dead"
    done,      \* appends of the plan that have returned
    outcome    \* state of the AgentRunResult, "none" before

agentVars == <<apc, done, outcome>>
allVars == <<vars, agentVars>>

\* The states appended, in order: validation, one per transcript event, the
\* release candidate, the release.
Plan ==
    <<"VALIDATED">> \o [i \in 1..Steps |-> "BUILDING"] \o <<"VERIFYING", "RELEASE_READY">>

AgentInit ==
    /\ Init
    /\ apc = "start"
    /\ done = 0
    /\ outcome = "none"

\* The compiled selection is the admitted one and the ledger is new.
Begin ==
    /\ apc = "start"
    /\ Create(agent)
    /\ apc' = "run"
    /\ UNCHANGED <<done, outcome>>

StoreBlob ==
    /\ apc = "run"
    /\ PutBlob(agent, plan_blob)
    /\ UNCHANGED agentVars

\* enforce_wall_time passed and the transcript event was admitted: append.
AppendNext ==
    /\ apc = "run"
    /\ done = 0 \/ agent \notin late
    /\ plan_blob \in blobs
    /\ BeginAppend(agent, Plan[done + 1], {plan_blob}, Plan[done + 1] = "RELEASE_READY")
    /\ apc' = "appending"
    /\ UNCHANGED <<done, outcome>>

\* _ExecutionHalt: enforce_wall_time, a digest, the order, a request, a tool
\* call, a result or a budget of the transcript does not hold.
ExecutionHalt ==
    /\ apc = "run"
    /\ apc' = "halting"
    /\ UNCHANGED <<vars, done, outcome>>

\* An append of the plan returns.
AppendReturns ==
    /\ apc = "appending"
    /\ \/ /\ CommitPlain(agent)
          /\ apc' = "run"
          /\ done' = done + 1
          /\ UNCHANGED outcome
       \/ /\ Confirm(agent)
          /\ apc' = "returned"
          /\ done' = done + 1
          /\ outcome' = "RELEASE_READY"

\* The guarded append proceeds: the clock is read, the file renamed.
AppendProceeds ==
    /\ apc = "appending"
    /\ Stage(agent) \/ Publish(agent)
    /\ UNCHANGED agentVars

\* TimeoutError from the guarded append.
AppendTimesOut ==
    /\ apc = "appending"
    /\ agent \in late
    /\ AbortStage(agent) \/ Rollback(agent)
    /\ apc' = "halting"
    /\ UNCHANGED <<done, outcome>>

\* Any other error of an append leaves run_recorded_tool_agent.
AppendRaises ==
    /\ apc \in {"appending", "halting_append"}
    /\ FailPlain(agent) \/ AbortStage(agent) \/ Rollback(agent)
    /\ apc' = "raised"
    /\ UNCHANGED <<done, outcome>>

\* _halt: append the halt event, without a deadline.
Halt ==
    /\ apc = "halting"
    /\ BeginAppend(agent, "HALTED", {}, FALSE)
    /\ apc' = "halting_append"
    /\ UNCHANGED <<done, outcome>>

\* Variant: a halt event that could not be written is still reported.
HaltReturnsAnyway ==
    /\ apc = "halting_append"
    /\ CommitPlain(agent) \/ FailPlain(agent)
    /\ apc' = "returned"
    /\ outcome' = "HALTED"
    /\ UNCHANGED done

HaltReturns ==
    /\ apc = "halting_append"
    /\ CommitPlain(agent)
    /\ apc' = "returned"
    /\ outcome' = "HALTED"
    /\ UNCHANGED done

Dies ==
    /\ apc \notin {"start", "returned", "raised", "dead"}
    /\ Crash(agent)
    /\ apc' = "dead"
    /\ UNCHANGED <<done, outcome>>

TimePasses ==
    /\ DeadlinePasses(agent)
    /\ UNCHANGED agentVars

Inspect ==
    /\ \E r \in Readers : OpenExisting(r)
    /\ UNCHANGED agentVars

AgentStep ==
    \/ Begin \/ AppendNext \/ AppendReturns \/ AppendProceeds
    \/ AppendTimesOut \/ AppendRaises \/ Halt \/ HaltReturns \/ ExecutionHalt
    \/ (plan_blob \notin blobs /\ StoreBlob)

AgentNext == AgentStep \/ Dies \/ TimePasses \/ Inspect

\* The agent is one thread; nothing obliges time to run out or anyone to look.
AgentSpec == AgentInit /\ [][AgentNext]_allVars /\ WF_allVars(AgentStep)

-----------------------------------------------------------------------------
(* Properties *)

StatesIn(lines) == {lines[i].state : i \in 1..Len(lines)}

\* What the caller is told is what the ledger says, now and to whoever read it
\* before: a result is only returned with its event as the last line; a run is
\* released or halted, never both, although the halt of a timed-out release is
\* written right after the release was published and withdrawn; and once a
\* reader has verified a file ending in RELEASE_READY, the run never halts.
ResultMatchesLedger ==
    /\ apc = "returned" =>
        /\ Len(log.lines) > 0
        /\ log.lines[Len(log.lines)].state = outcome
    /\ ~({"RELEASE_READY", "HALTED"} \subseteq StatesIn(log.lines))
    /\ \A r \in Readers :
        "RELEASE_READY" \in StatesIn(seen[r].lines) => outcome # "HALTED"
=============================================================================
