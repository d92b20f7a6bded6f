SPECIFICATION AgentSpec
CONSTANTS
    agent = agent
    r1 = r1
    plan_blob = plan_blob
    None = None
    Writers <- MCWriters
    Readers <- MCReaders
    Blobs <- MCBlobs
    AppendStates = {"VALIDATED", "BUILDING", "VERIFYING", "RELEASE_READY", "HALTED"}
    Tears = {"prefix", "noeol", "whole"}
    MaxEvents = 6
    Steps = 2
INVARIANTS
    ResultMatchesLedger
CHECK_DEADLOCK FALSE
