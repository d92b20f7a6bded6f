SPECIFICATION Spec
CONSTANTS
    w1 = w1
    w2 = w2
    r1 = r1
    b1 = b1
    None = None
    Writers <- MCWriters
    Readers <- MCReaders
    Blobs <- MCBlobs
    AppendStates <- MCStates
    Tears = {"prefix", "whole"}
    MaxEvents = 3
INVARIANTS
    DamageOnlyAtTail
    InspectedIsPermanent
    
CHECK_DEADLOCK FALSE
