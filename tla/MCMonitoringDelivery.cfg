SPECIFICATION DeliverySpec
CONSTANTS
    Identities = {"run1", "run2"}
    Payloads = {"a", "b"}
    Foreign <- MCForeign
    MaxCrashes = 1
    MaxSentMarkers = 1
    MaxTimeouts = 1
    None = None
INVARIANTS
    RunIsUnique
    AnsweredIsStored
    NothingIsLost
PROPERTIES
    PendingIsSettled
