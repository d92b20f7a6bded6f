SPECIFICATION Spec
CONSTANTS
    Tasks = {"task"}
    Reviewers = {"code", "conformance"}
    ProductKeys = {"scope"}
    MechanicalKeys = {"typo"}
    OtherKeys = {"defect"}
    Reports <- MCReports
    Trees = {"t1", "t2"}
    MaxFindings = 2
    MaxEdits = 1
    MaxCrashes = 1
    TornLedger = TRUE
    None = None
INVARIANTS
    
    AssuranceIsComplete

    
CHECK_DEADLOCK FALSE
