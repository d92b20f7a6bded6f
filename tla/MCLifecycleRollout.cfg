CONSTANTS
  Controllers = {c1}
  Findings = {f1}
  MaxHeads = 1
  Tries <- RolloutTries
  MaxUsed = 1
  MaxOpen = 2
  Restarts = FALSE
  MaxReloads = 0
  MaxExtensions = 1
  DeliveryLimit = 1
  RepairsPerFinding = 0
  RepairsPerStage = 0
  SafetyUnits = 2
SPECIFICATION Spec
INVARIANTS
    
    EveryStopCanResume
CHECK_DEADLOCK FALSE
