CONSTANTS
  Controllers = {c1, c2}
  Findings = {f1}
  MaxHeads = 2
  Tries <- ReviewTries
  MaxUsed = 0
  MaxOpen = 1
  Restarts = FALSE
  MaxReloads = 1
  MaxExtensions = 0
  DeliveryLimit = 1
  RepairsPerFinding = 1
  RepairsPerStage = 1
  SafetyUnits = 1
SYMMETRY Symmetry
SPECIFICATION Spec
INVARIANTS
    ReleaseIsReviewed
CHECK_DEADLOCK FALSE
