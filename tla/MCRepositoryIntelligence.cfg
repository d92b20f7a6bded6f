SPECIFICATION Spec
CONSTANTS
  Tree <- SmallTree
  Budgets <- OneTight
  Facts = {"ref", "head", "status", "branches"}
  MaxCalls = 1
  MaxChanges = 2
  MaxCrashes = 1
INVARIANTS
    CancelWins
    PartialIsVisible
    
CHECK_DEADLOCK FALSE
PROPERTIES
    CallEnds
