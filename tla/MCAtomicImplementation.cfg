CONSTANTS
  Tasks = {t1}
  Commits = {a, b}
  Plans = {1, 2}
  Evidence = {e1}
  MaxRepairs = 1
  MaxCrashes = 1
  Careful = TRUE
SPECIFICATION Spec
INVARIANTS
    
    ReadyIsPublished

    
CHECK_DEADLOCK FALSE
