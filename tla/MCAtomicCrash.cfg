CONSTANTS
  Tasks = {t1}
  Commits = {a}
  Plans = {1, 2}
  Evidence = {e1}
  MaxRepairs = 1
  MaxCrashes = 1
  Careful = TRUE
SPECIFICATION Spec
INVARIANT Loadable
CHECK_DEADLOCK FALSE
