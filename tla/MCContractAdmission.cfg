CONSTANTS
  k1 = k1
  k2 = k2
  RetryKeys = {k1, k2}
  Services = {c1, c2}
  Submissions <- Retried
  MaxSubmissions = 2
  MaxFaults = 1
  Nothing = Nothing
SPECIFICATION Spec
INVARIANTS
    AdmittedIsBacked
    LineageIsAChain
PROPERTIES
    EveryAttemptEnds
CHECK_DEADLOCK FALSE
