SPECIFICATION Spec
CONSTANTS
  None = None
  Absent = Absent
  Unset = Unset
  Nil = Nil
  NoState = NoState
  Callers = {c1, c2}
  Keys = {1, 2}
  Contracts <- MCContracts
  Requests <- MCRequests
  Commits = {"h1", "h2"}
  Reports <- MCReports
  MaxCalls = 2
  MaxDeaths = 1
  Gone = Gone
  Timeout = 3
  GitTime = 2
  ProbeTime = 1
  MaxOutput = 1
  MaxExecutions = 2
  Heads = {h1, h2}
  Findings = {f1}
  PullChecks = {ci}
  GroupChecks = {group}
  QueueTimeout = 2
  InventoryWindow = 1
  MaxClock = 3
  MaxPolicy = 1
  MaxMoves = 3
  Judgements <- MCJudgements
  Specs <- MCSpecs
  LegacyStates <- MCLegacyStates
  RetentionDays = 1
  DefaultDays = 1
  Tasks = 2
  LastDay = 1
  MaxResumes = 2
  MaxRulings = 3
  Companies <- MCCompanies
  Approvals = {"a1", "a2"}
  Changes = {"x", "y"}
  MaxAttempts = 2
  Budget = 2
  MaxSteps = 2
  MaxFaults = 2
  MaxStops = 1
  MaxEdits = 1
  MaxEvents = 4
  Free = Free
  PersonalRequests <- MCPersonalRequests
  MaxSubmissions = 1
  Vacant = Vacant
SYMMETRY Symmetry
INVARIANTS
  
  RunIsBacked
  AuthorizationIsRed
  ExecutionIsContained
  
  
  AdmittedIsGranted
  
  OutcomeIsTrue
  SweptStaysSwept
  ApprovalMovesOnce
  
  OutboxIsBacked
CHECK_DEADLOCK FALSE
