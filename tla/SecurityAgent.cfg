\* Two threads, two checks, a history of two scans, three requests.
CONSTANTS
  t1 = t1
  t2 = t2
  public = public
  pitr = pitr
  bogus = bogus
  NoThread = NoThread
  UnknownFinding = bogus
  Threads <- MCThreads
  CheckOrder <- MCCheckOrder
  Escaping = {public}
  Driftable = {public}
  HistoryLimit = 2
  FindingLists <- MCLists
  AllowRemediation = TRUE
  MaxRequests = 3
  MaxRestarts = 1
SPECIFICATION Spec
SYMMETRY ThreadSymmetry
INVARIANTS HistoryIsNewestScans FixesAreApproved LatestIsFresh
PROPERTIES AgentChangesOnlyApproved CustomSettingsKept ImplementsSerial
CHECK_DEADLOCK FALSE
