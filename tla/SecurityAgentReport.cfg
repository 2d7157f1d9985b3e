\* A read of the final scan may fail in a way its check does not catch.
CONSTANTS
  t1 = t1
  t2 = t2
  public = public
  pitr = pitr
  bogus = bogus
  NoThread = NoThread
  UnknownFinding = bogus
  Threads <- MCThreads
  CheckOrder <- MCCheckOrder
  Escaping = {public}
  Driftable = {pitr}
  HistoryLimit = 2
  FindingLists <- MCShortLists
  AllowRemediation = TRUE
  MaxRequests = 2
  MaxRestarts = 1
SPECIFICATION Spec
SYMMETRY ThreadSymmetry
INVARIANTS AttemptsAreReported
CHECK_DEADLOCK FALSE
