\* The same without changes from outside, for what must come about.
CONSTANTS
  t1 = t1
  t2 = t2
  public = public
  pitr = pitr
  bogus = bogus
  NoThread = NoThread
  UnknownFinding = bogus
  Threads <- MCThreads
  CheckOrder <- MCCheckOrder
  Escaping = {public}
  Driftable = {}
  HistoryLimit = 2
  FindingLists <- MCShortLists
  AllowRemediation = TRUE
  MaxRequests = 3
  MaxRestarts = 1
SPECIFICATION FairSpec
PROPERTIES EveryRequestAnswered
CHECK_DEADLOCK FALSE
