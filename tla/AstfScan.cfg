\* Two scans, one after the other or overlapping; curl and java may hang.
CONSTANTS
  s1 = s1
  s2 = s2
  NoScan = NoScan
  Scans = {s1, s2}
  Failing = {"mkdir", "move", "remove", "count"}
  PartialCodes = {0, 1, 2}
SPECIFICATION FairSpec
INVARIANTS CleanBillIsGenuine SerialSuccessIsOwn SerialJarIsWhole
PROPERTIES EveryScanAnswered
CHECK_DEADLOCK FALSE
