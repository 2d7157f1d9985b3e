\* Two scans that share the jar and the report.
CONSTANTS
  s1 = s1
  s2 = s2
  NoScan = NoScan
  Scans = {s1, s2}
  Failing = {}
  PartialCodes = {}
SPECIFICATION Spec
INVARIANTS SuccessIsGenuine
CHECK_DEADLOCK FALSE
