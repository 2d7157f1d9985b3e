\* Two deletes beside an upload, two files, one repeated attempt per call.
CONSTANTS
  t1 = t1
  t2 = t2
  t3 = t3
  f1 = f1
  f2 = f2
  NoFile = NoFile
  Threads <- MCThreads
  Files <- MCFiles
  MaxAttempts = 2
SPECIFICATION Spec
SYMMETRY FileStoreSymmetry
INVARIANTS DanglingOnlyByDelete UploadsAreDurable OrphansAreUnanswered DeletedStaysDeleted
PROPERTIES ImplementsLifecycle
