----------------------------- MODULE MCFileStore -----------------------------
(* An instance of FileStore for TLC.                                         *)
EXTENDS FileStore, TLC

CONSTANTS t1, t2, t3, f1, f2

MCThreads == {t1, t2, t3}
MCFiles == {f1, f2}
FileStoreSymmetry == Permutations(MCThreads) \cup Permutations(MCFiles)
=============================================================================
