--------------------------- MODULE MCSecurityAgent ---------------------------
(* Instances of SecurityAgent for TLC.                                       *)
EXTENDS SecurityAgent, TLC

CONSTANTS t1, t2,       \* threads
          public, pitr, \* a check whose read can escape, one that catches all
          bogus         \* an id no scan contains

MCCheckOrder == <<public, pitr>>
MCThreads == {t1, t2}
MCLists == {<<public>>, <<pitr, public, pitr>>, <<public, bogus>>}
MCShortLists == {<<pitr, public>>}
ThreadSymmetry == Permutations(MCThreads)
=============================================================================
