--------------------------- MODULE MCMessageQueue ---------------------------
(* Requests of both kinds as model values.                                 *)
EXTENDS MessageQueue, TLC

CONSTANTS m1, m2, r1, r2

MCMessages == {m1, m2}
MCReceives == {r1, r2}
MCSymmetry == Permutations(MCMessages) \cup Permutations(MCReceives)
=============================================================================
