----------------------------- MODULE MCAstfScan -----------------------------
(* An instance of AstfScan for TLC.                                          *)
EXTENDS AstfScan

CONSTANTS s1, s2
=============================================================================
