----------------------------- MODULE MCDashboard -----------------------------
(* Three tokens, two of them of one user, and two fetches of the report.    *)
EXTENDS Dashboard, TLC

CONSTANTS t1, t2, t3, ann, bob, f1, f2

MCOwner == (t1 :> ann) @@ (t2 :> bob) @@ (t3 :> ann)
=============================================================================
