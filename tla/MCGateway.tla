------------------------------ MODULE MCGateway ------------------------------
(* Two registrations under one address that is typed in two ways, a login   *)
(* that has the password of one of them, and its requests.                  *)
EXTENDS Gateway, TLC

CONSTANTS r1, r2, l1, ann, Ann, pw1, pw2

MCAddress == (r1 :> ann) @@ (r2 :> Ann) @@ (l1 :> Ann)
MCTrimmed == (ann :> ann) @@ (Ann :> ann)
MCPassword == (r1 :> pw1) @@ (r2 :> pw2) @@ (l1 :> pw1)
=============================================================================
