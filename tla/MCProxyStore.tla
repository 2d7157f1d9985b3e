---------------------------- MODULE MCProxyStore ----------------------------
(* Two processes, each with a caller, that are given one service or none.   *)
EXTENDS ProxyStore, TLC

CONSTANTS p1, p2, c1, c2, s1, s2, admin, k1, k2

MCOf == (c1 :> p1) @@ (c2 :> p2)
MCRoleOf == (s1 :> admin) @@ (s2 :> admin)
MCDefaults == {{admin}, {admin, s1}}

\* A process changes places together with its caller.
Swap == (p1 :> p2) @@ (p2 :> p1) @@ (c1 :> c2) @@ (c2 :> c1)
Stay == [x \in {p1, p2, c1, c2} |-> x]
MCSymmetry == {f @@ g : f \in {Swap, Stay}, g \in Permutations({k1, k2})}
=============================================================================
