---------------------------- MODULE MCRouteSync ----------------------------
(* Instances of RouteSync for TLC. *)
EXTENDS RouteSync, TLC

CONSTANTS n1, n2, c1, c2, d1, a1, a2

(* Two nodes, one of which may connect twice. *)
TwoNodes == {n1, n2}
ThreeConns == {c1, c2, d1}
OwnerOfThree == (c1 :> n1) @@ (c2 :> n1) @@ (d1 :> n2)

(* One node that may connect twice. *)
OneNode == {n1}
TwoConns == {c1, c2}
OwnerOfTwo == (c1 :> n1) @@ (c2 :> n1)

(* One node, one connection. *)
OneConn == {c1}
OwnerOfOne == (c1 :> n1)

AdminSymmetry == Permutations(Admins)
=============================================================================
