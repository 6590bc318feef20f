-------------------------- MODULE MCPlayerRegistry --------------------------
(* Instances of PlayerRegistry for TLC. *)
EXTENDS PlayerRegistry, TLC

CONSTANTS s1, s2, s3, c1, c2, p1, p2

(* Two logins of one player within a second, one of another player. *)
ThreeSessions == {s1, s2, s3}
EqualRecords == (s1 :> p1) @@ (s2 :> p1) @@ (s3 :> p2)
=============================================================================
