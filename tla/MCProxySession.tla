--------------------------- MODULE MCProxySession ---------------------------
(* Instances of ProxySession, with the bytes of its packets, for TLC. *)
EXTENDS SessionFrames, TLC

CONSTANTS s1, s2, p1

Routes == [d \in {"play"} |-> "backend"]

Script(next, host, mark, bad, at, up, down, leaves) ==
  [next |-> next, host |-> host, mark |-> mark, player |-> p1, at |-> at, bad |-> bad,
   up |-> up, down |-> down, leaves |-> leaves]

(* One session of every kind, alone, with data both ways. *)
Alone ==
  { s1 :> Script(next, "play", FALSE, 0, 1, 2, 2, Ends) : next \in 1 .. 2 }
  \cup { s1 :> Script(next, "play", FALSE, bad, 1, 1, 1, Ends) : next \in 1 .. 2, bad \in 1 .. 2 }
  \cup { s1 :> Script(3, "play", TRUE, 0, 1, 1, 1, Ends) }
  \cup { s1 :> Script(next, "other", FALSE, 0, 1, 1, 0, Ends) : next \in 1 .. 2 }

(* A player twice, within a second or not; the servers end the sessions. *)
Twice ==
  { (s1 :> Script(2, "play", FALSE, 0, 1, 0, 0, {"server"})) @@
    (s2 :> Script(2, "play", FALSE, 0, at, 0, 0, {"server"})) :
      at \in 1 .. 2 }

AloneOrTwice == Alone \cup Twice
=============================================================================
