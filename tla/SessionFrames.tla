--------------------------- MODULE SessionFrames ---------------------------
(* The packets a session's handler takes from its client, as bytes.        *)
EXTENDS ProxySession, Frames

(* Whatever a handshake says, the handler reads what the client wrote and   *)
(* leaves the login behind it; of whatever login it takes not one byte of   *)
(* what it only copies.                                                     *)
PacketsRoundTrip ==
  \A s \in DOMAIN script :
    /\ pc[s] = "handshake" => VarIntsReadBack /\ HandshakesReadBack
    /\ pc[s] = "login" => LoginsReadBack
=============================================================================
