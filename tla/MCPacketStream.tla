--------------------------- MODULE MCPacketStream ---------------------------
(* An instance of PacketStream for TLC: the goroutines of the code. *)
EXTENDS StreamFrames, TLC

CONSTANTS opener, stale, handler, updater

(* handleMasterConnection, and a pinger or player of the time before;      *)
(* handleConnection and routeUpdater.                                      *)
BothWays == {"up", "down"}
SendsBoth == [y \in BothWays |-> IF y = "up" THEN {opener, stale} ELSE {handler, updater}]
OpenerBoth == [y \in BothWays |-> IF y = "up" THEN opener ELSE handler]
=============================================================================
