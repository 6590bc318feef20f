---------------------------- MODULE StreamFrames ----------------------------
(* The packets of a protocol.Conn, as bytes of the stream or, until the    *)
(* shared secret has arrived, as RSA blocks.                               *)
EXTENDS PacketStream, Frames

(* While a reader has the frames it is given what was written, and the next *)
(* packet is where it looks for it, from whichever kind of stream it reads. *)
WiredPacketsRoundTrip ==
  state = "reading" =>
    IF reader.mode = "rsa" THEN BlocksReadBack ELSE StreamReadsBack
=============================================================================
