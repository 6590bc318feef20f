------------------------------ MODULE Channel ------------------------------
(***************************************************************************)
(* What one direction of a protocol.Conn promises to those who send and    *)
(* receive packets on it: a queue, as long as the senders keep apart.      *)
(* Once they have not (`mixed`), a packet may still arrive, though not     *)
(* twice and not if it was never sent, until the receiver loses the stream.*)
(***************************************************************************)
EXTENDS Naturals, Sequences, Functions

CONSTANT Packets

VARIABLES sent, got, mixed, lost

channel == << sent, got, mixed, lost >>

Init ==
  /\ sent = << >> /\ got = << >>
  /\ mixed = FALSE /\ lost = FALSE

Send ==
  /\ \E p \in Packets \ Range(sent) : sent' = Append(sent, p)
  /\ mixed' \in {mixed, TRUE}
  /\ UNCHANGED << got, lost >>

Receive ==
  /\ ~ mixed
  /\ Len(got) < Len(sent)
  /\ got' = Append(got, sent[Len(got) + 1])
  /\ UNCHANGED << sent, mixed, lost >>

ReceiveMixed ==
  /\ mixed /\ ~ lost
  /\ \E p \in Range(sent) \ Range(got) : got' = Append(got, p)
  /\ lost' \in BOOLEAN
  /\ UNCHANGED << sent, mixed >>

Lose ==
  /\ mixed
  /\ lost' = TRUE
  /\ UNCHANGED << sent, got, mixed >>

Next == Send \/ Receive \/ ReceiveMixed \/ Lose

(* What was sent arrives, unless the senders get into each other's way.    *)
FairSpec == Init /\ [][Next]_channel /\ WF_channel(Receive)
=============================================================================
