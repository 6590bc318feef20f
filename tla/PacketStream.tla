---------------------------- MODULE PacketStream ----------------------------
(***************************************************************************)
(* One direction of a protocol.Conn: how the goroutines that send packets  *)
(* on it share the stream, from the key exchange on.                       *)
(*                                                                         *)
(* Packet.Write calls Conn.Write twice, once for the length and once for   *)
(* id and data; routeUpdater writes a marshalled packet with one call.     *)
(* Conn.Write enciphers with the one cfb8 state of the connection and then *)
(* writes to the socket; nothing is locked.  Upwards (node to master) the  *)
(* first packet is the shared secret, written with the master's public     *)
(* key; then handleMasterConnection switches the connection to AES.  The   *)
(* node's connection is a global: pingers and players of the time before a *)
(* reconnect write to it as soon as dialMaster has assigned it.            *)
(*                                                                         *)
(* Abstractions.  A piece is what one Conn.Write puts on the socket; it is *)
(* deciphered exactly when the reader is in its mode and has just read the *)
(* piece that was enciphered before it.  A reader that has lost the frames *)
(* stays lost: the format has nothing to resynchronise on.                 *)
(***************************************************************************)
EXTENDS Naturals, Sequences

CONSTANTS
  Ways,         \* "up" (node to master) and "down" (master to node)
  Sends,        \* Sends[way]: the goroutines that send packets that way
  Opener,       \* Opener[way]: sends the shared secret, or Ready
  Early,        \* writers that may write before the opener is done
  Atomic,       \* writers that pass a whole packet to one Conn.Write
  None,
  MaxPackets    \* bound: packets of one writer

Writers == UNION { Sends[y] : y \in Ways }

ASSUME WritersAssumption ==
  /\ Ways \subseteq {"up", "down"}
  /\ \A y \in Ways : Opener[y] \in Sends[y] \ (Early \cup Atomic)
ASSUME BoundAssumption == MaxPackets \in Nat \ {0}

VARIABLES
  way,          \* the direction the behaviour is about; it never changes
  phase,        \* the opener: "first" packet, "switch", "open"
  mode,         \* what c.w is at the sending end: "rsa" or "aes"
  chain,        \* the piece enciphered last with the present cipher state
  writer,       \* writer[w]: [pc, sent, held]: held is enciphered, not yet written
  wire,         \* pieces on the socket
  reader,       \* [mode, last, head]: last piece deciphered, pending length
  state,        \* the reading goroutine: "reading", "lost", "closed"
  got,          \* packets the reader has been given
  order,        \* history: packets in the order their sending began
  overlapped    \* history: a packet was begun while another was under way

vars == << way, phase, mode, chain, writer, wire, reader, state, got, order, overlapped >>

Ids == Writers \X (1 .. MaxPackets)
Piece(id, part, prev) == [id |-> id, part |-> part, mode |-> mode, prev |-> prev]
Name(piece) == << piece.id, piece.part >>
FirstMode(y) == IF y = "up" THEN "rsa" ELSE "aes"
Idle(sent) == [pc |-> "idle", sent |-> sent, held |-> None]

Init ==
  /\ way \in Ways
  /\ phase = "first"
  /\ mode = FirstMode(way)
  /\ chain = None
  /\ writer = [w \in Writers |-> Idle(0)]
  /\ wire = << >>
  /\ reader = [mode |-> FirstMode(way), last |-> None, head |-> None]
  /\ state = "reading"
  /\ got = << >>
  /\ order = << >>
  /\ overlapped = FALSE

-----------------------------------------------------------------------------
(* Conn.Write: cipher.StreamWriter or RSAStream; then the socket. *)

Encipher(w, part, pc) ==
  LET piece == Piece(<< w, writer[w].sent + 1 >>, part, IF mode = "aes" THEN chain ELSE None)
  IN  /\ writer' = [writer EXCEPT ![w].pc = pc, ![w].held = piece]
      /\ chain' = IF mode = "aes" THEN Name(piece) ELSE chain

(* The goroutine w calls SendPacket, or Write with a marshalled packet.    *)
MayWrite(w) ==
  \/ w = Opener[way] /\ phase # "switch"
  \/ w \in Early
  \/ phase = "open"

Begin(w) ==
  /\ w \in Sends[way]
  /\ writer[w].pc = "idle"
  /\ writer[w].sent < MaxPackets
  /\ MayWrite(w)
  /\ Encipher(w, IF w \in Atomic THEN "whole" ELSE "length", "first")
  /\ order' = Append(order, << w, writer[w].sent + 1 >>)
  /\ overlapped' = (overlapped \/ (\E v \in Writers : writer[v].pc # "idle")
                               \/ (w # Opener[way] /\ phase # "open"))
  /\ UNCHANGED << way, phase, mode, wire, reader, state, got >>

PutFirst(w) ==
  /\ writer[w].pc = "first"
  /\ wire' = Append(wire, writer[w].held)
  /\ writer' = [writer EXCEPT
       ![w] = IF w \in Atomic THEN Idle(@.sent + 1) ELSE [@ EXCEPT !.pc = "between"]]
  /\ UNCHANGED << way, phase, mode, chain, reader, state, got, order, overlapped >>

EncipherBodyAfresh(w) ==        \* mutant: every Write starts a cipher of its own
  /\ writer[w].pc = "between"
  /\ writer' = [writer EXCEPT
       ![w].pc = "second", ![w].held = Piece(<< w, writer[w].sent + 1 >>, "body", None)]
  /\ UNCHANGED << way, phase, mode, chain, wire, reader, state, got, order, overlapped >>

EncipherBody(w) ==
  /\ writer[w].pc = "between"
  /\ Encipher(w, "body", "second")
  /\ UNCHANGED << way, phase, mode, wire, reader, state, got, order, overlapped >>

(* The node switches to AES after the secret; the master has done so before *)
(* Ready, and registers nobody for the updater before that.                *)
AfterPacket(w) ==
  IF w = Opener[way] /\ phase = "first"
  THEN IF way = "up" THEN "switch" ELSE "open"
  ELSE phase

PutBodyAgain(w) ==              \* mutant: after the body was written it is written again
  /\ writer[w].pc = "second"
  /\ wire' = Append(wire, writer[w].held)
  /\ writer' = [writer EXCEPT ![w].sent = @ + 1]
  /\ phase' = AfterPacket(w)
  /\ UNCHANGED << way, mode, chain, reader, state, got, order, overlapped >>

PutBody(w) ==
  /\ writer[w].pc = "second"
  /\ wire' = Append(wire, writer[w].held)
  /\ writer' = [writer EXCEPT ![w] = Idle(@.sent + 1)]
  /\ phase' = AfterPacket(w)
  /\ UNCHANGED << way, mode, chain, reader, state, got, order, overlapped >>

SwitchEarly ==                  \* mutant: the connection switches under the secret's body
  /\ way = "up"
  /\ phase \in {"first", "switch"}
  /\ writer[Opener[way]].pc = "between" \/ phase = "switch"
  /\ phase' = "open"
  /\ mode' = "aes"
  /\ chain' = None
  /\ UNCHANGED << way, writer, wire, reader, state, got, order, overlapped >>

(* EnableEncryption: a new pair of cipher streams. *)
Switch ==
  /\ phase = "switch"
  /\ phase' = "open"
  /\ mode' = "aes"
  /\ chain' = None
  /\ UNCHANGED << way, writer, wire, reader, state, got, order, overlapped >>

-----------------------------------------------------------------------------
(* Packet.Read at the other end. *)

Front == Head(wire)
Take ==
  /\ state = "reading"
  /\ wire # << >>
  /\ wire' = Tail(wire)

Readable ==
  /\ Front.mode = reader.mode
  /\ Front.mode = "aes" => Front.prev = reader.last
IsLength == reader.head = None /\ Front.part = "length"
EndsPacket ==
  \/ reader.head = None /\ Front.part = "whole"
  \/ reader.head = Front.id /\ Front.part = "body"

(* The first packet upwards is decoded as the shared secret: another one   *)
(* ends handleConnection, the secret switches the reader to AES.           *)
Deliver ==
  /\ got' = Append(got, Front.id)
  /\ IF reader.mode = "rsa"
     THEN IF Front.id = << Opener[way], 1 >>
          THEN /\ reader' = [mode |-> "aes", last |-> None, head |-> None]
               /\ UNCHANGED state
          ELSE /\ state' = "closed"
               /\ UNCHANGED reader
     ELSE /\ reader' = [mode |-> reader.mode, last |-> Name(Front), head |-> None]
          /\ UNCHANGED state

ReadLength ==
  /\ Take
  /\ Readable /\ IsLength
  /\ reader' = [mode |-> reader.mode, last |-> Name(Front), head |-> Front.id]
  /\ UNCHANGED << way, phase, mode, chain, writer, state, got, order, overlapped >>

ReadPacket ==
  /\ Take
  /\ Readable /\ EndsPacket
  /\ Deliver
  /\ UNCHANGED << way, phase, mode, chain, writer, order, overlapped >>

(* Garbage, or the piece of another packet where this one's was expected:  *)
(* during the exchange handleConnection returns, later Packet.Read goes on *)
(* from wherever it is.                                                    *)
ReadDamaged ==
  /\ Take
  /\ ~ (Readable /\ (IsLength \/ EndsPacket))
  /\ state' = IF reader.mode = "rsa" THEN "closed" ELSE "lost"
  /\ UNCHANGED << way, phase, mode, chain, writer, reader, got, order, overlapped >>

-----------------------------------------------------------------------------
Write(w) == Begin(w) \/ PutFirst(w) \/ EncipherBody(w) \/ PutBody(w)
Finish(w) == PutFirst(w) \/ EncipherBody(w) \/ PutBody(w)
Read == ReadLength \/ ReadPacket \/ ReadDamaged

Next == (\E w \in Writers : Write(w)) \/ Switch \/ Read

Spec == Init /\ [][Next]_vars

(* A packet begun is written to its end, the exchange goes on, the reader  *)
(* reads.  Nobody has to begin a packet but the opener.                    *)
FairSpec ==
  /\ Spec
  /\ \A w \in Writers : WF_vars(Finish(w))
  /\ WF_vars(\E w \in Writers : w = Opener[way] /\ Begin(w)) /\ WF_vars(Switch) /\ WF_vars(Read)

-----------------------------------------------------------------------------
(* Properties. *)

Modes == {"rsa", "aes"}
Names == Ids \X {"length", "body", "whole"}
Pieces == [id : Ids, part : {"length", "body", "whole"}, mode : Modes,
           prev : Names \cup {None}]

(* Every variable keeps its type. *)
TypeOK ==
  /\ way \in Ways
  /\ phase \in {"first", "switch", "open"}
  /\ mode \in Modes
  /\ chain \in Names \cup {None}
  /\ writer \in [Writers -> [pc : {"idle", "first", "between", "second"},
                             sent : 0 .. MaxPackets, held : Pieces \cup {None}]]
  /\ wire \in Seq(Pieces)
  /\ reader \in [mode : Modes, last : Names \cup {None}, head : Ids \cup {None}]
  /\ state \in {"reading", "lost", "closed"}
  /\ got \in Seq(Ids)
  /\ order \in Seq(Ids)
  /\ overlapped \in BOOLEAN

(* The stream is damaged only if two packets were under way at a time or   *)
(* one was begun before the exchange was complete: as long as the writers  *)
(* keep apart the change of cipher happens at one place of the stream,     *)
(* every piece meets the reader in the state it was enciphered for, and    *)
(* the reader is given the packets that were sent, once each and in order. *)
DeliveredAsSent ==
  \/ overlapped
  \/ /\ state = "reading"
     /\ Len(got) <= Len(order) /\ got = SubSeq(order, 1, Len(got))

(* The stream is a Channel: what SendPacket begins arrives, once and in     *)
(* order, as long as the writers keep apart; after that nothing arrives     *)
(* twice or unsent, and nothing at all once the frames are lost.            *)
Promise == INSTANCE Channel WITH
  Packets <- Ids, sent <- order, mixed <- overlapped, lost <- (state # "reading")
StreamIsChannel == Promise!FairSpec
=============================================================================
