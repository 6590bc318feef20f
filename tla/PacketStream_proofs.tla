------------------------- MODULE PacketStream_proofs -------------------------
(***************************************************************************)
(* Proofs about PacketStream: type correctness, that the reader is given   *)
(* the packets as they were sent as long as the writers keep apart, that   *)
(* the stream implements the safety part of Channel, and, last, that the   *)
(* bytes of a packet are read as they were written.                        *)
(***************************************************************************)
EXTENDS StreamFrames, ListFacts, SequenceTheorems, TLAPS

-----------------------------------------------------------------------------
(* The inductive invariant. *)

(* The packet the goroutine w is at, or will begin. *)
Current(w) == << w, writer[w].sent + 1 >>
Busy(w) == writer[w].pc # "idle"

(* What is held between cipher and socket belongs to the packet under way. *)
HeldInv ==
  \A w \in Writers :
    /\ Busy(w) => /\ writer[w].sent < MaxPackets
                  /\ \E j \in DOMAIN order : order[j] = Current(w)
    /\ writer[w].pc = "first" =>
         /\ writer[w].held \in Pieces /\ writer[w].held.id = Current(w)
         /\ writer[w].held.part = IF w \in Atomic THEN "whole" ELSE "length"
    /\ writer[w].pc = "second" =>
         /\ writer[w].held \in Pieces /\ writer[w].held.id = Current(w)
         /\ writer[w].held.part = "body"

(* A packet is in order, in got and, with its last piece, on the wire once *)
(* at most: its writer counts it as soon as the last piece is written.     *)
Counted(id) == id[2] <= writer[id[1]].sent
Begun(id) == Counted(id) \/ (Busy(id[1]) /\ id = Current(id[1]))
Last(piece) == piece.part # "length"
OnceInv ==
  /\ \A i, j \in DOMAIN order : order[i] = order[j] => i = j
  /\ \A j \in DOMAIN order : Begun(order[j])
  /\ \A i, j \in DOMAIN got : got[i] = got[j] => i = j
  /\ \A i \in DOMAIN got : Counted(got[i])
  /\ \A i, j \in DOMAIN wire :
       Last(wire[i]) /\ Last(wire[j]) /\ wire[i].id = wire[j].id => i = j
  /\ \A i \in DOMAIN wire :
       /\ \E j \in DOMAIN order : order[j] = wire[i].id
       /\ Last(wire[i]) => Counted(wire[i].id) /\ \A j \in DOMAIN got : got[j] # wire[i].id

(* A reader in state r can read the piece, and the state it is in then.    *)
Fits(r, piece) ==
  /\ piece.mode = r.mode
  /\ piece.mode = "aes" => piece.prev = r.last
  /\ piece.mode = "rsa" => piece.id = << Opener[way], 1 >> /\ piece.part # "whole"
  /\ r.head = IF piece.part = "body" THEN piece.id ELSE None
After(piece) ==
  IF piece.mode = "rsa" /\ Last(piece) THEN [mode |-> "aes", last |-> None, head |-> None]
  ELSE [mode |-> piece.mode, last |-> Name(piece),
        head |-> IF Last(piece) THEN None ELSE piece.id]

(* The reader's state once it has read the first i pieces on the wire.     *)
At(i) == IF i = 0 THEN reader ELSE After(wire[i])
End == At(Len(wire))

(* The first packet is the opener's alone, and nothing goes on while the   *)
(* connection switches.                                                    *)
OpeningInv ==
  /\ \A v, w \in Writers : Busy(v) /\ Busy(w) => v = w
  /\ phase # "open" => \A w \in Writers : Busy(w) => w = Opener[way] /\ phase = "first"
  /\ phase = "first" => writer[Opener[way]].sent = 0
  /\ phase = "switch" => way = "up"
  /\ mode = IF phase = "open" THEN "aes" ELSE FirstMode(way)

(* Every piece, on the wire or held, fits the state the reader will be in. *)
CipherInv ==
  /\ \A i \in DOMAIN wire : Fits(At(i - 1), wire[i])
  /\ \A w \in Writers :
       /\ writer[w].pc \in {"first", "second"} =>
            /\ Fits(End, writer[w].held) /\ writer[w].held.mode = mode
            /\ mode = "aes" => chain = Name(writer[w].held)
       /\ writer[w].pc = "between" => End.head = Current(w) /\ End.mode = mode
                                      /\ (mode = "aes" => End.last = chain)
  /\ (\A w \in Writers : ~ Busy(w)) =>
       /\ End.head = None
       /\ IF phase = "switch" THEN End.mode = "aes" /\ End.last = None
          ELSE End.mode = mode /\ (mode = "aes" => End.last = chain)

(* due[i] is the place in order of the packet that is read after i pieces. *)
Places(due) ==
  /\ due \in [0 .. Len(wire) -> Nat \ {0}]
  /\ due[0] = Len(got) + 1
  /\ \A i \in DOMAIN wire :
       /\ due[i] = due[i - 1] + IF Last(wire[i]) THEN 1 ELSE 0
       /\ due[i - 1] <= Len(order) /\ wire[i].id = order[due[i - 1]]
  /\ \A w \in Writers :
       Busy(w) => due[Len(wire)] = Len(order) /\ order[Len(order)] = Current(w)
  /\ (\A w \in Writers : ~ Busy(w)) => due[Len(wire)] = Len(order) + 1
OrderInv ==
  /\ \A j \in DOMAIN got : j <= Len(order) /\ got[j] = order[j]
  /\ \E due \in [0 .. Len(wire) -> Nat \ {0}] : Places(due)

(* All this as long as the writers keep apart. *)
ApartInv == overlapped \/ (state = "reading" /\ OpeningInv /\ CipherInv /\ OrderInv)

IInv == TypeOK /\ HeldInv /\ OnceInv /\ ApartInv

-----------------------------------------------------------------------------
(* What the steps do to the writer concerned and to the wire. *)

(* Enciphering a piece: the writer holds it, the others go on as before.   *)
LEMMA Enciphered ==
  ASSUME TypeOK, NEW w \in Writers, NEW part \in {"length", "body", "whole"},
         NEW pc \in {"first", "second"}, writer[w].sent < MaxPackets, Encipher(w, part, pc)
  PROVE  /\ Current(w) \in Ids
         /\ writer' \in [Writers -> [pc : {"idle", "first", "between", "second"},
                                      sent : 0 .. MaxPackets, held : Pieces \cup {None}]]
         /\ chain' \in Names \cup {None}
         /\ writer'[w].pc = pc /\ writer'[w].sent = writer[w].sent
         /\ writer'[w].held \in Pieces
         /\ writer'[w].held.id = Current(w) /\ writer'[w].held.part = part
         /\ writer'[w].held.mode = mode
         /\ mode = "aes" => writer'[w].held.prev = chain
         /\ chain' = IF mode = "aes" THEN Name(writer'[w].held) ELSE chain
         /\ \A v \in Writers \ {w} : writer'[v] = writer[v]
<1> DEFINE prev == IF mode = "aes" THEN chain ELSE None
           piece == Piece(Current(w), part, prev)
<1>1. Current(w) \in Ids
  BY BoundAssumption DEF TypeOK, Current, Ids
<1>2. piece \in Pieces /\ Name(piece) \in Names
  BY <1>1 DEF TypeOK, Piece, Pieces, Name, Names
<1>3. /\ writer' = [writer EXCEPT ![w].pc = pc, ![w].held = piece]
      /\ chain' = IF mode = "aes" THEN Name(piece) ELSE chain
  BY DEF Encipher, Current
<1> HIDE DEF piece
<1>4. /\ writer'[w].pc = pc /\ writer'[w].sent = writer[w].sent /\ writer'[w].held = piece
      /\ \A v \in Writers \ {w} : writer'[v] = writer[v]
  BY <1>3 DEF TypeOK
<1>5. writer' \in [Writers -> [pc : {"idle", "first", "between", "second"},
                               sent : 0 .. MaxPackets, held : Pieces \cup {None}]]
  BY <1>2, <1>3, ZenonT(30) DEF TypeOK
<1>6. /\ piece.id = Current(w) /\ piece.part = part /\ piece.mode = mode
      /\ mode = "aes" => piece.prev = chain
  BY DEF piece, Piece
<1>7. chain' \in Names \cup {None}
  BY <1>2, <1>3 DEF TypeOK
<1> QED BY <1>1, <1>2, <1>3, <1>4, <1>5, <1>6, <1>7

(* Writing a piece to the socket puts it at the end of the wire.           *)
LEMMA Put ==
  ASSUME TypeOK, HeldInv, NEW w \in Writers, writer[w].pc \in {"first", "second"},
         wire' = Append(wire, writer[w].held)
  PROVE  /\ writer[w].held \in Pieces
         /\ wire' \in Seq(Pieces)
         /\ Len(wire) \in Nat /\ Len(wire') = Len(wire) + 1
         /\ DOMAIN wire = 1 .. Len(wire) /\ DOMAIN wire' = 1 .. Len(wire) + 1
         /\ wire'[Len(wire) + 1] = writer[w].held
         /\ \A i \in 1 .. Len(wire) : wire'[i] = wire[i]
<1>1. writer[w].held \in Pieces
  BY DEF HeldInv
<1>2. wire \in Seq(Pieces)
  BY DEF TypeOK
<1> QED BY <1>1, <1>2, AppendProperties, LenProperties

(* Reading a piece takes it from the front.                                *)
LEMMA FrontIsTaken ==
  ASSUME TypeOK, Take
  PROVE  /\ Front \in Pieces /\ Front = wire[1]
         /\ wire' \in Seq(Pieces)
         /\ Len(wire) \in Nat \ {0} /\ Len(wire') = Len(wire) - 1
         /\ DOMAIN wire = 1 .. Len(wire) /\ DOMAIN wire' = 1 .. Len(wire) - 1
         /\ \A i \in 1 .. Len(wire) - 1 : wire'[i] = wire[i + 1]
<1>1. wire \in Seq(Pieces) /\ wire # << >> /\ wire' = Tail(wire)
  BY DEF TypeOK, Take
<1>2. /\ Head(wire) = wire[1] /\ Head(wire) \in Pieces
      /\ Tail(wire) \in Seq(Pieces)
      /\ Len(wire) \in Nat \ {0} /\ Len(Tail(wire)) = Len(wire) - 1
      /\ \A i \in 1 .. Len(Tail(wire)) : Tail(wire)[i] = wire[i + 1]
  BY <1>1, HeadTailProperties, LenProperties, EmptySeq
<1> QED BY <1>1, <1>2, LenProperties DEF Front

(* The writer after the last piece, and between the two pieces.            *)
LEMMA WriterPut ==
  ASSUME TypeOK, HeldInv, NEW w \in Writers, PutFirst(w) \/ PutBody(w)
  PROVE  /\ writer' \in [Writers -> [pc : {"idle", "first", "between", "second"},
                                      sent : 0 .. MaxPackets, held : Pieces \cup {None}]]
         /\ \A v \in Writers \ {w} : writer'[v] = writer[v]
         /\ IF Last(writer[w].held)
            THEN writer'[w].pc = "idle" /\ writer'[w].sent = writer[w].sent + 1
            ELSE writer'[w].pc = "between" /\ writer'[w].sent = writer[w].sent
         /\ Last(writer[w].held) <=> PutBody(w) \/ w \in Atomic
<1>1. writer[w].sent < MaxPackets
  BY DEF HeldInv, Busy, PutFirst, PutBody
<1>2. CASE PutFirst(w) /\ w \in Atomic
  <2>1. writer' = [writer EXCEPT ![w] = Idle(writer[w].sent + 1)]
    BY <1>2 DEF PutFirst, TypeOK
  <2>2. Last(writer[w].held)
    BY <1>2 DEF PutFirst, HeldInv, Last
  <2> QED BY <1>1, <1>2, <2>1, <2>2, BoundAssumption DEF TypeOK, Idle
<1>3. CASE PutFirst(w) /\ w \notin Atomic
  <2>1. writer' = [writer EXCEPT ![w].pc = "between"]
    BY <1>3 DEF PutFirst, TypeOK
  <2>2. ~ Last(writer[w].held) /\ ~ PutBody(w)
    BY <1>3 DEF PutFirst, PutBody, HeldInv, Last
  <2> QED BY <1>3, <2>1, <2>2, ZenonT(30) DEF TypeOK
<1>4. CASE PutBody(w)
  <2>1. writer' = [writer EXCEPT ![w] = Idle(writer[w].sent + 1)]
    BY <1>4 DEF PutBody, TypeOK
  <2>2. Last(writer[w].held)
    BY <1>4 DEF PutBody, HeldInv, Last
  <2> QED BY <1>1, <1>4, <2>1, <2>2, BoundAssumption DEF TypeOK, Idle
<1> QED BY <1>2, <1>3, <1>4

-----------------------------------------------------------------------------
(* Type correctness. *)

(* Every step keeps every variable in its type.                            *)
LEMMA TypeStep ==
  ASSUME TypeOK, HeldInv, [Next]_vars
  PROVE  TypeOK'
<1>1. ASSUME NEW w \in Writers, Begin(w)
      PROVE  TypeOK'
  <2> DEFINE part == IF w \in Atomic THEN "whole" ELSE "length"
  <2>1. Encipher(w, part, "first") /\ writer[w].sent < MaxPackets
        /\ order' = Append(order, Current(w))
        /\ overlapped' = (overlapped \/ (\E v \in Writers : writer[v].pc # "idle")
                                     \/ (w # Opener[way] /\ phase # "open"))
        /\ UNCHANGED << way, phase, mode, wire, reader, state, got >>
    BY <1>1 DEF Begin, Current
  <2>2. /\ Current(w) \in Ids
        /\ writer' \in [Writers -> [pc : {"idle", "first", "between", "second"},
                                     sent : 0 .. MaxPackets, held : Pieces \cup {None}]]
        /\ chain' \in Names \cup {None}
    BY <2>1, Enciphered
  <2>3. order' \in Seq(Ids)
    BY <2>1, <2>2, AppendProperties DEF TypeOK
  <2>4. overlapped' \in BOOLEAN
    BY <2>1, Zenon
  <2> QED BY <2>1, <2>2, <2>3, <2>4 DEF TypeOK
<1>2. ASSUME NEW w \in Writers, PutFirst(w)
      PROVE  TypeOK'
  <2>1. writer[w].pc = "first" /\ wire' = Append(wire, writer[w].held)
        /\ UNCHANGED << way, phase, mode, chain, reader, state, got, order, overlapped >>
    BY <1>2 DEF PutFirst
  <2> QED BY <1>2, <2>1, Put, WriterPut DEF TypeOK
<1>3. ASSUME NEW w \in Writers, EncipherBody(w)
      PROVE  TypeOK'
  <2>1. Encipher(w, "body", "second") /\ writer[w].sent < MaxPackets
        /\ UNCHANGED << way, phase, mode, wire, reader, state, got, order, overlapped >>
    BY <1>3 DEF EncipherBody, HeldInv, Busy
  <2> QED BY <2>1, Enciphered DEF TypeOK
<1>4. ASSUME NEW w \in Writers, PutBody(w)
      PROVE  TypeOK'
  <2>1. writer[w].pc = "second" /\ wire' = Append(wire, writer[w].held)
        /\ phase' \in {"first", "switch", "open"}
        /\ UNCHANGED << way, mode, chain, reader, state, got, order, overlapped >>
    BY <1>4 DEF PutBody, AfterPacket, TypeOK
  <2> QED BY <1>4, <2>1, Put, WriterPut DEF TypeOK
<1>5. CASE Switch
  BY <1>5 DEF Switch, TypeOK, Modes
<1>6. CASE ReadLength
  <2>1. Front \in Pieces /\ wire' \in Seq(Pieces)
    BY <1>6, FrontIsTaken DEF ReadLength
  <2>2. Name(Front) \in Names /\ Front.id \in Ids
    BY <2>1 DEF Name, Names, Pieces
  <2> QED BY <1>6, <2>1, <2>2 DEF ReadLength, TypeOK
<1>7. CASE ReadPacket
  <2>1. Front \in Pieces /\ wire' \in Seq(Pieces)
    BY <1>7, FrontIsTaken DEF ReadPacket
  <2>2. Name(Front) \in Names /\ Front.id \in Ids
    BY <2>1 DEF Name, Names, Pieces
  <2>3. got' \in Seq(Ids)
    BY <1>7, <2>2, AppendProperties DEF ReadPacket, Deliver, TypeOK
  <2>4. /\ reader' \in [mode : Modes, last : Names \cup {None}, head : Ids \cup {None}]
        /\ state' \in {"reading", "lost", "closed"}
    BY <1>7, <2>2 DEF ReadPacket, Deliver, TypeOK, Modes
  <2> QED BY <1>7, <2>1, <2>3, <2>4 DEF ReadPacket, TypeOK
<1>8. CASE ReadDamaged
  <2>1. wire' \in Seq(Pieces)
    BY <1>8, FrontIsTaken DEF ReadDamaged
  <2> QED BY <1>8, <2>1 DEF ReadDamaged, TypeOK
<1>9. CASE UNCHANGED vars
  BY <1>9 DEF vars, TypeOK
<1> QED BY <1>1, <1>2, <1>3, <1>4, <1>5, <1>6, <1>7, <1>8, <1>9 DEF Next, Write, Read

-----------------------------------------------------------------------------
(* Held pieces. *)

(* Every step keeps what is held with the packet it belongs to.            *)
LEMMA HeldStep ==
  ASSUME TypeOK, HeldInv, [Next]_vars
  PROVE  HeldInv'
<1>1. ASSUME NEW w \in Writers, Begin(w)
      PROVE  HeldInv'
  <2> DEFINE part == IF w \in Atomic THEN "whole" ELSE "length"
             n == Len(order)
  <2>1. Encipher(w, part, "first") /\ writer[w].sent < MaxPackets
        /\ order' = Append(order, Current(w))
    BY <1>1 DEF Begin, Current
  <2>2. /\ Current(w) \in Ids /\ writer'[w].pc = "first" /\ writer'[w].sent = writer[w].sent
        /\ writer'[w].held \in Pieces
        /\ writer'[w].held.id = Current(w) /\ writer'[w].held.part = part
        /\ \A v \in Writers \ {w} : writer'[v] = writer[v]
    BY <2>1, Enciphered
  <2>3. /\ n \in Nat /\ DOMAIN order = 1 .. n /\ DOMAIN order' = 1 .. n + 1
        /\ order'[n + 1] = Current(w) /\ \A i \in 1 .. n : order'[i] = order[i]
    BY <2>1, <2>2, AppendProperties, LenProperties DEF TypeOK
  <2> HIDE DEF n
  <2>4. ASSUME NEW v \in Writers \ {w}, Busy(v)
        PROVE  \E j \in DOMAIN order' : order'[j] = Current(v)'
    <3>1. writer'[v] = writer[v]
      BY <2>2
    <3>2. PICK j \in DOMAIN order : order[j] = Current(v)
      BY <2>4 DEF HeldInv
    <3> QED BY <2>3, <3>1, <3>2 DEF Current
  <2>5. \E j \in DOMAIN order' : order'[j] = Current(w)'
    BY <2>2, <2>3 DEF Current
  <2> QED BY <2>1, <2>2, <2>4, <2>5, ZenonT(30) DEF HeldInv, Busy, Current
<1>2. ASSUME NEW w \in Writers, PutFirst(w) \/ PutBody(w)
      PROVE  HeldInv'
  <2>1. order' = order
    BY <1>2 DEF PutFirst, PutBody
  <2>2. /\ writer'[w].pc \in {"idle", "between"} /\ writer[w].pc # "idle"
        /\ writer'[w].pc = "between" => writer'[w].sent = writer[w].sent
        /\ \A v \in Writers \ {w} : writer'[v] = writer[v]
    BY <1>2, WriterPut DEF PutFirst, PutBody
  <2> QED BY <2>1, <2>2 DEF HeldInv, Busy, Current
<1>3. ASSUME NEW w \in Writers, EncipherBody(w)
      PROVE  HeldInv'
  <2>1. Encipher(w, "body", "second") /\ writer[w].sent < MaxPackets /\ order' = order
        /\ writer[w].pc = "between"
    BY <1>3 DEF EncipherBody, HeldInv, Busy
  <2>2. /\ writer'[w].pc = "second" /\ writer'[w].sent = writer[w].sent
        /\ writer'[w].held \in Pieces
        /\ writer'[w].held.id = Current(w) /\ writer'[w].held.part = "body"
        /\ \A v \in Writers \ {w} : writer'[v] = writer[v]
    BY <2>1, Enciphered
  <2> QED BY <2>1, <2>2 DEF HeldInv, Busy, Current
<1>4. CASE Switch \/ Read \/ UNCHANGED vars
  <2>1. writer' = writer /\ order' = order
    BY <1>4 DEF Switch, Read, ReadLength, ReadPacket, ReadDamaged, vars
  <2> QED BY <2>1 DEF HeldInv, Busy, Current
<1> QED BY <1>1, <1>2, <1>3, <1>4 DEF Next, Write

-----------------------------------------------------------------------------
(* Every packet once. *)

(* What is counted stays counted and what is begun stays begun.            *)
LEMMA CountsGrow ==
  ASSUME TypeOK, HeldInv, [Next]_vars, NEW id \in Ids
  PROVE  /\ Counted(id) => Counted(id)'
         /\ Begun(id) => Begun(id)'
<1> USE DEF Begun, Counted, Busy, Current
<1>1. id[1] \in Writers /\ id[2] \in Nat
  BY BoundAssumption DEF Ids
<1>2. \A w \in Writers : writer[w].sent \in Nat
  BY BoundAssumption DEF TypeOK
<1>3. ASSUME NEW w \in Writers, NEW part \in {"length", "body", "whole"},
             NEW pc \in {"first", "second"}, writer[w].sent < MaxPackets, Encipher(w, part, pc)
      PROVE  /\ Counted(id) => Counted(id)'
             /\ Begun(id) => Begun(id)'
  <2>1. /\ writer'[w].pc = pc /\ writer'[w].sent = writer[w].sent
        /\ \A v \in Writers \ {w} : writer'[v] = writer[v]
    BY <1>3, Enciphered
  <2> QED BY <1>1, <2>1
<1>4. ASSUME NEW w \in Writers, Begin(w) \/ EncipherBody(w)
      PROVE  /\ Counted(id) => Counted(id)'
             /\ Begun(id) => Begun(id)'
  <2>1. writer[w].sent < MaxPackets
    BY <1>4 DEF Begin, EncipherBody, HeldInv
  <2>2. PICK part \in {"length", "body", "whole"}, pc \in {"first", "second"} : Encipher(w, part, pc)
    BY <1>4 DEF Begin, EncipherBody
  <2> QED BY <1>3, <2>1, <2>2
<1>5. ASSUME NEW w \in Writers, PutFirst(w) \/ PutBody(w)
      PROVE  /\ Counted(id) => Counted(id)'
             /\ Begun(id) => Begun(id)'
  <2>1. /\ \A v \in Writers \ {w} : writer'[v] = writer[v]
        /\ \/ writer'[w].sent = writer[w].sent + 1
           \/ writer'[w].pc = "between" /\ writer'[w].sent = writer[w].sent
    BY <1>5, WriterPut
  <2> QED BY <1>1, <1>2, <2>1
<1>6. CASE writer' = writer
  BY <1>6
<1> QED BY <1>4, <1>5, <1>6
        DEF Next, Write, Switch, Read, ReadLength, ReadPacket, ReadDamaged, vars

(* The packets in got, in order and on the wire are packets.               *)
LEMMA AreIds ==
  ASSUME TypeOK
  PROVE  /\ \A i \in DOMAIN order : order[i] \in Ids
         /\ \A i \in DOMAIN got : got[i] \in Ids
         /\ \A i \in DOMAIN wire : wire[i].id \in Ids
<1>1. order \in Seq(Ids) /\ got \in Seq(Ids) /\ wire \in Seq(Pieces)
  BY DEF TypeOK
<1>2. \A i \in DOMAIN wire : wire[i] \in Pieces
  BY <1>1, LenProperties
<1>3. \A piece \in Pieces : piece.id \in Ids
  BY DEF Pieces
<1>4. \A i \in DOMAIN order : order[i] \in Ids
  BY <1>1, LenProperties
<1>5. \A i \in DOMAIN got : got[i] \in Ids
  BY <1>1, LenProperties
<1> QED BY <1>2, <1>3, <1>4, <1>5

(* Every step keeps the packets apart in order, got and on the wire.       *)
LEMMA OnceStep ==
  ASSUME TypeOK, HeldInv, OnceInv, [Next]_vars
  PROVE  OnceInv'
<1>1. ASSUME NEW w \in Writers, Begin(w)
      PROVE  OnceInv'
  <2> DEFINE part == IF w \in Atomic THEN "whole" ELSE "length"
             n == Len(order)
  <2>1. Encipher(w, part, "first") /\ writer[w].sent < MaxPackets
        /\ order' = Append(order, Current(w))
        /\ ~ Busy(w) /\ wire' = wire /\ got' = got
    BY <1>1 DEF Begin, Current, Busy
  <2>2. /\ Current(w) \in Ids /\ writer'[w].pc = "first" /\ writer'[w].sent = writer[w].sent
        /\ \A v \in Writers \ {w} : writer'[v] = writer[v]
    BY <2>1, Enciphered
  <2>3. /\ n \in Nat /\ DOMAIN order = 1 .. n /\ DOMAIN order' = 1 .. n + 1
        /\ order'[n + 1] = Current(w) /\ \A i \in 1 .. n : order'[i] = order[i]
    BY <2>1, <2>2, AppendProperties, LenProperties DEF TypeOK
  <2> HIDE DEF n
  <2>4. \A id \in Ids : (Counted(id) => Counted(id)') /\ (Begun(id) => Begun(id)')
    BY CountsGrow
  <2>5. \A i \in 1 .. n : order[i] # Current(w)
    <3>1. ~ Begun(Current(w))
      BY <2>1, <2>2 DEF Begun, Busy, Counted, Current, TypeOK
    <3> QED BY <2>3, <3>1 DEF OnceInv
  <2>6. \A i, j \in DOMAIN order' : order'[i] = order'[j] => i = j
    BY <2>3, <2>5 DEF OnceInv
  <2>7. ASSUME NEW j \in DOMAIN order'
        PROVE  Begun(order[j])'
    <3>1. CASE j = n + 1
      BY <2>2, <2>3, <3>1 DEF Begun, Busy, Current
    <3>2. CASE j \in 1 .. n
      <4>1. order'[j] = order[j] /\ order[j] \in Ids /\ Begun(order[j])
        BY <2>3, <3>2, AreIds DEF OnceInv
      <4> QED BY <2>4, <4>1 DEF Begun, Busy, Counted, Current
    <3> QED BY <2>3, <3>1, <3>2
  <2>8. \A i \in DOMAIN wire : \E j \in DOMAIN order' : order'[j] = wire[i].id
    BY <2>3 DEF OnceInv
  <2>9. /\ \A i \in DOMAIN got : Counted(got[i])'
        /\ \A i \in DOMAIN wire : Last(wire[i]) => Counted(wire[i].id)'
    BY <2>1, <2>4, AreIds DEF OnceInv, Counted
  <2> QED BY <2>1, <2>6, <2>7, <2>8, <2>9 DEF OnceInv
<1>2. ASSUME NEW w \in Writers, PutFirst(w) \/ PutBody(w)
      PROVE  OnceInv'
  <2> DEFINE n == Len(wire)
  <2>1. /\ writer[w].pc \in {"first", "second"} /\ Busy(w)
        /\ wire' = Append(wire, writer[w].held) /\ order' = order /\ got' = got
    BY <1>2 DEF PutFirst, PutBody, Busy
  <2>2. PICK held \in Pieces : held = writer[w].held
    BY <2>1 DEF HeldInv
  <2>3. /\ n \in Nat /\ DOMAIN wire = 1 .. n /\ DOMAIN wire' = 1 .. n + 1
        /\ wire'[n + 1] = held /\ \A i \in 1 .. n : wire'[i] = wire[i]
    BY <2>1, <2>2, Put
  <2>4. /\ held.id = Current(w) /\ held.id \in Ids /\ \E j \in DOMAIN order : order[j] = held.id
    BY <2>1, <2>2 DEF HeldInv, Pieces
  <2>5. Last(held) => writer'[w].sent = writer[w].sent + 1
    BY <1>2, <2>2, WriterPut
  <2> HIDE DEF n
  <2>6. writer[w].sent \in Nat
    BY DEF TypeOK
  <2>7. ~ Counted(held.id) /\ (Last(held) => Counted(held.id)')
    BY <2>4, <2>5, <2>6 DEF Counted, Current
  <2>8. \A id \in Ids : (Counted(id) => Counted(id)') /\ (Begun(id) => Begun(id)')
    BY CountsGrow
  <2>9. /\ \A i \in 1 .. n : Last(wire[i]) => wire[i].id # held.id
        /\ \A j \in DOMAIN got : got[j] # held.id
    BY <2>3, <2>7 DEF OnceInv
  <2>10. \A j \in DOMAIN order : Begun(order[j])'
    BY <2>1, <2>8, AreIds DEF OnceInv, Begun, Counted, Busy, Current
  <2>11. \A i, j \in 1 .. n + 1 :
           Last(wire'[i]) /\ Last(wire'[j]) /\ wire'[i].id = wire'[j].id => i = j
    BY <2>3, <2>9 DEF OnceInv
  <2>12. ASSUME NEW i \in 1 .. n + 1
         PROVE  /\ \E j \in DOMAIN order : order[j] = wire'[i].id
                /\ Last(wire'[i]) => Counted(wire[i].id)' /\ \A j \in DOMAIN got : got[j] # wire'[i].id
    <3>1. CASE i \in 1 .. n
      <4>1. wire'[i] = wire[i] /\ wire[i].id \in Ids
        BY <2>3, <3>1, AreIds
      <4>2. Counted(wire[i].id) => Counted(wire[i].id)'
        BY <2>8, <4>1 DEF Counted
      <4> QED BY <2>3, <3>1, <4>1, <4>2 DEF OnceInv
    <3>2. CASE i = n + 1
      <4>1. wire'[i] = held
        BY <2>3, <3>2
      <4> QED BY <2>4, <2>7, <2>9, <4>1 DEF Counted
    <3> QED BY <2>3, <3>1, <3>2
  <2>13. \A i \in DOMAIN got : Counted(got[i])'
    BY <2>1, <2>8, AreIds DEF OnceInv, Counted
  <2> QED BY <2>1, <2>3, <2>10, <2>11, <2>12, <2>13 DEF OnceInv
<1>3. ASSUME NEW w \in Writers, EncipherBody(w)
      PROVE  OnceInv'
  <2>1. Encipher(w, "body", "second") /\ writer[w].sent < MaxPackets /\ Busy(w)
        /\ UNCHANGED << wire, got, order >>
    BY <1>3 DEF EncipherBody, HeldInv, Busy
  <2>2. \A id \in Ids : (Counted(id) => Counted(id)') /\ (Begun(id) => Begun(id)')
    BY CountsGrow
  <2>3. /\ \A i \in DOMAIN order : Begun(order[i])'
        /\ \A i \in DOMAIN got : Counted(got[i])'
        /\ \A i \in DOMAIN wire : Last(wire[i]) => Counted(wire[i].id)'
    BY <2>1, <2>2, AreIds DEF OnceInv, Begun, Counted, Busy, Current
  <2> QED BY <2>1, <2>3 DEF OnceInv
<1>4. CASE UNCHANGED << writer, wire, got, order >>
  BY <1>4 DEF OnceInv, Begun, Counted, Busy, Current
<1>5. CASE Take /\ UNCHANGED << writer, got, order >>
  <2>1. Len(wire) \in Nat \ {0} /\ DOMAIN wire = 1 .. Len(wire) /\ DOMAIN wire' = 1 .. Len(wire) - 1
        /\ \A i \in 1 .. Len(wire) - 1 : wire'[i] = wire[i + 1]
    BY <1>5, FrontIsTaken
  <2>2. \A i \in DOMAIN wire' : i + 1 \in DOMAIN wire /\ wire'[i] = wire[i + 1]
    BY <2>1
  <2>3. \A i, j \in DOMAIN wire' :
          Last(wire'[i]) /\ Last(wire'[j]) /\ wire'[i].id = wire'[j].id => i = j
    <3> SUFFICES ASSUME NEW i \in DOMAIN wire', NEW j \in DOMAIN wire',
                        Last(wire'[i]), Last(wire'[j]), wire'[i].id = wire'[j].id
                 PROVE  i = j
      OBVIOUS
    <3>1. i + 1 = j + 1
      BY <2>2 DEF OnceInv
    <3> QED BY <2>1, <3>1
  <2> QED BY <1>5, <2>2, <2>3 DEF OnceInv, Begun, Counted, Busy, Current
<1>6. CASE ReadPacket
  <2> DEFINE n == Len(got)
  <2>1. Take /\ EndsPacket /\ got' = Append(got, Front.id) /\ UNCHANGED << writer, order >>
    BY <1>6 DEF ReadPacket, Deliver
  <2>2. Front \in Pieces /\ Front = wire[1] /\ Front.id \in Ids /\ Last(Front)
    BY <2>1, FrontIsTaken DEF EndsPacket, Last, Pieces
  <2>3. Len(wire) \in Nat \ {0} /\ DOMAIN wire = 1 .. Len(wire) /\ DOMAIN wire' = 1 .. Len(wire) - 1
        /\ \A i \in 1 .. Len(wire) - 1 : wire'[i] = wire[i + 1]
    BY <2>1, FrontIsTaken
  <2>4. /\ n \in Nat /\ DOMAIN got = 1 .. n /\ DOMAIN got' = 1 .. n + 1
        /\ got'[n + 1] = Front.id /\ \A i \in 1 .. n : got'[i] = got[i]
    BY <2>1, <2>2, AppendProperties, LenProperties DEF TypeOK
  <2> HIDE DEF n
  <2>5. Counted(Front.id) /\ \A j \in 1 .. n : got[j] # Front.id
    BY <2>2, <2>3, <2>4 DEF OnceInv
  <2>6. \A i \in DOMAIN wire' : i + 1 \in DOMAIN wire /\ i + 1 # 1 /\ wire'[i] = wire[i + 1]
    BY <2>3
  <2>7. ASSUME NEW i \in DOMAIN wire', NEW j \in DOMAIN wire',
               Last(wire'[i]), Last(wire'[j]), wire'[i].id = wire'[j].id
        PROVE  i = j
    <3>1. i + 1 = j + 1
      BY <2>6, <2>7 DEF OnceInv
    <3> QED BY <2>3, <3>1
  <2>8. ASSUME NEW i \in DOMAIN wire', Last(wire'[i])
        PROVE  Counted(wire'[i].id) /\ \A j \in DOMAIN got' : got'[j] # wire'[i].id
    <3>1. wire'[i].id # Front.id
      BY <2>2, <2>3, <2>6, <2>8 DEF OnceInv
    <3>2. Counted(wire'[i].id) /\ \A j \in 1 .. n : got[j] # wire'[i].id
      BY <2>4, <2>6, <2>8 DEF OnceInv
    <3> QED BY <2>4, <3>1, <3>2
  <2>9. \A i, j \in DOMAIN got' : got'[i] = got'[j] => i = j
    BY <2>4, <2>5 DEF OnceInv
  <2>10. \A i \in DOMAIN got' : Counted(got'[i])
    BY <2>4, <2>5 DEF OnceInv
  <2> QED BY <2>1, <2>6, <2>7, <2>8, <2>9, <2>10 DEF OnceInv, Begun, Counted, Busy, Current
<1> QED BY <1>1, <1>2, <1>3, <1>4, <1>5, <1>6
        DEF Next, Write, Read, ReadLength, ReadDamaged, Switch, vars

-----------------------------------------------------------------------------
(* As long as the writers keep apart. *)

(* The opener is among the writers and not of the Atomic or Early ones.    *)
LEMMA OpenerIsWriter ==
  ASSUME TypeOK
  PROVE  Opener[way] \in Writers \ (Early \cup Atomic) /\ way \in {"up", "down"}
<1>1. way \in Ways
  BY DEF TypeOK
<1>2. way \in {"up", "down"} /\ Opener[way] \in Sends[way] \ (Early \cup Atomic)
  BY <1>1, WritersAssumption
<1>3. Sends[way] \subseteq Writers
  BY <1>1 DEF Writers
<1> QED BY <1>2, <1>3

(* A packet begun without an overlap is the only one, and the opener's if  *)
(* the exchange is not complete.                                           *)
LEMMA BeginsAlone ==
  ASSUME TypeOK, OpeningInv, NEW w \in Writers, Begin(w), ~ overlapped'
  PROVE  /\ \A v \in Writers : ~ Busy(v)
         /\ phase = "open" \/ (phase = "first" /\ w = Opener[way])
<1>1. overlapped' = (overlapped \/ (\E v \in Writers : writer[v].pc # "idle")
                                \/ (w # Opener[way] /\ phase # "open"))
  BY DEF Begin
<1>2. (\A v \in Writers : writer[v].pc = "idle") /\ (w = Opener[way] \/ phase = "open")
  BY <1>1
<1>3. Opener[way] \notin Early
  BY WritersAssumption DEF TypeOK
<1> QED BY <1>2, <1>3 DEF Begin, MayWrite, Busy, TypeOK

(* Overlaps are not forgotten.                                             *)
LEMMA OverlapStays ==
  ASSUME [Next]_vars, ~ overlapped'
  PROVE  ~ overlapped
BY DEF Next, Write, Begin, PutFirst, EncipherBody, PutBody, Switch, Read, ReadLength,
       ReadPacket, ReadDamaged, vars

(* The opener has the exchange to itself.                                  *)
LEMMA OpeningStep ==
  ASSUME TypeOK, HeldInv, OpeningInv, [Next]_vars, ~ overlapped'
  PROVE  OpeningInv'
<1> USE DEF OpeningInv, Busy
<1>0. Opener[way] \in Writers \ Atomic /\ way \in {"up", "down"}
  BY OpenerIsWriter
<1>1. ASSUME NEW w \in Writers, Begin(w)
      PROVE  OpeningInv'
  <2> DEFINE part == IF w \in Atomic THEN "whole" ELSE "length"
  <2>1. Encipher(w, part, "first") /\ writer[w].sent < MaxPackets
        /\ UNCHANGED << way, phase, mode >>
    BY <1>1 DEF Begin
  <2>2. /\ writer'[w].sent = writer[w].sent
        /\ \A v \in Writers \ {w} : writer'[v] = writer[v]
    BY <2>1, Enciphered
  <2>3. /\ \A v \in Writers : ~ Busy(v)
        /\ phase = "open" \/ (phase = "first" /\ w = Opener[way])
    BY <1>1, BeginsAlone
  <2> QED BY <1>0, <2>1, <2>2, <2>3
<1>2. ASSUME NEW w \in Writers, PutFirst(w)
      PROVE  OpeningInv'
  <2>1. writer[w].pc # "idle" /\ UNCHANGED << way, phase, mode >> /\ ~ PutBody(w)
    BY <1>2 DEF PutFirst, PutBody
  <2>2. /\ \A v \in Writers \ {w} : writer'[v] = writer[v]
        /\ w \notin Atomic => writer'[w].sent = writer[w].sent
    BY <1>2, <2>1, WriterPut
  <2> QED BY <1>0, <2>1, <2>2
<1>3. ASSUME NEW w \in Writers, EncipherBody(w)
      PROVE  OpeningInv'
  <2>1. Encipher(w, "body", "second") /\ writer[w].sent < MaxPackets
        /\ writer[w].pc # "idle" /\ UNCHANGED << way, phase, mode >>
    BY <1>3 DEF EncipherBody, HeldInv
  <2>2. /\ writer'[w].sent = writer[w].sent
        /\ \A v \in Writers \ {w} : writer'[v] = writer[v]
    BY <2>1, Enciphered
  <2> QED BY <1>0, <2>1, <2>2
<1>4. ASSUME NEW w \in Writers, PutBody(w)
      PROVE  OpeningInv'
  <2>1. writer[w].pc # "idle" /\ UNCHANGED << way, mode >> /\ phase' = AfterPacket(w)
    BY <1>4 DEF PutBody
  <2>2. /\ \A v \in Writers \ {w} : writer'[v] = writer[v]
        /\ writer'[w].pc = "idle"
    BY <1>4, WriterPut
  <2>3. \A v \in Writers : writer'[v].pc = "idle"
    BY <2>1, <2>2
  <2>4. phase \in {"first", "open"} /\ (phase = "first" => w = Opener[way])
    BY <2>1 DEF TypeOK
  <2> QED BY <1>0, <2>1, <2>3, <2>4 DEF AfterPacket, FirstMode
<1>5. CASE Switch
  BY <1>5 DEF Switch
<1>6. CASE UNCHANGED << way, phase, mode, writer >>
  BY <1>6
<1> QED BY <1>1, <1>2, <1>3, <1>4, <1>5, <1>6
        DEF Next, Write, Read, ReadLength, ReadPacket, ReadDamaged, vars

(* What is read next fits the reader, which is then as After says.         *)
LEMMA ReadsWhatFits ==
  ASSUME TypeOK, CipherInv, state = "reading", Read
  PROVE  /\ Take /\ Fits(reader, Front) /\ state' = "reading"
         /\ reader' = After(Front)
         /\ got' = IF Last(Front) THEN Append(got, Front.id) ELSE got
         /\ UNCHANGED << way, phase, mode, chain, writer, order, overlapped >>
<1>1. Take
  BY DEF Read, ReadLength, ReadPacket, ReadDamaged
<1>2. Front \in Pieces /\ Front = wire[1] /\ 1 \in DOMAIN wire
  BY <1>1, FrontIsTaken
<1>3. Fits(reader, Front)
  <2>1. Fits(At(1 - 1), wire[1])
    BY <1>2 DEF CipherInv
  <2>2. At(1 - 1) = reader
    BY DEF At
  <2> QED BY <1>2, <2>1, <2>2
<1>4. Front.part \in {"length", "body", "whole"} /\ Front.mode \in {"rsa", "aes"}
  BY <1>2 DEF Pieces, Modes
<1>5. Readable /\ (IsLength \/ EndsPacket)
  BY <1>3, <1>4 DEF Fits, Readable, IsLength, EndsPacket
<1>6. CASE ReadLength
  BY <1>1, <1>3, <1>6 DEF ReadLength, IsLength, Fits, After, Last
<1>7. CASE ReadPacket
  <2>1. EndsPacket /\ Deliver /\ UNCHANGED << way, phase, mode, chain, writer, order, overlapped >>
    BY <1>7 DEF ReadPacket
  <2>2. Last(Front)
    BY <2>1 DEF EndsPacket, Last
  <2> QED BY <1>1, <1>3, <1>4, <2>1, <2>2 DEF Deliver, Fits, After
<1> QED BY <1>5, <1>6, <1>7 DEF Read, ReadDamaged
(* Every piece is enciphered for the state in which the reader meets it.   *)
LEMMA CipherStep ==
  ASSUME TypeOK, HeldInv, OpeningInv, CipherInv, state = "reading", [Next]_vars, ~ overlapped'
  PROVE  CipherInv'
<1>0. Opener[way] \in Writers \ Atomic /\ way \in {"up", "down"}
  BY OpenerIsWriter
<1>1. ASSUME NEW w \in Writers, Begin(w)
      PROVE  CipherInv'
  <2> DEFINE part == IF w \in Atomic THEN "whole" ELSE "length"
  <2>1. Encipher(w, part, "first") /\ writer[w].sent < MaxPackets
        /\ UNCHANGED << way, phase, mode, wire, reader >>
    BY <1>1 DEF Begin
  <2>2. /\ writer'[w].pc = "first"
        /\ writer'[w].held.id = Current(w) /\ writer'[w].held.part = part
        /\ writer'[w].held.mode = mode
        /\ mode = "aes" => writer'[w].held.prev = chain
        /\ chain' = IF mode = "aes" THEN Name(writer'[w].held) ELSE chain
        /\ \A v \in Writers \ {w} : writer'[v] = writer[v]
    BY <2>1, Enciphered
  <2>3. /\ \A v \in Writers : ~ Busy(v)
        /\ phase = "open" \/ (phase = "first" /\ w = Opener[way])
    BY <1>1, BeginsAlone
  <2>4. mode = "rsa" => Current(w) = << Opener[way], 1 >> /\ part = "length"
    BY <1>0, <2>3 DEF OpeningInv, Current
  <2>5. End.head = None /\ End.mode = mode /\ (mode = "aes" => End.last = chain)
    BY <2>3 DEF CipherInv
  <2>6. Fits(End, writer'[w].held)
    BY <2>2, <2>4, <2>5 DEF Fits
  <2>7. Fits(End, writer[w].held)'
    BY <2>1, <2>6 DEF Fits, End, At, After, Name, Last
  <2>8. \A i \in DOMAIN wire : Fits(At(i - 1), wire[i])'
    BY <2>1 DEF CipherInv, Fits, At, After, Name, Last
  <2>9. \A v \in Writers \ {w} : writer'[v].pc = "idle"
    BY <2>2, <2>3 DEF Busy
  <2> QED BY <2>1, <2>2, <2>7, <2>8, <2>9 DEF CipherInv, Busy, Name
<1>2. ASSUME NEW w \in Writers, PutFirst(w) \/ PutBody(w)
      PROVE  CipherInv'
  <2>1. /\ writer[w].pc \in {"first", "second"} /\ Busy(w)
        /\ wire' = Append(wire, writer[w].held)
        /\ UNCHANGED << way, mode, chain, reader >>
    BY <1>2 DEF PutFirst, PutBody, Busy
  <2>2. PICK n \in Nat : n = Len(wire)
    BY LenProperties DEF TypeOK
  <2>3. PICK held \in Pieces : held = writer[w].held
    BY <2>1 DEF HeldInv
  <2>4. /\ DOMAIN wire = 1 .. n /\ DOMAIN wire' = 1 .. n + 1 /\ Len(wire') = n + 1
        /\ wire'[n + 1] = held /\ \A i \in 1 .. n : wire'[i] = wire[i]
    BY <2>1, <2>2, <2>3, Put
  <2>5. Fits(At(n), held) /\ held.mode = mode /\ (mode = "aes" => chain = Name(held))
        /\ held.id = Current(w)
    BY <2>1, <2>2, <2>3 DEF CipherInv, End, HeldInv
  <2>6. ASSUME NEW i \in 0 .. n
        PROVE  At(i)' = At(i)
    <3>1. CASE i = 0
      BY <2>1, <3>1 DEF At
    <3>2. CASE i # 0
      <4>1. wire'[i] = wire[i]
        BY <2>4, <3>2
      <4> QED BY <3>2, <4>1 DEF At, After, Name, Last
    <3> QED BY <3>1, <3>2
  <2>7. End' = After(held)
    BY <2>4 DEF End, At, After, Name, Last
  <2>8. ASSUME NEW i \in 1 .. n + 1
        PROVE  Fits(At(i - 1), wire[i])'
    <3>1. CASE i \in 1 .. n
      <4>1. Fits(At(i - 1), wire[i]) /\ At(i - 1)' = At(i - 1) /\ wire'[i] = wire[i]
        BY <2>4, <2>6, <3>1 DEF CipherInv
      <4> QED BY <2>1, <4>1 DEF Fits
    <3>2. CASE i = n + 1
      <4>1. At(i - 1)' = At(n) /\ wire'[i] = held
        BY <2>4, <2>6, <3>2
      <4> QED BY <2>1, <2>5, <4>1 DEF Fits
    <3> QED BY <3>1, <3>2
  <2>9. \A v \in Writers \ {w} : writer'[v] = writer[v] /\ writer'[v].pc = "idle"
    BY <1>2, <2>1, WriterPut DEF OpeningInv, Busy
  <2>10. CASE ~ Last(held)
    <3>1. writer'[w].pc = "between" /\ Current(w)' = Current(w)
      BY <1>2, <2>3, <2>10, WriterPut DEF Current
    <3>2. (End.head = Current(w) /\ End.mode = mode /\ (mode = "aes" => End.last = chain))'
      BY <2>1, <2>5, <2>7, <2>10, <3>1 DEF After
    <3> QED BY <2>4, <2>8, <2>9, <3>1, <3>2 DEF CipherInv, Busy
  <2>11. CASE Last(held)
    <3>1. \A v \in Writers : writer'[v].pc = "idle"
      BY <1>2, <2>3, <2>9, <2>11, WriterPut
    <3>2. phase = "open" \/ (phase = "first" /\ w = Opener[way])
      BY <2>1 DEF OpeningInv, TypeOK
    <3>3. CASE held.mode = "rsa"
      <4>1. held.part = "body" /\ phase = "first" /\ w = Opener[way] /\ way = "up"
        BY <1>0, <2>5, <2>11, <3>2, <3>3 DEF Fits, Last, OpeningInv, FirstMode, Pieces
      <4>2. phase' = "switch"
        BY <1>2, <2>3, <4>1 DEF PutFirst, PutBody, AfterPacket, HeldInv
      <4>3. End' = [mode |-> "aes", last |-> None, head |-> None]
        BY <2>7, <2>11, <3>3 DEF After
      <4> QED BY <2>4, <2>8, <3>1, <4>2, <4>3 DEF CipherInv, Busy
    <3>4. CASE held.mode = "aes"
      <4>1. phase' # "switch"
        BY <1>0, <1>2, <2>5, <3>2, <3>4 DEF PutFirst, PutBody, AfterPacket, OpeningInv, FirstMode
      <4>2. End' = [mode |-> "aes", last |-> Name(held), head |-> None]
        BY <2>7, <2>11, <3>4 DEF After
      <4> QED BY <2>1, <2>4, <2>5, <2>8, <3>1, <3>4, <4>1, <4>2 DEF CipherInv, Busy
    <3> QED BY <3>3, <3>4 DEF Pieces, Modes
  <2> QED BY <2>10, <2>11
<1>3. ASSUME NEW w \in Writers, EncipherBody(w)
      PROVE  CipherInv'
  <2>1. Encipher(w, "body", "second") /\ writer[w].sent < MaxPackets /\ Busy(w)
        /\ writer[w].pc = "between" /\ UNCHANGED << way, phase, mode, wire, reader >>
    BY <1>3 DEF EncipherBody, HeldInv, Busy
  <2>2. /\ writer'[w].pc = "second"
        /\ writer'[w].held.id = Current(w) /\ writer'[w].held.part = "body"
        /\ writer'[w].held.mode = mode
        /\ mode = "aes" => writer'[w].held.prev = chain
        /\ chain' = IF mode = "aes" THEN Name(writer'[w].held) ELSE chain
        /\ \A v \in Writers \ {w} : writer'[v] = writer[v]
    BY <2>1, Enciphered
  <2>3. mode = "rsa" => Current(w) = << Opener[way], 1 >>
    BY <2>1 DEF OpeningInv, Current
  <2>4. End.head = Current(w) /\ End.mode = mode /\ (mode = "aes" => End.last = chain)
    BY <2>1 DEF CipherInv
  <2>5. Fits(End, writer'[w].held)
    BY <2>2, <2>3, <2>4 DEF Fits
  <2>6. Fits(End, writer[w].held)'
    BY <2>1, <2>5 DEF Fits, End, At, After, Name, Last
  <2>7. \A i \in DOMAIN wire : Fits(At(i - 1), wire[i])'
    BY <2>1 DEF CipherInv, Fits, At, After, Name, Last
  <2>8. \A v \in Writers \ {w} : writer'[v].pc = "idle"
    BY <2>1, <2>2 DEF OpeningInv, Busy
  <2> QED BY <2>1, <2>2, <2>6, <2>7, <2>8 DEF CipherInv, Busy, Name
<1>4. CASE Switch
  <2>1. /\ phase = "switch" /\ phase' = "open" /\ mode' = "aes" /\ chain' = None
        /\ UNCHANGED << way, writer, wire, reader >>
    BY <1>4 DEF Switch
  <2>2. \A w \in Writers : writer[w].pc = "idle"
    BY <2>1 DEF OpeningInv, Busy
  <2>3. End.head = None /\ End.mode = "aes" /\ End.last = None
    BY <2>1, <2>2 DEF CipherInv, Busy
  <2>4. End' = End
    BY <2>1 DEF End, At, After, Name, Last
  <2>5. \A i \in DOMAIN wire : Fits(At(i - 1), wire[i])'
    BY <2>1 DEF CipherInv, Fits, At, After, Name, Last
  <2> QED BY <2>1, <2>2, <2>3, <2>4, <2>5 DEF CipherInv, Busy
<1>5. CASE Read
  <2>1. /\ Take /\ reader' = After(Front)
        /\ UNCHANGED << way, phase, mode, chain, writer >>
    BY <1>5, ReadsWhatFits
  <2>2. PICK n \in Nat \ {0} : n = Len(wire)
    BY <2>1, FrontIsTaken
  <2>3. /\ DOMAIN wire = 1 .. n /\ DOMAIN wire' = 1 .. n - 1 /\ Len(wire') = n - 1
        /\ Front = wire[1] /\ \A i \in 1 .. n - 1 : wire'[i] = wire[i + 1]
    BY <2>1, <2>2, FrontIsTaken
  <2>4. ASSUME NEW i \in 0 .. n - 1
        PROVE  At(i)' = At(i + 1)
    <3>1. CASE i = 0
      BY <2>1, <2>3, <3>1 DEF At
    <3>2. CASE i # 0
      <4>1. wire'[i] = wire[i + 1] /\ i + 1 # 0
        BY <2>3, <3>2
      <4> QED BY <3>2, <4>1 DEF At, After, Name, Last
    <3> QED BY <3>1, <3>2
  <2>5. End' = End
    BY <2>2, <2>3, <2>4 DEF End
  <2>6. ASSUME NEW i \in 1 .. n - 1
        PROVE  Fits(At(i - 1), wire[i])'
    <3>1. i + 1 \in 1 .. n /\ (i + 1) - 1 = (i - 1) + 1 /\ i - 1 \in 0 .. n - 1
      OBVIOUS
    <3>2. Fits(At((i + 1) - 1), wire[i + 1]) /\ At(i - 1)' = At((i - 1) + 1) /\ wire'[i] = wire[i + 1]
      BY <2>3, <2>4, <3>1 DEF CipherInv
    <3> QED BY <2>1, <3>1, <3>2 DEF Fits
  <2> QED BY <2>1, <2>3, <2>5, <2>6 DEF CipherInv, Busy, Current, Fits, Name
<1>6. CASE UNCHANGED vars
  BY <1>6 DEF vars, CipherInv, Fits, End, At, After, Name, Last, Busy, Current
<1> QED BY <1>1, <1>2, <1>3, <1>4, <1>5, <1>6 DEF Next, Write
(* What is given to the reader and what is still on the wire are, one      *)
(* after the other, the packets in the order of their sending.             *)
LEMMA OrderStep ==
  ASSUME TypeOK, HeldInv, OpeningInv, CipherInv, OrderInv, state = "reading",
         [Next]_vars, ~ overlapped'
  PROVE  OrderInv'
<1> USE DEF Busy, Current
<1>0. PICK due \in [0 .. Len(wire) -> Nat \ {0}] : Places(due)
  BY DEF OrderInv
<1>01. PICK n \in Nat : n = Len(wire) /\ DOMAIN wire = 1 .. n
  BY LenProperties DEF TypeOK
<1>02. PICK m \in Nat : m = Len(order) /\ DOMAIN order = 1 .. m
  BY LenProperties DEF TypeOK
<1>03. PICK g \in Nat : g = Len(got) /\ DOMAIN got = 1 .. g
  BY LenProperties DEF TypeOK
<1>04. /\ due \in [0 .. n -> Nat \ {0}] /\ due[0] = g + 1
       /\ \A i \in 1 .. n : /\ due[i] = due[i - 1] + (IF Last(wire[i]) THEN 1 ELSE 0)
                            /\ due[i - 1] <= m /\ wire[i].id = order[due[i - 1]]
  BY <1>0, <1>01, <1>02, <1>03 DEF Places
<1>05. /\ \A w \in Writers : Busy(w) => due[n] = m /\ order[m] = Current(w)
       /\ (\A w \in Writers : ~ Busy(w)) => due[n] = m + 1
  BY <1>0, <1>01, <1>02 DEF Places
<1>06. \A j \in 1 .. g : j <= m /\ got[j] = order[j]
  BY <1>02, <1>03 DEF OrderInv
<1>1. ASSUME NEW w \in Writers, Begin(w)
      PROVE  OrderInv'
  <2> DEFINE part == IF w \in Atomic THEN "whole" ELSE "length"
  <2>1. /\ Encipher(w, part, "first") /\ writer[w].sent < MaxPackets
        /\ order' = Append(order, Current(w)) /\ UNCHANGED << wire, got >>
    BY <1>1 DEF Begin
  <2>2. /\ Current(w) \in Ids /\ writer'[w].sent = writer[w].sent /\ writer'[w].pc = "first"
        /\ \A v \in Writers \ {w} : writer'[v] = writer[v]
    BY <2>1, Enciphered
  <2>3. /\ Len(order') = m + 1 /\ order'[m + 1] = Current(w)
        /\ \A j \in 1 .. m : order'[j] = order[j]
    BY <1>02, <2>1, <2>2, AppendProperties DEF TypeOK
  <2>4. \A v \in Writers : ~ Busy(v)
    BY <1>1, BeginsAlone
  <2>5. due[n] = m + 1 /\ \A v \in Writers : writer'[v].pc # "idle" => v = w
    BY <1>05, <2>2, <2>4
  <2>6. \A i \in 1 .. n : due[i - 1] \in 1 .. m /\ wire[i].id = order'[due[i - 1]]
    <3> SUFFICES ASSUME NEW i \in 1 .. n
                 PROVE  due[i - 1] \in 1 .. m /\ wire[i].id = order'[due[i - 1]]
      OBVIOUS
    <3>1. i - 1 \in 0 .. n
      OBVIOUS
    <3>2. due[i - 1] \in 1 .. m
      BY <1>04, <3>1
    <3> QED BY <1>04, <2>3, <3>2
  <2>7. Places(due)'
    <3>1. Len(wire') = n /\ DOMAIN wire' = 1 .. n /\ Len(got') = g /\ Len(order') = m + 1
      BY <1>01, <1>03, <2>1, <2>3
    <3>2. \A i \in 1 .. n : /\ due[i] = due[i - 1] + (IF Last(wire'[i]) THEN 1 ELSE 0)
                            /\ due[i - 1] <= m + 1 /\ wire'[i].id = order'[due[i - 1]]
      <4> SUFFICES ASSUME NEW i \in 1 .. n
                   PROVE  /\ due[i] = due[i - 1] + (IF Last(wire'[i]) THEN 1 ELSE 0)
                          /\ due[i - 1] <= m + 1 /\ wire'[i].id = order'[due[i - 1]]
        OBVIOUS
      <4>1. due[i - 1] \in 1 .. m /\ wire[i].id = order'[due[i - 1]]
        BY <2>6
      <4>2. wire'[i] = wire[i]
        BY <2>1
      <4>3. due[i - 1] <= m + 1
        BY <4>1
      <4> QED BY <1>04, <4>1, <4>2, <4>3
    <3>3. \A v \in Writers : Busy(v)' => due[n] = m + 1 /\ order'[m + 1] = Current(v)'
      BY <2>2, <2>3, <2>5
    <3>4. ~ \A v \in Writers : ~ Busy(v)'
      BY <2>2
    <3> QED BY <1>04, <3>1, <3>2, <3>3, <3>4 DEF Places, Last
  <2>8. \A j \in 1 .. g : j <= m + 1 /\ got[j] = order'[j]
    BY <1>06, <2>3
  <2> QED BY <1>01, <1>03, <1>04, <2>1, <2>3, <2>7, <2>8 DEF OrderInv
<1>2. ASSUME NEW w \in Writers, PutFirst(w) \/ PutBody(w)
      PROVE  OrderInv'
  <2>1. /\ writer[w].pc \in {"first", "second"} /\ Busy(w)
        /\ wire' = Append(wire, writer[w].held)
        /\ UNCHANGED << got, order >>
    BY <1>2 DEF PutFirst, PutBody
  <2>2. PICK held \in Pieces : held = writer[w].held
    BY <2>1 DEF HeldInv
  <2>3. /\ DOMAIN wire' = 1 .. n + 1 /\ Len(wire') = n + 1
        /\ wire'[n + 1] = held /\ \A i \in 1 .. n : wire'[i] = wire[i]
    BY <1>01, <2>1, <2>2, Put
  <2>4. held.id = Current(w)
    BY <2>1, <2>2 DEF HeldInv
  <2>5. due[n] = m /\ order[m] = held.id
    BY <1>05, <2>1, <2>4
  <2>6. PICK step \in {0, 1} : step = IF Last(held) THEN 1 ELSE 0
    OBVIOUS
  <2>7. PICK next : next = [i \in 0 .. n + 1 |-> IF i = n + 1 THEN due[n] + step ELSE due[i]]
    OBVIOUS
  <2>8. /\ next \in [0 .. n + 1 -> Nat \ {0}]
        /\ next[n + 1] = m + step
        /\ \A i \in 0 .. n : next[i] = due[i]
    <3>1. m \in Nat \ {0} /\ m + step \in Nat \ {0}
      BY <1>04, <2>5
    <3> QED BY <1>04, <2>5, <2>7, <3>1
  <2>9. ASSUME NEW i \in 1 .. n + 1
        PROVE  /\ next[i] = next[i - 1] + (IF Last(wire'[i]) THEN 1 ELSE 0)
               /\ next[i - 1] <= m /\ wire'[i].id = order[next[i - 1]]
    <3>1. CASE i = n + 1
      <4>1. next[i - 1] = m /\ wire'[i] = held
        BY <2>3, <2>5, <2>8, <3>1
      <4> QED BY <2>5, <2>6, <2>8, <3>1, <4>1
    <3>2. CASE i \in 1 .. n
      <4>1. next[i] = due[i] /\ next[i - 1] = due[i - 1] /\ wire'[i] = wire[i]
        BY <2>3, <2>8, <3>2
      <4> QED BY <1>04, <3>2, <4>1
    <3> QED BY <3>1, <3>2
  <2>10. /\ \A v \in Writers \ {w} : writer'[v] = writer[v] /\ writer'[v].pc = "idle"
         /\ IF Last(held) THEN writer'[w].pc = "idle"
            ELSE writer'[w].pc = "between" /\ writer'[w].sent = writer[w].sent
    BY <1>2, <2>1, <2>2, WriterPut DEF OpeningInv
  <2>11. /\ \A v \in Writers : Busy(v)' => next[n + 1] = m /\ order[m] = Current(v)'
         /\ (\A v \in Writers : ~ Busy(v)') => next[n + 1] = m + 1
    BY <2>4, <2>5, <2>6, <2>8, <2>10
  <2>12. Places(next)'
    <3>1. Len(got') = g /\ Len(order') = m /\ order' = order /\ next[0] = g + 1
      BY <1>02, <1>03, <1>04, <2>1, <2>8
    <3> QED BY <2>3, <2>8, <2>9, <2>11, <3>1 DEF Places, Last
  <2> QED BY <1>02, <1>03, <1>06, <2>1, <2>3, <2>8, <2>12 DEF OrderInv
<1>3. ASSUME NEW w \in Writers, EncipherBody(w)
      PROVE  OrderInv'
  <2>1. /\ Encipher(w, "body", "second") /\ writer[w].sent < MaxPackets
        /\ writer[w].pc = "between" /\ UNCHANGED << wire, got, order >>
    BY <1>3 DEF EncipherBody, HeldInv
  <2>2. /\ writer'[w].pc = "second" /\ writer'[w].sent = writer[w].sent
        /\ \A v \in Writers \ {w} : writer'[v] = writer[v]
    BY <2>1, Enciphered
  <2>3. Places(due)'
    BY <1>0, <2>1, <2>2 DEF Places, Last
  <2> QED BY <1>0, <2>1, <2>3 DEF OrderInv
<1>4. CASE UNCHANGED << writer, wire, got, order >>
  <2>1. Places(due)'
    BY <1>0, <1>4 DEF Places, Last
  <2> QED BY <1>0, <1>4, <2>1 DEF OrderInv
<1>5. CASE Read
  <2>1. /\ Take /\ got' = (IF Last(Front) THEN Append(got, Front.id) ELSE got)
        /\ UNCHANGED << writer, order >>
    BY <1>5, ReadsWhatFits
  <2>2. /\ n # 0 /\ DOMAIN wire' = 1 .. n - 1 /\ Len(wire') = n - 1
        /\ Front = wire[1] /\ Front.id \in Ids
        /\ \A i \in 1 .. n - 1 : wire'[i] = wire[i + 1]
    BY <1>01, <2>1, FrontIsTaken DEF Pieces
  <2>3. PICK step \in {0, 1} : step = IF Last(Front) THEN 1 ELSE 0
    OBVIOUS
  <2>4. PICK next : next = [i \in 0 .. n - 1 |-> due[i + 1]]
    OBVIOUS
  <2>5. /\ next \in [0 .. n - 1 -> Nat \ {0}]
        /\ \A i \in 0 .. n - 1 : next[i] = due[i + 1]
    BY <1>04, <2>2, <2>4
  <2>6. due[1] = g + 1 + step /\ g + 1 <= m /\ Front.id = order[g + 1]
    <3>1. 1 \in 1 .. n /\ 1 - 1 = 0
      BY <2>2
    <3>2. /\ due[1] = due[0] + (IF Last(wire[1]) THEN 1 ELSE 0)
          /\ due[0] <= m /\ wire[1].id = order[due[0]]
      BY <1>04, <3>1
    <3> QED BY <1>04, <2>2, <2>3, <3>2
  <2>7. Len(got') = g + step
        /\ \A j \in 1 .. g + step : j <= m /\ got'[j] = order[j]
    <3>1. CASE Last(Front)
      <4>1. Len(got') = g + 1 /\ got'[g + 1] = Front.id /\ \A j \in 1 .. g : got'[j] = got[j]
        BY <1>03, <2>1, <2>2, <3>1, AppendProperties DEF TypeOK
      <4> QED BY <1>06, <2>3, <2>6, <3>1, <4>1
    <3>2. CASE ~ Last(Front)
      BY <1>03, <1>06, <2>1, <2>3, <3>2
    <3> QED BY <3>1, <3>2
  <2>8. next[0] = Len(got') + 1
    BY <2>2, <2>5, <2>6, <2>7
  <2>9. ASSUME NEW i \in 1 .. n - 1
        PROVE  /\ next[i] = next[i - 1] + (IF Last(wire'[i]) THEN 1 ELSE 0)
               /\ next[i - 1] <= m /\ wire'[i].id = order[next[i - 1]]
    <3>1. i + 1 \in 1 .. n /\ (i + 1) - 1 = i /\ i - 1 \in 0 .. n - 1 /\ i \in 0 .. n - 1
      OBVIOUS
    <3>2. next[i] = due[i + 1] /\ next[i - 1] = due[i] /\ wire'[i] = wire[i + 1]
      BY <2>2, <2>5, <3>1
    <3>3. /\ due[i + 1] = due[i] + (IF Last(wire[i + 1]) THEN 1 ELSE 0)
          /\ due[i] <= m /\ wire[i + 1].id = order[due[i]]
      BY <1>04, <3>1
    <3> QED BY <3>2, <3>3
  <2>10. next[n - 1] = due[n]
    BY <2>2, <2>5
  <2>11. Places(next)'
    BY <1>02, <1>05, <2>1, <2>2, <2>5, <2>8, <2>9, <2>10 DEF Places, Last
  <2>12. DOMAIN got' = 1 .. g + step
    <3>1. got' \in Seq(Ids)
      BY <2>1, <2>2, AppendProperties DEF TypeOK
    <3> QED BY <2>7, <3>1, LenProperties
  <2> QED BY <1>02, <2>1, <2>2, <2>5, <2>7, <2>11, <2>12 DEF OrderInv
<1> QED BY <1>1, <1>2, <1>3, <1>4, <1>5 DEF Next, Write, Switch, vars
-----------------------------------------------------------------------------
(* The inductive invariant and what follows from it. *)

(* The initial states satisfy the invariant.                               *)
LEMMA InvInit == Init => IInv
<1> SUFFICES ASSUME Init
             PROVE  IInv
  OBVIOUS
<1>1. TypeOK
  <2>0. overlapped \in BOOLEAN
    BY Zenon DEF Init
  <2>1. /\ FirstMode(way) \in Modes
        /\ writer \in [Writers -> [pc : {"idle", "first", "between", "second"},
                                    sent : 0 .. MaxPackets, held : Pieces \cup {None}]]
    BY BoundAssumption DEF Init, FirstMode, Modes, Idle
  <2> QED BY <2>0, <2>1 DEF Init, TypeOK
<1>2. \A w \in Writers : ~ Busy(w) /\ writer[w].sent = 0
  BY DEF Init, Busy, Idle
<1>3. DOMAIN wire = {} /\ DOMAIN got = {} /\ DOMAIN order = {}
      /\ Len(wire) = 0 /\ Len(got) = 0 /\ Len(order) = 0
  BY DEF Init
<1>4. HeldInv /\ OnceInv
  BY <1>2, <1>3 DEF HeldInv, OnceInv, Busy
<1>5. OpeningInv
  BY <1>1, <1>2, OpenerIsWriter DEF Init, OpeningInv
<1>6. CipherInv
  <2>1. End = reader
    BY <1>3 DEF End, At
  <2> QED BY <1>2, <1>3, <2>1 DEF Init, CipherInv, Busy
<1>7. OrderInv
  <2>1. PICK due : due = [i \in 0 .. 0 |-> 1]
    OBVIOUS
  <2>2. due \in [0 .. Len(wire) -> Nat \ {0}] /\ Places(due)
    BY <1>2, <1>3, <2>1 DEF Places
  <2> QED BY <1>3, <2>2 DEF OrderInv
<1>8. state = "reading"
  BY DEF Init
<1> QED BY <1>1, <1>4, <1>5, <1>6, <1>7, <1>8 DEF IInv, ApartInv

(* Every step keeps it.                                                    *)
LEMMA InvStep == IInv /\ [Next]_vars => IInv'
<1> SUFFICES ASSUME IInv, [Next]_vars
             PROVE  IInv'
  OBVIOUS
<1>1. TypeOK' /\ HeldInv' /\ OnceInv'
  BY TypeStep, HeldStep, OnceStep DEF IInv
<1>2. ApartInv'
  <2>1. CASE overlapped'
    BY <2>1 DEF ApartInv
  <2>2. CASE ~ overlapped'
    <3>1. state = "reading" /\ OpeningInv /\ CipherInv /\ OrderInv
      BY <2>2, OverlapStays DEF IInv, ApartInv
    <3>2. OpeningInv' /\ CipherInv' /\ OrderInv'
      BY <2>2, <3>1, OpeningStep, CipherStep, OrderStep DEF IInv
    <3>3. state' = "reading"
      <4>1. CASE Read
        BY <3>1, <4>1, ReadsWhatFits DEF IInv
      <4>2. CASE ~ Read
        BY <3>1, <4>2 DEF Next, Write, Begin, PutFirst, EncipherBody, PutBody, Switch, vars
      <4> QED BY <4>1, <4>2
    <3> QED BY <3>2, <3>3 DEF ApartInv
  <2> QED BY <2>1, <2>2
<1> QED BY <1>1, <1>2 DEF IInv

(* The invariant holds throughout.                                         *)
LEMMA InvHolds == Spec => []IInv
BY InvInit, InvStep, PTL DEF Spec

(* Type correctness of the specification.                                  *)
THEOREM TypeCorrect == Spec => []TypeOK
<1>1. IInv => TypeOK
  BY DEF IInv
<1> QED BY <1>1, InvHolds, PTL

(* As long as the writers keep apart the reader is given the packets as    *)
(* they were sent, whatever their number and that of their senders.        *)
THEOREM StreamDelivers == Spec => []DeliveredAsSent
<1>1. ASSUME IInv
      PROVE  DeliveredAsSent
  <2> SUFFICES ASSUME ~ overlapped
               PROVE  /\ state = "reading"
                      /\ Len(got) <= Len(order) /\ got = SubSeq(order, 1, Len(got))
    BY DEF DeliveredAsSent
  <2>1. state = "reading" /\ OrderInv
    BY <1>1 DEF IInv, ApartInv
  <2>2. order \in Seq(Ids) /\ got \in Seq(Ids)
    BY <1>1 DEF IInv, TypeOK
  <2>3. /\ Len(got) \in Nat /\ DOMAIN got = 1 .. Len(got)
        /\ Len(order) \in Nat /\ DOMAIN order = 1 .. Len(order)
    BY <2>2, LenProperties
  <2>4. Len(got) <= Len(order)
    BY <2>1, <2>3 DEF OrderInv
  <2>5. /\ SubSeq(order, 1, Len(got)) \in Seq(Ids)
        /\ Len(SubSeq(order, 1, Len(got))) = Len(got)
        /\ \A j \in 1 .. Len(got) : SubSeq(order, 1, Len(got))[j] = order[j]
    BY <2>2, <2>3, <2>4, SubSeqProperties
  <2>6. \A j \in 1 .. Len(got) : got[j] = SubSeq(order, 1, Len(got))[j]
    BY <2>1, <2>3, <2>5 DEF OrderInv
  <2>7. got = SubSeq(order, 1, Len(got))
    BY <2>2, <2>5, <2>6, SeqEqual
  <2> QED BY <2>1, <2>4, <2>7
<1> QED BY <1>1, InvHolds, PTL

-----------------------------------------------------------------------------
(* The stream implements the safety part of Channel. *)

(* What is begun is a packet the channel has not been sent before.         *)
LEMMA BeginSends ==
  ASSUME IInv, NEW w \in Writers, Begin(w)
  PROVE  Promise!Send
<1>1. /\ Encipher(w, IF w \in Atomic THEN "whole" ELSE "length", "first")
      /\ writer[w].sent < MaxPackets /\ ~ Busy(w)
      /\ order' = Append(order, Current(w))
      /\ got' = got /\ state' = state
  BY DEF Begin, Current, Busy
<1>2. Current(w) \in Ids
  BY <1>1, Enciphered DEF IInv
<1>3. ~ Begun(Current(w))
  BY <1>1 DEF Begun, Busy, Counted, Current, IInv, TypeOK
<1>4. Current(w) \notin Promise!Range(order)
  BY <1>3 DEF Promise!Range, IInv, OnceInv
<1>5. overlapped' \in {overlapped, TRUE}
  <2>1. CASE overlapped
    BY <2>1 DEF Begin
  <2>2. CASE ~ overlapped
    <3>1. overlapped \in BOOLEAN /\ overlapped' \in BOOLEAN
      BY Zenon, TypeStep DEF IInv, TypeOK, Begin
    <3> QED BY <2>2, <3>1
  <2> QED BY <2>1, <2>2
<1> QED BY <1>1, <1>2, <1>4, <1>5 DEF Promise!Send

(* As long as the writers keep apart a reader that reads a packet's last   *)
(* piece receives the packet whose turn it is, and is not lost.            *)
LEMMA ReadsInTurn ==
  ASSUME IInv, IInv', ~ overlapped, Read
  PROVE  \/ Promise!Receive
         \/ UNCHANGED << order, got, overlapped, state >>
<1>1. state = "reading" /\ CipherInv
  BY DEF IInv, ApartInv
<1>2. /\ Take /\ state' = state
      /\ got' = IF Last(Front) THEN Append(got, Front.id) ELSE got
      /\ UNCHANGED << order, overlapped >>
  BY <1>1, ReadsWhatFits DEF IInv
<1>3. CASE Last(Front)
  <2>1. Front.id \in Ids
    BY <1>2, FrontIsTaken DEF IInv, Pieces
  <2>2. PICK g \in Nat : g = Len(got)
    BY LenProperties DEF IInv, TypeOK
  <2>3. got' = Append(got, Front.id) /\ got \in Seq(Ids)
    BY <1>2, <1>3 DEF IInv, TypeOK
  <2>4. got' \in Seq(Ids) /\ Len(got') = g + 1 /\ got'[g + 1] = Front.id
    BY <2>1, <2>2, <2>3, AppendProperties
  <2>5. g + 1 \in DOMAIN got'
    BY <2>4, LenProperties
  <2>6. OrderInv'
    BY <1>2 DEF IInv, ApartInv
  <2>7. g + 1 <= Len(order) /\ Front.id = order[g + 1]
    BY <1>2, <2>4, <2>5, <2>6 DEF OrderInv
  <2>8. Len(order) \in Nat
    BY LenProperties DEF IInv, TypeOK
  <2> QED BY <1>2, <2>2, <2>3, <2>7, <2>8 DEF Promise!Receive
<1>4. CASE ~ Last(Front)
  BY <1>2, <1>4
<1> QED BY <1>3, <1>4

(* A reader of a stream that may be damaged is still given nothing twice   *)
(* and nothing that was not sent, and it is given nothing once it is lost. *)
LEMMA ReadsMixed ==
  ASSUME IInv, overlapped, Read
  PROVE  \/ Promise!ReceiveMixed \/ Promise!Lose
         \/ UNCHANGED << order, got, overlapped, state >>
<1>1. CASE ReadLength
  BY <1>1 DEF ReadLength
<1>2. CASE ReadPacket
  <2>1. /\ Take /\ EndsPacket /\ got' = Append(got, Front.id)
        /\ UNCHANGED << order, overlapped >>
    BY <1>2 DEF ReadPacket, Deliver
  <2>2. Front = wire[1] /\ 1 \in DOMAIN wire /\ Last(Front)
    BY <2>1, FrontIsTaken DEF IInv, EndsPacket, Last
  <2>3. Front.id \in Promise!Range(order) \ Promise!Range(got)
    BY <2>2 DEF IInv, OnceInv, Promise!Range
  <2>4. (state' # "reading") \in BOOLEAN
    BY Zenon
  <2>5. state = "reading"
    BY <2>1 DEF Take
  <2> QED BY <2>1, <2>3, <2>4, <2>5 DEF Promise!ReceiveMixed
<1>3. CASE ReadDamaged
  BY <1>3 DEF ReadDamaged, Promise!Lose
<1> QED BY <1>1, <1>2, <1>3 DEF Read

(* What the goroutines of one direction do is what Channel allows: every   *)
(* behaviour begins and goes on as a channel does.                         *)
THEOREM StreamImplementsChannel ==
  Spec => Promise!Init /\ [][Promise!Next]_(Promise!channel)
<1>1. Init => Promise!Init
  BY DEF Init, Promise!Init
<1>2. ASSUME IInv, IInv', [Next]_vars
      PROVE  [Promise!Next]_(Promise!channel)
  <2>1. ASSUME NEW w \in Writers, Begin(w)
        PROVE  Promise!Next
    BY <1>2, <2>1, BeginSends DEF Promise!Next
  <2>2. CASE Read
    <3>1. CASE overlapped
      BY <1>2, <2>2, <3>1, ReadsMixed DEF Promise!Next, Promise!channel
    <3>2. CASE ~ overlapped
      BY <1>2, <2>2, <3>2, ReadsInTurn DEF Promise!Next, Promise!channel
    <3> QED BY <3>1, <3>2
  <2>3. CASE UNCHANGED << order, got, overlapped, state >>
    BY <2>3 DEF Promise!channel
  <2> QED BY <1>2, <2>1, <2>2, <2>3
          DEF Next, Write, PutFirst, EncipherBody, PutBody, Switch, vars
<1> QED BY <1>1, <1>2, InvHolds, PTL DEF Spec

-----------------------------------------------------------------------------
(* The bytes of its packets. *)

(* The recursive functions of Frames satisfy their equations.              *)
LEMMA PowerIs == Powers(Power, Base, MaxLen)
<1> DEFINE F(P) == P = [n \in 0 .. MaxLen |-> IF n = 0 THEN 1 ELSE Base * P[n - 1]]
<1>1. Base \in Nat /\ MaxLen \in Nat
  BY WidthAssumption
<1>2. \E P : F(P)
  BY <1>1, PowersExist
<1>3. Power = CHOOSE P : F(P)
  BY DEF Power
<1>4. F(Power)
  BY <1>2, <1>3, Zenon
<1> QED BY <1>1, <1>4, PowersAre

LEMMA DigitsAre == Numerals(Digits, Modulus - 1, Base)
<1> DEFINE F(D) == D = [u \in 0 .. Modulus - 1 |->
                          IF u < Base THEN << Byte(u, FALSE) >>
                          ELSE << Byte(u % Base, TRUE) >> \o D[u \div Base]]
<1>1. Modulus - 1 \in Nat /\ Base \in Nat /\ Base > 1
  <2>1. Power[MaxLen - 1] \in Nat \ {0}
    <3>1. MaxLen - 1 \in 0 .. MaxLen /\ MaxLen \in Nat /\ Base \in Nat /\ Base > 1
      BY WidthAssumption
    <3> QED BY <3>1, PowerIs, PowersGrow
  <2> QED BY <2>1, WidthAssumption
<1>2. PICK D : Numerals(D, Modulus - 1, Base)
  BY <1>1, NumeralsExist
<1>3. F(D)
  BY <1>2, Zenon DEF Numerals, Byte
<1>4. Digits = CHOOSE E : F(E)
  BY DEF Digits
<1>5. F(Digits)
  BY <1>3, <1>4, Zenon
<1> QED BY <1>5, Zenon DEF Numerals, Byte

(* The facts about the width that follow. *)
LEMMA Widths ==
  /\ Base \in Nat /\ Base > 3 /\ MaxLen \in Nat \ {0} /\ Modulus \in Nat \ {0}
  /\ Powers(Power, Base, MaxLen) /\ Numerals(Digits, Modulus - 1, Base)
  /\ \A i \in 0 .. MaxLen : Power[i] \in Nat \ {0}
  /\ \A i, j \in 0 .. MaxLen : i < j => Power[i] < Power[j]
  /\ Power[1] = Base /\ 2 * Power[MaxLen - 1] <= Modulus /\ Modulus < Power[MaxLen]
  /\ Modulus \div 2 \in Nat /\ Modulus = 2 * (Modulus \div 2) /\ Bytes = Digit(Base)
<1>1. Base \in Nat /\ Base > 3 /\ MaxLen \in Nat \ {0} /\ Modulus \in Nat
      /\ 2 * Power[MaxLen - 1] <= Modulus /\ Modulus < Power[MaxLen] /\ Modulus % 2 = 0
  BY WidthAssumption
<1>2. /\ \A i \in 0 .. MaxLen : Power[i] \in Nat \ {0}
      /\ \A i, j \in 0 .. MaxLen : i < j => Power[i] < Power[j]
  <2>1. Base > 1 /\ MaxLen \in Nat
    BY <1>1
  <2> QED BY <1>1, <2>1, PowerIs, PowersGrow
<1>3. Power[MaxLen - 1] \in Nat \ {0} /\ Modulus # 0
  <2>1. MaxLen - 1 \in 0 .. MaxLen
    BY <1>1
  <2>2. Power[MaxLen - 1] \in Nat \ {0}
    BY <1>2, <2>1
  <2> QED BY <1>1, <2>2
<1>4. Power[1] = Base
  <2>1. 1 \in 1 .. MaxLen /\ 1 - 1 = 0 /\ Base * 1 = Base
    BY <1>1
  <2>2. Power[0] = 1 /\ \A i \in 1 .. MaxLen : Power[i] = Base * Power[i - 1]
    BY PowerIs DEF Powers
  <2> QED BY <2>1, <2>2
<1>5. Modulus \div 2 \in Nat /\ Modulus = 2 * (Modulus \div 2)
  BY <1>1
<1>6. Bytes = Digit(Base)
  BY DEF Bytes, Digit
<1> QED BY <1>1, <1>2, <1>3, <1>4, <1>5, <1>6, PowerIs, DigitsAre

(* Whatever follows, a reader takes from a VarInt the number it was made   *)
(* from and not one byte of what follows.                                  *)
LEMMA VarIntBack ==
  ASSUME NEW v \in Int, NEW tail \in Seq(Bytes)
  PROVE  /\ WriteVarInt(v) \in Seq(Bytes)
         /\ Len(WriteVarInt(v)) \in 1 .. MaxLen
         /\ v % Modulus < Power[Len(WriteVarInt(v))]
         /\ Len(WriteVarInt(v)) > 1 => Power[Len(WriteVarInt(v)) - 1] <= v % Modulus
         /\ WriteVarInt(v) \o tail \in Seq(Bytes)
         /\ ReadVarInt(WriteVarInt(v) \o tail) = Taken(ToSigned(v % Modulus), tail)
<1>1. PICK u, d : u = v % Modulus /\ d = WriteVarInt(v) /\ d = Digits[u]
  BY DEF WriteVarInt
<1>2. u \in 0 .. Modulus - 1 /\ tail \in Seq(Digit(Base))
  BY <1>1, Widths
<1>3. PICK n : ReadsAs(d, u, n, Base, MaxLen, Power, Modulus, tail)
  <2>1. /\ Base \in Nat /\ Base > 1 /\ MaxLen \in Nat \ {0}
        /\ Powers(Power, Base, MaxLen) /\ Modulus \in Nat \ {0}
        /\ Modulus < Power[MaxLen] /\ Numerals(Digits, Modulus - 1, Base)
    BY Widths
  <2>2. \E n : ReadsAs(Digits[u], u, n, Base, MaxLen, Power, Modulus, tail)
    BY <1>2, <2>1, NumeralReads
  <2> QED BY <1>1, <2>2
<1>4. /\ d \in Seq(Bytes) /\ Len(d) = n /\ n \in 1 .. MaxLen
      /\ u < Power[n] /\ (n > 1 => Power[n - 1] <= u)
      /\ d \o tail \in Seq(Bytes) /\ LastDigits(d \o tail, MaxLen + 1) = {n}
      /\ SubSeq(d \o tail, n + 1, Len(d \o tail)) = tail
      /\ (CHOOSE V : Sums(V, d \o tail, n, Power, Modulus))[n] = u
  BY <1>3, Widths DEF ReadsAs
<1>5. Accumulated(d \o tail, n) = u
  BY <1>4 DEF Accumulated, Sums
<1>6. ReadVarInt(d \o tail) = Taken(ToSigned(u), tail)
  <2> DEFINE Final == LastDigits(d \o tail, MaxLen + 1)
             m == CHOOSE i \in Final : TRUE
  <2>1. ReadVarInt(d \o tail) =
          IF Final = {} THEN Failed
          ELSE Taken(ToSigned(Accumulated(d \o tail, m)), SubSeq(d \o tail, m + 1, Len(d \o tail)))
    BY Zenon DEF ReadVarInt, LastDigits
  <2>2. Final = {n}
    BY <1>4
  <2> HIDE DEF Final
  <2>3. m = n /\ Final # {}
    BY <2>2
  <2> QED BY <1>4, <1>5, <2>1, <2>3
<1> QED BY <1>1, <1>4, <1>6

(* The bits of a VarInt are those of the number, for every int32.          *)
LEMMA SignedBack ==
  /\ \A v \in Ints : ToSigned(v % Modulus) = v
  /\ \A u \in 0 .. Modulus - 1 :
       ToSigned(u) \in Ints /\ Unsigned(ToSigned(u)) = u
<1>1. PICK h, m : h = Modulus \div 2 /\ m = Modulus
  OBVIOUS
<1>2. h \in Nat /\ m \in Nat /\ m = 2 * h /\ m # 0
  BY <1>1, Widths
<1>3. ASSUME NEW v \in Ints PROVE ToSigned(v % Modulus) = v
  <2>1. v \in Int /\ -h <= v /\ v <= h - 1
    BY <1>1, <1>2 DEF Ints
  <2>2. CASE v >= 0
    <3>1. v % m = v
      BY <1>2, <2>1, <2>2
    <3> QED BY <1>1, <1>2, <2>1, <2>2, <3>1 DEF ToSigned
  <2>3. CASE v < 0
    <3>1. v % m = v + m
      <4>1. (v + m) % m = v + m
        BY <1>2, <2>1, <2>3
      <4>2. (v + m) % m = v % m
        BY <1>2, <2>1
      <4> QED BY <4>1, <4>2
    <3> QED BY <1>1, <1>2, <2>1, <2>3, <3>1 DEF ToSigned
  <2> QED BY <2>1, <2>2, <2>3
<1>4. ASSUME NEW u \in 0 .. Modulus - 1
      PROVE  ToSigned(u) \in Ints /\ Unsigned(ToSigned(u)) = u
  <2>1. u \in Nat /\ u < m
    BY <1>1, <1>2
  <2>2. CASE u >= h
    <3>1. ToSigned(u) = u - m
      BY <1>1, <2>2 DEF ToSigned
    <3>2. (u - m) % m = u
      <4>1. (u - m) % m = u % m
        BY <1>2, <2>1
      <4>2. u % m = u
        BY <1>2, <2>1
      <4> QED BY <4>1, <4>2
    <3> QED BY <1>1, <1>2, <2>1, <2>2, <3>1, <3>2 DEF Ints, Unsigned
  <2>3. CASE u < h
    <3>1. ToSigned(u) = u
      BY <1>1, <1>2, <2>1, <2>3 DEF ToSigned
    <3>2. u % m = u
      BY <1>2, <2>1
    <3> QED BY <1>1, <1>2, <2>1, <2>3, <3>1, <3>2 DEF Ints, Unsigned
  <2> QED BY <1>2, <2>1, <2>2, <2>3
<1> QED BY <1>3, <1>4

(* What comes first is read, what comes behind it is left.                 *)
LEMMA ReadFullBack ==
  ASSUME NEW s \in Seq(Bytes), NEW t \in Seq(Bytes)
  PROVE  ReadFull(s \o t, Len(s)) = Taken(s, t)
<1>1. PICK r, k : r = s \o t /\ k = Len(s)
  OBVIOUS
<1>2. /\ Len(r) = k + Len(t) /\ k \in Nat /\ Len(t) \in Nat
      /\ SubSeq(r, 1, k) = s /\ SubSeq(r, k + 1, Len(r)) = t
  <2>1. Parts(Bytes, s, t)
    BY ListParts
  <2> QED BY <1>1, <2>1 DEF Parts
<1>3. ReadFull(r, k) = IF Len(r) < k THEN Failed
                      ELSE Taken(SubSeq(r, 1, k), SubSeq(r, k + 1, Len(r)))
  BY DEF ReadFull
<1>4. ~ (Len(r) < k)
  BY <1>2
<1> QED BY <1>1, <1>2, <1>3, <1>4

(* What a reader returns that has read x and has left r. *)
Has(result, x, r) == result.ok /\ result.value = x /\ result.rest = r

LEMMA TakenIs ==
  ASSUME NEW x, NEW r
  PROVE  Has(Taken(x, r), x, r)
BY DEF Has, Taken

(* An id or a length that was written is read, with the bits it had.       *)
LEMMA UnsignedBack ==
  ASSUME NEW u \in 0 .. Modulus - 1, NEW tail \in Seq(Bytes)
  PROVE  /\ WriteVarInt(u) \in Seq(Bytes) /\ Len(WriteVarInt(u)) \in 1 .. MaxLen
         /\ ReadVarInt(WriteVarInt(u) \o tail) = Taken(ToSigned(u), tail)
         /\ Unsigned(ToSigned(u)) = u
         /\ u < Base => Len(WriteVarInt(u)) = 1
<1>1. u \in Int /\ u \in Nat /\ u % Modulus = u
  <2>1. PICK m : m = Modulus
    OBVIOUS
  <2>2. m \in Nat \ {0}
    BY <2>1, Widths
  <2>3. u \in Nat /\ u < m
    BY <2>1, <2>2
  <2>4. u % m = u
    BY <2>2, <2>3
  <2> QED BY <2>1, <2>3, <2>4
<1>2. PICK w, n : w = WriteVarInt(u) /\ n = Len(w)
  OBVIOUS
<1>3. /\ w \in Seq(Bytes) /\ n \in 1 .. MaxLen
      /\ n > 1 => Power[n - 1] <= u
      /\ ReadVarInt(w \o tail) = Taken(ToSigned(u), tail)
  BY <1>1, <1>2, VarIntBack
<1>4. ASSUME u < Base, n # 1 PROVE FALSE
  <2>1. /\ MaxLen \in Nat \ {0} /\ Base \in Nat /\ Power[1] = Base
        /\ \A i \in 0 .. MaxLen : Power[i] \in Nat
        /\ \A i, j \in 0 .. MaxLen : i < j => Power[i] < Power[j]
    BY Widths
  <2>2. n > 1 /\ n - 1 \in 0 .. MaxLen /\ 1 \in 0 .. MaxLen /\ (n - 1 = 1 \/ 1 < n - 1)
    BY <1>3, <1>4, <2>1
  <2>3. Power[n - 1] \in Nat /\ Base <= Power[n - 1]
    BY <2>1, <2>2
  <2> QED BY <1>1, <1>3, <1>4, <2>1, <2>2, <2>3
<1>5. Unsigned(ToSigned(u)) = u
  BY SignedBack
<1> QED BY <1>2, <1>3, <1>4, <1>5

(* What the length counts is the id and the data.                          *)
LEMMA WiredPacketBack ==
  ASSUME NEW id \in 0 .. Modulus - 1, NEW s \in Seq(Bytes), NEW rest
  PROVE  /\ WriteVarInt(id) \o s \in Seq(Bytes)
         /\ Len(WriteVarInt(id) \o s) = Len(WriteVarInt(id)) + Len(s)
         /\ Len(WriteVarInt(id)) \in 1 .. MaxLen /\ Len(s) \in Nat
         /\ WiredPacket(WriteVarInt(id) \o s, rest) = Taken([id |-> id, data |-> s], rest)
<1>1. PICK w, b : w = WriteVarInt(id) /\ b = w \o s
  OBVIOUS
<1>2. /\ w \in Seq(Bytes) /\ Len(w) \in 1 .. MaxLen
      /\ ReadVarInt(b) = Taken(ToSigned(id), s) /\ Unsigned(ToSigned(id)) = id
  BY <1>1, UnsignedBack
<1>3. b \in Seq(Bytes) /\ Len(b) = Len(w) + Len(s) /\ Len(s) \in Nat
  <2>1. Parts(Bytes, w, s)
    BY <1>2, ListParts
  <2> QED BY <1>1, <2>1 DEF Parts
<1>4. WiredPacket(b, rest) = Taken([id |-> id, data |-> s], rest)
  <2>1. PICK x : x = ReadVarInt(b)
    OBVIOUS
  <2>2. x.ok /\ x.value = ToSigned(id) /\ x.rest = s
    <3>1. x = Taken(ToSigned(id), s)
      BY <1>2, <2>1
    <3>2. Has(x, ToSigned(id), s)
      BY <3>1, TakenIs, Zenon
    <3> QED BY <3>2 DEF Has
  <2>3. WiredPacket(b, rest) = Taken([id |-> Unsigned(x.value), data |-> x.rest], rest)
    BY <2>1, <2>2, Zenon DEF WiredPacket
  <2> QED BY <1>2, <2>2, <2>3, Zenon
<1> QED BY <1>1, <1>2, <1>3, <1>4

(* Packet.Read has the packet as Packet.Write wrote it, whatever its id and *)
(* the bytes of its data, and leaves what follows.                         *)
THEOREM StreamPacketBack ==
  ASSUME NEW id \in 0 .. Modulus - 1, NEW s \in Seq(Bytes), NEW tail \in Seq(Bytes),
         MaxLen + Len(s) < Modulus
  PROVE  ReadWired(WriteWired(id, s)[1] \o WriteWired(id, s)[2] \o tail)
           = Taken([id |-> id, data |-> s], tail)
<1>1. PICK b, k, w : b = WriteVarInt(id) \o s /\ k = Len(b) /\ w = WriteVarInt(k)
  OBVIOUS
<1>2. /\ b \in Seq(Bytes) /\ k = Len(WriteVarInt(id)) + Len(s)
      /\ Len(WriteVarInt(id)) \in 1 .. MaxLen /\ Len(s) \in Nat
      /\ WiredPacket(b, tail) = Taken([id |-> id, data |-> s], tail)
  BY <1>1, WiredPacketBack
<1>3. k \in 0 .. Modulus - 1
  <2>1. MaxLen \in Nat /\ Modulus \in Nat
    BY Widths
  <2> QED BY <1>2, <2>1
<1>4. PICK bt : bt = b \o tail
  OBVIOUS
<1>5. bt \in Seq(Bytes) /\ ReadFull(bt, k) = Taken(b, tail)
  <2>1. b \o tail \in Seq(Bytes)
    <3>1. Parts(Bytes, b, tail)
      BY <1>2, ListParts
    <3> QED BY <3>1 DEF Parts
  <2>2. ReadFull(b \o tail, Len(b)) = Taken(b, tail)
    BY <1>2, ReadFullBack
  <2> QED BY <1>1, <1>4, <2>1, <2>2
<1>6. /\ w \in Seq(Bytes) /\ ReadVarInt(w \o bt) = Taken(ToSigned(k), bt)
      /\ Unsigned(ToSigned(k)) = k
  BY <1>1, <1>3, <1>5, UnsignedBack
<1>7. PICK r : r = WriteWired(id, s)[1] \o WriteWired(id, s)[2] \o tail
  OBVIOUS
<1>8. r = w \o bt
  <2>1. WriteWired(id, s) = << w, b >>
    BY <1>1 DEF WriteWired
  <2>2. r = (w \o b) \o tail
    BY <1>7, <2>1
  <2>3. EitherOrder(w, b, tail)
    BY <1>2, <1>6, ListOfThree
  <2> QED BY <1>4, <2>2, <2>3 DEF EitherOrder
<1>9. PICK x, y : x = ReadVarInt(r) /\ y = ReadFull(x.rest, Unsigned(x.value))
  OBVIOUS
<1>10. x.ok /\ x.value = ToSigned(k) /\ x.rest = bt
  <2>1. x = Taken(ToSigned(k), bt)
    BY <1>6, <1>8, <1>9
  <2>9. Has(x, ToSigned(k), bt)
    BY <2>1, TakenIs, Zenon
  <2> QED BY <2>9 DEF Has
<1>11. y.ok /\ y.value = b /\ y.rest = tail
  <2>1. y = Taken(b, tail)
    BY <1>5, <1>6, <1>9, <1>10
  <2>9. Has(y, b, tail)
    BY <2>1, TakenIs, Zenon
  <2> QED BY <2>9 DEF Has
<1>12. ReadWired(r) = WiredPacket(y.value, y.rest)
  BY <1>9, <1>10, <1>11, Zenon DEF ReadWired
<1> QED BY <1>2, <1>7, <1>11, <1>12

(* What is joined after k blocks, and what is filled from two of which the *)
(* first is as long as what is asked for.                                  *)
Joins(J, blocks) ==
  J = [k \in 0 .. Len(blocks) |-> IF k = 0 THEN << >> ELSE J[k - 1] \o blocks[k]]

LEMMA FillBack ==
  ASSUME NEW b \in Seq(Bytes), b # << >>, NEW c \in Seq(Bytes)
  PROVE  FillFrom(<< b, c >>, Len(b)) = Taken(b, << c >>)
<1>1. PICK blocks, n : blocks = << b, c >> /\ n = Len(b)
  OBVIOUS
<1>2. /\ blocks \in Seq(Seq(Bytes)) /\ Len(blocks) = 2 /\ blocks[1] = b /\ blocks[2] = c
      /\ n \in Nat /\ n > 0
  BY <1>1, ListDomain
<1> DEFINE J == CHOOSE J : Joins(J, blocks)
<1>3. Joins(J, blocks)
  <2> DEFINE W == [k \in 0 .. 2 |-> IF k = 0 THEN << >> ELSE IF k = 1 THEN << >> \o b
                                   ELSE (<< >> \o b) \o c]
  <2>1. \A k \in 0 .. 2 : W[k] = IF k = 0 THEN << >> ELSE W[k - 1] \o blocks[k]
    <3>1. W[0] = << >> /\ W[1] = << >> \o b /\ W[2] = (<< >> \o b) \o c
      OBVIOUS
    <3>2. \A k \in 0 .. 2 : k = 0 \/ k = 1 \/ k = 2
      OBVIOUS
    <3>3. 1 # 0 /\ 2 # 0 /\ 1 - 1 = 0 /\ 2 - 1 = 1
      OBVIOUS
    <3> HIDE DEF W
    <3> QED BY <1>2, <3>1, <3>2, <3>3
  <2>2. W = [k \in 0 .. 2 |-> W[k]]
    OBVIOUS
  <2> HIDE DEF W
  <2>3. Joins(W, blocks)
    BY <1>2, <2>1, <2>2, Zenon DEF Joins
  <2> QED BY <2>3, Zenon
<1> HIDE DEF J
<1>4. J[0] = << >> /\ J[1] = b
  <2>1. \A k \in 0 .. 2 : J[k] = IF k = 0 THEN << >> ELSE J[k - 1] \o blocks[k]
    BY <1>2, <1>3, Zenon DEF Joins
  <2>2. 0 \in 0 .. 2 /\ 1 \in 0 .. 2 /\ 1 # 0 /\ 1 - 1 = 0
    OBVIOUS
  <2>3. J[0] = << >> /\ J[1] = << >> \o b
    BY <1>2, <2>1, <2>2
  <2> QED BY <2>3, ConcatEmptySeq
<1> DEFINE Enough == { k \in 0 .. Len(blocks) : Len(J[k]) >= n }
           last == CHOOSE k \in Enough : \A j \in Enough : k <= j
<1>5. 0 \notin Enough /\ 1 \in Enough /\ \A k \in Enough : k \in Nat
  BY <1>1, <1>2, <1>4
<1>6. FillFrom(blocks, n) =
        IF Enough = {} THEN Failed
        ELSE Taken(SubSeq(J[last], 1, n), SubSeq(blocks, last + 1, Len(blocks)))
  BY Zenon DEF FillFrom, J, Joins
<1>7. last = 1 /\ Enough # {}
  <2> HIDE DEF Enough
  <2>1. \A j \in Enough : 1 <= j
    BY <1>5
  <2>2. \A k \in Enough : (\A j \in Enough : k <= j) => k = 1
    BY <1>5, <2>1
  <2> QED BY <1>5, <2>1, <2>2
<1> HIDE DEF Enough, last
<1>8. FillFrom(blocks, n) = Taken(SubSeq(b, 1, n), SubSeq(blocks, 2, 2))
  BY <1>2, <1>4, <1>6, <1>7
<1>9. SubSeq(b, 1, n) = b
  <2>1. << >> \in Seq(Bytes)
    OBVIOUS
  <2>2. SubSeq(b \o << >>, 1, Len(b)) = b
    <3>1. Parts(Bytes, b, << >>)
      BY <2>1, ListParts
    <3> QED BY <3>1 DEF Parts
  <2> QED BY <1>1, <2>2, ConcatEmptySeq
<1>10. SubSeq(blocks, 2, 2) = << c >>
  <2>1. Few(b, b, c)
    BY ShortLists
  <2> QED BY <1>1, <2>1 DEF Few
<1> QED BY <1>1, <1>8, <1>9, <1>10

(* Read from RSA blocks, a packet with a length of one byte is as it was   *)
(* written, and the next block is left.                                    *)
THEOREM BlocksPacketBack ==
  ASSUME NEW id \in 0 .. Modulus - 1, NEW s \in Seq(Bytes), NEW c \in Seq(Bytes),
         c # << >>, Len(WriteVarInt(id)) + Len(s) < Base, Base <= Modulus
  PROVE  ReadWiredFromBlocks(WriteWired(id, s) \o << c >>)
           = Taken([id |-> id, data |-> s], << c >>)
<1>1. PICK b, k, w : b = WriteVarInt(id) \o s /\ k = Len(b) /\ w = WriteVarInt(k)
  OBVIOUS
<1>2. /\ b \in Seq(Bytes) /\ k = Len(WriteVarInt(id)) + Len(s)
      /\ Len(WriteVarInt(id)) \in 1 .. MaxLen /\ Len(s) \in Nat
      /\ WiredPacket(b, << c >>) = Taken([id |-> id, data |-> s], << c >>)
  BY <1>1, WiredPacketBack
<1>3. k \in 0 .. Modulus - 1 /\ k < Base /\ k > 0 /\ k \in Nat
  <2>1. MaxLen \in Nat /\ Modulus \in Nat /\ Base \in Nat
    BY Widths
  <2> QED BY <1>2, <2>1
<1>4. b # << >>
  BY <1>1, <1>2, <1>3, ListDomain
<1>5. Head(b) \in Bytes /\ Head(c) \in Bytes
  BY <1>2, <1>4
<1>6. PICK t : t = << Head(b), Head(c) >>
  OBVIOUS
<1>7. t \in Seq(Bytes) /\ Len(t) = 2
  <2>1. ASSUME NEW x \in Bytes, NEW y \in Bytes
        PROVE  << x, y >> \in Seq(Bytes) /\ Len(<< x, y >>) = 2
    OBVIOUS
  <2> QED BY <1>5, <1>6, <2>1
<1>8. /\ w \in Seq(Bytes) /\ ReadVarInt(w \o t) = Taken(ToSigned(k), t)
      /\ Unsigned(ToSigned(k)) = k /\ Len(w) = 1
  BY <1>1, <1>3, <1>7, UnsignedBack
<1>9. PICK blocks : blocks = << w, b, c >>
  OBVIOUS
<1>10. WriteWired(id, s) \o << c >> = blocks
  <2>1. WriteWired(id, s) = << w, b >>
    BY <1>1 DEF WriteWired
  <2>2. << w, b >> \o << c >> = << w, b, c >>
    <3>1. w \in Seq(Bytes) /\ b \in Seq(Bytes)
      BY <1>2, <1>8
    <3>2. Few(w, b, c)
      BY <3>1, ShortLists
    <3> QED BY <3>2 DEF Few
  <2> QED BY <1>9, <2>1, <2>2
<1>11. /\ Len(blocks) = 3 /\ DOMAIN blocks = 1 .. 3
       /\ blocks[1] = w /\ blocks[2] = b /\ blocks[3] = c
  BY <1>9
<1>12. [i \in DOMAIN blocks |-> Head(blocks[i])] = w \o t
  <2>1. PICK q : q = w \o t
    OBVIOUS
  <2>2. /\ q \in Seq(Bytes) /\ Len(q) = 3 /\ q[1] = w[1]
        /\ q[2] = Head(b) /\ q[3] = Head(c)
    <3>1. /\ w \o t \in Seq(Bytes) /\ Len(w \o t) = Len(w) + Len(t)
          /\ \A i \in 1 .. Len(w) : (w \o t)[i] = w[i]
          /\ \A i \in 1 .. Len(t) : (w \o t)[Len(w) + i] = t[i]
      <4>1. w \in Seq(Bytes) /\ t \in Seq(Bytes)
        BY <1>7, <1>8
      <4>2. Parts(Bytes, w, t)
        BY <4>1, ListParts
      <4> QED BY <4>2 DEF Parts
    <3>2. t[1] = Head(b) /\ t[2] = Head(c)
      BY <1>6
    <3> QED BY <1>7, <1>8, <2>1, <3>1, <3>2
  <2>3. q = [i \in 1 .. 3 |-> q[i]]
    BY <2>2, ListDomain
  <2>4. Head(w) = w[1]
    BY <1>8
  <2>5. \A i \in 1 .. 3 : q[i] = Head(blocks[i])
    <3>1. \A i \in 1 .. 3 : i = 1 \/ i = 2 \/ i = 3
      OBVIOUS
    <3> QED BY <1>11, <2>2, <2>4, <3>1
  <2> QED BY <1>11, <2>1, <2>3, <2>5
<1>13. SubSeq(blocks, 2, 3) = << b, c >>
  <2>1. w \in Seq(Bytes) /\ b \in Seq(Bytes)
    BY <1>2, <1>8
  <2>2. SubSeq(<< w, b, c >>, 2, 3) = << b, c >>
    <3>1. Few(w, b, c)
      BY <2>1, ShortLists
    <3> QED BY <3>1 DEF Few
  <2> QED BY <1>9, <2>2
<1>14. FillFrom(<< b, c >>, k) = Taken(b, << c >>)
  BY <1>1, <1>2, <1>4, FillBack
<1>15. PICK x : x = ReadVarInt([i \in DOMAIN blocks |-> Head(blocks[i])])
  OBVIOUS
<1>16. x.ok /\ x.value = ToSigned(k) /\ x.rest = t
  <2>1. x = Taken(ToSigned(k), t)
    BY <1>8, <1>12, <1>15
  <2>9. Has(x, ToSigned(k), t)
    BY <2>1, TakenIs, Zenon
  <2> QED BY <2>9 DEF Has
<1>17. PICK y, read : /\ read = Len(blocks) - Len(x.rest)
                      /\ y = FillFrom(SubSeq(blocks, read + 1, Len(blocks)), Unsigned(x.value))
  OBVIOUS
<1>18. y.ok /\ y.value = b /\ y.rest = << c >>
  <2>1. read + 1 = 2
    BY <1>7, <1>11, <1>16, <1>17
  <2>2. y = Taken(b, << c >>)
    BY <1>8, <1>11, <1>13, <1>14, <1>16, <1>17, <2>1
  <2>9. Has(y, b, << c >>)
    BY <2>2, TakenIs, Zenon
  <2> QED BY <2>9 DEF Has
<1>19. ReadWiredFromBlocks(blocks) = WiredPacket(y.value, y.rest)
  BY <1>15, <1>16, <1>17, <1>18, Zenon DEF ReadWiredFromBlocks
<1> QED BY <1>2, <1>10, <1>18, <1>19

(* What the connection's readers are said to do, for all of them.          *)
LEMMA WiredPacketsReadBack == StreamReadsBack /\ BlocksReadBack
<1>1. /\ MaxLen \in Nat \ {0} /\ UuidLen \in Nat \ {0} /\ MaxString \in Nat
      /\ Modulus \div 2 \in Nat /\ Modulus = 2 * (Modulus \div 2) /\ Base \in Nat /\ Base > 3
      /\ 3 * MaxLen + UuidLen + MaxString + 3 < Modulus \div 2
  BY Widths, WidthAssumption, LengthAssumption
<1>2. ASSUME NEW s \in Strings
      PROVE  s \in Seq(Bytes) /\ Len(s) \in 0 .. MaxString
  <2>1. PICK n \in 0 .. MaxString, b \in Bytes : s = [i \in 1 .. n |-> b]
    BY DEF Strings
  <2>2. n \in Nat
    BY <1>1
  <2> QED BY <2>1, <2>2
<1>3. ASSUME NEW tail \in Tails PROVE tail \in Seq(Bytes)
  <2>1. ASSUME NEW b \in Bytes PROVE << b >> \in Seq(Bytes)
    OBVIOUS
  <2>2. << >> \in Seq(Bytes)
    OBVIOUS
  <2> QED BY <2>1, <2>2 DEF Tails
<1>4. StreamReadsBack
  <2>1. SUFFICES ASSUME NEW s \in Strings, NEW id \in 0 .. Modulus - 1, NEW tail \in Tails
                 PROVE  ReadWired(WriteWired(id, s)[1] \o WriteWired(id, s)[2] \o tail)
                          = Taken([id |-> id, data |-> s], tail)
    BY DEF StreamReadsBack
  <2>2. s \in Seq(Bytes) /\ Len(s) \in 0 .. MaxString /\ tail \in Seq(Bytes)
    BY <1>2, <1>3
  <2>3. MaxLen + Len(s) < Modulus
    BY <1>1, <2>2
  <2> QED BY <2>2, <2>3, StreamPacketBack
<1>5. BlocksReadBack
  <2>1. Base <= Modulus
    <3>1. /\ Power[1] = Base /\ Modulus \in Nat
          /\ \A i, j \in 0 .. MaxLen : i < j => Power[i] < Power[j]
          /\ \A i \in 0 .. MaxLen : Power[i] \in Nat
          /\ 2 * Power[MaxLen - 1] <= Modulus
      BY Widths
    <3>2. MaxLen > 2 /\ MaxLen \in Nat
      BY WidthAssumption
    <3>3. 1 \in 0 .. MaxLen /\ MaxLen - 1 \in 0 .. MaxLen /\ 1 < MaxLen - 1
      BY <3>2
    <3>4. Power[1] < Power[MaxLen - 1] /\ Power[MaxLen - 1] \in Nat
      BY <3>1, <3>3
    <3> QED BY <1>1, <3>1, <3>4
  <2>2. PICK c : c = << Byte(1, FALSE) >>
    OBVIOUS
  <2>3. c \in Seq(Bytes) /\ c # << >>
    <3>1. Byte(1, FALSE) \in Bytes
      BY <1>1 DEF Byte, Bytes
    <3>2. ASSUME NEW b \in Bytes PROVE << b >> \in Seq(Bytes) /\ << b >> # << >>
      OBVIOUS
    <3> QED BY <2>2, <3>1, <3>2
  <2>4. ASSUME NEW s \in Strings, NEW id \in 0 .. Modulus - 1,
               Len(WriteVarInt(id)) + Len(s) < Base
        PROVE  ReadWiredFromBlocks(WriteWired(id, s) \o << c >>)
                 = Taken([id |-> id, data |-> s], << c >>)
    <3>1. s \in Seq(Bytes)
      BY <1>2
    <3> QED BY <2>1, <2>3, <2>4, <3>1, BlocksPacketBack
  <2> QED BY <2>2, <2>4 DEF BlocksReadBack
<1> QED BY <1>4, <1>5

(* Whenever a reader is at a packet, it has what was written and the next  *)
(* packet is where it looks for it: on the stream, and in RSA blocks while *)
(* the shared secret has not arrived, as long as the length takes one byte. *)
THEOREM PacketsAreReadBack == Spec => []WiredPacketsRoundTrip
<1>1. WiredPacketsRoundTrip
  BY WiredPacketsReadBack DEF WiredPacketsRoundTrip
<1> QED BY <1>1, PTL
=============================================================================
