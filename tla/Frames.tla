------------------------------- MODULE Frames -------------------------------
(***************************************************************************)
(* The bytes of the packets the proxy itself reads and writes: VarInt,     *)
(* String, Packet, HandshakePacket and LoginPacket of node/protocol; and   *)
(* Packet of modules/protocol, also as RSAStream carries it.               *)
(*                                                                         *)
(* A byte is a digit and the bit that says another one follows.  A digit   *)
(* has 7 bits in the code, a VarInt at most 5 bytes and a value 32 bits:   *)
(* here Base, MaxLen and Modulus, in the same proportions.  A reader takes *)
(* a sequence of bytes and returns whether it succeeded, what it read and  *)
(* the bytes that are left.                                                *)
(***************************************************************************)
EXTENDS Integers, Sequences

CONSTANTS
  Base,       \* values of a digit (2^7)
  MaxLen,     \* maxVarIntLen (5)
  Modulus,    \* values of an int32 (2^32)
  UuidLen,    \* bytes of a UUID (16)
  MaxString   \* bound: length of the strings the checks go through

Power[n \in 0 .. MaxLen] == IF n = 0 THEN 1 ELSE Base * Power[n - 1]

ASSUME WidthAssumption ==
  /\ Base \in Nat /\ MaxLen \in Nat /\ Modulus \in Nat /\ UuidLen \in Nat \ {0}
  /\ Base > 3 /\ MaxLen > 2 /\ 2 * Power[MaxLen - 1] <= Modulus /\ Modulus < Power[MaxLen]
  /\ Modulus % 2 = 0 /\ Power[MaxLen] % Modulus = 0

(* A string with the fields beside it is shorter than the largest int32.   *)
ASSUME LengthAssumption ==
  MaxString \in Nat /\ 3 * MaxLen + UuidLen + MaxString + 3 < Modulus \div 2

Byte(digit, more) == [digit |-> digit, more |-> more]
Bytes == [digit : 0 .. Base - 1, more : BOOLEAN]
Ints == -(Modulus \div 2) .. (Modulus \div 2) - 1
ToSigned(u) == IF u >= Modulus \div 2 THEN u - Modulus ELSE u

Taken(value, rest) == [ok |-> TRUE, value |-> value, rest |-> rest]
Failed == [ok |-> FALSE]

(* writeToBytes: digits of the unsigned value, the lowest first. *)
Digits[u \in 0 .. Modulus - 1] ==
  IF u < Base THEN << Byte(u, FALSE) >>
  ELSE << Byte(u % Base, TRUE) >> \o Digits[u \div Base]
WriteVarInt(v) == Digits[v % Modulus]

(* varInt.Len *)
VarIntLen(v) ==
  IF v < 0 THEN MaxLen
  ELSE IF v < Base THEN 1
  ELSE CHOOSE n \in 2 .. MaxLen : v < Power[n] /\ v >= Power[n - 1]

(* Value[i]: vi after i bytes.  Bits beyond the width are shifted out.     *)
Accumulated(r, n) ==
  LET Value[i \in 0 .. n] ==
        IF i = 0 THEN 0 ELSE (Value[i - 1] + r[i].digit * Power[i - 1]) % Modulus
  IN  Value[n]

(* varInt.readFrom: up to the first byte that no other follows.  The bound *)
(* is tested when MaxLen + 1 bytes have been read, one more than a VarInt  *)
(* has; the length returned is that of the last byte, 1.                   *)
ReadVarInt(r) ==
  LET Final == { i \in 1 .. MaxLen + 1 : i <= Len(r) /\ ~ r[i].more /\
                                         \A j \in 1 .. i - 1 : r[j].more }
  IN  IF Final = {} THEN Failed
      ELSE LET n == CHOOSE i \in Final : TRUE
           IN  Taken(ToSigned(Accumulated(r, n)), SubSeq(r, n + 1, Len(r)))

ReadFull(r, n) ==
  IF Len(r) < n THEN Failed ELSE Taken(SubSeq(r, 1, n), SubSeq(r, n + 1, Len(r)))

WriteString(s) == WriteVarInt(Len(s)) \o s

(* A negative length is a panic, which the handler recovers from.          *)
ReadString(r) ==
  LET length == ReadVarInt(r)
  IN  IF ~ length.ok THEN Failed
      ELSE IF length.value < 0 THEN Failed
      ELSE ReadFull(length.rest, length.value)

WriteFrameBare(id, body) ==     \* mutant: the id is not counted
  WriteVarInt(Len(body)) \o WriteVarInt(id) \o body

(* Packet.WriteTo *)
WriteFrame(id, body) ==
  WriteVarInt(VarIntLen(id) + Len(body)) \o WriteVarInt(id) \o body

(* Packet.ReadFrom: the body is taken to be the length less the 1 that     *)
(* readFrom returns for the id, whatever the length of the id was.         *)
ReadFrame(r) ==
  LET length == ReadVarInt(r)
  IN  IF ~ length.ok THEN Failed
      ELSE IF length.value < 1 THEN Failed
      ELSE LET id == ReadVarInt(length.rest)
           IN  IF ~ id.ok THEN Failed
               ELSE ReadFull(id.rest, length.value - 1)

(* HandshakePacket: version, host name, port (two bytes), next state.      *)
WriteHandshake(h) ==
  WriteFrame(0, WriteVarInt(h.version) \o WriteString(h.host) \o h.port
                \o WriteVarInt(h.next))
ReadHandshakeFrom(r) ==
  LET frame == ReadFrame(r) IN
  IF ~ frame.ok THEN Failed ELSE
  LET version == ReadVarInt(frame.value) IN
  IF ~ version.ok THEN Failed ELSE
  LET host == ReadString(version.rest) IN
  IF ~ host.ok THEN Failed ELSE
  LET port == ReadFull(host.rest, 2) IN
  IF ~ port.ok THEN Failed ELSE
  LET next == ReadVarInt(port.rest) IN
  IF ~ next.ok THEN Failed ELSE
  Taken([version |-> version.value, host |-> host.value, port |-> port.value,
        next |-> next.value], frame.rest)

(* LoginPacket: name and UUID; what follows them is not written again.  A  *)
(* UUID that is cut short is filled up with zeros, one that is missing is  *)
(* an error.                                                               *)
WriteLogin(l) == WriteFrame(0, WriteString(l.name) \o l.uuid)
ReadLoginFrom(r) ==
  LET frame == ReadFrame(r) IN
  IF ~ frame.ok THEN Failed ELSE
  LET name == ReadString(frame.value) IN
  IF ~ name.ok \/ (name.ok /\ name.rest = << >>) THEN Failed ELSE
  Taken([name |-> name.value,
        uuid |-> [i \in 1 .. UuidLen |->
                    IF i <= Len(name.rest) THEN name.rest[i] ELSE Byte(0, FALSE)]],
       frame.rest)

-----------------------------------------------------------------------------
(* Packet.Write of modules/protocol: two Writes, for the length, and for id *)
(* and data.                                                               *)
Unsigned(v) == v % Modulus

WriteWiredInOne(id, data) ==    \* mutant: one Write for the whole packet
  LET body == WriteVarInt(id) \o data IN << WriteVarInt(Len(body)) \o body >>

WriteWired(id, data) ==
  LET body == WriteVarInt(id) \o data IN << WriteVarInt(Len(body)), body >>

(* Packet.Read: the id is among the bytes the length counts.               *)
WiredPacket(body, rest) ==
  LET id == ReadVarInt(body)
  IN  IF ~ id.ok THEN Failed
      ELSE Taken([id |-> Unsigned(id.value), data |-> id.rest], rest)

ReadWired(r) ==
  LET length == ReadVarInt(r) IN
  IF ~ length.ok THEN Failed ELSE
  LET body == ReadFull(length.rest, Unsigned(length.value)) IN
  IF ~ body.ok THEN Failed ELSE WiredPacket(body.value, body.rest)

(* RSAStream: a Write is a block, a Read decrypts a block, copies what the  *)
(* caller has room for and drops the rest.  readByte has room for one byte. *)
FillFrom(blocks, n) ==
  LET Joined[k \in 0 .. Len(blocks)] ==
        IF k = 0 THEN << >> ELSE Joined[k - 1] \o blocks[k]
      Enough == { k \in 0 .. Len(blocks) : Len(Joined[k]) >= n }
      last == CHOOSE k \in Enough : \A j \in Enough : k <= j
  IN  IF Enough = {} THEN Failed
      ELSE Taken(SubSeq(Joined[last], 1, n), SubSeq(blocks, last + 1, Len(blocks)))

ReadWiredFromBlocks(blocks) ==
  LET length == ReadVarInt([i \in DOMAIN blocks |-> Head(blocks[i])]) IN
  IF ~ length.ok THEN Failed ELSE
  LET read == Len(blocks) - Len(length.rest)
      body == FillFrom(SubSeq(blocks, read + 1, Len(blocks)), Unsigned(length.value))
  IN  IF ~ body.ok THEN Failed ELSE WiredPacket(body.value, body.rest)

-----------------------------------------------------------------------------
(* What modules SessionFrames and StreamFrames say of their packets.       *)

Strings == { [i \in 1 .. n |-> b] : n \in 0 .. MaxString, b \in Bytes }
Tails == { << >> } \cup { << b >> : b \in Bytes }

(* Every int32 is read back as it was written, negative ones such as the   *)
(* protocol version -1 included, and Len says how many bytes it takes.     *)
VarIntsReadBack ==
  \A v \in Ints, tail \in Tails :
    /\ Len(WriteVarInt(v)) = VarIntLen(v)
    /\ ReadVarInt(WriteVarInt(v) \o tail) = Taken(v, tail)

(* What is written is read back, and not one byte of what follows.  (With  *)
(* an id that takes n bytes Packet.ReadFrom would take n - 1 bytes too     *)
(* many; the ids of these packets are 0.)                                  *)
HandshakesReadBack ==
  \A s \in Strings, tail \in Tails, version \in {-1, Base}, next \in 1 .. 3 :
    LET h == [version |-> version, host |-> s, next |-> next,
              port |-> << Byte(1, TRUE), Byte(0, FALSE) >>]
    IN  ReadHandshakeFrom(WriteHandshake(h) \o tail) = Taken(h, tail)

LoginsReadBack ==
  \A s \in Strings, tail \in Tails, b \in Bytes :
    LET l == [name |-> s, uuid |-> [i \in 1 .. UuidLen |-> b]]
    IN  ReadLoginFrom(WriteLogin(l) \o tail) = Taken(l, tail)

(* The packets of node and master, whatever the id.                        *)
StreamReadsBack ==
  \A s \in Strings, id \in 0 .. Modulus - 1, tail \in Tails :
    ReadWired(WriteWired(id, s)[1] \o WriteWired(id, s)[2] \o tail) = Taken([id |-> id, data |-> s], tail)

(* From RSA blocks, if the length has one byte as that of the shared secret *)
(* has.  (A longer one loses its other bytes: readByte has room for one.)  *)
BlocksReadBack ==
  \A s \in Strings, id \in 0 .. Modulus - 1 :
    LET next == << << Byte(1, FALSE) >> >>
    IN  Len(WriteVarInt(id)) + Len(s) < Base =>
          ReadWiredFromBlocks(WriteWired(id, s) \o next) = Taken([id |-> id, data |-> s], next)
=============================================================================
