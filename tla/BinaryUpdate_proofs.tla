-------------------------- MODULE BinaryUpdate_proofs --------------------------
(***************************************************************************)
(* Proofs about BinaryUpdate, for any number of uploaders: type            *)
(* correctness; that a transfer is exact while connections hold; that the  *)
(* hash describes the file, but for what failed and overlapping uploads    *)
(* have left; and that a node is not set back before uploads overlap.      *)
(***************************************************************************)
EXTENDS BinaryUpdate, ListFacts

-----------------------------------------------------------------------------
(* The inductive invariant, whatever the faults. *)

(* A call that is sending has something left to send and a connection; a   *)
(* Hello handler serves its own.                                           *)
SenderOK(s) ==
  /\ sender[s].pc \in {"greet", "compare", "read", "send"} => sender[s].conn \in Conns
  /\ sender[s].pc = "send" => sender[s].todo # << >>
  /\ s \in Conns /\ sender[s].pc # "none" => sender[s].conn = s
SenderInv == \A s \in Senders : SenderOK(s)

(* The file exists while it is being written. *)
CopyInv == \A u \in Uploaders : uploader[u].pc \in {"copy", "hash"} => file # Nothing

Safe == TypeOK /\ SenderInv /\ CopyInv

(* A transfer while connections hold and no request sends.  The node's     *)
(* connection is the only one alive, and what was read once is spread,     *)
(* without a gap, over what the node has collected, what is on its way and *)
(* what is still to be sent.                                               *)
Calm == ConnectionsHold /\ Requested = {}
OneLink ==
  /\ \A c \in Conns : alive[c] <=> c = link
  /\ \A c \in Conns : c # link => toNode[c] = << >>
  /\ link # NoConn => sender[link].pc # "none"
Rounds(content) == IF content = << >> THEN 1 ELSE Len(content)
Collected(content, n) ==
  IF n = 0 THEN buffer = Nothing
  ELSE /\ buffer \in Contents
       /\ Len(buffer) = IF content = << >> THEN 0 ELSE n
       /\ \A i \in 1 .. Len(buffer) : buffer[i] = content[i]
Underway(content, n, m) ==
  /\ proc = "up" /\ sender[link].pc \in {"send", "done"}
  /\ n <= m /\ n <= Rounds(content) /\ m <= Rounds(content) + 1
  /\ Collected(content, n)
  /\ Len(toNode[link]) = m - n
  /\ \A i \in 1 .. m - n : toNode[link][i] = Packets(content)[n + i]
  /\ Len(sender[link].todo) = Rounds(content) + 1 - m
  /\ \A i \in 1 .. Rounds(content) + 1 - m : sender[link].todo[i] = Packets(content)[m + i]
Before == proc = "up" /\ buffer = Nothing /\ sender[link].pc \in {"greet", "compare", "read"}
          /\ toNode[link] = << >>
After ==
  /\ sender[link].pc = "done" /\ toNode[link] = << >>
  /\ proc = "up" => buffer = Nothing
  /\ proc = "write" => buffer \in reads
  /\ proc = "exec" /\ diskFaults = 0 => exe \in reads
StreamInv ==
  /\ link = NoConn => buffer = Nothing /\ proc \in {"up", "down"}
  /\ link # NoConn =>
       Before \/ After \/ \E content \in reads : \E n, m \in Nat : Underway(content, n, m)

(* While uploads do not overlap, and again when the last one to begin has  *)
(* begun alone, the hash that is about to be stored is that of the file.   *)
OneUpload ==
  \A u, w \in Uploaders : uploader[u].pc # "idle" /\ uploader[w].pc # "idle" => u = w
HashInv ==
  /\ HashDescribesFile
  /\ overlap # "now" =>
       OneUpload /\ \A u \in Uploaders : uploader[u].pc = "set" => uploader[u].sum = file

(* Before uploads have overlapped: every chunk in the file is of the       *)
(* latest upload, and every chunk that can still reach the node is not     *)
(* older than the binary it runs.                                          *)
FileInv ==
  /\ OneUpload
  /\ file # Nothing => \A i \in 1 .. Len(file) : file[i][1] = uploads + 1
  /\ \A u \in Uploaders :
       uploader[u].pc = "copy" => uploader[u].version = uploads + 1 /\ uploader[u].at = Len(file)
Between(content, low, high) == \A i \in 1 .. Len(content) : content[i][1] \in low .. high
AllBetween(packets, low, high) ==
  \A i \in 1 .. Len(packets) : Between(packets[i].bytes, low, high)
Fresh(content) == Between(content, Version(running), uploads + 1)
AllFresh(packets) == AllBetween(packets, Version(running), uploads + 1)
RunningInv ==
  /\ \E v \in 0 .. uploads + 1 : running = Whole(v)
  /\ IsWhole(exe) => Version(exe) \in Version(running) .. uploads + 1
ReachInv ==
  /\ buffer # Nothing => Fresh(buffer)
  /\ link # NoConn => AllFresh(toNode[link])
  /\ \A s \in Senders :
       sender[s].conn # NoConn /\ sender[s].conn = link
       => Fresh(sender[s].got) /\ AllFresh(sender[s].todo)

(* A connection that was never opened is known to nobody.                  *)
ConnInv ==
  \A c \in Conns : sender[c].pc = "none" =>
    /\ c # link /\ c \notin clients /\ toNode[c] = << >>
    /\ \A s \in Senders : sender[s].conn # c

-----------------------------------------------------------------------------
(* The types, in groups that most actions leave alone. *)

Pcs == {"none", "greet", "compare", "read", "send", "done"}
SenderSet == [pc : Pcs, conn : Conns \cup {NoConn}, got : Contents, todo : Seq(PacketSet)]
UploaderSet == [pc : {"idle", "copy", "hash", "set"}, version : Nat, at : Nat,
                sum : Contents \cup {Nothing}]
FileType == file \in Contents \cup {Nothing} /\ hash \in Contents \cup {Nothing}
UploadType ==
  /\ uploads \in Nat /\ uploader \in [Uploaders -> UploaderSet]
  /\ overlap \in {"never", "now", "before"} /\ trusted \in BOOLEAN
MasterType == clients \subseteq Conns /\ sender \in [Senders -> SenderSet]
NetType ==
  /\ alive \in [Conns -> BOOLEAN]
  /\ toNode \in [Conns -> Seq(PacketSet)]
  /\ \A c \in Conns : Len(toNode[c]) <= LinkCap
  /\ helloHash \in [Conns -> Contents \cup {Nothing}]
NodeType ==
  /\ link \in Conns \cup {NoConn} /\ proc \in {"up", "write", "exec", "down"}
  /\ running \in Contents /\ exe \in Contents \cup {Nothing} /\ buffer \in Contents \cup {Nothing}
FaultType == {drops, kills, restarts, diskFaults, sets} \subseteq Nat
ReadsType == \A content \in reads : content \in Contents

LEMMA Types ==
  TypeOK <=> /\ FileType /\ UploadType /\ MasterType /\ NetType /\ NodeType
             /\ FaultType /\ ReadsType
BY DEF TypeOK, FileType, UploadType, MasterType, NetType, NodeType, FaultType, ReadsType,
       Pcs, SenderSet, UploaderSet

LEMMA NextTypes ==
  ASSUME FileType', UploadType', MasterType', NetType', NodeType', FaultType', ReadsType'
  PROVE  TypeOK'
BY DEF TypeOK, FileType, UploadType, MasterType, NetType, NodeType, FaultType, ReadsType,
       Pcs, SenderSet, UploaderSet

LEMMA SafeParts ==
  ASSUME Safe
  PROVE  /\ FileType /\ UploadType /\ MasterType /\ NetType /\ NodeType /\ FaultType /\ ReadsType
         /\ SenderInv /\ CopyInv
BY Types DEF Safe

(* What is left alone keeps its type.                                      *)
LEMMA Untouched ==
  ASSUME Safe
  PROVE  /\ UNCHANGED << file, hash >> => FileType'
         /\ UNCHANGED uploadVars => UploadType'
         /\ UNCHANGED masterVars => MasterType' /\ SenderInv'
         /\ UNCHANGED netVars => NetType'
         /\ UNCHANGED nodeVars => NodeType'
         /\ UNCHANGED faultVars => FaultType'
         /\ UNCHANGED reads => ReadsType'
         /\ UNCHANGED << file, uploader >> => CopyInv'
<1>1. UNCHANGED << file, hash >> => FileType'
  BY SafeParts DEF FileType
<1>2. UNCHANGED uploadVars => UploadType'
  BY SafeParts DEF UploadType, uploadVars
<1>3. UNCHANGED masterVars => MasterType' /\ SenderInv'
  BY SafeParts DEF MasterType, masterVars, SenderInv, SenderOK
<1>4. UNCHANGED netVars => NetType'
  BY SafeParts DEF NetType, netVars
<1>5. UNCHANGED nodeVars => NodeType'
  BY SafeParts DEF NodeType, nodeVars
<1>6. UNCHANGED faultVars => FaultType'
  BY SafeParts DEF FaultType, faultVars
<1>7. UNCHANGED reads => ReadsType'
  BY SafeParts DEF ReadsType
<1>8. UNCHANGED << file, uploader >> => CopyInv'
  BY SafeParts DEF CopyInv
<1> QED BY <1>1, <1>2, <1>3, <1>4, <1>5, <1>6, <1>7, <1>8

-----------------------------------------------------------------------------
(* Contents and packets. *)

LEMMA PacketIs ==
  ASSUME NEW bytes \in Contents
  PROVE  /\ Data(bytes) \in PacketSet /\ Data(bytes).type = "data" /\ Data(bytes).bytes = bytes
         /\ End \in PacketSet /\ End.type = "end" /\ End.bytes = << >>
<1>1. << >> \in Contents
  BY DEF Contents
<1> QED BY <1>1 DEF Data, End, PacketSet

LEMMA OneChunk ==
  ASSUME NEW chunk \in Nat \X Nat
  PROVE  << chunk >> \in Contents /\ Len(<< chunk >>) = 1 /\ << chunk >>[1] = chunk
BY DEF Contents

(* The packets of a content: its chunks one by one and the end packet.     *)
LEMMA PacketsAre ==
  ASSUME NEW content \in Contents
  PROVE  /\ Packets(content) \in Seq(PacketSet) /\ Packets(content) # << >>
         /\ Rounds(content) \in Nat \ {0}
         /\ Len(Packets(content)) = Rounds(content) + 1
         /\ Packets(content)[Rounds(content) + 1].type = "end"
         /\ Packets(content)[Rounds(content) + 1].bytes = << >>
         /\ content # << >> =>
              \A i \in 1 .. Rounds(content) : /\ Packets(content)[i].type = "data"
                                             /\ Packets(content)[i].bytes = << content[i] >>
         /\ content = << >> => /\ Packets(content)[1].type = "data"
                               /\ Packets(content)[1].bytes = << >>
<1>1. content \in Seq(Nat \X Nat) /\ Len(content) \in Nat
      /\ \A i \in 1 .. Len(content) : content[i] \in Nat \X Nat
  BY ListDomain DEF Contents
<1>2. CASE content = << >>
  <2>1. PICK d, e \in PacketSet : d = Data(<< >>) /\ e = End /\ d.type = "data" /\ d.bytes = << >>
                                  /\ e.type = "end" /\ e.bytes = << >>
    <3>1. << >> \in Contents
      BY DEF Contents
    <3> QED BY <3>1, PacketIs
  <2>2. Packets(content) = << d, e >> /\ Rounds(content) = 1
    BY <1>2, <2>1 DEF Packets, Rounds
  <2>3. << d, e >> \in Seq(PacketSet) /\ Len(<< d, e >>) = 2 /\ << d, e >> # << >>
        /\ << d, e >>[1] = d /\ << d, e >>[2] = e
    BY <2>1
  <2>4. Rounds(content) + 1 = 2 /\ Rounds(content) \in Nat \ {0}
    BY <2>2
  <2> QED BY <1>2, <2>1, <2>2, <2>3, <2>4
<1>3. CASE content # << >>
  <2>1. PICK n \in Nat \ {0} : n = Len(content) /\ n = Rounds(content)
    BY <1>1, <1>3, ListDomain DEF Rounds
  <2>2. PICK e \in PacketSet : e = End /\ e.type = "end" /\ e.bytes = << >>
    <3>1. << >> \in Contents
      BY DEF Contents
    <3> QED BY <3>1, PacketIs
  <2>3. PICK chunks : chunks = [i \in 1 .. n |-> Data(<< content[i] >>)]
    OBVIOUS
  <2>4. \A i \in 1 .. n : Data(<< content[i] >>) \in PacketSet
                          /\ Data(<< content[i] >>).type = "data"
                          /\ Data(<< content[i] >>).bytes = << content[i] >>
    BY <1>1, <2>1, OneChunk, PacketIs
  <2>5. chunks \in Seq(PacketSet) /\ Len(chunks) = n
        /\ \A i \in 1 .. n : chunks[i].type = "data" /\ chunks[i].bytes = << content[i] >>
    <3>1. chunks \in Seq(PacketSet) /\ Len(chunks) = n
      BY <2>3, <2>4
    <3>2. \A i \in 1 .. n : chunks[i] = Data(<< content[i] >>)
      BY <2>3
    <3> QED BY <2>4, <3>1, <3>2
  <2>6. Packets(content) = Append(chunks, e)
    BY <1>3, <2>1, <2>2, <2>3 DEF Packets
  <2>7. /\ Append(chunks, e) \in Seq(PacketSet) /\ Len(Append(chunks, e)) = n + 1
        /\ Append(chunks, e)[n + 1] = e /\ \A i \in 1 .. n : Append(chunks, e)[i] = chunks[i]
    BY <2>2, <2>5, AppendedList
  <2>8. Append(chunks, e) # << >>
    BY <2>7
  <2> QED BY <1>3, <2>1, <2>2, <2>5, <2>6, <2>7, <2>8
<1> QED BY <1>2, <1>3

(* A file that is written to at a place of the writer's own.               *)
LEMMA WrittenAt ==
  ASSUME NEW content \in Contents, NEW i \in Nat \ {0}, NEW chunk \in Nat \X Nat
  PROVE  /\ WriteAt(content, i, chunk) \in Contents
         /\ i = Len(content) + 1 =>
              /\ Len(WriteAt(content, i, chunk)) = i
              /\ WriteAt(content, i, chunk)[i] = chunk
              /\ \A j \in 1 .. Len(content) : WriteAt(content, i, chunk)[j] = content[j]
<1>1. PICK n \in Nat : n = Len(content) /\ \A j \in 1 .. n : content[j] \in Nat \X Nat
  BY ListDomain DEF Contents
<1>2. PICK m \in Nat : m = IF i > n THEN i ELSE n
  BY <1>1
<1>3. PICK new : new = [j \in 1 .. m |-> IF j = i THEN chunk ELSE IF j > n THEN Hole ELSE content[j]]
  OBVIOUS
<1>4. WriteAt(content, i, chunk) = new
  BY <1>1, <1>2, <1>3 DEF WriteAt
<1>5. Hole \in Nat \X Nat
  BY DEF Hole
<1>6. \A j \in 1 .. m : (IF j = i THEN chunk ELSE IF j > n THEN Hole ELSE content[j]) \in Nat \X Nat
  BY <1>1, <1>5
<1>7. new \in Seq(Nat \X Nat) /\ Len(new) = m
  <2>1. PICK S : S = Nat \X Nat
    OBVIOUS
  <2>2. new \in [1 .. m -> S]
    BY <1>3, <1>6, <2>1
  <2>3. new \in Seq(S) /\ Len(new) = m
    BY <2>2
  <2> QED BY <2>1, <2>3
<1>8. i = n + 1 => m = i /\ new[i] = chunk /\ \A j \in 1 .. n : new[j] = content[j]
  BY <1>1, <1>2, <1>3
<1> QED BY <1>1, <1>4, <1>7, <1>8 DEF Contents

(* A whole binary.                                                         *)
LEMMA WholeIs ==
  ASSUME NEW v \in Nat
  PROVE  /\ Whole(v) \in Contents /\ Len(Whole(v)) = Chunks /\ 1 \in 1 .. Len(Whole(v))
         /\ Version(Whole(v)) = v /\ \A i \in 1 .. Len(Whole(v)) : Whole(v)[i][1] = v
         /\ Whole(v) # Nothing /\ Whole(v) # << >>
<1>1. Chunks \in Nat \ {0}
  BY SizesAssumption
<1>2. \A i \in 1 .. Chunks : << v, i >> \in Nat \X Nat
  BY <1>1
<1>3. Whole(v) \in Seq(Nat \X Nat) /\ Len(Whole(v)) = Chunks
  BY <1>1, <1>2 DEF Whole
<1>4. \A i \in 1 .. Chunks : Whole(v)[i] = << v, i >> /\ Whole(v)[i][1] = v
  BY <1>1 DEF Whole
<1>5. Version(Whole(v)) = v
  BY <1>1, <1>4 DEF Version
<1>6. Whole(v) # << >>
  BY <1>1, <1>3
<1> QED BY <1>1, <1>3, <1>4, <1>5, <1>6, ContentsAssumption DEF Contents

LEMMA WholeContent ==
  ASSUME NEW content, IsWhole(content)
  PROVE  /\ content \in Contents /\ content # Nothing /\ content # << >>
         /\ Len(content) = Chunks /\ 1 \in 1 .. Len(content)
         /\ \E v \in 0 .. MaxUploads + 1 : content = Whole(v) /\ Version(content) = v
<1>1. PICK v \in 0 .. MaxUploads + 1 : content = Whole(v)
  BY DEF IsWhole
<1>2. v \in Nat
  BY SizesAssumption
<1> QED BY <1>1, <1>2, WholeIs

-----------------------------------------------------------------------------
(* What the steps do to a call that sends. *)

SenderGoes(s, a) ==
  /\ a \in SenderSet /\ sender' \in [Senders -> SenderSet] /\ sender'[s] = a
  /\ \A q \in Senders : q # s => sender'[q] = sender[q]

LEMMA SenderIs ==
  ASSUME Safe, NEW s \in Senders
  PROVE  /\ sender \in [Senders -> SenderSet] /\ sender[s] \in SenderSet
         /\ sender[s].pc \in Pcs /\ sender[s].conn \in Conns \cup {NoConn}
         /\ sender[s].got \in Contents /\ sender[s].todo \in Seq(PacketSet)
         /\ SenderOK(s)
BY SafeParts DEF MasterType, SenderSet, SenderInv

LEMMA SenderBecomes ==
  ASSUME Safe, NEW s \in Senders, NEW pc \in Pcs, NEW conn \in Conns \cup {NoConn},
         NEW got \in Contents, NEW todo \in Seq(PacketSet),
         sender' = [sender EXCEPT ![s] = SenderAt(pc, conn, got, todo)]
  PROVE  /\ SenderGoes(s, SenderAt(pc, conn, got, todo))
         /\ sender'[s].pc = pc /\ sender'[s].conn = conn /\ sender'[s].got = got
         /\ sender'[s].todo = todo
<1>1. SenderAt(pc, conn, got, todo) \in SenderSet
  BY DEF SenderAt, SenderSet
<1>2. PICK a \in SenderSet : a = SenderAt(pc, conn, got, todo)
  BY <1>1
<1>3. sender' \in [Senders -> SenderSet] /\ sender'[s] = a
      /\ \A q \in Senders : q # s => sender'[q] = sender[q]
  BY <1>2, SenderIs
<1>4. a.pc = pc /\ a.conn = conn /\ a.got = got /\ a.todo = todo
  BY <1>2 DEF SenderAt
<1> QED BY <1>1, <1>2, <1>3, <1>4 DEF SenderGoes

LEMMA SenderMoves ==
  ASSUME Safe, NEW s \in Senders, NEW pc \in Pcs, sender' = [sender EXCEPT ![s].pc = pc]
  PROVE  /\ SenderGoes(s, sender'[s])
         /\ sender'[s].pc = pc /\ sender'[s].conn = sender[s].conn
         /\ sender'[s].got = sender[s].got /\ sender'[s].todo = sender[s].todo
<1>1. PICK a : a = [sender[s] EXCEPT !.pc = pc]
  OBVIOUS
<1>2. a \in SenderSet /\ a.pc = pc /\ a.conn = sender[s].conn /\ a.got = sender[s].got
      /\ a.todo = sender[s].todo
  BY <1>1, SenderIs DEF SenderSet
<1>3. sender' = [sender EXCEPT ![s] = a]
  BY <1>1
<1>4. sender' \in [Senders -> SenderSet] /\ sender'[s] = a
      /\ \A q \in Senders : q # s => sender'[q] = sender[q]
  BY <1>2, <1>3, SenderIs
<1> QED BY <1>2, <1>4 DEF SenderGoes

LEMMA SenderGets ==
  ASSUME Safe, NEW s \in Senders, NEW got \in Contents, sender' = [sender EXCEPT ![s].got = got]
  PROVE  /\ SenderGoes(s, sender'[s])
         /\ sender'[s].pc = sender[s].pc /\ sender'[s].conn = sender[s].conn
         /\ sender'[s].got = got /\ sender'[s].todo = sender[s].todo
<1>1. PICK a : a = [sender[s] EXCEPT !.got = got]
  OBVIOUS
<1>2. a \in SenderSet /\ a.pc = sender[s].pc /\ a.conn = sender[s].conn /\ a.got = got
      /\ a.todo = sender[s].todo
  BY <1>1, SenderIs DEF SenderSet
<1>3. sender' = [sender EXCEPT ![s] = a]
  BY <1>1
<1>4. sender' \in [Senders -> SenderSet] /\ sender'[s] = a
      /\ \A q \in Senders : q # s => sender'[q] = sender[q]
  BY <1>2, <1>3, SenderIs
<1> QED BY <1>2, <1>4 DEF SenderGoes

LEMMA OthersSend ==
  ASSUME Safe, NEW s \in Senders, SenderGoes(s, sender'[s]), SenderOK(s)'
  PROVE  SenderInv'
<1>1. ASSUME NEW q \in Senders, q # s
      PROVE  SenderOK(q)'
  BY <1>1, SafeParts DEF SenderInv, SenderOK, SenderGoes
<1> QED BY <1>1 DEF SenderInv

MasterOnly == UNCHANGED << file, hash, uploadVars, netVars, nodeVars, faultVars >>

LEMMA RegisterEffect ==
  ASSUME Safe, NEW c \in Conns, HelloRegister(c)
  PROVE  /\ c \in Senders /\ SenderGoes(c, sender'[c])
         /\ sender[c].pc = "greet" /\ sender'[c].pc = "compare"
         /\ sender'[c].conn = sender[c].conn /\ sender'[c].got = sender[c].got
         /\ sender'[c].todo = sender[c].todo
         /\ clients' = clients \cup {c} /\ MasterOnly /\ reads' = reads
<1>1. c \in Senders /\ sender[c].pc = "greet" /\ sender' = [sender EXCEPT ![c].pc = "compare"]
  BY DEF HelloRegister, Senders
<1> QED BY <1>1, SenderMoves DEF HelloRegister, MasterOnly, Pcs

LEMMA CompareEffect ==
  ASSUME Safe, NEW c \in Conns, HelloCompare(c)
  PROVE  /\ c \in Senders /\ SenderGoes(c, sender'[c])
         /\ sender[c].pc = "compare" /\ sender'[c].pc \in {"read", "done"}
         /\ sender'[c].conn = sender[c].conn /\ sender'[c].got = sender[c].got
         /\ sender'[c].todo = sender[c].todo
         /\ clients' = clients /\ MasterOnly /\ reads' = reads
<1>1. PICK pc \in {"read", "done"} : sender' = [sender EXCEPT ![c].pc = pc]
  BY DEF HelloCompare
<1>2. c \in Senders /\ pc \in Pcs
  BY <1>1 DEF Senders, Pcs
<1> QED BY <1>1, <1>2, SenderMoves DEF HelloCompare, MasterOnly

LEMMA RequestEffect ==
  ASSUME Safe, NEW r \in Requests, RequestStart(r)
  PROVE  /\ r \in Senders /\ r \notin Conns /\ SenderGoes(r, sender'[r])
         /\ sender[r].pc = "none" /\ sender'[r].pc \in {"read", "done"}
         /\ clients' = clients /\ MasterOnly /\ reads' = reads
         /\ \/ /\ sender'[r].pc = "done" /\ sender'[r].conn = sender[r].conn
               /\ sender'[r].got = sender[r].got /\ sender'[r].todo = sender[r].todo
            \/ /\ sender'[r].conn \in clients /\ sender'[r].conn \in Conns
               /\ sender'[r].got = << >> /\ sender'[r].todo = << >>
<1>1. /\ r \in Senders /\ r \notin Conns /\ sender[r].pc = "none"
      /\ clients' = clients /\ MasterOnly /\ reads' = reads
  BY SendersAssumption DEF RequestStart, Senders, MasterOnly
<1>2. CASE sender' = [sender EXCEPT ![r].pc = "done"]
  BY <1>1, <1>2, SenderMoves DEF Pcs
<1>3. CASE \E c \in clients : sender' = [sender EXCEPT ![r] = SenderAt("read", c, << >>, << >>)]
  <2>1. PICK c \in clients : sender' = [sender EXCEPT ![r] = SenderAt("read", c, << >>, << >>)]
    BY <1>3
  <2>2. c \in Conns /\ << >> \in Contents /\ << >> \in Seq(PacketSet)
    BY SafeParts DEF MasterType, Contents
  <2>3. /\ SenderGoes(r, SenderAt("read", c, << >>, << >>))
        /\ sender'[r].pc = "read" /\ sender'[r].conn = c /\ sender'[r].got = << >>
        /\ sender'[r].todo = << >>
    BY <1>1, <2>1, <2>2, SenderBecomes DEF Pcs
  <2>4. SenderGoes(r, sender'[r])
    BY <2>3 DEF SenderGoes
  <2> QED BY <1>1, <2>2, <2>3, <2>4
<1> QED BY <1>2, <1>3 DEF RequestStart

LEMMA ReadEffect ==
  ASSUME Safe, NEW s \in Senders, SenderRead(s)
  PROVE  /\ sender[s].pc = "read" /\ SenderGoes(s, sender'[s])
         /\ sender'[s].conn = sender[s].conn
         /\ clients' = clients /\ MasterOnly
         /\ \/ /\ file = Nothing /\ sender'[s].pc = "done" /\ reads' = reads
               /\ sender'[s].got = sender[s].got /\ sender'[s].todo = sender[s].todo
            \/ /\ file \in Contents /\ sender'[s].pc = "read" /\ reads' = reads
               /\ Len(sender[s].got) + 1 \in 1 .. Len(file)
               /\ sender'[s].got = Append(sender[s].got, file[Len(sender[s].got) + 1])
               /\ sender'[s].todo = sender[s].todo
            \/ /\ sender'[s].pc = "send" /\ reads' = reads \cup {sender[s].got}
               /\ sender'[s].got = << >> /\ sender'[s].todo = Packets(sender[s].got)
<1>1. PICK got \in Contents : got = sender[s].got /\ Len(got) \in Nat
  BY SenderIs, ListDomain DEF Contents
<1>2. sender[s].pc = "read" /\ clients' = clients /\ MasterOnly
  BY DEF SenderRead, MasterOnly
<1>3. CASE file = Nothing /\ sender' = [sender EXCEPT ![s].pc = "done"] /\ reads' = reads
  BY <1>2, <1>3, SenderMoves DEF Pcs
<1>4. CASE /\ file # Nothing /\ Len(got) < Len(file) /\ reads' = reads
           /\ sender' = [sender EXCEPT ![s].got = Append(@, file[Len(@) + 1])]
  <2>1. file \in Contents /\ Len(file) \in Nat
    BY <1>4, SafeParts, ListDomain DEF FileType, Contents
  <2>2. Len(got) + 1 \in 1 .. Len(file)
    BY <1>1, <1>4, <2>1
  <2>3. PICK chunk \in Nat \X Nat : chunk = file[Len(got) + 1]
    BY <2>1, <2>2, ListDomain DEF Contents
  <2>4. PICK more \in Contents : more = Append(got, chunk)
    BY <1>1, <2>3, AppendedList DEF Contents
  <2>5. sender' = [sender EXCEPT ![s].got = more]
    BY <1>1, <1>4, <2>3, <2>4
  <2>6. /\ SenderGoes(s, sender'[s])
        /\ sender'[s].pc = sender[s].pc /\ sender'[s].conn = sender[s].conn
        /\ sender'[s].got = more /\ sender'[s].todo = sender[s].todo
    BY <2>5, SenderGets
  <2> QED BY <1>1, <1>2, <1>4, <2>1, <2>2, <2>3, <2>4, <2>6
<1>5. CASE /\ reads' = reads \cup {got}
           /\ sender' = [sender EXCEPT ![s] = SenderAt("send", sender[s].conn, << >>, Packets(got))]
  <2>1. PICK conn \in Conns \cup {NoConn} : conn = sender[s].conn
    BY SenderIs
  <2>2. PICK todo \in Seq(PacketSet) : todo = Packets(got)
    BY <1>1, PacketsAre
  <2>3. << >> \in Contents /\ "send" \in Pcs
    BY DEF Contents, Pcs
  <2>4. sender' = [sender EXCEPT ![s] = SenderAt("send", conn, << >>, todo)]
    BY <1>5, <2>1, <2>2
  <2>5. /\ SenderGoes(s, SenderAt("send", conn, << >>, todo))
        /\ sender'[s].pc = "send" /\ sender'[s].conn = conn /\ sender'[s].got = << >>
        /\ sender'[s].todo = todo
    BY <2>3, <2>4, SenderBecomes
  <2>6. SenderGoes(s, sender'[s])
    BY <2>5 DEF SenderGoes
  <2> QED BY <1>1, <1>2, <1>5, <2>1, <2>2, <2>5, <2>6
<1> QED BY <1>1, <1>3, <1>4, <1>5 DEF SenderRead

(* A socket takes one packet more.                                         *)
LEMMA Delivered ==
  ASSUME Safe, NEW c \in Conns, NEW packet \in PacketSet, Len(toNode[c]) < LinkCap,
         toNode' = [toNode EXCEPT ![c] = Append(toNode[c], packet)]
  PROVE  /\ toNode' \in [Conns -> Seq(PacketSet)]
         /\ \A d \in Conns : d # c => toNode'[d] = toNode[d]
         /\ \A d \in Conns : Len(toNode'[d]) <= LinkCap
         /\ toNode[c] \in Seq(PacketSet) /\ Len(toNode[c]) \in Nat
         /\ Len(toNode'[c]) = Len(toNode[c]) + 1
         /\ toNode'[c][Len(toNode[c]) + 1] = packet
         /\ \A i \in 1 .. Len(toNode[c]) : toNode'[c][i] = toNode[c][i]
<1>1. toNode \in [Conns -> Seq(PacketSet)] /\ \A d \in Conns : Len(toNode[d]) <= LinkCap
  BY SafeParts DEF NetType
<1>2. PICK old \in Seq(PacketSet) : old = toNode[c] /\ Len(old) \in Nat
  BY <1>1, ListDomain
<1>3. PICK new \in Seq(PacketSet) :
        /\ new = Append(old, packet) /\ Len(new) = Len(old) + 1 /\ new[Len(old) + 1] = packet
        /\ \A i \in 1 .. Len(old) : new[i] = old[i]
  <2>1. /\ Append(old, packet) \in Seq(PacketSet) /\ Len(Append(old, packet)) = Len(old) + 1
        /\ Append(old, packet)[Len(old) + 1] = packet
        /\ \A i \in 1 .. Len(old) : Append(old, packet)[i] = old[i]
    BY <1>2, AppendedList
  <2> QED BY <2>1
<1>4. toNode' = [toNode EXCEPT ![c] = new]
  BY <1>2, <1>3
<1>5. toNode' \in [Conns -> Seq(PacketSet)] /\ toNode'[c] = new
      /\ \A d \in Conns : d # c => toNode'[d] = toNode[d]
  BY <1>1, <1>4
<1>6. Len(new) <= LinkCap
  BY <1>2, <1>3, SizesAssumption
<1>7. \A d \in Conns : Len(toNode'[d]) <= LinkCap
  BY <1>1, <1>5, <1>6
<1> QED BY <1>2, <1>3, <1>5, <1>7

LEMMA SendEffect ==
  ASSUME Safe, NEW s \in Senders, SenderSend(s)
  PROVE  /\ sender[s].pc = "send" /\ sender[s].conn \in Conns
         /\ sender[s].todo \in Seq(PacketSet) /\ sender[s].todo # << >>
         /\ SenderGoes(s, sender'[s]) /\ sender'[s].conn = sender[s].conn
         /\ sender'[s].got = << >> /\ sender'[s].pc \in {"send", "done"}
         /\ sender'[s].pc = "send" => sender'[s].todo # << >>
         /\ UNCHANGED << file, hash, uploadVars, clients, alive, helloHash, nodeVars,
                         faultVars, reads >>
         /\ \/ /\ ~ alive[sender[s].conn] /\ sender'[s].pc = "done"
               /\ sender'[s].todo = << >> /\ toNode' = toNode
            \/ /\ alive[sender[s].conn] /\ Len(toNode[sender[s].conn]) < LinkCap
               /\ sender'[s].todo = Tail(sender[s].todo)
               /\ sender'[s].pc = "done" <=> Len(sender[s].todo) = 1
               /\ Head(sender[s].todo) \in PacketSet
               /\ toNode' = [toNode EXCEPT ![sender[s].conn] =
                               Append(toNode[sender[s].conn], Head(sender[s].todo))]
<1>1. /\ sender[s].pc = "send"
      /\ UNCHANGED << file, hash, uploadVars, clients, alive, helloHash, nodeVars,
                      faultVars, reads >>
  BY DEF SenderSend
<1>2. PICK conn \in Conns, todo \in Seq(PacketSet) :
        conn = sender[s].conn /\ todo = sender[s].todo /\ todo # << >>
  BY <1>1, SenderIs DEF SenderOK
<1>3. << >> \in Contents /\ << >> \in Seq(PacketSet) /\ "done" \in Pcs /\ "send" \in Pcs
  BY DEF Contents, Pcs
<1>4. CASE /\ ~ alive[conn] /\ toNode' = toNode
           /\ sender' = [sender EXCEPT ![s] = SenderAt("done", conn, << >>, << >>)]
  <2>1. /\ SenderGoes(s, SenderAt("done", conn, << >>, << >>))
        /\ sender'[s].pc = "done" /\ sender'[s].conn = conn /\ sender'[s].got = << >>
        /\ sender'[s].todo = << >>
    BY <1>2, <1>3, <1>4, SenderBecomes, ZenonT(30)
  <2>2. SenderGoes(s, sender'[s])
    BY <2>1 DEF SenderGoes
  <2> QED BY <1>1, <1>2, <1>4, <2>1, <2>2
<1>5. CASE /\ alive[conn] /\ Len(toNode[conn]) < LinkCap
           /\ toNode' = [toNode EXCEPT ![conn] = Append(@, Head(todo))]
           /\ sender' = [sender EXCEPT ![s] = SenderAt(IF Len(todo) = 1 THEN "done" ELSE "send",
                                                       conn, << >>, Tail(todo))]
  <2>1. PICK rest \in Seq(PacketSet) :
          /\ rest = Tail(todo) /\ Len(todo) \in Nat \ {0} /\ Len(rest) = Len(todo) - 1
          /\ Head(todo) \in PacketSet
    BY <1>2, ListTail
  <2>2. PICK pc \in {"done", "send"} : pc = IF Len(todo) = 1 THEN "done" ELSE "send"
    OBVIOUS
  <2>3. sender' = [sender EXCEPT ![s] = SenderAt(pc, conn, << >>, rest)] /\ pc \in Pcs
    BY <1>3, <1>5, <2>1, <2>2
  <2>4. /\ SenderGoes(s, SenderAt(pc, conn, << >>, rest))
        /\ sender'[s].pc = pc /\ sender'[s].conn = conn /\ sender'[s].got = << >>
        /\ sender'[s].todo = rest
    BY <1>3, <2>3, SenderBecomes
  <2>5. SenderGoes(s, sender'[s])
    BY <2>4 DEF SenderGoes
  <2>6. pc = "send" => rest # << >>
    <3>1. rest = << >> <=> Len(rest) = 0
      BY <2>1, ListDomain
    <3>2. Len(rest) = 0 => Len(todo) = 1
      BY <2>1
    <3> QED BY <2>2, <3>1, <3>2
  <2>7. pc = "done" <=> Len(todo) = 1
    BY <2>2
  <2>8. toNode' = [toNode EXCEPT ![conn] = Append(toNode[conn], Head(todo))]
    BY <1>5
  <2> QED BY <1>1, <1>2, <1>5, <2>1, <2>2, <2>4, <2>5, <2>6, <2>7, <2>8
<1> QED BY <1>2, <1>4, <1>5 DEF SenderSend

LEMMA DialEffect ==
  ASSUME Safe, NEW c \in Conns, NodeDial(c)
  PROVE  /\ c \in Senders /\ sender[c].pc = "none" /\ proc = "up" /\ link = NoConn
         /\ link' = c /\ SenderGoes(c, sender'[c])
         /\ sender'[c].pc = "greet" /\ sender'[c].conn = c /\ sender'[c].got = << >>
         /\ sender'[c].todo = << >>
         /\ alive' \in [Conns -> BOOLEAN] /\ alive'[c]
         /\ \A d \in Conns : d # c => alive'[d] = alive[d]
         /\ helloHash' \in [Conns -> Contents \cup {Nothing}]
         /\ UNCHANGED << file, hash, uploadVars, clients, toNode, proc, running, exe, buffer,
                         faultVars, reads >>
<1>1. /\ c \in Senders /\ sender[c].pc = "none" /\ proc = "up" /\ link = NoConn /\ link' = c
      /\ UNCHANGED << file, hash, uploadVars, clients, toNode, proc, running, exe, buffer,
                      faultVars, reads >>
  BY DEF NodeDial, Senders
<1>2. sender' = [sender EXCEPT ![c] = SenderAt("greet", c, << >>, << >>)]
  BY DEF NodeDial
<1>3. << >> \in Contents /\ << >> \in Seq(PacketSet) /\ "greet" \in Pcs
  BY DEF Contents, Pcs
<1>4. /\ SenderGoes(c, SenderAt("greet", c, << >>, << >>))
      /\ sender'[c].pc = "greet" /\ sender'[c].conn = c /\ sender'[c].got = << >>
      /\ sender'[c].todo = << >>
  BY <1>1, <1>2, <1>3, SenderBecomes
<1>5. SenderGoes(c, sender'[c])
  BY <1>4 DEF SenderGoes
<1>6. alive' = [alive EXCEPT ![c] = TRUE] /\ alive \in [Conns -> BOOLEAN]
  BY SafeParts DEF NodeDial, NetType
<1>7. alive' \in [Conns -> BOOLEAN]
  BY <1>6, Zenon
<1>8. alive'[c] /\ \A d \in Conns : d # c => alive'[d] = alive[d]
  BY <1>6
<1>9. helloHash' \in [Conns -> Contents \cup {Nothing}]
  BY SafeParts DEF NodeDial, NetType, NodeType
<1> QED BY <1>1, <1>4, <1>5, <1>7, <1>8, <1>9

-----------------------------------------------------------------------------
(* What the node's steps do. *)

MasterStays == UNCHANGED << file, hash, uploadVars, masterVars, helloHash, reads >>

LEMMA ArrivingEffect ==
  ASSUME Safe, NEW type, Arriving(type)
  PROVE  /\ proc = "up" /\ link # NoConn /\ link \in Conns /\ Head(toNode[link]).type = type
         /\ toNode[link] \in Seq(PacketSet) /\ toNode[link] # << >>
         /\ Head(toNode[link]) = toNode[link][1] /\ toNode[link][1] \in PacketSet
         /\ Len(toNode[link]) \in Nat \ {0}
         /\ toNode' \in [Conns -> Seq(PacketSet)]
         /\ \A d \in Conns : Len(toNode'[d]) <= LinkCap
         /\ \A d \in Conns : d # link => toNode'[d] = toNode[d]
         /\ Len(toNode'[link]) = Len(toNode[link]) - 1
         /\ \A i \in 1 .. Len(toNode[link]) - 1 : toNode'[link][i] = toNode[link][i + 1]
<1>1. /\ toNode \in [Conns -> Seq(PacketSet)] /\ \A d \in Conns : Len(toNode[d]) <= LinkCap
      /\ link \in Conns \cup {NoConn}
  BY SafeParts DEF NetType, NodeType
<1>2. /\ proc = "up" /\ link # NoConn /\ Head(toNode[link]).type = type /\ toNode[link] # << >>
      /\ toNode' = [toNode EXCEPT ![link] = Tail(toNode[link])]
  BY DEF Arriving
<1>3. PICK c \in Conns : c = link
  BY <1>1, <1>2
<1>4. PICK old \in Seq(PacketSet) : old = toNode[c] /\ old # << >>
  BY <1>1, <1>2, <1>3
<1>5. PICK new \in Seq(PacketSet) :
        /\ new = Tail(old) /\ Len(new) = Len(old) - 1 /\ Len(old) \in Nat \ {0}
        /\ Head(old) = old[1] /\ old[1] \in PacketSet
        /\ \A i \in 1 .. Len(old) - 1 : new[i] = old[i + 1]
  <2>1. /\ Tail(old) \in Seq(PacketSet) /\ Len(Tail(old)) = Len(old) - 1 /\ Len(old) \in Nat \ {0}
        /\ Head(old) = old[1] /\ old[1] \in PacketSet
        /\ \A i \in 1 .. Len(old) - 1 : Tail(old)[i] = old[i + 1]
    BY <1>4, ListTail
  <2> QED BY <2>1
<1>6. toNode' = [toNode EXCEPT ![c] = new]
  BY <1>2, <1>3, <1>4, <1>5
<1>7. toNode' \in [Conns -> Seq(PacketSet)] /\ toNode'[c] = new
      /\ \A d \in Conns : d # c => toNode'[d] = toNode[d]
  BY <1>1, <1>6
<1>8. Len(new) <= LinkCap
  BY <1>1, <1>4, <1>5, SizesAssumption
<1>9. \A d \in Conns : Len(toNode'[d]) <= LinkCap
  BY <1>1, <1>7, <1>8
<1> QED BY <1>2, <1>3, <1>4, <1>5, <1>7, <1>9

LEMMA DataEffect ==
  ASSUME Safe, NodeData
  PROVE  /\ Arriving("data") /\ toNode[link][1].bytes \in Contents
         /\ buffer = Nothing => buffer' = toNode[link][1].bytes
         /\ buffer # Nothing => buffer \in Contents /\ buffer' = buffer \o toNode[link][1].bytes
         /\ buffer' \in Contents
         /\ MasterStays /\ UNCHANGED << alive, link, proc, running, exe, faultVars >>
<1>1. Arriving("data") /\ MasterStays /\ UNCHANGED << alive, link, proc, running, exe, faultVars >>
  BY DEF NodeData, MasterStays
<1>2. toNode[link][1] \in PacketSet /\ Head(toNode[link]) = toNode[link][1]
  BY <1>1, ArrivingEffect
<1>3. PICK bytes \in Contents : bytes = toNode[link][1].bytes
  BY <1>2 DEF PacketSet
<1>4. buffer' = IF buffer = Nothing THEN bytes ELSE buffer \o bytes
  BY <1>2, <1>3 DEF NodeData
<1>5. buffer # Nothing => buffer \in Contents /\ buffer \o bytes \in Contents
  <2>1. buffer \in Contents \cup {Nothing}
    BY SafeParts DEF NodeType
  <2> QED BY <2>1, <1>3, ConcatProperties DEF Contents
<1> QED BY <1>1, <1>3, <1>4, <1>5

LEMMA LoseEffect ==
  ASSUME Safe, LoseProcess
  PROVE  /\ link' = NoConn /\ buffer' = Nothing
         /\ alive' \in [Conns -> BOOLEAN] /\ toNode' \in [Conns -> Seq(PacketSet)]
         /\ \A c \in Conns : Len(toNode'[c]) <= LinkCap
         /\ \A c \in Conns : c # link => alive'[c] = alive[c] /\ toNode'[c] = toNode[c]
         /\ \A c \in Conns : c = link => ~ alive'[c] /\ toNode'[c] = << >>
<1>1. link' = NoConn /\ buffer' = Nothing
  BY DEF LoseProcess
<1>2. alive \in [Conns -> BOOLEAN] /\ toNode \in [Conns -> Seq(PacketSet)]
      /\ \A c \in Conns : Len(toNode[c]) <= LinkCap
  BY SafeParts DEF NetType
<1>3. alive' = [c \in Conns |-> IF c = link THEN FALSE ELSE alive[c]]
      /\ toNode' = [c \in Conns |-> IF c = link THEN << >> ELSE toNode[c]]
  BY DEF LoseProcess
<1>4. alive' \in [Conns -> BOOLEAN]
  BY <1>2, <1>3, Zenon
<1>5. \A c \in Conns : alive'[c] = IF c = link THEN FALSE ELSE alive[c]
  BY <1>3
<1>6. \A c \in Conns : toNode'[c] = IF c = link THEN << >> ELSE toNode[c]
  BY <1>3
<1>7. << >> \in Seq(PacketSet) /\ Len(<< >>) = 0 /\ 0 <= LinkCap
  BY SizesAssumption
<1>8. toNode' \in [Conns -> Seq(PacketSet)]
  BY <1>2, <1>3, <1>7
<1>9. \A c \in Conns : Len(toNode'[c]) <= LinkCap
  BY <1>2, <1>6, <1>7
<1> QED BY <1>1, <1>4, <1>5, <1>6, <1>8, <1>9

LEMMA ExecEffect ==
  ASSUME Safe, NodeExec
  PROVE  /\ proc = "exec" /\ buffer' = Nothing /\ exe' = exe /\ MasterStays
         /\ UNCHANGED faultVars
         /\ \/ LoseProcess /\ IsWhole(exe) /\ proc' = "up" /\ running' = exe
            \/ LoseProcess /\ proc' = "down" /\ running' = running
            \/ proc' = "up" /\ UNCHANGED << link, alive, toNode, running >>
BY DEF NodeExec, LoseProcess, MasterStays

LEMMA KillEffect ==
  ASSUME Safe, NodeKill
  PROVE  /\ proc # "down" /\ LoseProcess /\ exe' = exe /\ MasterStays /\ kills' = kills + 1
         /\ UNCHANGED << drops, restarts, diskFaults, sets >>
         /\ \/ IsWhole(exe) /\ proc' = "up" /\ running' = exe
            \/ proc' = "down" /\ running' = running
BY DEF NodeKill, MasterStays

LEMMA TailLost ==
  ASSUME Safe, NEW c \in Conns, LoseTail(c)
  PROVE  /\ ~ alive[c] /\ toNode[c] # << >> /\ toNode[c] \in Seq(PacketSet)
         /\ toNode' \in [Conns -> Seq(PacketSet)]
         /\ \A d \in Conns : Len(toNode'[d]) <= LinkCap
         /\ \A d \in Conns : d # c => toNode'[d] = toNode[d]
         /\ Len(toNode[c]) \in Nat \ {0} /\ Len(toNode'[c]) = Len(toNode[c]) - 1
         /\ \A i \in 1 .. Len(toNode[c]) - 1 : toNode'[c][i] = toNode[c][i]
         /\ UNCHANGED << file, hash, uploadVars, masterVars, alive, helloHash, nodeVars,
                         faultVars, reads >>
<1>1. toNode \in [Conns -> Seq(PacketSet)] /\ \A d \in Conns : Len(toNode[d]) <= LinkCap
  BY SafeParts DEF NetType
<1>2. PICK old \in Seq(PacketSet) : old = toNode[c] /\ old # << >>
  BY <1>1 DEF LoseTail
<1>3. PICK new \in Seq(PacketSet) :
        /\ new = SubSeq(old, 1, Len(old) - 1) /\ Len(old) \in Nat \ {0}
        /\ Len(new) = Len(old) - 1 /\ \A i \in 1 .. Len(old) - 1 : new[i] = old[i]
  <2>1. /\ SubSeq(old, 1, Len(old) - 1) \in Seq(PacketSet) /\ Len(old) \in Nat \ {0}
        /\ Len(SubSeq(old, 1, Len(old) - 1)) = Len(old) - 1
        /\ \A i \in 1 .. Len(old) - 1 : SubSeq(old, 1, Len(old) - 1)[i] = old[i]
    BY <1>2, ListFront
  <2> QED BY <2>1
<1>4. toNode' = [toNode EXCEPT ![c] = new]
  BY <1>2, <1>3 DEF LoseTail
<1>5. toNode' \in [Conns -> Seq(PacketSet)] /\ toNode'[c] = new
      /\ \A d \in Conns : d # c => toNode'[d] = toNode[d]
  BY <1>1, <1>4
<1>6. Len(new) <= LinkCap
  BY <1>1, <1>2, <1>3, SizesAssumption
<1>7. \A d \in Conns : Len(toNode'[d]) <= LinkCap
  BY <1>1, <1>5, <1>6
<1> QED BY <1>2, <1>3, <1>5, <1>7 DEF LoseTail

LEMMA MasterRestartEffect ==
  ASSUME Safe, MasterRestart
  PROVE  /\ restarts' = restarts + 1
         /\ uploader' \in [Uploaders -> UploaderSet] /\ \A u \in Uploaders : uploader'[u].pc = "idle"
         /\ trusted' \in BOOLEAN
         /\ trusted' => trusted /\ NoUpload
         /\ clients' = {} /\ sender' \in [Senders -> SenderSet]
         /\ \A s \in Senders :
              /\ sender'[s].conn = sender[s].conn
              /\ sender[s].pc = "none" => sender'[s] = sender[s]
              /\ sender[s].pc # "none" => /\ sender'[s].pc = "done" /\ sender'[s].got = << >>
                                          /\ sender'[s].todo = << >>
         /\ alive' \in [Conns -> BOOLEAN] /\ \A c \in Conns : ~ alive'[c]
         /\ UNCHANGED << file, hash, uploads, overlap, toNode, helloHash, nodeVars, drops,
                         kills, diskFaults, sets, reads >>
<1>1. uploader' = [u \in Uploaders |-> UploaderAt("idle", 0, 0, Nothing)]
  BY DEF MasterRestart
<1>2. UploaderAt("idle", 0, 0, Nothing) \in UploaderSet /\ UploaderAt("idle", 0, 0, Nothing).pc = "idle"
  BY DEF UploaderAt, UploaderSet
<1>3. uploader' \in [Uploaders -> UploaderSet] /\ \A u \in Uploaders : uploader'[u].pc = "idle"
  BY <1>1, <1>2
<1>4. trusted' = (trusted /\ NoUpload)
  BY DEF MasterRestart
<1>5. trusted' \in BOOLEAN
  BY <1>4, Zenon
<1>6. sender' = [s \in Senders |-> IF sender[s].pc = "none" THEN sender[s]
                                   ELSE SenderAt("done", sender[s].conn, << >>, << >>)]
  BY DEF MasterRestart
<1>7. ASSUME NEW s \in Senders
      PROVE  /\ sender'[s] \in SenderSet /\ sender'[s].conn = sender[s].conn
             /\ sender[s].pc = "none" => sender'[s] = sender[s]
             /\ sender[s].pc # "none" => /\ sender'[s].pc = "done" /\ sender'[s].got = << >>
                                         /\ sender'[s].todo = << >>
  <2>1. CASE sender[s].pc = "none"
    BY <1>6, <2>1, SenderIs
  <2>2. CASE sender[s].pc # "none"
    <3>1. PICK conn \in Conns \cup {NoConn} : conn = sender[s].conn
      BY SenderIs
    <3>2. sender'[s] = SenderAt("done", conn, << >>, << >>)
      BY <1>6, <2>2, <3>1
    <3>3. << >> \in Contents /\ << >> \in Seq(PacketSet)
      BY DEF Contents
    <3> QED BY <2>2, <3>1, <3>2, <3>3 DEF SenderAt, SenderSet, Pcs
  <2> QED BY <2>1, <2>2
<1>8. sender' \in [Senders -> SenderSet]
  BY <1>6, <1>7
<1>9. alive' = [c \in Conns |-> FALSE]
  BY DEF MasterRestart
<1>10. alive' \in [Conns -> BOOLEAN]
  BY <1>9, Zenon
<1> QED BY <1>3, <1>4, <1>5, <1>7, <1>8, <1>9, <1>10 DEF MasterRestart

-----------------------------------------------------------------------------
(* What the steps of an upload do. *)

UploaderGoes(u, up) ==
  /\ up \in UploaderSet /\ uploader' \in [Uploaders -> UploaderSet] /\ uploader'[u] = up
  /\ \A w \in Uploaders : w # u => uploader'[w] = uploader[w]
UploadOnly == UNCHANGED << masterVars, netVars, nodeVars, reads >>

LEMMA UploaderIs ==
  ASSUME Safe, NEW u \in Uploaders
  PROVE  /\ uploader \in [Uploaders -> UploaderSet] /\ uploader[u] \in UploaderSet
         /\ uploader[u].version \in Nat /\ uploader[u].at \in Nat
         /\ uploader[u].sum \in Contents \cup {Nothing}
         /\ uploads \in Nat /\ file \in Contents \cup {Nothing} /\ hash \in Contents \cup {Nothing}
BY SafeParts DEF UploadType, UploaderSet, FileType

LEMMA UploaderBecomes ==
  ASSUME Safe, NEW u \in Uploaders, NEW pc \in {"idle", "copy", "hash", "set"},
         NEW version \in Nat, NEW at \in Nat, NEW sum \in Contents \cup {Nothing},
         uploader' = [uploader EXCEPT ![u] = UploaderAt(pc, version, at, sum)]
  PROVE  /\ UploaderGoes(u, uploader'[u])
         /\ uploader'[u].pc = pc /\ uploader'[u].version = version
         /\ uploader'[u].at = at /\ uploader'[u].sum = sum
<1>1. PICK up \in UploaderSet : up = UploaderAt(pc, version, at, sum)
  BY DEF UploaderAt, UploaderSet
<1>2. uploader' \in [Uploaders -> UploaderSet] /\ uploader'[u] = up
      /\ \A w \in Uploaders : w # u => uploader'[w] = uploader[w]
  BY <1>1, UploaderIs
<1>3. up.pc = pc /\ up.version = version /\ up.at = at /\ up.sum = sum
  BY <1>1 DEF UploaderAt
<1> QED BY <1>1, <1>2, <1>3 DEF UploaderGoes

LEMMA CreateEffect ==
  ASSUME Safe, NEW u \in Uploaders, UploadCreate(u)
  PROVE  /\ uploads < MaxUploads /\ uploads' = uploads + 1 /\ uploads' \in Nat /\ file' = << >>
         /\ UploaderGoes(u, uploader'[u]) /\ uploader'[u].pc = "copy"
         /\ uploader'[u].version = uploads + 2 /\ uploader'[u].at = 0
         /\ overlap' \in {"never", "now", "before"}
         /\ overlap' # "now" => NoUpload
         /\ overlap' = "never" => overlap = "never"
         /\ UploadOnly /\ UNCHANGED << hash, trusted, faultVars >>
<1>1. PICK n \in Nat : n = uploads
  BY UploaderIs
<1>2. n + 2 \in Nat /\ n + 1 \in Nat
  OBVIOUS
<1>3. uploader' = [uploader EXCEPT ![u] = UploaderAt("copy", n + 2, 0, Nothing)]
  BY <1>1 DEF UploadCreate
<1>4. /\ UploaderGoes(u, uploader'[u]) /\ uploader'[u].pc = "copy"
      /\ uploader'[u].version = n + 2 /\ uploader'[u].at = 0
  BY <1>2, <1>3, UploaderBecomes
<1>5. overlap' = IF ~ NoUpload THEN "now" ELSE IF overlap = "never" THEN "never" ELSE "before"
  BY DEF UploadCreate
<1>6. /\ overlap' \in {"never", "now", "before"} /\ (overlap' # "now" => NoUpload)
      /\ overlap' = "never" => overlap = "never"
  BY <1>5
<1> QED BY <1>1, <1>2, <1>4, <1>6 DEF UploadCreate, UploadOnly

LEMMA CopyEffect ==
  ASSUME Safe, NEW u \in Uploaders, UploadCopy(u)
  PROVE  /\ uploader[u].pc = "copy" /\ file \in Contents
         /\ file' = WriteAt(file, uploader[u].at + 1, << uploader[u].version, uploader[u].at + 1 >>)
         /\ file' \in Contents
         /\ UploaderGoes(u, uploader'[u]) /\ uploader'[u].pc \in {"copy", "hash"}
         /\ uploader'[u].version = uploader[u].version /\ uploader'[u].at = uploader[u].at + 1
         /\ UploadOnly /\ UNCHANGED << hash, uploads, overlap, trusted, faultVars >>
<1>1. PICK version, at \in Nat : version = uploader[u].version /\ at = uploader[u].at
  BY UploaderIs
<1>2. uploader[u].pc = "copy" /\ UploadOnly
      /\ UNCHANGED << hash, uploads, overlap, trusted, faultVars >>
  BY DEF UploadCopy, UploadOnly
<1>3. file \in Contents
  BY <1>2, SafeParts, UploaderIs DEF CopyInv
<1>4. PICK i \in Nat \ {0} : i = at + 1
  BY <1>1
<1>5. PICK pc \in {"copy", "hash"} : pc = IF i = Chunks THEN "hash" ELSE "copy"
  OBVIOUS
<1>6. uploader' = [uploader EXCEPT ![u] = UploaderAt(pc, version, i, Nothing)]
      /\ file' = WriteAt(file, i, << version, i >>)
  BY <1>1, <1>4, <1>5 DEF UploadCopy
<1>7. /\ UploaderGoes(u, uploader'[u]) /\ uploader'[u].pc = pc
      /\ uploader'[u].version = version /\ uploader'[u].at = i
  <2>1. pc \in {"idle", "copy", "hash", "set"} /\ i \in Nat /\ Nothing \in Contents \cup {Nothing}
    BY <1>5
  <2> QED BY <2>1, <1>6, UploaderBecomes, ZenonT(30)
<1>8. << version, i >> \in Nat \X Nat
  BY <1>1, <1>4
<1>9. WriteAt(file, i, << version, i >>) \in Contents
  BY <1>3, <1>4, <1>8, WrittenAt
<1> QED BY <1>1, <1>2, <1>3, <1>4, <1>5, <1>6, <1>7, <1>9

LEMMA UploadStepEffect ==
  ASSUME Safe, NEW u \in Uploaders
  PROVE  /\ UploadFail(u) =>
              /\ UploaderGoes(u, uploader'[u]) /\ uploader'[u].pc = "idle" /\ trusted' = FALSE
              /\ diskFaults' = diskFaults + 1
              /\ UploadOnly
              /\ UNCHANGED << file, hash, uploads, overlap, drops, kills, restarts, sets >>
         /\ UploadHash(u) =>
              /\ UploaderGoes(u, uploader'[u]) /\ uploader'[u].pc = "set" /\ uploader'[u].sum = file
              /\ UploadOnly /\ UNCHANGED << file, hash, uploads, overlap, trusted, faultVars >>
         /\ UploadSetHash(u) =>
              /\ uploader[u].pc = "set" /\ hash' = uploader[u].sum
              /\ UploaderGoes(u, uploader'[u]) /\ uploader'[u].pc = "idle"
              /\ trusted' \in BOOLEAN /\ (trusted' => overlap # "now")
              /\ UploadOnly /\ UNCHANGED << file, uploads, overlap, faultVars >>
<1>1. ASSUME UploadFail(u) \/ UploadSetHash(u)
      PROVE  UploaderGoes(u, uploader'[u]) /\ uploader'[u].pc = "idle"
  <2>1. uploader' = [uploader EXCEPT ![u] = UploaderAt("idle", 0, 0, Nothing)]
    BY <1>1 DEF UploadFail, UploadSetHash
  <2> QED BY <2>1, UploaderBecomes
<1>2. ASSUME UploadHash(u)
      PROVE  UploaderGoes(u, uploader'[u]) /\ uploader'[u].pc = "set" /\ uploader'[u].sum = file
  <2>1. PICK sum \in Contents \cup {Nothing} : sum = file
    BY UploaderIs
  <2>2. uploader' = [uploader EXCEPT ![u] = UploaderAt("set", 0, 0, sum)]
    BY <1>2, <2>1 DEF UploadHash
  <2> QED BY <2>1, <2>2, UploaderBecomes
<1>3. UploadFail(u) =>
        /\ trusted' = FALSE /\ diskFaults' = diskFaults + 1
        /\ UploadOnly
        /\ UNCHANGED << file, hash, uploads, overlap, drops, kills, restarts, sets >>
  BY DEF UploadFail, UploadOnly
<1>4. UploadHash(u) =>
        UploadOnly /\ UNCHANGED << file, hash, uploads, overlap, trusted, faultVars >>
  BY DEF UploadHash, UploadOnly
<1>5. UploadSetHash(u) => /\ uploader[u].pc = "set" /\ hash' = uploader[u].sum
                          /\ UploadOnly /\ UNCHANGED << file, uploads, overlap, faultVars >>
  BY DEF UploadSetHash, UploadOnly
<1>6. UploadSetHash(u) => trusted' \in BOOLEAN /\ (trusted' => overlap # "now")
  <2>1. UploadSetHash(u) => trusted' = (overlap # "now")
    BY DEF UploadSetHash
  <2> QED BY <2>1, Zenon
<1> QED BY <1>1, <1>2, <1>3, <1>4, <1>5, <1>6

-----------------------------------------------------------------------------
(* Safe is inductive. *)

LEMMA InitSafe == Init => Safe
<1> SUFFICES ASSUME Init PROVE Safe
  OBVIOUS
<1>1. file \in {Nothing, Whole(1)} /\ Whole(1) \in Contents /\ Whole(0) \in Contents
  BY WholeIs DEF Init
<1>2. FileType /\ file \in Contents \cup {Nothing}
  BY <1>1 DEF Init, FileType
<1>3. \A u \in Uploaders : uploader[u] \in UploaderSet /\ uploader[u].pc = "idle"
  BY DEF Init, UploaderAt, UploaderSet
<1>4. UploadType
  BY <1>3 DEF Init, UploadType
<1>5. << >> \in Contents /\ << >> \in Seq(PacketSet) /\ Len(<< >>) = 0 /\ 0 <= LinkCap
  BY SizesAssumption DEF Contents
<1>6. \A s \in Senders : sender[s] = SenderAt("none", NoConn, << >>, << >>)
  BY DEF Init
<1>7. \A s \in Senders : sender[s] \in SenderSet /\ sender[s].pc = "none"
  <2>1. SenderAt("none", NoConn, << >>, << >>) \in SenderSet
    BY <1>5 DEF SenderAt, SenderSet, Pcs
  <2>2. SenderAt("none", NoConn, << >>, << >>).pc = "none"
    BY DEF SenderAt
  <2> QED BY <1>6, <2>1, <2>2
<1>8. MasterType
  BY <1>7 DEF Init, MasterType
<1>9. alive \in [Conns -> BOOLEAN]
  BY Zenon DEF Init
<1>10. NetType
  BY <1>5, <1>9 DEF Init, NetType
<1>11. NodeType
  BY <1>1 DEF Init, NodeType
<1>12. FaultType /\ ReadsType
  BY DEF Init, FaultType, ReadsType
<1>13. SenderInv
  BY <1>7 DEF SenderInv, SenderOK
<1>14. CopyInv
  BY <1>3 DEF CopyInv
<1> QED BY <1>2, <1>4, <1>8, <1>10, <1>11, <1>12, <1>13, <1>14, Types DEF Safe

LEMMA Together ==
  ASSUME FileType', UploadType', MasterType', NetType', NodeType', FaultType', ReadsType',
         SenderInv', CopyInv'
  PROVE  Safe'
BY NextTypes DEF Safe

(* The numbers of faults are numbers. *)
LEMMA FaultsCount ==
  ASSUME Safe
  PROVE  /\ UNCHANGED << drops, kills, restarts, sets >> /\ diskFaults' = diskFaults + 1 => FaultType'
         /\ UNCHANGED << drops, kills, restarts, diskFaults >> /\ sets' = sets + 1 => FaultType'
         /\ UNCHANGED << drops, restarts, diskFaults, sets >> /\ kills' = kills + 1 => FaultType'
         /\ UNCHANGED << kills, restarts, diskFaults, sets >> /\ drops' = drops + 1 => FaultType'
         /\ UNCHANGED << drops, kills, diskFaults, sets >> /\ restarts' = restarts + 1 => FaultType'
<1>1. drops \in Nat /\ kills \in Nat /\ restarts \in Nat /\ diskFaults \in Nat /\ sets \in Nat
  BY SafeParts DEF FaultType
<1> QED BY <1>1 DEF FaultType

LEMMA UploadsAreSafe ==
  ASSUME Safe, NEW u \in Uploaders,
         UploadCreate(u) \/ Upload(u) \/ UploadFail(u)
  PROVE  Safe'
<1>1. << >> \in Contents /\ << >> # Nothing
  <2>1. << >> \in Contents
    BY DEF Contents
  <2> QED BY <2>1, ContentsAssumption
<1>2. /\ UploadOnly /\ UploaderGoes(u, uploader'[u]) /\ FaultType' /\ trusted' \in BOOLEAN
      /\ uploads' \in Nat /\ overlap' \in {"never", "now", "before"}
  <2>1. CASE UploadCreate(u)
    BY <2>1, CreateEffect, Untouched, SafeParts DEF UploadType
  <2>2. CASE UploadCopy(u)
    BY <2>2, CopyEffect, Untouched, SafeParts DEF UploadType
  <2>3. CASE UploadHash(u)
    BY <2>3, UploadStepEffect, Untouched, SafeParts DEF UploadType
  <2>4. CASE UploadSetHash(u)
    BY <2>4, UploadStepEffect, Untouched, SafeParts DEF UploadType
  <2>5. CASE UploadFail(u)
    BY <2>5, UploadStepEffect, FaultsCount, SafeParts DEF UploadType
  <2> QED BY <2>1, <2>2, <2>3, <2>4, <2>5 DEF Upload
<1>3. UploadType'
  BY <1>2 DEF UploadType, UploaderGoes
<1>4. FileType' /\ (uploader'[u].pc \in {"copy", "hash"} => file' # Nothing)
      /\ (file # Nothing => file' # Nothing)
  <2>1. CASE UploadCreate(u)
    BY <1>1, <2>1, CreateEffect, UploaderIs DEF FileType
  <2>2. CASE UploadCopy(u)
    BY <2>2, CopyEffect, UploaderIs, ContentsAssumption DEF FileType
  <2>3. CASE UploadHash(u)
    BY <2>3, UploadStepEffect, Untouched, SafeParts
  <2>4. CASE UploadSetHash(u)
    BY <2>4, UploadStepEffect, UploaderIs DEF FileType
  <2>5. CASE UploadFail(u)
    BY <2>5, UploadStepEffect, Untouched
  <2> QED BY <2>1, <2>2, <2>3, <2>4, <2>5 DEF Upload
<1>5. CopyInv'
  BY <1>2, <1>4, SafeParts DEF CopyInv, UploaderGoes
<1>6. MasterType' /\ SenderInv' /\ NetType' /\ NodeType' /\ ReadsType'
  BY <1>2, Untouched DEF UploadOnly
<1> QED BY <1>2, <1>3, <1>4, <1>5, <1>6, Together

LEMMA HashSetIsSafe ==
  ASSUME Safe, NEW h \in AdminHashes, SetNodeHash(h)
  PROVE  Safe'
<1>1. UNCHANGED << file, uploads, uploader, overlap, masterVars, netVars, nodeVars, drops, kills,
                   restarts, diskFaults, reads >>
      /\ sets' = sets + 1 /\ hash' = h /\ trusted' = FALSE
  BY DEF SetNodeHash
<1>2. FileType' /\ UploadType' /\ FaultType'
  BY <1>1, SafeParts, FaultsCount, ContentsAssumption DEF FileType, UploadType
<1> QED BY <1>1, <1>2, Untouched, Together

(* A step of the master that only moves one call on. *)
LEMMA MasterOnlyIsSafe ==
  ASSUME Safe, NEW s \in Senders, MasterOnly, SenderGoes(s, sender'[s]), clients' \subseteq Conns,
         ReadsType', SenderOK(s)'
  PROVE  Safe'
<1>1. FileType' /\ UploadType' /\ NetType' /\ NodeType' /\ FaultType' /\ CopyInv'
  BY Untouched DEF MasterOnly, uploadVars
<1>2. MasterType' /\ SenderInv'
  BY OthersSend DEF MasterType, SenderGoes
<1> QED BY <1>1, <1>2, Together

LEMMA CallsAreSafe ==
  ASSUME Safe, NEW s \in Senders,
         \/ s \in Conns /\ Hello(s)
         \/ s \in Requests /\ RequestStart(s)
         \/ SenderRead(s)
  PROVE  Safe'
<1>1. SenderOK(s) /\ sender[s].got \in Contents /\ clients \subseteq Conns /\ ReadsType
  BY SenderIs, SafeParts DEF MasterType
<1>2. CASE s \in Conns /\ HelloRegister(s)
  <2>1. SenderOK(s)'
    BY <1>1, <1>2, RegisterEffect DEF SenderOK
  <2> QED BY <1>1, <1>2, <2>1, RegisterEffect, MasterOnlyIsSafe DEF ReadsType
<1>3. CASE s \in Conns /\ HelloCompare(s)
  <2>1. SenderOK(s)'
    BY <1>1, <1>3, CompareEffect DEF SenderOK
  <2> QED BY <1>1, <1>3, <2>1, CompareEffect, MasterOnlyIsSafe DEF ReadsType
<1>4. CASE s \in Requests /\ RequestStart(s)
  <2>1. SenderOK(s)'
    BY <1>1, <1>4, RequestEffect DEF SenderOK
  <2> QED BY <1>1, <1>4, <2>1, RequestEffect, MasterOnlyIsSafe DEF ReadsType
<1>5. CASE SenderRead(s)
  <2>1. Packets(sender[s].got) # << >>
    BY <1>1, PacketsAre
  <2>2. SenderOK(s)'
    BY <1>1, <1>5, <2>1, ReadEffect DEF SenderOK
  <2>3. ReadsType'
    BY <1>1, <1>5, ReadEffect DEF ReadsType
  <2> QED BY <1>1, <1>5, <2>2, <2>3, ReadEffect, MasterOnlyIsSafe
<1> QED BY <1>2, <1>3, <1>4, <1>5 DEF Hello

LEMMA SendIsSafe ==
  ASSUME Safe, NEW s \in Senders, SenderSend(s)
  PROVE  Safe'
<1>1. SenderOK(s) /\ clients \subseteq Conns
  BY SenderIs, SafeParts DEF MasterType
<1>2. SenderOK(s)'
  BY <1>1, SendEffect DEF SenderOK
<1>3. MasterType' /\ SenderInv'
  BY <1>1, <1>2, SendEffect, OthersSend DEF MasterType, SenderGoes
<1>4. UNCHANGED << file, hash, uploadVars, clients, alive, helloHash, nodeVars, faultVars, reads >>
  BY SendEffect
<1>5. toNode' \in [Conns -> Seq(PacketSet)] /\ \A d \in Conns : Len(toNode'[d]) <= LinkCap
  <2>1. PICK c \in Conns : c = sender[s].conn
    BY SendEffect
  <2>2. CASE toNode' = toNode
    BY <2>2, SafeParts DEF NetType
  <2>3. CASE /\ Len(toNode[c]) < LinkCap /\ Head(sender[s].todo) \in PacketSet
             /\ toNode' = [toNode EXCEPT ![c] = Append(toNode[c], Head(sender[s].todo))]
    BY <2>3, Delivered
  <2> QED BY <2>1, <2>2, <2>3, SendEffect
<1>6. NetType'
  BY <1>4, <1>5, SafeParts DEF NetType
<1>7. FileType' /\ UploadType' /\ NodeType' /\ FaultType' /\ ReadsType' /\ CopyInv'
  BY <1>4, Untouched DEF uploadVars
<1> QED BY <1>3, <1>6, <1>7, Together

LEMMA DialIsSafe ==
  ASSUME Safe, NEW c \in Conns, NodeDial(c)
  PROVE  Safe'
<1>1. SenderOK(c)' /\ c \in Senders
  BY DialEffect DEF SenderOK
<1>2. MasterType' /\ SenderInv'
  BY <1>1, DialEffect, OthersSend, SafeParts DEF MasterType, SenderGoes
<1>3. NetType' /\ NodeType'
  BY DialEffect, SafeParts DEF NetType, NodeType
<1>4. UNCHANGED << file, hash, uploadVars, faultVars, reads >>
  BY DialEffect
<1>5. FileType' /\ UploadType' /\ FaultType' /\ ReadsType' /\ CopyInv'
  BY <1>4, Untouched DEF uploadVars
<1> QED BY <1>2, <1>3, <1>5, Together

(* A step of the node leaves the master alone. *)
LEMMA MasterStaysSafe ==
  ASSUME Safe, MasterStays, NetType', NodeType', FaultType'
  PROVE  Safe'
BY Untouched, Together DEF MasterStays, uploadVars

LEMMA NodeStepsAreSafe ==
  ASSUME Safe, NodeStep \/ NodeKill
  PROVE  Safe'
<1>1. /\ NetType /\ NodeType /\ FaultType /\ alive \in [Conns -> BOOLEAN]
      /\ helloHash \in [Conns -> Contents \cup {Nothing}]
  BY SafeParts DEF NetType
<1>2. CASE NodeData
  <2>1. MasterStays /\ buffer' \in Contents /\ UNCHANGED << alive, link, proc, running, exe, faultVars >>
        /\ Arriving("data")
    BY <1>2, DataEffect
  <2>2. NetType'
    BY <1>1, <2>1, ArrivingEffect DEF NetType, MasterStays
  <2>3. NodeType'
    BY <1>1, <2>1 DEF NodeType
  <2> QED BY <2>1, <2>2, <2>3, Untouched, MasterStaysSafe
<1>3. CASE NodeEndUnknown
  <2>1. MasterStays /\ UNCHANGED << nodeVars, alive, faultVars >> /\ Arriving("end")
    BY <1>3 DEF NodeEndUnknown, MasterStays
  <2>2. NetType'
    BY <1>1, <2>1, ArrivingEffect DEF NetType, MasterStays
  <2> QED BY <2>1, <2>2, Untouched, MasterStaysSafe
<1>4. CASE NodeEnd
  <2>1. MasterStays /\ UNCHANGED << link, running, buffer, alive, faultVars >> /\ Arriving("end")
        /\ exe' = Nothing /\ proc' = "write"
    BY <1>4 DEF NodeEnd, MasterStays
  <2>2. NetType'
    BY <1>1, <2>1, ArrivingEffect DEF NetType, MasterStays
  <2>3. NodeType'
    BY <1>1, <2>1 DEF NodeType
  <2> QED BY <2>1, <2>2, <2>3, Untouched, MasterStaysSafe
<1>5. CASE NodeWrite
  <2>1. MasterStays /\ UNCHANGED << netVars, link, running, buffer, drops, kills, restarts, sets >>
        /\ proc' = "exec" /\ diskFaults' \in {diskFaults, diskFaults + 1} /\ exe' \in {buffer, << >>}
    BY <1>5 DEF NodeWrite, MasterStays, netVars
  <2>2. FaultType'
    BY <2>1, FaultsCount, Untouched DEF faultVars
  <2>3. NodeType'
    <3>1. << >> \in Contents
      BY DEF Contents
    <3> QED BY <1>1, <2>1, <3>1 DEF NodeType
  <2> QED BY <2>1, <2>2, <2>3, Untouched, MasterStaysSafe
<1>6. CASE NodeExec
  <2>1. MasterStays /\ buffer' = Nothing /\ exe' = exe /\ UNCHANGED faultVars
    BY <1>6, ExecEffect
  <2>2. NetType' /\ link' \in Conns \cup {NoConn}
    <3>1. CASE LoseProcess
      BY <1>1, <2>1, <3>1, LoseEffect DEF NetType, MasterStays
    <3>2. CASE UNCHANGED << link, alive, toNode >>
      BY <1>1, <2>1, <3>2 DEF NetType, NodeType, MasterStays
    <3> QED BY <1>6, <3>1, <3>2, ExecEffect
  <2>3. proc' \in {"up", "down"} /\ running' \in Contents
    BY <1>1, <1>6, ExecEffect, WholeContent DEF NodeType
  <2>4. NodeType'
    BY <1>1, <2>1, <2>2, <2>3 DEF NodeType
  <2> QED BY <2>1, <2>2, <2>4, Untouched, MasterStaysSafe
<1>7. CASE NodeKill
  <2>1. MasterStays /\ exe' = exe /\ LoseProcess /\ kills' = kills + 1
        /\ UNCHANGED << drops, restarts, diskFaults, sets >>
    BY <1>7, KillEffect
  <2>2. NetType' /\ link' = NoConn /\ buffer' = Nothing
    BY <1>1, <2>1, LoseEffect DEF NetType, MasterStays
  <2>3. proc' \in {"up", "down"} /\ running' \in Contents
    BY <1>1, <1>7, KillEffect, WholeContent DEF NodeType
  <2>4. NodeType'
    BY <1>1, <2>1, <2>2, <2>3 DEF NodeType
  <2> QED BY <2>1, <2>2, <2>4, FaultsCount, MasterStaysSafe
<1>8. CASE NodeEOF
  <2>1. MasterStays /\ UNCHANGED << netVars, proc, running, exe, buffer, faultVars >> /\ link' = NoConn
    BY <1>8 DEF NodeEOF, MasterStays, netVars
  <2>2. NodeType'
    BY <1>1, <2>1 DEF NodeType
  <2> QED BY <2>1, <2>2, Untouched, MasterStaysSafe
<1> QED BY <1>2, <1>3, <1>4, <1>5, <1>6, <1>7, <1>8 DEF NodeStep

LEMMA FaultsAreSafe ==
  ASSUME Safe, (\E c \in Conns : Drop(c) \/ LoseTail(c)) \/ MasterRestart
  PROVE  Safe'
<1>1. /\ NetType /\ alive \in [Conns -> BOOLEAN] /\ UploadType /\ MasterType
  BY SafeParts DEF NetType
<1>2. ASSUME NEW c \in Conns, Drop(c)
      PROVE  Safe'
  <2>1. UNCHANGED << file, hash, uploadVars, masterVars, toNode, helloHash, nodeVars,
                     kills, restarts, diskFaults, sets, reads >> /\ drops' = drops + 1
        /\ alive' = [alive EXCEPT ![c] = FALSE]
    BY <1>2 DEF Drop
  <2>2. alive' \in [Conns -> BOOLEAN]
    BY <1>1, <2>1, Zenon
  <2>3. NetType'
    BY <1>1, <2>1, <2>2 DEF NetType
  <2> QED BY <2>1, <2>3, FaultsCount, Untouched, Together DEF uploadVars
<1>3. ASSUME NEW c \in Conns, LoseTail(c)
      PROVE  Safe'
  <2>1. UNCHANGED << file, hash, uploadVars, masterVars, alive, helloHash, nodeVars, faultVars, reads >>
    BY <1>3, TailLost
  <2>2. NetType'
    BY <1>1, <1>3, <2>1, TailLost DEF NetType
  <2> QED BY <2>1, <2>2, Untouched, Together DEF uploadVars
<1>4. ASSUME MasterRestart
      PROVE  Safe'
  <2>1. UNCHANGED << file, hash, uploads, toNode, helloHash, nodeVars, drops, kills, diskFaults,
                     sets, reads >> /\ restarts' = restarts + 1
    BY <1>4, MasterRestartEffect
  <2>2. UploadType' /\ CopyInv' /\ MasterType'
    <3>1. UploadType'
      BY <1>1, <1>4, MasterRestartEffect DEF UploadType
    <3>2. CopyInv'
      <4>1. \A u \in Uploaders : uploader'[u].pc = "idle"
        BY <1>4, MasterRestartEffect
      <4> QED BY <4>1 DEF CopyInv
    <3>3. MasterType'
      BY <1>4, MasterRestartEffect DEF MasterType
    <3> QED BY <3>1, <3>2, <3>3
  <2>3. NetType'
    BY <1>1, <1>4, MasterRestartEffect DEF NetType
  <2>4. SenderInv'
    <3>1. ASSUME NEW s \in Senders PROVE SenderOK(s)'
      BY <1>4, <3>1, MasterRestartEffect, SenderIs DEF SenderOK
    <3> QED BY <3>1 DEF SenderInv
  <2> QED BY <2>1, <2>2, <2>3, <2>4, FaultsCount, Untouched, Together
<1> QED BY <1>2, <1>3, <1>4

LEMMA StutterIsSafe ==
  ASSUME Safe, UNCHANGED vars
  PROVE  Safe'
BY Untouched, Together DEF vars, uploadVars

LEMMA SafeStep == Safe /\ [Next]_vars => Safe'
<1> SUFFICES ASSUME Safe, [Next]_vars PROVE Safe'
  OBVIOUS
<1>1. CASE \E u \in Uploaders : UploadCreate(u) \/ Upload(u) \/ UploadFail(u)
  BY <1>1, UploadsAreSafe
<1>2. CASE \E h \in AdminHashes : SetNodeHash(h)
  BY <1>2, HashSetIsSafe
<1>3. CASE \E c \in Conns : Hello(c) \/ NodeDial(c)
  BY <1>3, CallsAreSafe, DialIsSafe DEF Senders
<1>4. CASE \E r \in Requests : RequestStart(r)
  BY <1>4, CallsAreSafe DEF Senders
<1>5. CASE \E s \in Senders : SenderStep(s)
  BY <1>5, CallsAreSafe, SendIsSafe DEF SenderStep
<1>6. CASE NodeStep \/ NodeKill
  BY <1>6, NodeStepsAreSafe
<1>7. CASE (\E c \in Conns : Drop(c) \/ LoseTail(c)) \/ MasterRestart
  BY <1>7, FaultsAreSafe
<1>8. CASE UNCHANGED vars
  BY <1>8, StutterIsSafe
<1> QED BY <1>1, <1>2, <1>3, <1>4, <1>5, <1>6, <1>7, <1>8 DEF Next

(* In every reachable state the types, the uploads' records and the copies  *)
(* on the nodes are as Safe describes them.                                 *)
THEOREM AlwaysSafe == Spec => []Safe
BY InitSafe, SafeStep, PTL DEF Spec

(* Type correctness; and a socket never holds more than it has room for,   *)
(* so a stalled node holds its senders back.                               *)
THEOREM TypeCorrect == Spec => []TypeOK
<1>1. Safe => TypeOK
  BY DEF Safe
<1> QED BY <1>1, AlwaysSafe, PTL

-----------------------------------------------------------------------------
(* The hash and the file. *)

(* Only an upload, set-hash and a restart touch what is published.         *)
LEMMA PublishedBy ==
  ASSUME [Next]_vars
  PROVE  \/ \E u \in Uploaders : UploadCreate(u) \/ Upload(u) \/ UploadFail(u)
         \/ \E h \in AdminHashes : SetNodeHash(h)
         \/ MasterRestart
         \/ UNCHANGED << file, hash, uploadVars >>
<1>1. ASSUME NEW c \in Conns, Hello(c) \/ NodeDial(c) \/ Drop(c) \/ LoseTail(c)
      PROVE  UNCHANGED << file, hash, uploadVars >>
  BY <1>1 DEF Hello, HelloRegister, HelloCompare, NodeDial, Drop, LoseTail
<1>2. ASSUME NEW s \in Senders, SenderStep(s)
      PROVE  UNCHANGED << file, hash, uploadVars >>
  BY <1>2 DEF SenderStep, SenderRead, SenderSend
<1>3. ASSUME NEW r \in Requests, RequestStart(r)
      PROVE  UNCHANGED << file, hash, uploadVars >>
  BY <1>3 DEF RequestStart
<1>4. ASSUME NodeStep \/ NodeKill
      PROVE  UNCHANGED << file, hash, uploadVars >>
  BY <1>4 DEF NodeStep, NodeKill, NodeData, NodeEndUnknown, NodeEnd, NodeWrite, NodeExec, NodeEOF
<1>5. ASSUME UNCHANGED vars
      PROVE  UNCHANGED << file, hash, uploadVars >>
  BY <1>5 DEF vars
<1> QED BY <1>1, <1>2, <1>3, <1>4, <1>5 DEF Next

(* An upload that moves on has the others where they were.                 *)
LEMMA UploaderAlone ==
  ASSUME NEW u \in Uploaders, UploaderGoes(u, uploader'[u]), OneUpload,
         uploader[u].pc # "idle" \/ NoUpload
  PROVE  /\ OneUpload'
         /\ \A w \in Uploaders : w # u => uploader'[w].pc = "idle"
<1>1. \A w \in Uploaders : w # u => uploader[w].pc = "idle"
  BY DEF OneUpload, NoUpload
<1>2. \A w \in Uploaders : w # u => uploader'[w].pc = "idle"
  BY <1>1 DEF UploaderGoes
<1> QED BY <1>2 DEF OneUpload

(* Once uploads have overlapped, they have done so ever after.             *)
LEMMA OverlapStays ==
  ASSUME Safe, [Next]_vars, overlap' = "never"
  PROVE  overlap = "never"
<1>1. ASSUME NEW u \in Uploaders, UploadCreate(u)
      PROVE  overlap = "never"
  BY <1>1, CreateEffect
<1>2. ASSUME NEW u \in Uploaders, Upload(u) \/ UploadFail(u)
      PROVE  overlap = "never"
  BY <1>2 DEF Upload, UploadCopy, UploadHash, UploadSetHash, UploadFail
<1>3. ASSUME NEW h \in AdminHashes, SetNodeHash(h)
      PROVE  overlap = "never"
  BY <1>3 DEF SetNodeHash
<1>4. ASSUME MasterRestart
      PROVE  overlap = "never"
  BY <1>4 DEF MasterRestart
<1>5. ASSUME UNCHANGED << file, hash, uploadVars >>
      PROVE  overlap = "never"
  BY <1>5 DEF uploadVars
<1> QED BY <1>1, <1>2, <1>3, <1>4, <1>5, PublishedBy

LEMMA HashStep ==
  ASSUME Safe, HashInv, [Next]_vars
  PROVE  HashInv'
<1>1. ASSUME NEW u \in Uploaders, UploaderGoes(u, uploader'[u]), uploader'[u].pc # "idle",
             overlap' # "now" => (uploader[u].pc # "idle" /\ overlap # "now") \/ NoUpload,
             uploader'[u].pc = "set" => uploader'[u].sum = file'
      PROVE  HashInv'
  <2>1. ~ NoUpload'
    BY <1>1 DEF NoUpload
  <2>2. ASSUME overlap' # "now"
        PROVE  OneUpload' /\ \A w \in Uploaders : uploader'[w].pc = "set" => uploader'[w].sum = file'
    <3>1. OneUpload
      BY <1>1, <2>2 DEF HashInv, OneUpload, NoUpload
    <3>2. OneUpload' /\ \A w \in Uploaders : w # u => uploader'[w].pc = "idle"
      BY <1>1, <2>2, <3>1, UploaderAlone
    <3> QED BY <1>1, <3>2
  <2> QED BY <2>1, <2>2 DEF HashInv, HashDescribesFile
<1>2. ASSUME NEW u \in Uploaders, UploaderGoes(u, uploader'[u]), uploader'[u].pc = "idle",
             uploader[u].pc # "idle", overlap' = overlap, file' = file,
             trusted' => overlap # "now" /\ uploader[u].pc = "set" /\ hash' = uploader[u].sum
      PROVE  HashInv'
  <2>1. HashDescribesFile'
    BY <1>2 DEF HashInv, HashDescribesFile
  <2>2. ASSUME overlap' # "now"
        PROVE  OneUpload' /\ \A w \in Uploaders : uploader'[w].pc = "set" => uploader'[w].sum = file'
    <3>1. OneUpload
      BY <1>2, <2>2 DEF HashInv
    <3>2. OneUpload' /\ \A w \in Uploaders : w # u => uploader'[w].pc = "idle"
      BY <1>2, <3>1, UploaderAlone
    <3> QED BY <1>2, <3>2
  <2> QED BY <2>1, <2>2 DEF HashInv
<1>3. ASSUME NEW u \in Uploaders, UploadCreate(u)
      PROVE  HashInv'
  <2>1. /\ UploaderGoes(u, uploader'[u]) /\ uploader'[u].pc = "copy"
        /\ overlap' # "now" => NoUpload
    BY <1>3, CreateEffect
  <2> QED BY <1>1, <2>1
<1>4. ASSUME NEW u \in Uploaders, UploadCopy(u)
      PROVE  HashInv'
  <2>1. /\ UploaderGoes(u, uploader'[u]) /\ uploader'[u].pc \in {"copy", "hash"}
        /\ uploader[u].pc = "copy" /\ overlap' = overlap
    BY <1>4, CopyEffect
  <2> QED BY <1>1, <2>1
<1>5. ASSUME NEW u \in Uploaders, UploadHash(u)
      PROVE  HashInv'
  <2>1. /\ UploaderGoes(u, uploader'[u]) /\ uploader'[u].pc = "set" /\ uploader'[u].sum = file'
        /\ overlap' = overlap
    BY <1>5, UploadStepEffect
  <2>2. uploader[u].pc = "hash"
    BY <1>5 DEF UploadHash
  <2> QED BY <1>1, <2>1, <2>2
<1>6. ASSUME NEW u \in Uploaders, UploadFail(u)
      PROVE  HashInv'
  <2>1. /\ UploaderGoes(u, uploader'[u]) /\ uploader'[u].pc = "idle" /\ trusted' = FALSE
        /\ overlap' = overlap /\ file' = file
    BY <1>6, UploadStepEffect
  <2>2. uploader[u].pc = "copy"
    BY <1>6 DEF UploadFail
  <2> QED BY <1>2, <2>1, <2>2
<1>7. ASSUME NEW u \in Uploaders, UploadSetHash(u)
      PROVE  HashInv'
  <2>1. /\ UploaderGoes(u, uploader'[u]) /\ uploader'[u].pc = "idle" /\ uploader[u].pc = "set"
        /\ hash' = uploader[u].sum /\ (trusted' => overlap # "now")
        /\ overlap' = overlap /\ file' = file
    BY <1>7, UploadStepEffect
  <2> QED BY <1>2, <2>1
<1>8. ASSUME NEW h \in AdminHashes, SetNodeHash(h)
      PROVE  HashInv'
  BY <1>8 DEF SetNodeHash, HashInv, HashDescribesFile, NoUpload, OneUpload
<1>9. ASSUME MasterRestart
      PROVE  HashInv'
  <2>1. /\ file' = file /\ hash' = hash /\ \A u \in Uploaders : uploader'[u].pc = "idle"
        /\ trusted' => trusted /\ NoUpload
    BY <1>9, MasterRestartEffect
  <2> QED BY <2>1 DEF HashInv, HashDescribesFile, OneUpload
<1>10. ASSUME UNCHANGED << file, hash, uploadVars >>
       PROVE  HashInv'
  BY <1>10 DEF uploadVars, HashInv, HashDescribesFile, NoUpload, OneUpload
<1> QED BY <1>3, <1>4, <1>5, <1>6, <1>7, <1>8, <1>9, <1>10, PublishedBy DEF Upload

(* However many uploads may run at a time, the stored hash is that of the  *)
(* stored file whenever no upload is under way, but for hashes set by      *)
(* hand, uploads that failed or ran into each other and crashes of the     *)
(* master amid one; and the next upload that no other overlaps makes it so *)
(* again.                                                                  *)
THEOREM HashIsOfTheFile == Spec => []HashDescribesFile
<1>1. Init => HashInv
  <2> SUFFICES ASSUME Init PROVE HashInv
    OBVIOUS
  <2>1. hash = file /\ \A u \in Uploaders : uploader[u].pc = "idle"
    BY DEF Init, UploaderAt
  <2> QED BY <2>1 DEF HashInv, HashDescribesFile, OneUpload
<1>2. Safe /\ HashInv /\ [Next]_vars => HashInv'
  BY HashStep
<1>3. HashInv => HashDescribesFile
  BY DEF HashInv
<1> QED BY <1>1, <1>2, <1>3, AlwaysSafe, PTL DEF Spec

LEMMA FileStep ==
  ASSUME Safe, FileInv, [Next]_vars, overlap' = "never"
  PROVE  FileInv'
<1>0. OneUpload
  BY DEF FileInv
<1>1. uploads \in Nat
  BY SafeParts DEF UploadType
<1>2. ASSUME NEW u \in Uploaders, UploadCreate(u)
      PROVE  FileInv'
  <2>1. file' = << >> /\ Len(<< >>) = 0 /\ uploads' = uploads + 1
        /\ uploader'[u].version = uploads + 2 /\ uploader'[u].at = 0
    BY <1>2, CreateEffect
  <2>2. OneUpload' /\ \A w \in Uploaders : w # u => uploader'[w].pc = "idle"
    <3>1. NoUpload /\ UploaderGoes(u, uploader'[u])
      BY <1>2, CreateEffect
    <3> QED BY <1>0, <3>1, UploaderAlone
  <2>3. uploads + 2 = uploads' + 1
    BY <1>1, <2>1
  <2> QED BY <2>1, <2>2, <2>3 DEF FileInv
<1>3. ASSUME NEW u \in Uploaders, UploadCopy(u)
      PROVE  FileInv'
  <2>1. PICK content \in Contents : content = file
    BY <1>3, CopyEffect
  <2>2. PICK n \in Nat : n = Len(content) /\ \A j \in 1 .. n : content[j][1] = uploads + 1
    BY <2>1, ListDomain, ContentsAssumption DEF Contents, FileInv
  <2>3. uploader[u].version = uploads + 1 /\ uploader[u].at = n
    BY <1>3, <2>1, <2>2, CopyEffect DEF FileInv
  <2>4. << uploads + 1, n + 1 >> \in Nat \X Nat /\ n + 1 \in Nat \ {0}
    BY <1>1
  <2>5. PICK new \in Contents : new = WriteAt(content, n + 1, << uploads + 1, n + 1 >>)
    BY <2>4, WrittenAt
  <2>6. /\ Len(new) = n + 1 /\ new[n + 1] = << uploads + 1, n + 1 >>
        /\ \A j \in 1 .. n : new[j] = content[j]
    BY <2>2, <2>4, <2>5, WrittenAt, SMTT(30)
  <2>7. \A j \in 1 .. n + 1 : new[j][1] = uploads + 1
    BY <2>2, <2>6
  <2>8. file' = new /\ uploads' = uploads
        /\ uploader'[u].version = uploads + 1 /\ uploader'[u].at = n + 1
    BY <1>3, <2>1, <2>3, <2>5, CopyEffect
  <2>9. OneUpload' /\ \A w \in Uploaders : w # u => uploader'[w].pc = "idle"
    <3>1. uploader[u].pc = "copy" /\ UploaderGoes(u, uploader'[u])
      BY <1>3, CopyEffect
    <3> QED BY <1>0, <3>1, UploaderAlone
  <2> QED BY <2>6, <2>7, <2>8, <2>9 DEF FileInv
<1>4. ASSUME NEW u \in Uploaders, UploadHash(u) \/ UploadSetHash(u) \/ UploadFail(u)
      PROVE  FileInv'
  <2>1. uploader'[u].pc # "copy" /\ file' = file /\ uploads' = uploads
    BY <1>4, UploadStepEffect
  <2>2. OneUpload' /\ \A w \in Uploaders : w # u => uploader'[w].pc = "idle"
    <3>1. uploader[u].pc # "idle"
      BY <1>4 DEF UploadHash, UploadSetHash, UploadFail
    <3>2. UploaderGoes(u, uploader'[u])
      BY <1>4, UploadStepEffect
    <3> QED BY <1>0, <3>1, <3>2, UploaderAlone
  <2> QED BY <2>1, <2>2 DEF FileInv
<1>5. ASSUME NEW h \in AdminHashes, SetNodeHash(h)
      PROVE  FileInv'
  BY <1>5 DEF SetNodeHash, FileInv, OneUpload
<1>6. ASSUME MasterRestart
      PROVE  FileInv'
  <2>1. file' = file /\ uploads' = uploads /\ \A u \in Uploaders : uploader'[u].pc = "idle"
    BY <1>6, MasterRestartEffect
  <2> QED BY <2>1 DEF FileInv, OneUpload
<1>7. ASSUME UNCHANGED << file, hash, uploadVars >>
      PROVE  FileInv'
  BY <1>7 DEF uploadVars, FileInv, OneUpload
<1> QED BY <1>2, <1>3, <1>4, <1>5, <1>6, <1>7, PublishedBy DEF Upload

-----------------------------------------------------------------------------
(* Before uploads have overlapped, what can reach the node is not older    *)
(* than what it runs.                                                      *)

LEMMA NothingBetween ==
  ASSUME NEW low, NEW high
  PROVE  Between(<< >>, low, high) /\ AllBetween(<< >>, low, high)
BY DEF Between, AllBetween

LEMMA BetweenWider ==
  ASSUME NEW low \in Nat, NEW high \in Nat
  PROVE  /\ \A content \in Contents : Between(content, low, high) => Between(content, low, high + 1)
         /\ \A packets \in Seq(PacketSet) :
              AllBetween(packets, low, high) => AllBetween(packets, low, high + 1)
<1>1. \A i \in low .. high : i \in low .. high + 1
  OBVIOUS
<1>2. ASSUME NEW content, Between(content, low, high)
      PROVE  Between(content, low, high + 1)
  BY <1>1, <1>2 DEF Between
<1> QED BY <1>2 DEF AllBetween

LEMMA BetweenGrows ==
  ASSUME NEW low \in Nat, NEW high \in Nat, NEW content \in Contents, Between(content, low, high)
  PROVE  /\ \A chunk \in Nat \X Nat :
              chunk[1] \in low .. high => Between(Append(content, chunk), low, high)
         /\ \A more \in Contents :
              Between(more, low, high) => Between(content \o more, low, high)
<1>1. PICK n \in Nat : n = Len(content) /\ content \in Seq(Nat \X Nat)
  BY ListDomain DEF Contents
<1>2. ASSUME NEW chunk \in Nat \X Nat, chunk[1] \in low .. high
      PROVE  Between(Append(content, chunk), low, high)
  <2>1. /\ Len(Append(content, chunk)) = n + 1 /\ Append(content, chunk)[n + 1] = chunk
        /\ \A i \in 1 .. n : Append(content, chunk)[i] = content[i]
    BY <1>1, AppendedList
  <2> QED BY <1>1, <1>2, <2>1 DEF Between
<1>3. ASSUME NEW more \in Contents, Between(more, low, high)
      PROVE  Between(content \o more, low, high)
  <2>1. PICK m \in Nat : m = Len(more) /\ more \in Seq(Nat \X Nat)
    BY ListDomain DEF Contents
  <2>2. PICK all : all = content \o more
    OBVIOUS
  <2>3. /\ Len(all) = n + m
        /\ \A i \in 1 .. n + m : all[i] = IF i <= n THEN content[i] ELSE more[i - n]
    BY <1>1, <2>1, <2>2, ConcatProperties
  <2>4. ASSUME NEW i \in 1 .. n + m
        PROVE  all[i][1] \in low .. high
    <3>1. CASE i <= n
      BY <1>1, <2>3, <3>1 DEF Between
    <3>2. CASE ~ (i <= n)
      <4>1. i - n \in 1 .. m
        BY <3>2
      <4> QED BY <1>3, <2>1, <2>3, <3>2, <4>1 DEF Between
    <3> QED BY <3>1, <3>2
  <2> QED BY <2>2, <2>3, <2>4 DEF Between
<1> QED BY <1>2, <1>3

LEMMA PacketsBetween ==
  ASSUME NEW low \in Nat, NEW high \in Nat, NEW content \in Contents, Between(content, low, high)
  PROVE  AllBetween(Packets(content), low, high)
<1>1. PICK r \in Nat \ {0} : r = Rounds(content)
  BY PacketsAre
<1>2. PICK packets \in Seq(PacketSet) :
        /\ packets = Packets(content) /\ Len(packets) = r + 1 /\ packets[r + 1].bytes = << >>
        /\ content # << >> => \A i \in 1 .. r : packets[i].bytes = << content[i] >>
        /\ content = << >> => packets[1].bytes = << >>
  BY <1>1, PacketsAre
<1>3. ASSUME NEW i \in 1 .. r + 1
      PROVE  Between(packets[i].bytes, low, high)
  <2>1. CASE i = r + 1 \/ content = << >>
    <3>1. content = << >> => r = 1
      BY <1>1 DEF Rounds
    <3>2. packets[i].bytes = << >>
      BY <1>2, <2>1, <3>1
    <3> QED BY <3>2, NothingBetween
  <2>2. CASE i # r + 1 /\ content # << >>
    <3>1. i \in 1 .. r /\ r = Len(content)
      BY <1>1, <2>2 DEF Rounds
    <3>2. PICK chunk \in Nat \X Nat : chunk = content[i] /\ chunk[1] \in low .. high
      BY <3>1, ListDomain DEF Contents, Between
    <3>3. packets[i].bytes = << chunk >> /\ Len(<< chunk >>) = 1 /\ << chunk >>[1] = chunk
      BY <1>2, <2>2, <3>1, <3>2, OneChunk
    <3> QED BY <3>2, <3>3 DEF Between
  <2> QED BY <2>1, <2>2
<1> QED BY <1>2, <1>3 DEF AllBetween

LEMMA AllBetweenMoves ==
  ASSUME NEW low, NEW high, NEW packets \in Seq(PacketSet), AllBetween(packets, low, high),
         packets # << >>
  PROVE  /\ Between(packets[1].bytes, low, high) /\ Between(Head(packets).bytes, low, high)
         /\ AllBetween(Tail(packets), low, high)
<1>1. PICK n \in Nat \ {0} : n = Len(packets)
  BY ListTail
<1>2. /\ Len(Tail(packets)) = n - 1 /\ Head(packets) = packets[1]
      /\ \A i \in 1 .. n - 1 : Tail(packets)[i] = packets[i + 1]
  BY <1>1, ListTail
<1>3. \A i \in 1 .. n - 1 : i + 1 \in 1 .. n
  OBVIOUS
<1>4. 1 \in 1 .. n
  OBVIOUS
<1> QED BY <1>1, <1>2, <1>3, <1>4 DEF AllBetween

(* A step that leaves the calls alone and opens no connection.             *)
OpensNothing ==
  /\ UNCHANGED masterVars /\ link' \in {link, NoConn}
  /\ \A d \in Conns : toNode[d] = << >> => toNode'[d] = << >>

LEMMA OpeningSteps ==
  ASSUME Safe, [Next]_vars
  PROVE  \/ \E c \in Conns : HelloRegister(c) \/ HelloCompare(c) \/ NodeDial(c)
         \/ \E r \in Requests : RequestStart(r)
         \/ \E s \in Senders : SenderRead(s) \/ SenderSend(s)
         \/ MasterRestart
         \/ OpensNothing
<1>1. ASSUME UNCHANGED << masterVars, netVars, nodeVars >> PROVE OpensNothing
  BY <1>1 DEF OpensNothing, netVars, nodeVars
<1>2. ASSUME NEW u \in Uploaders, UploadCreate(u) \/ Upload(u) \/ UploadFail(u)
      PROVE  OpensNothing
  BY <1>1, <1>2 DEF Upload, UploadCreate, UploadCopy, UploadHash, UploadSetHash, UploadFail
<1>3. ASSUME NEW h \in AdminHashes, SetNodeHash(h) PROVE OpensNothing
  BY <1>1, <1>3 DEF SetNodeHash
<1>4. ASSUME UNCHANGED vars PROVE OpensNothing
  BY <1>1, <1>4 DEF vars
<1>5. ASSUME NEW type, Arriving(type), UNCHANGED << masterVars, link >> PROVE OpensNothing
  BY <1>5, ArrivingEffect DEF OpensNothing
<1>6. ASSUME LoseProcess, UNCHANGED masterVars PROVE OpensNothing
  BY <1>6, LoseEffect DEF OpensNothing
<1>7. ASSUME NodeData \/ NodeEndUnknown \/ NodeEnd PROVE OpensNothing
  BY <1>5, <1>7 DEF NodeData, NodeEndUnknown, NodeEnd, nodeVars
<1>8. ASSUME NodeWrite \/ NodeEOF PROVE OpensNothing
  BY <1>8 DEF NodeWrite, NodeEOF, netVars, OpensNothing
<1>9. ASSUME NodeExec PROVE OpensNothing
  <2>1. LoseProcess \/ UNCHANGED << link, toNode >>
    BY <1>9, ExecEffect
  <2>2. UNCHANGED masterVars
    BY <1>9 DEF NodeExec
  <2> QED BY <1>6, <2>1, <2>2 DEF OpensNothing
<1>10. ASSUME NodeKill PROVE OpensNothing
  BY <1>6, <1>10 DEF NodeKill
<1>11. ASSUME NEW c \in Conns, Drop(c) PROVE OpensNothing
  BY <1>11 DEF Drop, nodeVars, OpensNothing
<1>12. ASSUME NEW c \in Conns, LoseTail(c) PROVE OpensNothing
  BY <1>12, TailLost DEF nodeVars, OpensNothing
<1> QED BY <1>2, <1>3, <1>4, <1>7, <1>8, <1>9, <1>10, <1>11, <1>12
        DEF Next, Hello, SenderStep, NodeStep

LEMMA ConnStep ==
  ASSUME Safe, ConnInv, [Next]_vars
  PROVE  ConnInv'
<1>1. ASSUME NEW s \in Senders, SenderGoes(s, sender'[s]), sender'[s].pc # "none",
             UNCHANGED << link, toNode >>, clients' \subseteq clients \cup {s},
             sender'[s].conn = sender[s].conn \/ sender'[s].conn \in clients
      PROVE  ConnInv'
  <2> SUFFICES ASSUME NEW c \in Conns, sender'[c].pc = "none"
               PROVE  /\ c # link' /\ c \notin clients' /\ toNode'[c] = << >>
                      /\ \A q \in Senders : sender'[q].conn # c
    BY DEF ConnInv
  <2>1. c \in Senders /\ c # s /\ sender[c].pc = "none"
    BY <1>1 DEF Senders, SenderGoes
  <2>2. /\ c # link /\ c \notin clients /\ toNode[c] = << >>
        /\ \A q \in Senders : sender[q].conn # c
    BY <2>1 DEF ConnInv
  <2>3. \A q \in Senders : sender'[q].conn # c
    BY <1>1, <2>2 DEF SenderGoes
  <2> QED BY <1>1, <2>1, <2>2, <2>3
<1>2. ASSUME NEW c \in Conns, HelloRegister(c) PROVE ConnInv'
  BY <1>1, <1>2, RegisterEffect DEF MasterOnly, netVars, nodeVars
<1>3. ASSUME NEW c \in Conns, HelloCompare(c) PROVE ConnInv'
  BY <1>1, <1>3, CompareEffect DEF MasterOnly, netVars, nodeVars
<1>4. ASSUME NEW r \in Requests, RequestStart(r) PROVE ConnInv'
  BY <1>1, <1>4, RequestEffect DEF MasterOnly, netVars, nodeVars
<1>5. ASSUME NEW s \in Senders, SenderRead(s) PROVE ConnInv'
  BY <1>1, <1>5, ReadEffect DEF MasterOnly, netVars, nodeVars
<1>6. ASSUME NEW s \in Senders, SenderSend(s) PROVE ConnInv'
  <2>1. /\ SenderGoes(s, sender'[s]) /\ sender'[s].pc # "none" /\ sender'[s].conn = sender[s].conn
        /\ clients' = clients /\ link' = link
    BY <1>6, SendEffect DEF nodeVars
  <2> SUFFICES ASSUME NEW c \in Conns, sender'[c].pc = "none"
               PROVE  /\ c # link' /\ c \notin clients' /\ toNode'[c] = << >>
                      /\ \A q \in Senders : sender'[q].conn # c
    BY DEF ConnInv
  <2>2. c \in Senders /\ c # s /\ sender[c].pc = "none"
    BY <2>1 DEF Senders, SenderGoes
  <2>3. /\ c # link /\ c \notin clients /\ toNode[c] = << >>
        /\ \A q \in Senders : sender[q].conn # c
    BY <2>2 DEF ConnInv
  <2>4. toNode'[c] = toNode[c]
    <3>1. CASE toNode' = toNode
      BY <3>1
    <3>2. CASE /\ Len(toNode[sender[s].conn]) < LinkCap /\ Head(sender[s].todo) \in PacketSet
               /\ toNode' = [toNode EXCEPT ![sender[s].conn] =
                               Append(toNode[sender[s].conn], Head(sender[s].todo))]
      BY <1>6, <2>3, <3>2, SendEffect, Delivered
    <3> QED BY <1>6, <3>1, <3>2, SendEffect
  <2> QED BY <2>1, <2>3, <2>4 DEF SenderGoes
<1>7. ASSUME NEW c \in Conns, NodeDial(c) PROVE ConnInv'
  <2>1. /\ SenderGoes(c, sender'[c]) /\ sender'[c].pc = "greet" /\ sender'[c].conn = c
        /\ clients' = clients /\ link' = c /\ toNode' = toNode
    BY <1>7, DialEffect
  <2> SUFFICES ASSUME NEW d \in Conns, sender'[d].pc = "none"
               PROVE  /\ d # link' /\ d \notin clients' /\ toNode'[d] = << >>
                      /\ \A q \in Senders : sender'[q].conn # d
    BY DEF ConnInv
  <2>2. d \in Senders /\ d # c /\ sender[d].pc = "none"
    BY <2>1 DEF Senders, SenderGoes
  <2> QED BY <2>1, <2>2 DEF ConnInv, SenderGoes
<1>8. ASSUME MasterRestart PROVE ConnInv'
  <2>1. /\ clients' = {} /\ UNCHANGED << link, toNode >>
        /\ \A s \in Senders : /\ sender'[s].conn = sender[s].conn
                              /\ sender'[s].pc = "none" => sender[s].pc = "none"
    BY <1>8, MasterRestartEffect DEF nodeVars
  <2> QED BY <2>1 DEF ConnInv, Senders
<1>9. ASSUME OpensNothing PROVE ConnInv'
  <2>1. UNCHANGED << clients, sender >> /\ link' \in {link, NoConn}
        /\ \A d \in Conns : toNode[d] = << >> => toNode'[d] = << >>
    BY <1>9 DEF OpensNothing, masterVars
  <2> QED BY <2>1, SendersAssumption DEF ConnInv
<1> QED BY <1>2, <1>3, <1>4, <1>5, <1>6, <1>7, <1>8, <1>9, OpeningSteps

FreshInv == overlap = "never" => FileInv /\ RunningInv /\ ReachInv /\ ConnInv

LEMMA RunningIs ==
  ASSUME Safe, RunningInv
  PROVE  /\ uploads \in Nat /\ Version(running) \in Nat
         /\ Version(running) \in 0 .. uploads + 1 /\ running = Whole(Version(running))
<1>1. uploads \in Nat
  BY SafeParts DEF UploadType
<1>2. PICK v \in 0 .. uploads + 1 : running = Whole(v)
  BY DEF RunningInv
<1>3. v \in Nat
  BY <1>1, <1>2
<1> QED BY <1>1, <1>2, <1>3, WholeIs

(* Uploads only go up, and most steps leave the node's binaries alone.     *)
BinariesStay == UNCHANGED << running, exe >> /\ uploads' \in {uploads, uploads + 1}

LEMMA BinarySteps ==
  ASSUME Safe, [Next]_vars
  PROVE  NodeEnd \/ NodeWrite \/ NodeExec \/ NodeKill \/ BinariesStay
<1>1. ASSUME NEW u \in Uploaders, UploadCreate(u) \/ Upload(u) \/ UploadFail(u)
      PROVE  BinariesStay
  BY <1>1 DEF Upload, UploadCreate, UploadCopy, UploadHash, UploadSetHash, UploadFail, nodeVars,
              BinariesStay
<1>2. ASSUME NEW h \in AdminHashes, SetNodeHash(h) PROVE BinariesStay
  BY <1>2 DEF SetNodeHash, nodeVars, BinariesStay
<1>3. ASSUME NEW c \in Conns, Hello(c) \/ NodeDial(c) \/ Drop(c) \/ LoseTail(c)
      PROVE  BinariesStay
  BY <1>3 DEF Hello, HelloRegister, HelloCompare, NodeDial, Drop, LoseTail, nodeVars, uploadVars,
              BinariesStay
<1>4. ASSUME NEW s \in Senders, SenderStep(s) PROVE BinariesStay
  BY <1>4 DEF SenderStep, SenderRead, SenderSend, nodeVars, uploadVars, BinariesStay
<1>5. ASSUME NEW r \in Requests, RequestStart(r) PROVE BinariesStay
  BY <1>5 DEF RequestStart, nodeVars, uploadVars, BinariesStay
<1>6. ASSUME NodeData \/ NodeEndUnknown \/ NodeEOF PROVE BinariesStay
  BY <1>6 DEF NodeData, NodeEndUnknown, NodeEOF, nodeVars, uploadVars, BinariesStay
<1>7. ASSUME MasterRestart \/ UNCHANGED vars PROVE BinariesStay
  BY <1>7 DEF MasterRestart, vars, nodeVars, uploadVars, BinariesStay
<1> QED BY <1>1, <1>2, <1>3, <1>4, <1>5, <1>6, <1>7 DEF Next, NodeStep

LEMMA RunningStep ==
  ASSUME Safe, RunningInv, ReachInv, [Next]_vars
  PROVE  RunningInv' /\ Version(running') >= Version(running)
<1>1. PICK n, low \in Nat :
        n = uploads /\ low \in 0 .. n + 1 /\ running = Whole(low) /\ low = Version(running)
  BY RunningIs
<1>2. IsWhole(exe) => Version(exe) \in low .. n + 1 /\ exe = Whole(Version(exe))
  BY <1>1, WholeContent DEF RunningInv
<1>3. ASSUME BinariesStay
      PROVE  RunningInv' /\ Version(running') >= Version(running)
  <2>1. running' = running /\ exe' = exe /\ uploads' \in {n, n + 1}
    BY <1>1, <1>3 DEF BinariesStay
  <2>2. PICK m \in Nat : m = uploads' /\ n <= m
    <3>1. n \in Nat /\ n + 1 \in Nat /\ n <= n /\ n <= n + 1
      OBVIOUS
    <3> QED BY <2>1, <3>1
  <2>3. low \in 0 .. m + 1 /\ \A i \in low .. n + 1 : i \in low .. m + 1
    <3>1. low \in 0 .. n + 1 /\ n <= m
      BY <1>1, <2>2
    <3>2. low <= n + 1 /\ n + 1 <= m + 1
      BY <3>1
    <3>3. low \in 0 .. m + 1
      BY <3>2
    <3>4. \A i \in low .. n + 1 : i \in low .. m + 1
      BY <3>2
    <3> QED BY <3>3, <3>4
  <2>4. Version(running') >= Version(running)
    BY <1>1, <2>1
  <2> QED BY <1>1, <1>2, <2>1, <2>2, <2>3, <2>4 DEF RunningInv
<1>4. ASSUME NodeEnd
      PROVE  RunningInv' /\ Version(running') >= Version(running)
  <2>1. exe' = Nothing /\ running' = running /\ uploads' = uploads
    BY <1>4 DEF NodeEnd, uploadVars
  <2>2. ~ IsWhole(exe')
    BY <2>1, WholeContent
  <2>3. Version(running') >= Version(running)
    BY <1>1, <2>1
  <2> QED BY <1>1, <2>1, <2>2, <2>3 DEF RunningInv
<1>5. ASSUME NodeWrite
      PROVE  RunningInv' /\ Version(running') >= Version(running)
  <2>1. exe' \in {buffer, << >>} /\ running' = running /\ uploads' = uploads
    BY <1>5 DEF NodeWrite, uploadVars
  <2>2. IsWhole(exe') => Version(exe') \in low .. n + 1
    <3>1. SUFFICES ASSUME IsWhole(exe') PROVE Version(exe') \in low .. n + 1
      OBVIOUS
    <3>2. PICK content : content = exe' /\ IsWhole(content)
      BY <3>1
    <3>3. content # << >> /\ content # Nothing /\ 1 \in 1 .. Len(content)
      BY <3>2, WholeContent
    <3>4. Between(content, low, n + 1)
      BY <1>1, <2>1, <3>2, <3>3 DEF ReachInv, Fresh
    <3>5. Version(content) = content[1][1]
      BY DEF Version
    <3> QED BY <3>2, <3>3, <3>4, <3>5 DEF Between
  <2>3. Version(running') >= Version(running)
    BY <1>1, <2>1
  <2> QED BY <1>1, <2>1, <2>2, <2>3 DEF RunningInv
<1>6. ASSUME exe' = exe, uploads' = uploads, running' = running
      PROVE  RunningInv' /\ Version(running') >= Version(running)
  BY <1>3, <1>6 DEF BinariesStay
<1>7. ASSUME exe' = exe, uploads' = uploads, IsWhole(exe), running' = exe
      PROVE  RunningInv' /\ Version(running') >= Version(running)
  <2>1. PICK v \in low .. n + 1 : v = Version(exe) /\ exe = Whole(v)
    BY <1>2, <1>7
  <2>2. v \in 0 .. n + 1 /\ v >= low /\ v \in v .. n + 1
    BY <1>1, <2>1
  <2> QED BY <1>1, <1>7, <2>1, <2>2 DEF RunningInv
<1>8. ASSUME NodeExec \/ NodeKill
      PROVE  RunningInv' /\ Version(running') >= Version(running)
  <2>1. exe' = exe /\ uploads' = uploads
    BY <1>8, ExecEffect, KillEffect DEF MasterStays, uploadVars
  <2>2. (IsWhole(exe) /\ running' = exe) \/ running' = running
    BY <1>8, ExecEffect, KillEffect
  <2> QED BY <1>6, <1>7, <2>1, <2>2
<1> QED BY <1>3, <1>4, <1>5, <1>8, BinarySteps

(* What the calls, the connection and the node hold stays fresh while the  *)
(* node runs the same binary.                                              *)
LEMMA ReachKept ==
  ASSUME Safe, RunningInv, ReachInv, BinariesStay,
         UNCHANGED << toNode, sender >>, link' \in {link, NoConn}, buffer' \in {buffer, Nothing}
  PROVE  ReachInv'
<1>1. PICK n, low \in Nat : n = uploads /\ low = Version(running)
  BY RunningIs
<1>2. n + 1 \in Nat
  OBVIOUS
<1>3. /\ \A content \in Contents : Between(content, low, n + 1) => Between(content, low, uploads' + 1)
      /\ \A packets \in Seq(PacketSet) :
           AllBetween(packets, low, n + 1) => AllBetween(packets, low, uploads' + 1)
  BY <1>1, <1>2, BetweenWider DEF BinariesStay
<1>4. Version(running') = low
  BY <1>1 DEF BinariesStay
<1>5. buffer \in Contents \cup {Nothing} /\ toNode \in [Conns -> Seq(PacketSet)] /\ link \in Conns \cup {NoConn}
  BY SafeParts DEF NetType, NodeType
<1>6. buffer' # Nothing => Between(buffer', low, uploads' + 1)
  BY <1>1, <1>3, <1>5 DEF ReachInv, Fresh
<1>7. link' # NoConn => AllBetween(toNode'[link'], low, uploads' + 1)
  BY <1>1, <1>3, <1>5 DEF ReachInv, AllFresh
<1>8. ASSUME NEW s \in Senders, sender'[s].conn # NoConn, sender'[s].conn = link'
      PROVE  Between(sender'[s].got, low, uploads' + 1) /\ AllBetween(sender'[s].todo, low, uploads' + 1)
  <2>1. Between(sender[s].got, low, n + 1) /\ AllBetween(sender[s].todo, low, n + 1)
    BY <1>1, <1>8 DEF ReachInv, Fresh, AllFresh
  <2> QED BY <1>3, <2>1, SenderIs
<1> QED BY <1>4, <1>6, <1>7, <1>8 DEF ReachInv, Fresh, AllFresh

(* A step of one call: what it holds for the node's connection is fresh.   *)
LEMMA ReachMoves ==
  ASSUME Safe, ReachInv, NEW s \in Senders, SenderGoes(s, sender'[s]),
         UNCHANGED << link, buffer, running, uploads >>,
         link # NoConn => AllFresh(toNode[link])',
         sender'[s].conn # NoConn /\ sender'[s].conn = link =>
           Fresh(sender[s].got)' /\ AllFresh(sender[s].todo)'
  PROVE  ReachInv'
<1>1. ASSUME NEW q \in Senders, sender'[q].conn # NoConn, sender'[q].conn = link
      PROVE  Fresh(sender[q].got)' /\ AllFresh(sender[q].todo)'
  <2>1. CASE q = s
    BY <1>1, <2>1
  <2>2. CASE q # s
    BY <1>1, <2>2 DEF ReachInv, SenderGoes, Fresh, AllFresh
  <2> QED BY <2>1, <2>2
<1> QED BY <1>1 DEF ReachInv, Fresh, AllFresh

LEMMA ReachStep ==
  ASSUME Safe, FileInv, RunningInv, ReachInv, ConnInv, [Next]_vars
  PROVE  ReachInv'
<1>1. PICK n, low \in Nat : n = uploads /\ low \in 0 .. n + 1 /\ low = Version(running)
  BY RunningIs
<1>2. n + 1 \in Nat /\ n + 1 \in low .. n + 1
  <2>1. low <= n + 1
    BY <1>1
  <2> QED BY <2>1
<1>3. link # NoConn => AllBetween(toNode[link], low, n + 1)
  BY <1>1 DEF ReachInv, AllFresh
<1>4. \A s \in Senders : sender[s].conn # NoConn /\ sender[s].conn = link
        => Between(sender[s].got, low, n + 1) /\ AllBetween(sender[s].todo, low, n + 1)
  BY <1>1 DEF ReachInv, Fresh, AllFresh
<1>5. Between(<< >>, low, n + 1) /\ AllBetween(<< >>, low, n + 1)
  BY NothingBetween
<1>6. (UNCHANGED << running, uploads >>) =>
        /\ \A content : Between(content, low, n + 1) <=> Between(content, Version(running'), uploads' + 1)
        /\ \A packets : AllBetween(packets, low, n + 1) <=> AllBetween(packets, Version(running'), uploads' + 1)
  BY <1>1
<1>7. ASSUME NEW s \in Senders, SenderGoes(s, sender'[s]), MasterOnly,
             sender'[s].conn # NoConn /\ sender'[s].conn = link =>
               Between(sender'[s].got, low, n + 1) /\ AllBetween(sender'[s].todo, low, n + 1)
      PROVE  ReachInv'
  <2>1. UNCHANGED << toNode, link, buffer, running, uploads >>
    BY <1>7 DEF MasterOnly, netVars, nodeVars, uploadVars
  <2>2. link # NoConn => AllFresh(toNode[link])'
    BY <1>3, <1>6, <2>1 DEF AllFresh
  <2>3. sender'[s].conn # NoConn /\ sender'[s].conn = link =>
          Fresh(sender[s].got)' /\ AllFresh(sender[s].todo)'
    BY <1>6, <1>7, <2>1 DEF Fresh, AllFresh
  <2> QED BY <1>7, <2>1, <2>2, <2>3, ReachMoves
<1>8. ASSUME NEW c \in Conns, Hello(c) PROVE ReachInv'
  <2>1. /\ c \in Senders /\ SenderGoes(c, sender'[c]) /\ MasterOnly
        /\ sender'[c].conn = sender[c].conn /\ sender'[c].got = sender[c].got
        /\ sender'[c].todo = sender[c].todo
    BY <1>8, RegisterEffect, CompareEffect DEF Hello
  <2> QED BY <1>4, <1>7, <2>1
<1>9. ASSUME NEW r \in Requests, RequestStart(r) PROVE ReachInv'
  <2>1. r \in Senders /\ SenderGoes(r, sender'[r]) /\ MasterOnly
    BY <1>9, RequestEffect
  <2>2. CASE /\ sender'[r].conn = sender[r].conn /\ sender'[r].got = sender[r].got
             /\ sender'[r].todo = sender[r].todo
    BY <1>4, <1>7, <2>1, <2>2
  <2>3. CASE sender'[r].got = << >> /\ sender'[r].todo = << >>
    BY <1>5, <1>7, <2>1, <2>3
  <2> QED BY <1>9, <2>2, <2>3, RequestEffect
<1>10. ASSUME NEW s \in Senders, SenderRead(s) PROVE ReachInv'
  <2>1. /\ SenderGoes(s, sender'[s]) /\ MasterOnly /\ sender'[s].conn = sender[s].conn
    BY <1>10, ReadEffect
  <2>2. PICK got \in Contents : got = sender[s].got
    BY SenderIs
  <2>3. CASE sender'[s].got = got /\ sender'[s].todo = sender[s].todo
    BY <1>4, <1>7, <2>1, <2>2, <2>3
  <2>4. CASE /\ file \in Contents /\ Len(got) + 1 \in 1 .. Len(file)
             /\ sender'[s].got = Append(got, file[Len(got) + 1])
             /\ sender'[s].todo = sender[s].todo
    <3>1. PICK chunk \in Nat \X Nat : chunk = file[Len(got) + 1] /\ chunk[1] = n + 1
      BY <1>1, <2>4, ListDomain, ContentsAssumption DEF Contents, FileInv
    <3>2. Between(got, low, n + 1) => Between(Append(got, chunk), low, n + 1)
      BY <1>2, <2>2, <3>1, BetweenGrows
    <3> QED BY <1>4, <1>7, <2>1, <2>2, <2>4, <3>1, <3>2
  <2>5. CASE sender'[s].got = << >> /\ sender'[s].todo = Packets(got)
    <3>1. Between(got, low, n + 1) => AllBetween(Packets(got), low, n + 1)
      BY <1>2, <2>2, PacketsBetween
    <3> QED BY <1>4, <1>5, <1>7, <2>1, <2>2, <2>5, <3>1
  <2> QED BY <1>10, <2>2, <2>3, <2>4, <2>5, ReadEffect
<1>11. ASSUME NEW s \in Senders, SenderSend(s) PROVE ReachInv'
  <2>1. PICK c \in Conns, todo \in Seq(PacketSet) :
          c = sender[s].conn /\ todo = sender[s].todo /\ todo # << >>
    BY <1>11, SendEffect
  <2>2. /\ SenderGoes(s, sender'[s]) /\ sender'[s].conn = c /\ sender'[s].got = << >>
        /\ UNCHANGED << link, buffer, running, uploads >>
    BY <1>11, <2>1, SendEffect DEF nodeVars, uploadVars
  <2>3. c = link => /\ AllBetween(todo, low, n + 1) /\ AllBetween(Tail(todo), low, n + 1)
                    /\ Between(Head(todo).bytes, low, n + 1)
    <3>1. c = link => c # NoConn /\ AllBetween(todo, low, n + 1)
      BY <1>4, <2>1, SendersAssumption
    <3> QED BY <2>1, <3>1, AllBetweenMoves
  <2>4. CASE sender'[s].todo = << >> /\ toNode' = toNode
    <3>1. link # NoConn => AllFresh(toNode[link])'
      BY <1>3, <1>6, <2>2, <2>4 DEF AllFresh
    <3>2. Fresh(sender[s].got)' /\ AllFresh(sender[s].todo)'
      BY <1>5, <1>6, <2>2, <2>4 DEF Fresh, AllFresh
    <3> QED BY <2>2, <3>1, <3>2, ReachMoves
  <2>5. CASE /\ Len(toNode[c]) < LinkCap /\ sender'[s].todo = Tail(todo) /\ Head(todo) \in PacketSet
             /\ toNode' = [toNode EXCEPT ![c] = Append(toNode[c], Head(todo))]
    <3>1. PICK packet \in PacketSet : packet = Head(todo)
      BY <2>5
    <3>2. /\ \A d \in Conns : d # c => toNode'[d] = toNode[d]
          /\ Len(toNode[c]) \in Nat
          /\ Len(toNode'[c]) = Len(toNode[c]) + 1
          /\ toNode'[c][Len(toNode[c]) + 1] = packet
          /\ \A i \in 1 .. Len(toNode[c]) : toNode'[c][i] = toNode[c][i]
      BY <2>5, <3>1, Delivered
    <3>k. PICK k \in Nat : k = Len(toNode[c])
      BY <3>2
    <3>3. PICK old, new : k \in Nat /\ k = Len(old) /\ old = toNode[c] /\ new = toNode'[c]
      BY <3>k
    <3>4. c = link => AllBetween(new, low, n + 1)
      <4>1. SUFFICES ASSUME c = link PROVE AllBetween(new, low, n + 1)
        OBVIOUS
      <4>2. AllBetween(old, low, n + 1) /\ Between(packet.bytes, low, n + 1)
        BY <1>3, <2>3, <3>1, <3>3, <4>1, SendersAssumption
      <4>3. Len(new) = k + 1 /\ new[k + 1] = packet /\ \A i \in 1 .. k : new[i] = old[i]
        BY <3>2, <3>3
      <4>4. ASSUME NEW i \in 1 .. k + 1
            PROVE  Between(new[i].bytes, low, n + 1)
        <5>1. i \in 1 .. k \/ i = k + 1
          OBVIOUS
        <5>2. \A j \in 1 .. k : Between(old[j].bytes, low, n + 1)
          BY <3>3, <4>2 DEF AllBetween
        <5> QED BY <4>2, <4>3, <5>1, <5>2
      <4> QED BY <4>3, <4>4 DEF AllBetween
    <3>5. link # NoConn => AllBetween(toNode'[link], low, n + 1)
      <4>1. CASE c = link
        BY <3>3, <3>4, <4>1
      <4>2. CASE c # link
        <5>1. link \in Conns \cup {NoConn}
          BY SafeParts DEF NodeType
        <5> QED BY <1>3, <3>2, <4>2, <5>1
      <4> QED BY <4>1, <4>2
    <3>6. link # NoConn => AllFresh(toNode[link])'
      BY <1>6, <2>2, <3>5 DEF AllFresh
    <3>7. c = link => Fresh(sender[s].got)' /\ AllFresh(sender[s].todo)'
      BY <1>5, <1>6, <2>2, <2>3, <2>5 DEF Fresh, AllFresh
    <3> QED BY <2>2, <3>6, <3>7, ReachMoves
  <2> QED BY <1>11, <2>1, <2>4, <2>5, SendEffect
<1>12. ASSUME NEW c \in Conns, NodeDial(c) PROVE ReachInv'
  <2>1. /\ c \in Senders /\ sender[c].pc = "none" /\ link' = c /\ SenderGoes(c, sender'[c])
        /\ sender'[c].got = << >> /\ sender'[c].todo = << >>
        /\ UNCHANGED << toNode, running, uploads, buffer >>
    BY <1>12, DialEffect DEF uploadVars
  <2>2. toNode[c] = << >> /\ \A s \in Senders : sender[s].conn # c
    BY <2>1 DEF ConnInv
  <2>3. \A s \in Senders : sender'[s].conn = c => s = c
    BY <2>1, <2>2 DEF SenderGoes
  <2>4. Fresh(sender[c].got)' /\ AllFresh(sender[c].todo)' /\ AllFresh(toNode[c])'
    BY <1>5, <1>6, <2>1, <2>2 DEF Fresh, AllFresh
  <2>5. (buffer # Nothing => Fresh(buffer))'
    BY <1>1, <2>1 DEF ReachInv, Fresh
  <2> QED BY <2>1, <2>3, <2>4, <2>5 DEF ReachInv, AllFresh, Fresh
<1>13. ASSUME MasterRestart PROVE ReachInv'
  <2>1. UNCHANGED << toNode, running, uploads, buffer, link >>
    BY <1>13, MasterRestartEffect DEF nodeVars
  <2>2. \A s \in Senders : /\ sender'[s].conn = sender[s].conn
                           /\ \/ sender'[s].got = << >> /\ sender'[s].todo = << >>
                              \/ sender'[s] = sender[s]
    BY <1>13, MasterRestartEffect
  <2>3. (buffer # Nothing => Fresh(buffer))' /\ (link # NoConn => AllFresh(toNode[link]))'
    BY <1>1, <2>1 DEF ReachInv, Fresh, AllFresh
  <2>4. ASSUME NEW s \in Senders, sender'[s].conn # NoConn, sender'[s].conn = link
        PROVE  Between(sender'[s].got, low, n + 1) /\ AllBetween(sender'[s].todo, low, n + 1)
    BY <1>4, <1>5, <2>2, <2>4
  <2> QED BY <1>6, <2>1, <2>3, <2>4 DEF ReachInv, AllFresh, Fresh
<1>14. ASSUME NEW type, Arriving(type), UNCHANGED << sender, link, running, uploads >>,
              buffer' # Nothing => Between(buffer', low, n + 1)
       PROVE  ReachInv'
  <2>1. PICK packets \in Seq(PacketSet) :
          packets = toNode[link] /\ packets # << >> /\ AllBetween(packets, low, n + 1)
    BY <1>3, <1>14, ArrivingEffect
  <2>2. toNode'[link] = Tail(packets)
    <3>1. toNode \in [Conns -> Seq(PacketSet)] /\ link \in Conns
      BY <1>14, ArrivingEffect, SafeParts DEF NetType
    <3> QED BY <1>14, <2>1, <3>1 DEF Arriving
  <2>3. AllBetween(toNode'[link], low, n + 1)
    BY <2>1, <2>2, AllBetweenMoves
  <2>4. AllFresh(toNode[link])' /\ (buffer # Nothing => Fresh(buffer))'
    BY <1>6, <1>14, <2>3 DEF Fresh, AllFresh
  <2> QED BY <1>4, <1>6, <1>14, <2>4 DEF ReachInv, Fresh, AllFresh
<1>15. buffer # Nothing => Between(buffer, low, n + 1)
  BY <1>1 DEF ReachInv, Fresh
<1>16. ASSUME NodeData PROVE ReachInv'
  <2>1. Arriving("data") /\ UNCHANGED << sender, link, running, uploads >>
    BY <1>16, DataEffect DEF MasterStays, masterVars, uploadVars
  <2>2. PICK bytes \in Contents : bytes = toNode[link][1].bytes
    BY <1>16, DataEffect
  <2>3. Between(bytes, low, n + 1)
    <3>1. PICK packets \in Seq(PacketSet) :
            packets = toNode[link] /\ packets # << >> /\ AllBetween(packets, low, n + 1)
      BY <1>3, <2>1, ArrivingEffect
    <3> QED BY <2>2, <3>1, AllBetweenMoves
  <2>4. Between(buffer', low, n + 1)
    <3>1. CASE buffer = Nothing
      BY <1>16, <2>2, <2>3, <3>1, DataEffect
    <3>2. CASE buffer # Nothing
      <4>1. buffer \in Contents /\ buffer' = buffer \o bytes
        BY <1>16, <2>2, <3>2, DataEffect
      <4>2. Between(buffer \o bytes, low, n + 1)
        BY <1>2, <1>15, <2>3, <3>2, <4>1, BetweenGrows
      <4> QED BY <4>1, <4>2
    <3> QED BY <3>1, <3>2
  <2> QED BY <1>14, <2>1, <2>4
<1>17. ASSUME NodeEndUnknown \/ NodeEnd PROVE ReachInv'
  <2>1. Arriving("end") /\ UNCHANGED << sender, link, running, uploads, buffer >>
    BY <1>17 DEF NodeEndUnknown, NodeEnd, nodeVars, masterVars, uploadVars
  <2> QED BY <1>14, <1>15, <2>1
<1>18. ASSUME link' = NoConn, buffer' = Nothing PROVE ReachInv'
  BY <1>18 DEF ReachInv
<1>19. ASSUME NodeExec \/ NodeKill PROVE ReachInv'
  <2>1. CASE LoseProcess
    BY <1>18, <2>1 DEF LoseProcess
  <2>2. CASE UNCHANGED << link, toNode, running >> /\ NodeExec
    <3>1. UNCHANGED << sender, uploads >> /\ buffer' = Nothing /\ exe' = exe
      BY <2>2, ExecEffect DEF MasterStays, masterVars, uploadVars
    <3> QED BY <2>2, <3>1, ReachKept DEF BinariesStay
  <2> QED BY <1>19, <2>1, <2>2, ExecEffect, KillEffect
<1>20. ASSUME NodeWrite PROVE ReachInv'
  <2>1. UNCHANGED << sender, uploads, toNode, link, running, buffer >>
    BY <1>20 DEF NodeWrite, masterVars, uploadVars, netVars
  <2> QED BY <1>1, <1>15, <1>3, <1>4, <2>1 DEF ReachInv, Fresh, AllFresh
<1>21. ASSUME NEW c \in Conns, LoseTail(c) PROVE ReachInv'
  <2>1. UNCHANGED << sender, uploads, link, running, buffer >>
    BY <1>21, TailLost DEF masterVars, uploadVars, nodeVars
  <2>2. link # NoConn => AllBetween(toNode'[link], low, n + 1)
    <3>1. link \in Conns \cup {NoConn}
      BY SafeParts DEF NodeType
    <3>2. CASE c = link
      <4>k. PICK k \in Nat : k + 1 = Len(toNode[c])
        <5>1. Len(toNode[c]) \in Nat \ {0}
          BY <1>21, TailLost
        <5>2. Len(toNode[c]) - 1 \in Nat /\ (Len(toNode[c]) - 1) + 1 = Len(toNode[c])
          BY <5>1
        <5> QED BY <5>2
      <4>1. PICK old, new : k \in Nat /\ k + 1 = Len(old) /\ old = toNode[c] /\ new = toNode'[c]
        BY <4>k
      <4>2. Len(new) = k /\ \A i \in 1 .. k : new[i] = old[i]
        BY <1>21, <4>1, TailLost
      <4>3. AllBetween(old, low, n + 1)
        BY <1>3, <3>2, <4>1, SendersAssumption
      <4>4. \A i \in 1 .. k : i \in 1 .. k + 1
        OBVIOUS
      <4>5. AllBetween(new, low, n + 1)
        BY <4>1, <4>2, <4>3, <4>4 DEF AllBetween
      <4> QED BY <3>2, <4>1, <4>5
    <3>3. CASE c # link
      BY <1>3, <1>21, <3>1, <3>3, TailLost
    <3> QED BY <3>2, <3>3
  <2> QED BY <1>1, <1>15, <1>4, <2>1, <2>2 DEF ReachInv, Fresh, AllFresh
<1>22. ASSUME NEW u \in Uploaders, UploadCreate(u) \/ Upload(u) \/ UploadFail(u)
       PROVE  ReachInv'
  <2>1. BinariesStay /\ UNCHANGED << toNode, sender, link, buffer >>
    BY <1>22 DEF Upload, UploadCreate, UploadCopy, UploadHash, UploadSetHash, UploadFail, nodeVars,
                 masterVars, netVars, BinariesStay
  <2> QED BY <2>1, ReachKept
<1>23. ASSUME (\E h \in AdminHashes : SetNodeHash(h)) \/ NodeEOF
              \/ (\E c \in Conns : Drop(c)) \/ UNCHANGED vars
       PROVE  ReachInv'
  <2>1. BinariesStay /\ UNCHANGED << toNode, sender, buffer >> /\ link' \in {link, NoConn}
    BY <1>23 DEF SetNodeHash, NodeEOF, Drop, vars, nodeVars, masterVars, netVars, uploadVars, BinariesStay
  <2> QED BY <2>1, ReachKept
<1> QED BY <1>8, <1>9, <1>10, <1>11, <1>12, <1>13, <1>16, <1>17, <1>19, <1>20, <1>21, <1>22, <1>23
        DEF Next, SenderStep, NodeStep

(* A node is never set back: no step makes it run an older binary, however *)
(* connections break, processes are killed and calls of several times send *)
(* side by side, as long as no upload has begun during another.            *)
THEOREM NeverSetBack == Spec => NoDowngrade
<1>1. Init => FreshInv
  <2> SUFFICES ASSUME Init PROVE FreshInv
    OBVIOUS
  <2>1. running = Whole(0) /\ exe = Whole(0) /\ uploads = 0 /\ buffer = Nothing /\ link = NoConn
        /\ clients = {} /\ file \in {Nothing, Whole(1)}
    BY DEF Init
  <2>2. FileInv
    <3>1. file # Nothing => \A i \in 1 .. Len(file) : file[i][1] = 0 + 1
      BY <2>1, WholeIs
    <3>2. \A u \in Uploaders : uploader[u].pc = "idle"
      BY DEF Init, UploaderAt
    <3> QED BY <2>1, <3>1, <3>2 DEF FileInv, OneUpload
  <2>3. RunningInv
    <3>1. Version(Whole(0)) = 0 /\ 0 \in 0 .. 0 + 1
      BY WholeIs
    <3> QED BY <2>1, <3>1 DEF RunningInv
  <2>4. \A s \in Senders : sender[s].conn = NoConn
    BY DEF Init, SenderAt
  <2>5. \A c \in Conns : toNode[c] = << >> /\ c # NoConn
    BY SendersAssumption DEF Init
  <2>6. ReachInv /\ ConnInv
    BY <2>1, <2>4, <2>5 DEF ReachInv, ConnInv
  <2> QED BY <2>2, <2>3, <2>6 DEF FreshInv
<1>2. Safe /\ FreshInv /\ [Next]_vars => FreshInv'
  <2> SUFFICES ASSUME Safe, FreshInv, [Next]_vars, overlap' = "never"
               PROVE  FileInv' /\ RunningInv' /\ ReachInv' /\ ConnInv'
    BY DEF FreshInv
  <2>1. FileInv /\ RunningInv /\ ReachInv /\ ConnInv
    BY OverlapStays DEF FreshInv
  <2> QED BY <2>1, FileStep, RunningStep, ReachStep, ConnStep
<1>3. Safe /\ FreshInv /\ [Next]_vars
        => [overlap' = "never" => Version(running') >= Version(running)]_vars
  <2> SUFFICES ASSUME Safe, FreshInv, [Next]_vars, overlap' = "never"
               PROVE  Version(running') >= Version(running)
    OBVIOUS
  <2>1. RunningInv /\ ReachInv
    BY OverlapStays DEF FreshInv
  <2> QED BY <2>1, RunningStep
<1> QED BY <1>1, <1>2, <1>3, AlwaysSafe, PTL DEF Spec, NoDowngrade

-----------------------------------------------------------------------------
(* A transfer is exact while connections hold. *)

ExactInv == Calm => OneLink /\ StreamInv

LEMMA CalmWas ==
  ASSUME Safe, [Next]_vars, Calm'
  PROVE  Calm /\ ~ (\E r \in Requests : RequestStart(r)) /\ ~ MasterRestart
         /\ ~ (\E c \in Conns : Drop(c))
<1>1. drops \in Nat /\ restarts \in Nat
  BY SafeParts DEF FaultType
<1>2. drops' = 0 /\ restarts' = 0 /\ \A r \in Requests : sender'[r].pc = "none"
  BY DEF Calm, ConnectionsHold, Requested
<1>3. ~ MasterRestart /\ ~ (\E c \in Conns : Drop(c))
  BY <1>1, <1>2 DEF MasterRestart, Drop
<1>4. ASSUME NEW r \in Requests, RequestStart(r) PROVE FALSE
  <2>1. sender'[r].pc \in {"read", "done"}
    BY <1>4, RequestEffect
  <2> QED BY <1>2, <2>1
<1>5. UNCHANGED << drops, restarts >>
  <2>1. ASSUME NEW u \in Uploaders, UploadCreate(u) \/ Upload(u) \/ UploadFail(u)
        PROVE  UNCHANGED << drops, restarts >>
    BY <2>1 DEF Upload, UploadCreate, UploadCopy, UploadHash, UploadSetHash, UploadFail, faultVars
  <2>2. ASSUME NEW h \in AdminHashes, SetNodeHash(h) PROVE UNCHANGED << drops, restarts >>
    BY <2>2 DEF SetNodeHash
  <2>3. ASSUME NEW c \in Conns, Hello(c) \/ NodeDial(c) \/ LoseTail(c)
        PROVE  UNCHANGED << drops, restarts >>
    BY <2>3 DEF Hello, HelloRegister, HelloCompare, NodeDial, LoseTail, faultVars
  <2>4. ASSUME NEW s \in Senders, SenderStep(s) PROVE UNCHANGED << drops, restarts >>
    BY <2>4 DEF SenderStep, SenderRead, SenderSend, faultVars
  <2>5. ASSUME NodeStep \/ NodeKill PROVE UNCHANGED << drops, restarts >>
    BY <2>5 DEF NodeStep, NodeKill, NodeData, NodeEndUnknown, NodeEnd, NodeWrite, NodeExec, NodeEOF,
                faultVars
  <2>6. ASSUME UNCHANGED vars PROVE UNCHANGED << drops, restarts >>
    BY <2>6 DEF vars, faultVars
  <2> QED BY <1>3, <1>4, <2>1, <2>2, <2>3, <2>4, <2>5, <2>6 DEF Next
<1>6. ASSUME NEW r \in Requests PROVE sender[r].pc = "none"
  <2>1. sender' = sender \/ sender'[r] = sender[r] \/ sender'[r].pc # "none"
    <3>1. ASSUME NEW s \in Senders, SenderGoes(s, sender'[s]), sender'[s].pc # "none"
          PROVE  sender'[r] = sender[r] \/ sender'[r].pc # "none"
      BY <3>1 DEF SenderGoes, Senders
    <3>2. ASSUME OpensNothing PROVE sender' = sender
      BY <3>2 DEF OpensNothing, masterVars
    <3> QED BY <1>3, <1>4, <3>1, <3>2, OpeningSteps, RegisterEffect, CompareEffect, ReadEffect,
               SendEffect, DialEffect
  <2> QED BY <1>2, <2>1
<1>7. Calm
  BY <1>2, <1>5, <1>6 DEF Calm, ConnectionsHold, Requested
<1> QED BY <1>3, <1>4, <1>7

LEMMA Collecting ==
  ASSUME Safe, NEW content \in Contents, NEW n \in Nat, n + 1 <= Rounds(content),
         Collected(content, n), NodeData, toNode[link][1] = Packets(content)[n + 1]
  PROVE  Collected(content, n + 1)'
<1>1. PICK r \in Nat \ {0} : r = Rounds(content) /\ n + 1 \in 1 .. r
  <2>1. Rounds(content) \in Nat \ {0}
    BY PacketsAre
  <2> QED BY <2>1
<1>2. PICK bytes \in Contents : bytes = toNode[link][1].bytes
  BY DataEffect
<1>3. n + 1 # 0
  OBVIOUS
<1>4. CASE content = << >>
  <2>1. r = 1 /\ n = 0
    BY <1>1, <1>4 DEF Rounds
  <2>2. bytes = << >>
    BY <1>2, <1>4, <2>1, PacketsAre
  <2>3. buffer' = << >> /\ << >> \in Contents /\ Len(<< >>) = 0
    <3>1. buffer = Nothing
      BY <2>1 DEF Collected
    <3> QED BY <1>2, <2>2, <3>1, DataEffect
  <2> QED BY <1>3, <1>4, <2>3 DEF Collected
<1>5. CASE content # << >>
  <2>1. r = Len(content) /\ content \in Seq(Nat \X Nat)
    BY <1>1, <1>5 DEF Rounds, Contents
  <2>2. PICK chunk \in Nat \X Nat : chunk = content[n + 1]
    BY <1>1, <2>1, ListDomain
  <2>3. bytes = << chunk >> /\ << chunk >> \in Seq(Nat \X Nat) /\ Len(<< chunk >>) = 1
        /\ << chunk >>[1] = chunk
    BY <1>1, <1>2, <1>5, <2>2, PacketsAre
  <2>4. CASE n = 0
    <3>1. buffer' = bytes
      BY <1>2, <2>4, DataEffect DEF Collected
    <3>2. \A i \in 1 .. 1 : bytes[i] = content[i]
      BY <2>2, <2>3, <2>4
    <3>3. Len(bytes) = n + 1
      BY <2>3, <2>4
    <3> QED BY <1>2, <1>3, <1>5, <2>3, <3>1, <3>2, <3>3 DEF Collected
  <2>5. CASE n # 0
    <3>1. PICK old \in Seq(Nat \X Nat) :
            old = buffer /\ Len(old) = n /\ \A i \in 1 .. n : old[i] = content[i]
      BY <1>5, <2>5 DEF Collected, Contents
    <3>2. old # Nothing /\ old \in Contents
      BY <3>1, ContentsAssumption DEF Contents
    <3>3. PICK new \in Contents : new = buffer' /\ new = old \o << chunk >>
      BY <1>2, <2>3, <3>1, <3>2, DataEffect
    <3>4. /\ Len(old \o << chunk >>) = n + 1
          /\ \A i \in 1 .. n + 1 :
               (old \o << chunk >>)[i] = IF i <= n THEN old[i] ELSE << chunk >>[i - n]
      BY <2>3, <3>1, ConcatProperties
    <3>5. ASSUME NEW i \in 1 .. n + 1
          PROVE  new[i] = content[i]
      <4>1. CASE i <= n
        BY <3>1, <3>3, <3>4, <4>1
      <4>2. CASE i = n + 1
        <5>1. ~ (i <= n) /\ i - n = 1
          BY <4>2
        <5> QED BY <2>2, <2>3, <3>3, <3>4, <4>2, <5>1
      <4> QED BY <4>1, <4>2
    <3> QED BY <1>3, <1>5, <3>3, <3>4, <3>5 DEF Collected
  <2> QED BY <2>4, <2>5
<1> QED BY <1>4, <1>5

LEMMA Complete ==
  ASSUME NEW content \in Contents, Collected(content, Rounds(content))
  PROVE  buffer = content /\ buffer # Nothing
<1>1. PICK r \in Nat \ {0} : r = Rounds(content)
  BY PacketsAre
<1>2. PICK k \in Nat : k = Len(content) /\ content \in Seq(Nat \X Nat) /\ (content = << >> <=> k = 0)
  BY ListDomain DEF Contents
<1>3. k = (IF content = << >> THEN 0 ELSE r)
  BY <1>1, <1>2 DEF Rounds
<1>4. PICK collected \in Seq(Nat \X Nat) :
        collected = buffer /\ Len(collected) = k /\ \A i \in 1 .. k : collected[i] = content[i]
  BY <1>1, <1>3 DEF Collected, Contents
<1>5. collected = content
  BY <1>2, <1>4, SeqEqual
<1> QED BY <1>4, <1>5, ContentsAssumption DEF Contents

LEMMA StreamKept ==
  ASSUME StreamInv, UNCHANGED << link, proc, buffer, toNode, exe >>, reads \subseteq reads',
         link # NoConn => sender'[link] = sender[link],
         diskFaults' = 0 => diskFaults = 0
  PROVE  StreamInv'
<1>1. link = NoConn => buffer' = Nothing /\ proc' \in {"up", "down"}
  BY DEF StreamInv
<1>2. ASSUME link # NoConn, Before PROVE Before'
  BY <1>2 DEF Before
<1>3. ASSUME link # NoConn, After PROVE After'
  BY <1>3 DEF After
<1>4. ASSUME link # NoConn, NEW content \in reads, NEW n \in Nat, NEW m \in Nat, Underway(content, n, m)
      PROVE  Underway(content, n, m)'
  BY <1>4 DEF Underway, Collected
<1> QED BY <1>1, <1>2, <1>3, <1>4 DEF StreamInv

(* What the next packet of a transfer under way can be.                    *)
LEMMA NextPacket ==
  ASSUME Safe, OneLink, StreamInv, NEW type, Arriving(type)
  PROVE  \E content \in reads : \E n, m \in Nat :
           /\ Underway(content, n, m) /\ content \in Contents
           /\ n + 1 <= m
           /\ toNode[link][1] = Packets(content)[n + 1]
           /\ toNode[link][1].type = type
           /\ \/ n + 1 <= Rounds(content) /\ type = "data"
              \/ n = Rounds(content) /\ type = "end" /\ m = n + 1
<1>1. /\ link # NoConn /\ toNode[link] # << >> /\ Len(toNode[link]) \in Nat \ {0}
      /\ Head(toNode[link]).type = type /\ Head(toNode[link]) = toNode[link][1]
  BY ArrivingEffect
<1>2. PICK content \in reads : \E n, m \in Nat : Underway(content, n, m)
  BY <1>1 DEF StreamInv, Before, After
<1>3. PICK n, m \in Nat : Underway(content, n, m)
  BY <1>2
<1>4. content \in Contents
  BY SafeParts DEF ReadsType
<1>5. PICK r \in Nat \ {0} : r = Rounds(content)
  BY <1>4, PacketsAre
<1>6. Len(toNode[link]) = m - n /\ n <= m /\ n <= r /\ m <= r + 1
      /\ \A i \in 1 .. m - n : toNode[link][i] = Packets(content)[n + i]
  BY <1>3, <1>5 DEF Underway
<1>7. n + 1 <= m /\ 1 \in 1 .. m - n
  BY <1>1, <1>6
<1>8. toNode[link][1] = Packets(content)[n + 1] /\ toNode[link][1].type = type
  BY <1>1, <1>6, <1>7
<1>9. CASE n = r
  <2>1. Packets(content)[r + 1].type = "end" /\ m = n + 1
    BY <1>4, <1>5, <1>6, <1>7, <1>9, PacketsAre
  <2> QED BY <1>3, <1>4, <1>5, <1>7, <1>8, <1>9, <2>1
<1>10. CASE n # r
  <2>1. n + 1 <= r /\ n + 1 \in 1 .. r
    BY <1>6, <1>10
  <2>2. Packets(content)[n + 1].type = "data"
    <3>1. CASE content # << >>
      BY <1>4, <1>5, <2>1, <3>1, PacketsAre
    <3>2. CASE content = << >>
      <4>1. n + 1 = 1
        BY <1>5, <2>1, <3>2 DEF Rounds
      <4> QED BY <1>4, <3>2, <4>1, PacketsAre
    <3> QED BY <3>1, <3>2
  <2> QED BY <1>3, <1>4, <1>5, <1>7, <1>8, <2>1, <2>2
<1> QED BY <1>9, <1>10

LEMMA ExactData ==
  ASSUME Safe, OneLink, StreamInv, NodeData
  PROVE  OneLink' /\ StreamInv'
<1>1. /\ Arriving("data") /\ UNCHANGED << sender, alive, link, proc, reads >>
  BY DataEffect DEF MasterStays, masterVars
<1>2. PICK content \in reads : \E n, m \in Nat :
        /\ Underway(content, n, m) /\ content \in Contents /\ n + 1 <= m
        /\ toNode[link][1] = Packets(content)[n + 1]
        /\ n + 1 <= Rounds(content)
  BY <1>1, NextPacket
<1>3. PICK n, m \in Nat :
        /\ Underway(content, n, m) /\ content \in Contents /\ n + 1 <= m
        /\ toNode[link][1] = Packets(content)[n + 1]
        /\ n + 1 <= Rounds(content)
  BY <1>2
<1>4. /\ \A d \in Conns : d # link => toNode'[d] = toNode[d]
      /\ Len(toNode'[link]) = Len(toNode[link]) - 1 /\ link # NoConn /\ link \in Conns
      /\ \A i \in 1 .. Len(toNode[link]) - 1 : toNode'[link][i] = toNode[link][i + 1]
  BY <1>1, ArrivingEffect
<1>5. OneLink'
  BY <1>1, <1>4 DEF OneLink
<1>6. Len(toNode[link]) = m - n /\ \A i \in 1 .. m - n : toNode[link][i] = Packets(content)[n + i]
  BY <1>3 DEF Underway
<1>7. Len(toNode'[link]) = m - (n + 1)
  BY <1>4, <1>6
<1>8. ASSUME NEW i \in 1 .. m - (n + 1)
      PROVE  toNode'[link][i] = Packets(content)[(n + 1) + i]
  <2>1. i \in 1 .. (m - n) - 1 /\ i + 1 \in 1 .. m - n /\ n + (i + 1) = (n + 1) + i
    OBVIOUS
  <2> QED BY <1>4, <1>6, <2>1
<1>9. Collected(content, n + 1)'
  <2>1. Collected(content, n)
    BY <1>3 DEF Underway
  <2> QED BY <1>3, <2>1, Collecting
<1>10. n + 1 \in Nat
  OBVIOUS
<1>11. Underway(content, n + 1, m)'
  BY <1>1, <1>3, <1>7, <1>8, <1>9 DEF Underway
<1>12. \E k \in Nat : \E j \in Nat : Underway(content, k, j)'
  BY <1>10, <1>11
<1> QED BY <1>1, <1>4, <1>5, <1>12 DEF StreamInv

LEMMA ExactEnd ==
  ASSUME Safe, OneLink, StreamInv, NodeEnd \/ NodeEndUnknown
  PROVE  OneLink' /\ StreamInv'
<1>1. Arriving("end")
  BY DEF NodeEnd, NodeEndUnknown
<1>2. PICK content \in reads : \E n, m \in Nat :
        /\ Underway(content, n, m) /\ content \in Contents
        /\ n = Rounds(content) /\ m = n + 1
  BY <1>1, NextPacket
<1>3. PICK n, m \in Nat :
        /\ Underway(content, n, m) /\ content \in Contents
        /\ n = Rounds(content) /\ m = n + 1
  BY <1>2
<1>4. buffer = content /\ buffer # Nothing
  BY <1>3, Complete DEF Underway
<1>5. /\ NodeEnd /\ proc' = "write" /\ UNCHANGED << sender, alive, link, buffer, reads >>
  BY <1>4 DEF NodeEnd, NodeEndUnknown, masterVars
<1>6. /\ \A d \in Conns : d # link => toNode'[d] = toNode[d]
      /\ Len(toNode'[link]) = Len(toNode[link]) - 1 /\ link # NoConn /\ link \in Conns
      /\ toNode' \in [Conns -> Seq(PacketSet)]
  BY <1>1, ArrivingEffect
<1>7. OneLink'
  BY <1>5, <1>6 DEF OneLink
<1>8. toNode'[link] = << >>
  <2>1. Len(toNode[link]) = m - n
    BY <1>3 DEF Underway
  <2>2. Len(toNode'[link]) = 0
    BY <1>3, <1>6, <2>1
  <2> QED BY <1>6, <2>2, ListDomain
<1>9. sender[link].pc = "done"
  <2>1. link \in Senders /\ sender[link].todo \in Seq(PacketSet)
    BY <1>6, SenderIs DEF Senders
  <2>2. Len(sender[link].todo) = Rounds(content) + 1 - m
    BY <1>3 DEF Underway
  <2>3. Len(sender[link].todo) = 0
    <3>1. PICK r \in Nat : r = Rounds(content)
      BY <1>3
    <3> QED BY <1>3, <2>2, <3>1
  <2>4. sender[link].todo = << >>
    BY <2>1, <2>3, ListDomain
  <2>5. sender[link].pc # "send"
    BY <2>1, <2>4, SenderIs DEF SenderOK
  <2> QED BY <1>3, <2>5 DEF Underway
<1>10. After'
  BY <1>4, <1>5, <1>8, <1>9 DEF After
<1> QED BY <1>5, <1>6, <1>7, <1>10 DEF StreamInv

LEMMA ExactSend ==
  ASSUME Safe, OneLink, StreamInv, NEW s \in Senders, s \in Conns, SenderSend(s)
  PROVE  OneLink' /\ StreamInv'
<1>1. /\ sender[s].pc = "send" /\ sender[s].conn = s /\ SenderGoes(s, sender'[s])
      /\ sender'[s].pc \in {"send", "done"} /\ sender[s].todo \in Seq(PacketSet)
      /\ sender[s].todo # << >>
      /\ UNCHANGED << alive, link, proc, buffer, exe, reads, diskFaults >>
  BY SendEffect, SenderIs DEF SenderOK, nodeVars, faultVars
<1>2. CASE s # link
  <2>1. ~ alive[s]
    BY <1>2 DEF OneLink
  <2>2. toNode' = toNode
    BY <1>1, <2>1, SendEffect
  <2>3. link \in Conns \cup {NoConn}
    BY SafeParts DEF NodeType
  <2>4. link # NoConn => sender'[link] = sender[link]
    BY <1>1, <1>2, <2>3 DEF SenderGoes, Senders
  <2>5. OneLink'
    BY <1>1, <2>2, <2>4 DEF OneLink
  <2> QED BY <1>1, <2>2, <2>4, <2>5, StreamKept
<1>3. CASE s = link
  <2>1. alive[s] /\ link # NoConn
    BY <1>3, SendersAssumption DEF OneLink
  <2>2. /\ Len(toNode[s]) < LinkCap /\ sender'[s].todo = Tail(sender[s].todo)
        /\ Head(sender[s].todo) \in PacketSet
        /\ toNode' = [toNode EXCEPT ![s] = Append(toNode[s], Head(sender[s].todo))]
    BY <1>1, <2>1, SendEffect
  <2>3. PICK packet \in PacketSet : packet = Head(sender[s].todo)
    BY <2>2
  <2>4. /\ \A d \in Conns : d # s => toNode'[d] = toNode[d]
        /\ Len(toNode[s]) \in Nat
        /\ Len(toNode'[s]) = Len(toNode[s]) + 1
        /\ toNode'[s][Len(toNode[s]) + 1] = packet
        /\ \A i \in 1 .. Len(toNode[s]) : toNode'[s][i] = toNode[s][i]
    BY <2>2, <2>3, Delivered
  <2>5. PICK content \in reads : \E n, m \in Nat : Underway(content, n, m)
    BY <1>1, <1>3, <2>1 DEF StreamInv, Before, After
  <2>6. PICK n, m \in Nat : Underway(content, n, m)
    BY <2>5
  <2>7. PICK r \in Nat \ {0} : r = Rounds(content)
    BY SafeParts, PacketsAre DEF ReadsType
  <2>8. PICK todo \in Seq(PacketSet) : todo = sender[s].todo /\ todo # << >>
    BY <1>1
  <2>9. /\ n <= m /\ n <= r /\ m <= r + 1 /\ Len(toNode[s]) = m - n /\ Len(todo) = r + 1 - m
        /\ \A i \in 1 .. m - n : toNode[s][i] = Packets(content)[n + i]
        /\ \A i \in 1 .. r + 1 - m : todo[i] = Packets(content)[m + i]
    BY <1>3, <2>6, <2>7, <2>8 DEF Underway
  <2>10. /\ Len(todo) \in Nat \ {0} /\ Len(Tail(todo)) = Len(todo) - 1 /\ packet = todo[1]
         /\ \A i \in 1 .. Len(todo) - 1 : Tail(todo)[i] = todo[i + 1]
    BY <2>3, <2>8, ListTail
  <2>11. m + 1 <= r + 1 /\ 1 \in 1 .. r + 1 - m /\ m + 1 \in Nat /\ n <= m + 1
    <3>1. PICK l \in Nat \ {0} : l = Len(todo)
      BY <2>10
    <3>2. l = r + 1 - m /\ n <= m
      BY <2>9, <3>1
    <3> QED BY <3>1, <3>2
  <2>12. packet = Packets(content)[m + 1]
    BY <2>9, <2>10, <2>11
  <2>13. Len(toNode'[s]) = (m + 1) - n
    <3>1. Len(toNode'[s]) = Len(toNode[s]) + 1 /\ Len(toNode[s]) = m - n
      BY <2>4, <2>9
    <3> QED BY <3>1
  <2>14. ASSUME NEW i \in 1 .. (m + 1) - n
         PROVE  toNode'[s][i] = Packets(content)[n + i]
    <3>1. CASE i \in 1 .. m - n
      BY <2>4, <2>9, <3>1
    <3>2. CASE i = (m - n) + 1
      <4>1. n + i = m + 1
        BY <3>2
      <4> QED BY <2>4, <2>9, <2>12, <3>2, <4>1
    <3>3. i \in 1 .. m - n \/ i = (m - n) + 1
      OBVIOUS
    <3> QED BY <3>1, <3>2, <3>3
  <2>15. sender'[s].todo = Tail(todo) /\ Len(Tail(todo)) = r + 1 - (m + 1)
    <3>1. (r + 1 - m) - 1 = r + 1 - (m + 1)
      OBVIOUS
    <3>2. Len(Tail(todo)) = (r + 1 - m) - 1
      BY <2>9, <2>10
    <3> QED BY <2>2, <2>8, <3>1, <3>2
  <2>16. ASSUME NEW i \in 1 .. r + 1 - (m + 1)
         PROVE  Tail(todo)[i] = Packets(content)[(m + 1) + i]
    <3>1. i \in 1 .. (r + 1 - m) - 1 /\ i + 1 \in 1 .. r + 1 - m /\ m + (i + 1) = (m + 1) + i
      OBVIOUS
    <3> QED BY <2>9, <2>10, <3>1
  <2>17. Collected(content, n)'
    BY <1>1, <2>6 DEF Underway, Collected
  <2>18. proc' = "up"
    BY <1>1, <2>6 DEF Underway
  <2>19. Underway(content, n, m + 1)'
    BY <1>1, <1>3, <2>7, <2>9, <2>11, <2>13, <2>14, <2>15, <2>16, <2>17, <2>18 DEF Underway
  <2>20. \E k \in Nat : \E j \in Nat : Underway(content, k, j)'
    BY <2>11, <2>19
  <2>21. OneLink'
    BY <1>1, <1>3, <2>4 DEF OneLink
  <2> QED BY <1>1, <2>1, <2>20, <2>21 DEF StreamInv
<1> QED BY <1>2, <1>3

LEMMA ExactCall ==
  ASSUME Safe, OneLink, StreamInv, NEW s \in Conns, Hello(s) \/ SenderRead(s)
  PROVE  OneLink' /\ StreamInv'
<1>1. /\ s \in Senders /\ SenderGoes(s, sender'[s]) /\ MasterOnly /\ reads \subseteq reads'
      /\ sender[s].pc \in {"greet", "compare", "read"} /\ sender'[s].pc # "none"
  BY RegisterEffect, CompareEffect, ReadEffect DEF Hello, Senders
<1>2. UNCHANGED << alive, toNode, link, proc, buffer, exe, diskFaults >>
  BY <1>1 DEF MasterOnly, netVars, nodeVars, faultVars
<1>3. link \in Conns \cup {NoConn}
  BY SafeParts DEF NodeType
<1>4. OneLink'
  BY <1>1, <1>2, <1>3 DEF OneLink, SenderGoes, Senders
<1>5. CASE s # link
  <2>1. link # NoConn => sender'[link] = sender[link]
    BY <1>1, <1>3, <1>5 DEF SenderGoes, Senders
  <2> QED BY <1>1, <1>2, <1>4, <2>1, StreamKept
<1>6. CASE s = link
  <2>1. link # NoConn /\ Before
    BY <1>1, <1>6, SendersAssumption DEF StreamInv, After, Underway
  <2>2. CASE sender'[s].pc \in {"greet", "compare", "read"}
    BY <1>2, <1>4, <1>6, <2>1, <2>2 DEF StreamInv, Before
  <2>3. CASE sender'[s].pc = "done"
    BY <1>2, <1>4, <1>6, <2>1, <2>3 DEF StreamInv, Before, After
  <2>4. CASE sender'[s].pc = "send"
    <3>1. SenderRead(s)
      BY <2>4, RegisterEffect, CompareEffect DEF Hello
    <3>2. PICK content \in Contents : content = sender[s].got
      BY <1>1, SenderIs
    <3>3. sender'[s].todo = Packets(content) /\ content \in reads'
      BY <1>1, <2>4, <3>1, <3>2, ReadEffect
    <3>4. PICK r \in Nat \ {0} : r = Rounds(content) /\ Len(Packets(content)) = r + 1
      BY PacketsAre
    <3>5. 0 <= r /\ 0 <= r + 1 /\ r + 1 - 0 = r + 1 /\ 0 - 0 = 0 /\ 0 \in Nat /\ 0 <= 0
          /\ \A i \in 1 .. 0 : FALSE
      OBVIOUS
    <3>6. Collected(content, 0)'
      BY <1>2, <2>1 DEF Collected, Before
    <3>7. toNode'[link] = << >> /\ Len(<< >>) = 0 /\ proc' = "up"
      BY <1>2, <2>1 DEF Before
    <3>8. \A i \in 1 .. r + 1 : Packets(content)[0 + i] = Packets(content)[i]
      OBVIOUS
    <3>9. Underway(content, 0, 0)'
      BY <1>2, <1>6, <2>4, <3>3, <3>4, <3>5, <3>6, <3>7, <3>8 DEF Underway
    <3>10. \E k \in Nat : \E j \in Nat : Underway(content, k, j)'
      BY <3>5, <3>9
    <3> QED BY <1>2, <1>4, <2>1, <3>3, <3>10 DEF StreamInv
  <2>5. sender'[s].pc \in Pcs
    BY <1>1 DEF SenderGoes, SenderSet
  <2> QED BY <1>1, <2>2, <2>3, <2>4, <2>5 DEF Pcs
<1> QED BY <1>5, <1>6

LEMMA ExactDial ==
  ASSUME Safe, OneLink, StreamInv, NEW c \in Conns, NodeDial(c)
  PROVE  OneLink' /\ StreamInv'
<1>1. /\ c \in Senders /\ link = NoConn /\ link' = c /\ proc = "up" /\ proc' = "up"
      /\ sender'[c].pc = "greet" /\ UNCHANGED << toNode, buffer >>
      /\ alive'[c] /\ \A d \in Conns : d # c => alive'[d] = alive[d]
  BY DialEffect
<1>2. c # NoConn /\ \A d \in Conns : d # NoConn
  BY SendersAssumption
<1>3. toNode[c] = << >> /\ buffer = Nothing /\ \A d \in Conns : ~ alive[d] /\ toNode[d] = << >>
  BY <1>1, <1>2 DEF OneLink, StreamInv
<1>4. OneLink'
  BY <1>1, <1>2, <1>3 DEF OneLink
<1>5. Before'
  BY <1>1, <1>3 DEF Before
<1> QED BY <1>1, <1>2, <1>4, <1>5 DEF StreamInv

LEMMA ExactLoss ==
  ASSUME Safe, OneLink, LoseProcess, proc' \in {"up", "down"}
  PROVE  OneLink' /\ StreamInv'
<1>1. /\ link' = NoConn /\ buffer' = Nothing
      /\ \A c \in Conns : ~ alive'[c] /\ toNode'[c] = << >>
  BY LoseEffect DEF OneLink
<1>2. \A c \in Conns : c # NoConn
  BY SendersAssumption
<1> QED BY <1>1, <1>2 DEF OneLink, StreamInv

LEMMA ExactWrite ==
  ASSUME Safe, OneLink, StreamInv, NodeWrite
  PROVE  OneLink' /\ StreamInv'
<1>1. /\ proc = "write" /\ proc' = "exec" /\ UNCHANGED << sender, alive, toNode, link, buffer, reads >>
      /\ (exe' = buffer \/ diskFaults' = diskFaults + 1)
  BY DEF NodeWrite, masterVars, netVars
<1>2. link # NoConn /\ After
  BY <1>1 DEF StreamInv, Before, Underway
<1>3. diskFaults' = 0 => exe' \in reads
  <2>1. diskFaults \in Nat
    BY SafeParts DEF FaultType
  <2> QED BY <1>1, <1>2, <2>1 DEF After
<1>4. After'
  BY <1>1, <1>2, <1>3 DEF After
<1>5. OneLink'
  BY <1>1 DEF OneLink
<1> QED BY <1>1, <1>2, <1>4, <1>5 DEF StreamInv

LEMMA ExactExec ==
  ASSUME Safe, OneLink, StreamInv, NodeExec
  PROVE  OneLink' /\ StreamInv'
<1>1. CASE LoseProcess
  <2>1. proc' \in {"up", "down"}
    BY ExecEffect
  <2> QED BY <1>1, <2>1, ExactLoss
<1>2. CASE proc' = "up" /\ UNCHANGED << link, alive, toNode, running >>
  <2>1. proc = "exec" /\ buffer' = Nothing /\ UNCHANGED sender
    BY ExecEffect DEF MasterStays, masterVars
  <2>2. link # NoConn /\ After
    BY <2>1 DEF StreamInv, Before, Underway
  <2>3. After'
    BY <1>2, <2>1, <2>2 DEF After
  <2>4. OneLink'
    BY <1>2, <2>1 DEF OneLink
  <2> QED BY <1>2, <2>2, <2>3, <2>4 DEF StreamInv
<1> QED BY <1>1, <1>2, ExecEffect

LEMMA ExactStep ==
  ASSUME Safe, ExactInv, [Next]_vars
  PROVE  ExactInv'
<1> SUFFICES ASSUME Calm' PROVE OneLink' /\ StreamInv'
  BY DEF ExactInv
<1>1. /\ Calm /\ OneLink /\ StreamInv
      /\ ~ (\E r \in Requests : RequestStart(r)) /\ ~ MasterRestart /\ ~ (\E c \in Conns : Drop(c))
  BY CalmWas DEF ExactInv
<1>2. diskFaults \in Nat
  BY SafeParts DEF FaultType
<1>3. ASSUME UNCHANGED << alive, toNode, link, proc, buffer, exe, sender, reads >>,
             diskFaults' = 0 => diskFaults = 0
      PROVE  OneLink' /\ StreamInv'
  <2>1. OneLink'
    BY <1>1, <1>3 DEF OneLink
  <2> QED BY <1>1, <1>3, <2>1, StreamKept
<1>4. ASSUME NEW u \in Uploaders, UploadCreate(u) \/ Upload(u) \/ UploadFail(u)
      PROVE  OneLink' /\ StreamInv'
  <2>1. /\ UNCHANGED << alive, toNode, link, proc, buffer, exe, sender, reads >>
        /\ diskFaults' = diskFaults \/ diskFaults' = diskFaults + 1
    BY <1>4 DEF Upload, UploadCreate, UploadCopy, UploadHash, UploadSetHash, UploadFail, masterVars,
                netVars, nodeVars, faultVars
  <2> QED BY <1>2, <1>3, <2>1
<1>5. ASSUME NEW h \in AdminHashes, SetNodeHash(h)
      PROVE  OneLink' /\ StreamInv'
  BY <1>3, <1>5 DEF SetNodeHash, masterVars, netVars, nodeVars
<1>6. ASSUME NEW s \in Senders, SenderStep(s)
      PROVE  OneLink' /\ StreamInv'
  <2>1. sender[s].pc # "none"
    BY <1>6, ReadEffect, SendEffect DEF SenderStep
  <2>2. s \in Conns
    BY <1>1, <2>1 DEF Calm, Requested, Senders
  <2> QED BY <1>1, <1>6, <2>2, ExactCall, ExactSend DEF SenderStep
<1>7. ASSUME NEW c \in Conns, LoseTail(c)
      PROVE  OneLink' /\ StreamInv'
  BY <1>1, <1>7, TailLost DEF OneLink
<1>8. ASSUME NodeEOF
      PROVE  OneLink' /\ StreamInv'
  <2>1. link \in Conns /\ ~ alive[link]
    BY <1>8, SafeParts DEF NodeEOF, NodeType
  <2> QED BY <1>1, <2>1 DEF OneLink
<1>9. ASSUME NodeKill
      PROVE  OneLink' /\ StreamInv'
  <2>1. LoseProcess /\ proc' \in {"up", "down"}
    BY <1>9, KillEffect
  <2> QED BY <1>1, <2>1, ExactLoss
<1>10. ASSUME UNCHANGED vars
       PROVE  OneLink' /\ StreamInv'
  BY <1>3, <1>10 DEF vars, masterVars, netVars, nodeVars, faultVars
<1>11. ASSUME NodeData \/ NodeEndUnknown \/ NodeEnd \/ NodeWrite \/ NodeExec
       PROVE  OneLink' /\ StreamInv'
  BY <1>1, <1>11, ExactData, ExactEnd, ExactWrite, ExactExec
<1>12. ASSUME NEW c \in Conns, Hello(c) \/ NodeDial(c)
       PROVE  OneLink' /\ StreamInv'
  BY <1>1, <1>12, ExactCall, ExactDial
<1> QED BY <1>1, <1>4, <1>5, <1>6, <1>7, <1>8, <1>9, <1>10, <1>11, <1>12 DEF Next, NodeStep

(* While connections hold and no request sends beside the Hello handler,   *)
(* what the node is about to execute is what one SendFile call has read:   *)
(* no chunk is lost, doubled or out of place, whatever uploads, kills and  *)
(* refused executions come in between.                                     *)
THEOREM ExecutesWhatWasRead == Spec => []TransferIsExact
<1>1. Init => ExactInv
  <2> SUFFICES ASSUME Init PROVE OneLink /\ StreamInv
    BY DEF ExactInv
  <2>1. /\ link = NoConn /\ buffer = Nothing /\ proc = "up"
        /\ \A c \in Conns : ~ alive[c] /\ toNode[c] = << >> /\ c # NoConn
    BY SendersAssumption DEF Init
  <2> QED BY <2>1 DEF OneLink, StreamInv
<1>2. Safe /\ ExactInv /\ [Next]_vars => ExactInv'
  BY ExactStep
<1>3. ExactInv => TransferIsExact
  BY DEF ExactInv, Calm, StreamInv, Before, After, Underway, TransferIsExact
<1> QED BY <1>1, <1>2, <1>3, AlwaysSafe, PTL DEF Spec
=============================================================================
