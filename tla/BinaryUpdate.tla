---------------------------- MODULE BinaryUpdate ----------------------------
(***************************************************************************)
(* How a new node binary travels from an upload at the master to a node    *)
(* that replaces itself with it.                                           *)
(*                                                                         *)
(*   UpdateBinary   writes the uploaded file to updates/wirednode-<arch>,  *)
(*                  hashes that file and stores the hash in the config     *)
(*   Hello          a node whose hash is another one is sent the file      *)
(*   /api/node/update  sends the file to every client                      *)
(*   node           collects the chunks under the label "upgrade", and at  *)
(*                  the end packet replaces its executable and execs it    *)
(*                                                                         *)
(* Abstractions.  One node, one architecture.  A binary of version v is    *)
(* the sequence of the chunks <<v, 1>> .. <<v, Chunks>>; sha256sum is      *)
(* injective, so the hash of a file is its content.  Packets are written   *)
(* and read whole.  Nothing stands for a missing file, the hash "" and a   *)
(* label absent from binaryData.                                           *)
(***************************************************************************)
EXTENDS Naturals, Sequences, FiniteSets

CONSTANTS
  Conns,        \* connections the node may open
  Requests,     \* calls of /api/node/update
  Uploaders,    \* calls of /api/node/update-binary that may run at a time
  NoConn, Nothing,
  Chunks,       \* chunks of a binary
  LinkCap,      \* packets a socket buffers before Write blocks
  AdminHashes,  \* hashes set through /api/node/set-hash
  MaxUploads,   \* bound: uploads
  MaxDrops,     \* bound: connections the network breaks
  MaxKills,     \* bound: node processes killed and started again
  MaxRestarts,  \* bound: restarts of the master
  MaxDiskFaults, \* bound: writes of a file that fail
  MaxEvents     \* bound: uploads, requests, hashes set and faults together

ASSUME SendersAssumption ==
  Conns \cap Requests = {} /\ NoConn \notin Conns
ASSUME SizesAssumption ==
  Chunks \in Nat \ {0} /\ LinkCap \in Nat \ {0} /\ MaxUploads \in Nat

Contents == Seq(Nat \X Nat)
ASSUME ContentsAssumption ==
  Nothing \notin Contents /\ AdminHashes \subseteq Contents \cup {Nothing}

Senders == Conns \cup Requests
Whole(v) == [i \in 1 .. Chunks |-> << v, i >>]
Hole == << 0, 0 >>
IsWhole(content) == \E v \in 0 .. MaxUploads + 1 : content = Whole(v)

VARIABLES
  file,       \* updates/wirednode-<arch> at the master
  hash,       \* config.CurrentAmd64Hash (or Arm64)
  uploads,    \* uploads begun
  uploader,   \* uploader[u]: where UpdateBinary stands
  overlap,    \* history: whether uploads overlap "now", that is since the last one
              \* that began alone, have done so "before" it, or "never"
  trusted,    \* history: since an upload that overlapped none was complete nobody has
              \* set the hash by hand, and no upload has overlapped another, failed or
              \* died with the master
  clients,    \* addresses in utils.Clients
  sender,     \* sender[s]: where handler or request s stands in sendBinaryUpdate
  alive,      \* alive[c]: neither end nor the network has ended the connection
  toNode,     \* toNode[c]: binary packets in flight
  helloHash,  \* helloHash[c]: the hash in the Hello sent on c
  link,       \* the node's global `master`
  proc,       \* the node process: "up", "write", "exec" (in upgrade), "down"
  running,    \* the binary the node process was started from (nodeHash)
  exe,        \* the node's executable file
  buffer,     \* binaryData["upgrade"]
  drops, kills, restarts, diskFaults, sets,
  reads       \* history: the contents SendFile calls have read

uploadVars == << uploads, uploader, overlap, trusted >>
masterVars == << clients, sender >>
netVars    == << alive, toNode, helloHash >>
nodeVars   == << link, proc, running, exe, buffer >>
faultVars  == << drops, kills, restarts, diskFaults, sets >>
vars == << file, hash, uploadVars, masterVars, netVars, nodeVars, faultVars, reads >>

Requested == { r \in Requests : sender[r].pc # "none" }
MoreEvents ==
  uploads + Cardinality(Requested) + drops + kills + restarts + diskFaults + sets
    < MaxEvents

UploaderAt(pc, version, at, sum) ==
  [pc |-> pc, version |-> version, at |-> at, sum |-> sum]
SenderAt(pc, conn, got, todo) ==
  [pc |-> pc, conn |-> conn, got |-> got, todo |-> todo]

Init ==
  /\ file \in {Nothing, Whole(1)}
  /\ hash = file
  /\ uploads = 0
  /\ uploader = [u \in Uploaders |-> UploaderAt("idle", 0, 0, Nothing)]
  /\ overlap = "never"
  /\ trusted = TRUE
  /\ clients = {}
  /\ sender = [s \in Senders |-> SenderAt("none", NoConn, << >>, << >>)]
  /\ alive = [c \in Conns |-> FALSE]
  /\ toNode = [c \in Conns |-> << >>]
  /\ helloHash = [c \in Conns |-> Nothing]
  /\ link = NoConn
  /\ proc = "up"
  /\ running = Whole(0)
  /\ exe = Whole(0)
  /\ buffer = Nothing
  /\ drops = 0 /\ kills = 0 /\ restarts = 0 /\ diskFaults = 0 /\ sets = 0
  /\ reads = {}

-----------------------------------------------------------------------------
(* UpdateBinary. *)

NoUpload == \A u \in Uploaders : uploader[u].pc = "idle"

(* saveFile: os.Create truncates the file, also under another upload.      *)
UploadCreate(u) ==
  /\ uploader[u].pc = "idle"
  /\ uploads < MaxUploads /\ MoreEvents
  /\ uploads' = uploads + 1
  /\ uploader' = [uploader EXCEPT ![u] = UploaderAt("copy", uploads + 2, 0, Nothing)]
  /\ file' = << >>
  /\ overlap' = IF ~ NoUpload THEN "now" ELSE IF overlap = "never" THEN "never" ELSE "before"
  /\ UNCHANGED << hash, trusted, masterVars, netVars, nodeVars, faultVars, reads >>

(* A write at a position of the writer's own; a file that has been         *)
(* truncated meanwhile is filled up with zeros.                            *)
WriteAt(content, i, chunk) ==
  [j \in 1 .. (IF i > Len(content) THEN i ELSE Len(content)) |->
     IF j = i THEN chunk ELSE IF j > Len(content) THEN Hole ELSE content[j]]

UploadCopyOnly(u) ==            \* mutant: the new hash is never stored
  LET up == uploader[u]
      i  == up.at + 1
  IN  /\ up.pc = "copy"
      /\ file' = WriteAt(file, i, << up.version, i >>)
      /\ uploader' = [uploader EXCEPT
           ![u] = UploaderAt(IF i = Chunks THEN "idle" ELSE "copy", up.version, i, Nothing)]
      /\ UNCHANGED << hash, uploads, overlap, trusted, masterVars, netVars, nodeVars, faultVars, reads >>

UploadCopy(u) ==
  LET up == uploader[u]
      i  == up.at + 1
  IN  /\ up.pc = "copy"
      /\ file' = WriteAt(file, i, << up.version, i >>)
      /\ uploader' = [uploader EXCEPT
           ![u] = UploaderAt(IF i = Chunks THEN "hash" ELSE "copy", up.version, i, Nothing)]
      /\ UNCHANGED << hash, uploads, overlap, trusted, masterVars, netVars, nodeVars, faultVars, reads >>

(* io.Copy fails: the request is answered with an error, the file stays.   *)
UploadFail(u) ==
  /\ uploader[u].pc = "copy"
  /\ diskFaults < MaxDiskFaults /\ MoreEvents
  /\ diskFaults' = diskFaults + 1
  /\ uploader' = [uploader EXCEPT ![u] = UploaderAt("idle", 0, 0, Nothing)]
  /\ trusted' = FALSE
  /\ UNCHANGED << file, hash, uploads, overlap, masterVars, netVars, nodeVars, drops,
                  kills, restarts, sets, reads >>

(* getFileHash: sha256sum of the file as it is by now. *)
UploadHash(u) ==
  /\ uploader[u].pc = "hash"
  /\ uploader' = [uploader EXCEPT ![u] = UploaderAt("set", 0, 0, file)]
  /\ UNCHANGED << file, hash, uploads, overlap, trusted, masterVars, netVars, nodeVars,
                  faultVars, reads >>

UploadSetHash(u) ==
  /\ uploader[u].pc = "set"
  /\ hash' = uploader[u].sum
  /\ trusted' = (overlap # "now")
  /\ uploader' = [uploader EXCEPT ![u] = UploaderAt("idle", 0, 0, Nothing)]
  /\ UNCHANGED << file, uploads, overlap, masterVars, netVars, nodeVars, faultVars, reads >>

SetNodeHash(h) ==
  /\ MoreEvents
  /\ sets' = sets + 1
  /\ hash' = h
  /\ trusted' = FALSE
  /\ UNCHANGED << file, uploads, uploader, overlap, masterVars, netVars, nodeVars, drops,
                  kills, restarts, diskFaults, reads >>

-----------------------------------------------------------------------------
(* sendBinaryUpdate, called by the Hello case and by /api/node/update. *)

HelloRegister(c) ==
  /\ sender[c].pc = "greet"
  /\ clients' = clients \cup {c}
  /\ sender' = [sender EXCEPT ![c].pc = "compare"]
  /\ UNCHANGED << file, hash, uploadVars, netVars, nodeVars, faultVars, reads >>

HelloCompare(c) ==
  /\ sender[c].pc = "compare"
  /\ sender' = [sender EXCEPT ![c].pc = IF helloHash[c] # hash THEN "read" ELSE "done"]
  /\ UNCHANGED << file, hash, uploadVars, clients, netVars, nodeVars, faultVars, reads >>

(* GetClients keeps one entry of the node; entries are never removed.      *)
RequestStart(r) ==
  /\ sender[r].pc = "none" /\ MoreEvents
  /\ \/ /\ clients = {}
        /\ sender' = [sender EXCEPT ![r].pc = "done"]
     \/ \E c \in clients :
          sender' = [sender EXCEPT ![r] = SenderAt("read", c, << >>, << >>)]
  /\ UNCHANGED << file, hash, uploadVars, clients, netVars, nodeVars, faultVars, reads >>

(* splitBytes: an empty file is one empty slice.  The end packet follows.  *)
Data(bytes) == [type |-> "data", bytes |-> bytes]
End == [type |-> "end", bytes |-> << >>]
Packets(content) ==
  IF content = << >>
  THEN << Data(<< >>), End >>
  ELSE Append([i \in 1 .. Len(content) |-> Data(<< content[i] >>)], End)

(* os.Stat, then io.ReadAll, which ends where the file ends by then.       *)
SenderRead(s) ==
  LET at == sender[s] IN
  /\ at.pc = "read"
  /\ \/ /\ file = Nothing
        /\ sender' = [sender EXCEPT ![s].pc = "done"]
        /\ UNCHANGED reads
     \/ /\ file # Nothing
        /\ Len(at.got) < Len(file)
        /\ sender' = [sender EXCEPT ![s].got = Append(@, file[Len(@) + 1])]
        /\ UNCHANGED reads
     \/ /\ file # Nothing
        /\ Len(at.got) >= Len(file)
        /\ sender' = [sender EXCEPT
             ![s] = SenderAt("send", at.conn, << >>, Packets(at.got))]
        /\ reads' = reads \cup {at.got}
  /\ UNCHANGED << file, hash, uploadVars, clients, netVars, nodeVars, faultVars >>

(* One SendPacket of SendFile; an error ends the call. *)
SenderSendUnblocked(s) ==       \* mutant: a full socket does not block
  LET at == sender[s] IN
  /\ at.pc = "send"
  /\ toNode' = [toNode EXCEPT ![at.conn] = Append(@, Head(at.todo))]
  /\ sender' = [sender EXCEPT
       ![s] = SenderAt(IF Len(at.todo) = 1 THEN "done" ELSE "send",
                       at.conn, << >>, Tail(at.todo))]
  /\ UNCHANGED << file, hash, uploadVars, clients, alive, helloHash, nodeVars,
                  faultVars, reads >>

SenderSendRetry(s) ==           \* mutant: an error does not end the call
  LET at == sender[s] IN
  /\ at.pc = "send"
  /\ alive[at.conn]
  /\ Len(toNode[at.conn]) < LinkCap
  /\ toNode' = [toNode EXCEPT ![at.conn] = Append(@, Head(at.todo))]
  /\ sender' = [sender EXCEPT
       ![s] = SenderAt(IF Len(at.todo) = 1 THEN "done" ELSE "send",
                       at.conn, << >>, Tail(at.todo))]
  /\ UNCHANGED << file, hash, uploadVars, clients, alive, helloHash, nodeVars,
                  faultVars, reads >>

SenderSend(s) ==
  LET at == sender[s] IN
  /\ at.pc = "send"
  /\ \/ /\ ~ alive[at.conn]
        /\ sender' = [sender EXCEPT ![s] = SenderAt("done", at.conn, << >>, << >>)]
        /\ UNCHANGED toNode
     \/ /\ alive[at.conn]
        /\ Len(toNode[at.conn]) < LinkCap
        /\ toNode' = [toNode EXCEPT ![at.conn] = Append(@, Head(at.todo))]
        /\ sender' = [sender EXCEPT
             ![s] = SenderAt(IF Len(at.todo) = 1 THEN "done" ELSE "send",
                             at.conn, << >>, Tail(at.todo))]
  /\ UNCHANGED << file, hash, uploadVars, clients, alive, helloHash, nodeVars,
                  faultVars, reads >>

-----------------------------------------------------------------------------
(* The node. *)

(* dialMaster and the Hello with the hash taken when the process started.  *)
NodeDial(c) ==
  /\ proc = "up"
  /\ link = NoConn
  /\ sender[c].pc = "none"
  /\ link' = c
  /\ alive' = [alive EXCEPT ![c] = TRUE]
  /\ helloHash' = [helloHash EXCEPT ![c] = running]
  /\ sender' = [sender EXCEPT ![c] = SenderAt("greet", c, << >>, << >>)]
  /\ UNCHANGED << file, hash, uploadVars, clients, toNode, proc, running, exe, buffer,
                  faultVars, reads >>

Arriving(type) ==
  /\ proc = "up"
  /\ link # NoConn
  /\ toNode[link] # << >>
  /\ Head(toNode[link]).type = type
  /\ toNode' = [toNode EXCEPT ![link] = Tail(@)]

NodeDataReplace ==              \* mutant: a chunk replaces those before it
  /\ Arriving("data")
  /\ buffer' = Head(toNode[link]).bytes
  /\ UNCHANGED << file, hash, uploadVars, masterVars, alive, helloHash, link, proc,
                  running, exe, faultVars, reads >>

NodeData ==
  /\ Arriving("data")
  /\ LET bytes == Head(toNode[link]).bytes
     IN  buffer' = IF buffer = Nothing THEN bytes ELSE buffer \o bytes
  /\ UNCHANGED << file, hash, uploadVars, masterVars, alive, helloHash, link, proc,
                  running, exe, faultVars, reads >>

(* BinaryEnd for a label nothing was collected under is logged only.       *)
NodeEndUnknown ==
  /\ Arriving("end")
  /\ buffer = Nothing
  /\ UNCHANGED << file, hash, uploadVars, masterVars, alive, helloHash, nodeVars,
                  faultVars, reads >>

(* upgrade: os.RemoveAll of the executable ... *)
NodeEnd ==
  /\ Arriving("end")
  /\ buffer # Nothing
  /\ exe' = Nothing
  /\ proc' = "write"
  /\ UNCHANGED << file, hash, uploadVars, masterVars, alive, helloHash, link, running,
                  buffer, faultVars, reads >>

(* ... then a new file is written (a slice that fails is logged only) ...  *)
NodeWrite ==
  /\ proc = "write"
  /\ proc' = "exec"
  /\ \/ exe' = buffer /\ UNCHANGED diskFaults
     \/ /\ diskFaults < MaxDiskFaults /\ MoreEvents
        /\ diskFaults' = diskFaults + 1
        /\ exe' = << >>
  /\ UNCHANGED << file, hash, uploadVars, masterVars, netVars, link, running, buffer,
                  drops, kills, restarts, sets, reads >>

(* The process is gone: its socket is closed, its memory lost. *)
LoseProcess ==
  /\ link' = NoConn
  /\ buffer' = Nothing
  /\ alive' = [c \in Conns |-> IF c = link THEN FALSE ELSE alive[c]]
  /\ toNode' = [c \in Conns |-> IF c = link THEN << >> ELSE toNode[c]]

(* ... and executed: a whole binary starts anew.  Another content is       *)
(* refused by exec, and the old process goes on, or it ends the node.      *)
NodeExecKeepsSocket ==          \* mutant: the new process inherits connection and buffer
  /\ proc = "exec"
  /\ proc' = "up"
  /\ buffer' = Nothing
  /\ running' = IF IsWhole(exe) THEN exe ELSE running
  /\ UNCHANGED << file, hash, uploadVars, masterVars, netVars, link, exe, faultVars,
                  reads >>

NodeExecNever ==                \* mutant: the file is replaced, the process goes on
  /\ proc = "exec"
  /\ proc' = "up"
  /\ buffer' = Nothing
  /\ UNCHANGED << file, hash, uploadVars, masterVars, netVars, link, running, exe,
                  faultVars, reads >>

NodeExec ==
  /\ proc = "exec"
  /\ \/ /\ IsWhole(exe)
        /\ LoseProcess
        /\ proc' = "up"
        /\ running' = exe
     \/ /\ ~ IsWhole(exe)
        /\ proc' = "up"
        /\ buffer' = Nothing
        /\ UNCHANGED << link, alive, toNode, running >>
     \/ /\ ~ IsWhole(exe)
        /\ LoseProcess
        /\ proc' = "down"
        /\ UNCHANGED running
  /\ UNCHANGED << file, hash, uploadVars, masterVars, helloHash, exe, faultVars, reads >>

(* The node process is killed at any point and started from its file.      *)
NodeKill ==
  /\ proc # "down"
  /\ kills < MaxKills /\ MoreEvents
  /\ kills' = kills + 1
  /\ LoseProcess
  /\ IF IsWhole(exe) THEN proc' = "up" /\ running' = exe
                     ELSE proc' = "down" /\ UNCHANGED running
  /\ UNCHANGED << file, hash, uploadVars, masterVars, helloHash, exe, drops, restarts,
                  diskFaults, sets, reads >>

(* EOF: loadPublicKey and a new connection; binaryData stays as it is.     *)
NodeEOF ==
  /\ proc = "up"
  /\ link # NoConn
  /\ ~ alive[link]
  /\ toNode[link] = << >>
  /\ link' = NoConn
  /\ UNCHANGED << file, hash, uploadVars, masterVars, netVars, proc, running, exe,
                  buffer, faultVars, reads >>

-----------------------------------------------------------------------------
(* The network, and the master process as a whole. *)

Drop(c) ==
  /\ alive[c]
  /\ drops < MaxDrops /\ MoreEvents
  /\ drops' = drops + 1
  /\ alive' = [alive EXCEPT ![c] = FALSE]
  /\ UNCHANGED << file, hash, uploadVars, masterVars, toNode, helloHash, nodeVars,
                  kills, restarts, diskFaults, sets, reads >>

LoseTail(c) ==
  /\ ~ alive[c]
  /\ toNode[c] # << >>
  /\ toNode' = [toNode EXCEPT ![c] = SubSeq(@, 1, Len(@) - 1)]
  /\ UNCHANGED << file, hash, uploadVars, masterVars, alive, helloHash, nodeVars,
                  faultVars, reads >>

MasterRestart ==
  /\ restarts < MaxRestarts /\ MoreEvents
  /\ restarts' = restarts + 1
  /\ uploader' = [u \in Uploaders |-> UploaderAt("idle", 0, 0, Nothing)]
  /\ trusted' = (trusted /\ NoUpload)
  /\ clients' = {}
  /\ sender' = [s \in Senders |->
       IF sender[s].pc = "none" THEN sender[s]
       ELSE SenderAt("done", sender[s].conn, << >>, << >>)]
  /\ alive' = [c \in Conns |-> FALSE]
  /\ UNCHANGED << file, hash, uploads, overlap, toNode, helloHash, nodeVars, drops,
                  kills, diskFaults, sets, reads >>

-----------------------------------------------------------------------------
Upload(u) == UploadCopy(u) \/ UploadHash(u) \/ UploadSetHash(u)
SenderStep(s) == SenderRead(s) \/ SenderSend(s)
Hello(c) == HelloRegister(c) \/ HelloCompare(c)
NodeStep ==
  NodeData \/ NodeEndUnknown \/ NodeEnd \/ NodeWrite \/ NodeExec \/ NodeEOF

Next ==
  \/ \E u \in Uploaders : UploadCreate(u) \/ Upload(u) \/ UploadFail(u)
  \/ \E h \in AdminHashes : SetNodeHash(h)
  \/ \E c \in Conns : Hello(c) \/ NodeDial(c)
  \/ \E r \in Requests : RequestStart(r)
  \/ \E s \in Senders : SenderStep(s)
  \/ NodeStep \/ NodeKill
  \/ \E c \in Conns : Drop(c) \/ LoseTail(c)
  \/ MasterRestart

Spec == Init /\ [][Next]_vars

(* Handlers, requests and the node's reader run.  An uploader and the      *)
(* faults need not.                                                        *)
Fairness ==
  /\ \A u \in Uploaders : WF_vars(Upload(u))
  /\ \A c \in Conns : WF_vars(Hello(c))
  /\ \A s \in Senders : WF_vars(SenderRead(s)) /\ SF_vars(SenderSend(s))
  /\ WF_vars(NodeStep)
  /\ WF_vars(\E c \in Conns : NodeDial(c))

FairSpec == Spec /\ Fairness

-----------------------------------------------------------------------------
(* Properties. *)

PacketSet == [type : {"data", "end"}, bytes : Contents]

(* Every variable keeps its type; a socket holds no more than it has room  *)
(* for, so a stalled node blocks its senders (Conn.Write has no deadline). *)
TypeOK ==
  /\ file \in Contents \cup {Nothing}
  /\ hash \in Contents \cup {Nothing}
  /\ uploads \in Nat
  /\ uploader \in [Uploaders -> [pc : {"idle", "copy", "hash", "set"}, version : Nat,
                                 at : Nat, sum : Contents \cup {Nothing}]]
  /\ clients \subseteq Conns
  /\ sender \in [Senders -> [pc : {"none", "greet", "compare", "read", "send", "done"},
                             conn : Conns \cup {NoConn}, got : Contents,
                             todo : Seq(PacketSet)]]
  /\ alive \in [Conns -> BOOLEAN]
  /\ toNode \in [Conns -> Seq(PacketSet)]
  /\ \A c \in Conns : Len(toNode[c]) <= LinkCap
  /\ helloHash \in [Conns -> Contents \cup {Nothing}]
  /\ link \in Conns \cup {NoConn}
  /\ proc \in {"up", "write", "exec", "down"}
  /\ running \in Contents
  /\ exe \in Contents \cup {Nothing}
  /\ buffer \in Contents \cup {Nothing}
  /\ {drops, kills, restarts, diskFaults, sets} \subseteq Nat
  /\ \A content \in reads : content \in Contents
  /\ overlap \in {"never", "now", "before"} /\ trusted \in BOOLEAN

(* As long as no upload has begun during another, a node is never set back *)
(* to an older binary.  That holds although connections break and several  *)
(* calls may be sending it contents they read at different times: exec     *)
(* ends the connection they are all bound to.                              *)
Version(content) == content[1][1]
NoDowngrade == [][overlap' = "never" => Version(running') >= Version(running)]_vars

(* The stored hash is the hash of the stored file whenever no upload is    *)
(* under way, crashes of the master between the three steps of an upload,  *)
(* failed uploads and uploads that ran into each other apart; and the next *)
(* upload that is complete, with no other beside it, sets right what those *)
(* have left.  So a Hello does not transfer the binary to a node that runs *)
(* it.                                                                     *)
HashDescribesFile == NoUpload /\ trusted => hash = file

(* While connections hold and no request sends beside the handler, what    *)
(* the node is about to execute is exactly what one SendFile call has read: *)
(* no chunk is lost, doubled or out of place, although uploads, kills and  *)
(* failed execs come in between.                                           *)
ConnectionsHold == drops = 0 /\ restarts = 0
TransferIsExact ==
  (proc = "exec" /\ diskFaults = 0 /\ ConnectionsHold /\ Requested = {}) => exe \in reads

(* Every call of sendBinaryUpdate returns, so that the Hello case goes on  *)
(* to answer with the routes and the HTTP request is answered.             *)
TransfersEnd ==
  \A s \in Senders : sender[s].pc \in {"read", "send"} ~> sender[s].pc = "done"

(* An outdated node comes to run the published binary for good, if no      *)
(* connection breaks, the node is not killed and no request sends it the   *)
(* binary a second time.                                                   *)
Undisturbed ==
  drops = 0 /\ kills = 0 /\ Requested = {}
NodeBecomesCurrent ==
  <>[](file # Nothing /\ Undisturbed => running = file /\ link # NoConn)

(* Claim (README.md:15): the master sends the latest binary and the node   *)
(* restarts to apply it.  What the node executes is a whole binary.        *)
UpgradesAreWhole == (proc = "exec" /\ diskFaults = 0) => IsWhole(exe)
=============================================================================
