---------------------------- MODULE ProxySession ----------------------------
(***************************************************************************)
(* A Minecraft client's session through a node: handleMinecraftConnection  *)
(* with the goroutine and the loop that copy, the players' list it enters, *)
(* and the DisconnectPlayer packet that closes its socket.                 *)
(*                                                                         *)
(* A session has two ends, the client's socket and the server's.  What     *)
(* travels are units: the packets the handler reads and writes itself (see *)
(* module Frames for their bytes) and pieces of the data it only copies.   *)
(* A Read takes any number of the units that have arrived, a Write blocks  *)
(* while the socket is full.                                               *)
(*                                                                         *)
(* TCP, as the code meets it: a peer that is gone is seen by a Read when   *)
(* what has arrived is consumed; one more Write to it succeeds, unless the *)
(* reset is there already; closing a socket with unread data, or receiving *)
(* on a closed one, resets the connection, and what the peer has not read  *)
(* by then may be lost to it.                                              *)
(*                                                                         *)
(* addPlayer and removePlayer also tell the master: see PlayerRegistry.    *)
(***************************************************************************)
EXTENDS Naturals, Sequences, FiniteSets

CONSTANTS
  Sessions,
  Casts,        \* who may come together: functions from sessions to scripts
  Route,        \* Route[d]: the server host of proxy domain d
  Cap           \* units a socket buffers in each direction

ASSUME CapAssumption == Cap \in Nat \ {0}
ASSUME CastsAssumption ==
  \A cast \in Casts :
    /\ DOMAIN cast \subseteq Sessions
    /\ \A s \in DOMAIN cast : cast[s].up \in Nat /\ cast[s].down \in Nat

Ends == {"client", "server"}
Other(e) == CHOOSE f \in Ends : f # e
Ways == {"up", "down"}
Src(w) == IF w = "up" THEN "client" ELSE "server"
Dst(w) == Other(Src(w))

(* Units.  A handshake's mark is what Forge appends to the host name; the  *)
(* extra of a login is what follows name and UUID.                         *)
Handshake(host, mark, next) ==
  [type |-> "handshake", host |-> host, mark |-> mark, next |-> next]
Login(player, extra) == [type |-> "login", player |-> player, extra |-> extra]
Request == [type |-> "request"]
Malformed == [type |-> "malformed"]
Data(from, i) == [type |-> "data", from |-> from, i |-> i]
StatusScreen(text) == [type |-> "status", text |-> text]
DisconnectScreen(text) == [type |-> "disconnect", text |-> text]
NoScreen == [type |-> "none"]

(* A script: the handshake's fields, the player, the second he joins in,   *)
(* the packet that is malformed (0: none), the data either end has to send, *)
(* and the ends that may leave.                                            *)
LogsIn(k) == k.next \in {2, 3}
ClientStream(k) ==
  LET packets == << Handshake(k.host, k.mark, k.next),
                    IF LogsIn(k) THEN Login(k.player, TRUE) ELSE Request >>
  IN  [i \in 1 .. 2 |-> IF i = k.bad THEN Malformed ELSE packets[i]]
      \o [i \in 1 .. k.up |-> Data("client", i)]
ServerStream(k) == [i \in 1 .. k.down |-> Data("server", i)]

VARIABLES
  script,   \* script[s]: what the client and the server of s do
  pc,       \* pc[s]: where the handler of s stands
  loop,     \* loop[s][w]: the two copyData calls
  buf,      \* buf[s][w]: what copyData has read and not yet written
  screen,   \* screen[s]: the screen the handler is about to send
  peer,     \* peer[s][e]: "none", "open", "gone", or "reset" by a Write
  sock,     \* sock[s][e]: the node's socket, "none", "open" or "closed"
  inq,      \* inq[s][e]: arrived from e, not read
  outq,     \* outq[s][e]: written to e, not read by it
  said,     \* said[s][e]: units e has written
  got,      \* got[s][e]: what e has read
  list,     \* utils.PlayersArray
  twins,    \* history: sessions that were listed with equal records at a time
  unread,   \* history: sessions whose client wrote what the node did not read
  cutOff,   \* history: sessions whose server took its last words with it
  kicked    \* history: sessions whose socket DisconnectPlayer has closed

ends == << peer, sock, inq, outq, said, got >>
history == << twins, unread, cutOff, kicked >>
vars == << script, pc, loop, buf, screen, ends, list, history >>

Stream(s, e) ==
  IF e = "client" THEN ClientStream(script[s]) ELSE ServerStream(script[s])

Init ==
  /\ script \in Casts
  /\ pc = [s \in Sessions |-> "new"]
  /\ loop = [s \in Sessions |-> [w \in Ways |-> "off"]]
  /\ buf = [s \in Sessions |-> [w \in Ways |-> << >>]]
  /\ screen = [s \in Sessions |-> NoScreen]
  /\ peer = [s \in Sessions |-> [e \in Ends |-> "none"]]
  /\ sock = [s \in Sessions |-> [e \in Ends |-> "none"]]
  /\ inq = [s \in Sessions |-> [e \in Ends |-> << >>]]
  /\ outq = [s \in Sessions |-> [e \in Ends |-> << >>]]
  /\ said = [s \in Sessions |-> [e \in Ends |-> 0]]
  /\ got = [s \in Sessions |-> [e \in Ends |-> << >>]]
  /\ list = << >>
  /\ twins = {} /\ unread = {} /\ cutOff = {} /\ kicked = {}

-----------------------------------------------------------------------------
(* What Read, Write and Close do with the socket to end e. *)

Lost(s, e) == peer[s][e] \in {"gone", "reset"}
OverAtOnce(s, e) ==             \* mutant: what has arrived is not read to its end
  sock[s][e] = "closed" \/ Lost(s, e)

Arrived(s, e) == sock[s][e] = "open" /\ inq[s][e] # << >>
Over(s, e) == sock[s][e] = "closed" \/ (inq[s][e] = << >> /\ Lost(s, e))

Take(s, e, n) ==
  /\ inq' = [inq EXCEPT ![s][e] = SubSeq(@, n + 1, Len(@))]
  /\ UNCHANGED << peer, sock, outq, said, got >>

WrittenUnblocked(s, e, unit) == \* mutant: a full socket does not block
  /\ sock[s][e] = "open"
  /\ peer[s][e] = "open"
  /\ outq' = [outq EXCEPT ![s][e] = Append(@, unit)]
  /\ UNCHANGED << peer, sock, inq, said, got >>

Written(s, e, unit) ==
  /\ sock[s][e] = "open"
  /\ \/ /\ peer[s][e] = "open"
        /\ Len(outq[s][e]) < Cap
        /\ outq' = [outq EXCEPT ![s][e] = Append(@, unit)]
        /\ UNCHANGED peer
     \/ /\ peer[s][e] = "gone"
        /\ peer' = [peer EXCEPT ![s][e] = "reset"]
        /\ UNCHANGED outq
  /\ UNCHANGED << sock, inq, said, got >>

WriteFails(s, e) ==
  /\ sock[s][e] = "closed" \/ Lost(s, e)
  /\ UNCHANGED ends

Prefixes(q) == { SubSeq(q, 1, n) : n \in 0 .. Len(q) }

Close(s, e) ==
  IF sock[s][e] # "open" THEN UNCHANGED << ends, unread >>
  ELSE /\ sock' = [sock EXCEPT ![s][e] = "closed"]
       /\ inq' = [inq EXCEPT ![s][e] = << >>]
       /\ IF inq[s][e] = << >> THEN UNCHANGED outq
          ELSE \E q \in Prefixes(outq[s][e]) : outq' = [outq EXCEPT ![s][e] = q]
       /\ unread' = IF e = "client" /\ inq[s][e] # << >> THEN unread \cup {s} ELSE unread
       /\ UNCHANGED << peer, said, got >>

Goto(s, at) == pc' = [pc EXCEPT ![s] = at]

(* The deferred calls, the last one first: removePlayer, serverConn.Close, *)
(* and the closure that recovers and closes clientConn.                    *)
Unwind(s, entered) ==
  IF entered THEN "leave" ELSE IF sock[s]["server"] = "open" THEN "hangup" ELSE "end"

-----------------------------------------------------------------------------
(* handleMinecraftConnection. *)

Accept(s) ==
  /\ s \in DOMAIN script
  /\ pc[s] = "new"
  /\ Goto(s, "handshake")
  /\ peer' = [peer EXCEPT ![s]["client"] = "open"]
  /\ sock' = [sock EXCEPT ![s]["client"] = "open"]
  /\ UNCHANGED << script, loop, buf, screen, inq, outq, said, got, list, history >>

RefuseWithStatus(s, text) ==    \* mutant: one kind of screen for all
  Goto(s, "request") /\ screen' = [screen EXCEPT ![s] = StatusScreen(text)]

(* A screen for the server list is sent after a packet has been read, one  *)
(* for a login at once.                                                    *)
Refuse(s, text) ==
  IF script[s].next = 1
  THEN Goto(s, "request") /\ screen' = [screen EXCEPT ![s] = StatusScreen(text)]
  ELSE Goto(s, "answer") /\ screen' = [screen EXCEPT ![s] = DisconnectScreen(text)]

FailHandshake(s) ==
  /\ Goto(s, "request")
  /\ screen' = [screen EXCEPT ![s] = StatusScreen("Network failure")]

(* What cannot be read is an error or a panic; both end the session.       *)
ReadHandshake(s) ==
  /\ pc[s] = "handshake"
  /\ \/ /\ Arrived(s, "client")
        /\ Take(s, "client", 1)
        /\ LET unit == Head(inq[s]["client"])
           IN  \/ unit = Malformed /\ FailHandshake(s)
               \/ unit = Malformed /\ Goto(s, "end") /\ UNCHANGED screen
               \/ /\ unit # Malformed
                  /\ IF unit.host \in DOMAIN Route
                     THEN Goto(s, "dial") /\ UNCHANGED screen
                     ELSE Refuse(s, "Route not found")
     \/ Over(s, "client") /\ FailHandshake(s) /\ UNCHANGED ends
  /\ UNCHANGED << script, loop, buf, list, history >>

Dial(s) ==
  /\ pc[s] = "dial"
  /\ \/ /\ Goto(s, "hello")
        /\ peer' = [peer EXCEPT ![s]["server"] = "open"]
        /\ sock' = [sock EXCEPT ![s]["server"] = "open"]
        /\ UNCHANGED screen
     \/ Refuse(s, "Server is offline") /\ UNCHANGED << peer, sock >>
  /\ UNCHANGED << script, loop, buf, inq, outq, said, got, list, history >>

StartCopying(s) ==
  Goto(s, "copy") /\ loop' = [loop EXCEPT ![s] = [w \in Ways |-> "read"]]

(* The host is the server's without a mark; a transfer becomes a login.    *)
Rewritten(k) == Handshake(Route[k.host], FALSE, IF k.next = 3 THEN 2 ELSE k.next)

ForwardHandshakeAndCopy(s) ==   \* mutant: the copying does not wait for the login
  /\ pc[s] = "hello"
  /\ \/ /\ Written(s, "server", Rewritten(script[s]))
        /\ IF LogsIn(script[s])
           THEN Goto(s, "login") /\ loop' = [loop EXCEPT ![s]["up"] = "read"]
           ELSE StartCopying(s)
        /\ UNCHANGED screen
     \/ WriteFails(s, "server") /\ Refuse(s, "Server is offline") /\ UNCHANGED loop
  /\ UNCHANGED << script, buf, list, history >>

ForwardHandshake(s) ==
  /\ pc[s] = "hello"
  /\ \/ /\ Written(s, "server", Rewritten(script[s]))
        /\ IF LogsIn(script[s]) THEN Goto(s, "login") /\ UNCHANGED loop
                                ELSE StartCopying(s)
        /\ UNCHANGED screen
     \/ WriteFails(s, "server") /\ Refuse(s, "Server is offline") /\ UNCHANGED loop
  /\ UNCHANGED << script, buf, list, history >>

ReadLogin(s) ==
  /\ pc[s] = "login"
  /\ \/ /\ Arrived(s, "client")
        /\ Take(s, "client", 1)
        /\ Goto(s, IF Head(inq[s]["client"]) = Malformed THEN "hangup" ELSE "enter")
     \/ Over(s, "client") /\ Goto(s, "hangup") /\ UNCHANGED ends
  /\ UNCHANGED << script, loop, buf, screen, list, history >>

Entry(s) == [player |-> script[s].player, at |-> script[s].at, conn |-> s]
Equal(x, y) == x.player = y.player /\ x.at = y.at

AddPlayer(s) ==
  /\ pc[s] = "enter"
  /\ Goto(s, "forward")
  /\ list' = Append(list, Entry(s))
  /\ LET same == { list[i].conn : i \in { j \in DOMAIN list : Equal(list[j], Entry(s)) } }
     IN  twins' = twins \cup (IF same = {} THEN {} ELSE same \cup {s})
  /\ UNCHANGED << script, loop, buf, screen, ends, unread, cutOff, kicked >>

(* Written anew from name and UUID. *)
ForwardLogin(s) ==
  /\ pc[s] = "forward"
  /\ \/ Written(s, "server", Login(script[s].player, FALSE)) /\ StartCopying(s)
     \/ WriteFails(s, "server") /\ Goto(s, "leave") /\ UNCHANGED loop
  /\ UNCHANGED << script, buf, screen, list, history >>

(* sendErrorScreen reads a packet and looks at neither it nor the error.   *)
ReadRequest(s) ==
  /\ pc[s] = "request"
  /\ \/ Arrived(s, "client") /\ Take(s, "client", 1)
     \/ Over(s, "client") /\ UNCHANGED ends
  /\ Goto(s, "answer")
  /\ UNCHANGED << script, loop, buf, screen, list, history >>

WriteScreen(s) ==
  /\ pc[s] = "answer"
  /\ Written(s, "client", screen[s]) \/ WriteFails(s, "client")
  /\ Goto(s, Unwind(s, FALSE))
  /\ UNCHANGED << script, loop, buf, screen, list, history >>

-----------------------------------------------------------------------------
(* copyData: the way up in a goroutine of its own, the way down in the     *)
(* handler, which ends with it.                                            *)

CopyEnds(s, w) ==
  /\ loop' = [loop EXCEPT ![s][w] = "done"]
  /\ IF w = "down" THEN Goto(s, Unwind(s, LogsIn(script[s]))) ELSE UNCHANGED pc

CopyRead(s, w) ==
  /\ loop[s][w] = "read"
  /\ \/ /\ Arrived(s, Src(w))
        /\ \E n \in 1 .. Len(inq[s][Src(w)]) :
             /\ buf' = [buf EXCEPT ![s][w] = SubSeq(inq[s][Src(w)], 1, n)]
             /\ Take(s, Src(w), n)
        /\ loop' = [loop EXCEPT ![s][w] = "write"]
        /\ UNCHANGED pc
     \/ Over(s, Src(w)) /\ CopyEnds(s, w) /\ UNCHANGED << ends, buf >>
  /\ UNCHANGED << script, screen, list, history >>

CopyWrite(s, w) ==
  /\ loop[s][w] = "write"
  /\ \/ /\ Written(s, Dst(w), Head(buf[s][w]))
        /\ buf' = [buf EXCEPT ![s][w] = Tail(@)]
        /\ loop' = [loop EXCEPT ![s][w] = IF Len(buf[s][w]) = 1 THEN "read" ELSE "write"]
        /\ UNCHANGED pc
     \/ /\ WriteFails(s, Dst(w))
        /\ buf' = [buf EXCEPT ![s][w] = << >>]
        /\ CopyEnds(s, w)
  /\ UNCHANGED << script, screen, list, history >>

-----------------------------------------------------------------------------
(* The deferred calls. *)

RemovePlayerByName(s) ==        \* mutant: the first entry of the player is removed
  /\ pc[s] = "leave"
  /\ Goto(s, "hangup")
  /\ LET same == { i \in DOMAIN list : list[i].player = script[s].player }
         i == CHOOSE i \in same : \A j \in same : i <= j
     IN  list' = IF same = {} THEN list
                 ELSE SubSeq(list, 1, i - 1) \o SubSeq(list, i + 1, Len(list))
  /\ UNCHANGED << script, loop, buf, screen, ends, history >>

(* RemovePlayer: Conn is left out of the comparison. *)
RemovePlayer(s) ==
  /\ pc[s] = "leave"
  /\ Goto(s, "hangup")
  /\ LET same == { i \in DOMAIN list : Equal(list[i], Entry(s)) }
         i == CHOOSE i \in same : \A j \in same : i <= j
     IN  list' = IF same = {} THEN list
                 ELSE SubSeq(list, 1, i - 1) \o SubSeq(list, i + 1, Len(list))
  /\ UNCHANGED << script, loop, buf, screen, ends, history >>

CloseServerNot(s) ==            \* mutant: the server's socket is not closed
  /\ pc[s] = "hangup"
  /\ Goto(s, "end")
  /\ UNCHANGED << script, loop, buf, screen, ends, list, history >>

CloseServer(s) ==
  /\ pc[s] = "hangup"
  /\ Goto(s, "end")
  /\ Close(s, "server")
  /\ UNCHANGED << script, loop, buf, screen, list, twins, cutOff, kicked >>

CloseClient(s) ==
  /\ pc[s] = "end"
  /\ Goto(s, "ended")
  /\ Close(s, "client")
  /\ UNCHANGED << script, loop, buf, screen, list, twins, cutOff, kicked >>

(* The DisconnectPlayer case: FindPlayer's first match is closed.          *)
DisconnectPlayer(p) ==
  /\ \E i \in DOMAIN list :
       /\ list[i].player = p
       /\ \A j \in 1 .. i - 1 : list[j].player # p
       /\ Close(list[i].conn, "client")
       /\ kicked' = kicked \cup {list[i].conn}
  /\ UNCHANGED << script, pc, loop, buf, screen, list, twins, cutOff >>

-----------------------------------------------------------------------------
(* The peers. *)

Say(s, e) ==
  /\ peer[s][e] = "open"
  /\ said[s][e] < Len(Stream(s, e))
  /\ said' = [said EXCEPT ![s][e] = @ + 1]
  /\ \/ /\ sock[s][e] = "open"
        /\ Len(inq[s][e]) < Cap
        /\ inq' = [inq EXCEPT ![s][e] = Append(@, Stream(s, e)[said[s][e] + 1])]
        /\ UNCHANGED << outq, unread >>
     \/ /\ sock[s][e] = "closed"
        /\ \E q \in Prefixes(outq[s][e]) : outq' = [outq EXCEPT ![s][e] = q]
        /\ unread' = IF e = "client" THEN unread \cup {s} ELSE unread
        /\ UNCHANGED inq
  /\ UNCHANGED << script, pc, loop, buf, screen, peer, sock, got, list, twins, cutOff,
                  kicked >>

Hear(s, e) ==
  /\ peer[s][e] = "open"
  /\ outq[s][e] # << >>
  /\ got' = [got EXCEPT ![s][e] = Append(@, Head(outq[s][e]))]
  /\ outq' = [outq EXCEPT ![s][e] = Tail(@)]
  /\ UNCHANGED << script, pc, loop, buf, screen, peer, sock, inq, said, list, history >>

(* It closes its end, or dies and what it wrote last is lost.              *)
Go(s, e) ==
  /\ peer[s][e] = "open"
  /\ e \in script[s].leaves
  /\ peer' = [peer EXCEPT ![s][e] = "gone"]
  /\ outq' = [outq EXCEPT ![s][e] = << >>]
  /\ \E q \in Prefixes(inq[s][e]) :
       /\ inq' = [inq EXCEPT ![s][e] = q]
       /\ cutOff' = IF e = "server" /\ q # inq[s][e] THEN cutOff \cup {s} ELSE cutOff
  /\ UNCHANGED << script, pc, loop, buf, screen, sock, said, got, list, twins, unread,
                  kicked >>

-----------------------------------------------------------------------------
Handler(s) ==
  \/ ReadHandshake(s) \/ Dial(s) \/ ForwardHandshake(s)
  \/ ReadLogin(s) \/ AddPlayer(s) \/ ForwardLogin(s)
  \/ ReadRequest(s) \/ WriteScreen(s)
  \/ CopyRead(s, "down") \/ CopyWrite(s, "down")
  \/ RemovePlayer(s) \/ CloseServer(s) \/ CloseClient(s)
Copier(s) == CopyRead(s, "up") \/ CopyWrite(s, "up")

Next ==
  \/ \E s \in Sessions : Accept(s) \/ Handler(s) \/ Copier(s)
  \/ \E i \in DOMAIN list : DisconnectPlayer(list[i].player)
  \/ \E s \in Sessions, e \in Ends : Say(s, e) \/ Hear(s, e) \/ Go(s, e)

Spec == Init /\ [][Next]_vars

(* The goroutines run whenever they can.  Clients and servers owe nothing. *)
Fairness == \A s \in Sessions : WF_vars(Handler(s)) /\ WF_vars(Copier(s))
FairSpec == Spec /\ Fairness

-----------------------------------------------------------------------------
(* Properties. *)

Scripts == UNION { { k[s] : s \in DOMAIN k } : k \in Casts }
Players == { k.player : k \in Scripts }
Texts == {"Network failure", "Route not found", "Server is offline"}
Screens == { StatusScreen(t) : t \in Texts } \cup { DisconnectScreen(t) : t \in Texts }
Entries == [player : Players, at : { k.at : k \in Scripts }, conn : Sessions]
Ranging(q) == { q[i] : i \in DOMAIN q }

(* Every variable keeps its type; the sockets hold no more than they can.  *)
TypeOK ==
  /\ script \in Casts
  /\ pc \in [Sessions -> {"new", "handshake", "dial", "hello", "login", "enter", "forward",
                          "copy", "request", "answer", "leave", "hangup", "end", "ended"}]
  /\ loop \in [Sessions -> [Ways -> {"off", "read", "write", "done"}]]
  /\ screen \in [Sessions -> Screens \cup {NoScreen}]
  /\ peer \in [Sessions -> [Ends -> {"none", "open", "gone", "reset"}]]
  /\ sock \in [Sessions -> [Ends -> {"none", "open", "closed"}]]
  /\ \A s \in DOMAIN script, e \in Ends :
       /\ Len(inq[s][e]) <= Cap /\ Len(outq[s][e]) <= Cap
       /\ Ranging(inq[s][e]) \subseteq Ranging(Stream(s, e))
       /\ said[s][e] \in 0 .. Len(Stream(s, e))
  /\ \A s \in Sessions, w \in Ways : (loop[s][w] = "write") = (buf[s][w] # << >>)
  /\ list \in Seq(Entries)
  /\ twins \subseteq Sessions /\ kicked \subseteq Sessions
  /\ unread \subseteq Sessions /\ cutOff \subseteq Sessions

Sent(s, e) == got[s][e] \o outq[s][e]
IsPrefixOf(p, q) == Len(p) <= Len(q) /\ p = SubSeq(q, 1, Len(p))

(* Whatever the client does and whoever goes first, the server is sent a   *)
(* beginning of one and the same stream: the handshake for its own host as *)
(* a login or a status request, the login, then what the client wrote,     *)
(* nothing lost, doubled or out of place.                                  *)
Forwarded(k) ==
  [ClientStream(k) EXCEPT ![1] = Rewritten(k),
                          ![2] = IF LogsIn(k) THEN Login(k.player, FALSE) ELSE @]
ServerStreamIsFaithful ==
  \A s \in DOMAIN script :
    Sent(s, "server") # << >> =>
      /\ script[s].host \in DOMAIN Route
      /\ IsPrefixOf(Sent(s, "server"), Forwarded(script[s]))

(* What a client receives is a beginning of the server's data or one       *)
(* screen, never both, and the screen is of the kind it can show: one for  *)
(* the server list is sent to no client but one that asked for its status, *)
(* unless it was the handshake that could not be read.                     *)
ClientStreamIsFaithful ==
  \A s \in DOMAIN script :
    \/ IsPrefixOf(Sent(s, "client"), ServerStream(script[s]))
    \/ /\ Sent(s, "client") = << screen[s] >>
       /\ screen[s].type = (IF script[s].next = 1 THEN "status" ELSE "disconnect")
          \/ screen[s].text = "Network failure"

(* The last word arrives: a client that is still there gets the screen, or *)
(* all the server said before it went (a kick message, say).  Two ways to  *)
(* lose it are left out because the code has them: the client wrote what   *)
(* the node never read, so that closing the socket resets it (a login sent *)
(* to a domain without route, say); and DisconnectPlayer.                  *)
Stays(s) == peer[s]["client"] = "open" /\ s \notin kicked \cup unread
TheLastWordArrives ==
  \A s \in DOMAIN script :
    pc[s] = "ended" /\ Stays(s) =>
      /\ screen[s] # NoScreen => Sent(s, "client") = << screen[s] >>
      /\ loop[s]["down"] = "done" /\ s \notin cutOff =>
           Sent(s, "client") = SubSeq(ServerStream(script[s]), 1, said[s]["server"])

(* The entry FindPlayer returns holds the socket of a session that is on:  *)
(* DisconnectPlayer reaches the player.  Sessions with equal records (one  *)
(* player twice in a second) are left out: RemovePlayer takes the first of *)
(* the two, and the other may be left with a closed socket.                *)
Entered(s) == pc[s] \in {"forward", "copy", "leave"} /\ LogsIn(script[s])
EntriesHoldTheirSockets ==
  \A s \in DOMAIN script \ twins :
    Cardinality({ i \in DOMAIN list : list[i].conn = s }) = (IF Entered(s) THEN 1 ELSE 0)

(* The handler is blocked by a peer that is there and does not read, or    *)
(* does not write.                                                         *)
WaitsFor(s, e) ==
  /\ peer[s][e] = "open" /\ sock[s][e] = "open"
  /\ \/ inq[s][e] = << >> /\ \/ e = "client" /\ pc[s] \in {"handshake", "login", "request"}
                             \/ e = "server" /\ loop[s]["down"] = "read"
     \/ Len(outq[s][e]) = Cap /\ \/ e = "client" /\ pc[s] = "answer"
                                 \/ e = "client" /\ loop[s]["down"] = "write"
                                 \/ e = "server" /\ pc[s] \in {"hello", "forward"}

(* A session that has ended leaves nothing behind: both sockets are closed *)
(* and the goroutine that copies up has ended, blocked in a Write as it    *)
(* may have been.                                                          *)
Released(s) ==
  /\ pc[s] = "ended"
  /\ loop[s]["up"] \in {"off", "done"}
  /\ \A e \in Ends : sock[s][e] # "open"

(* When one end is gone, or DisconnectPlayer has closed the client's       *)
(* socket, the session ends for good or waits for the other end.  It does  *)
(* wait: a client that has left stays listed while its server is silent,   *)
(* because only the way down ends the handler.                             *)
SessionsEnd ==
  \A s \in Sessions, e \in Ends :
    Lost(s, e) \/ (e = "client" /\ s \in kicked)
      ~> Released(s) \/ WaitsFor(s, Other(e))
=============================================================================
