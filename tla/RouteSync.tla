----------------------------- MODULE RouteSync -----------------------------
(***************************************************************************)
(* How a change of the route table travels from the master's HTTP handlers *)
(* to the nodes.                                                           *)
(*                                                                         *)
(*   AddRoute / RemoveRoute  (one goroutine per request)                   *)
(*        change config.Routes, then put a token into SignalChannel        *)
(*   routeUpdater            (one goroutine)                               *)
(*        takes a token, marshals config.Routes, copies the client map,    *)
(*        writes the packet to each client in turn                         *)
(*   handleConnection        (one goroutine per accepted connection)       *)
(*        on Hello: registers the client, reads config.Routes, replies     *)
(*   handleMasterConnection  (one reader per node)                         *)
(*        stores every table it receives, redials when the link ends       *)
(*                                                                         *)
(* Abstractions.  The route table is the number of changes made to it so   *)
(* far: two tables are told apart exactly when a change lies between them. *)
(* A packet is written and read whole, the key exchange is part of the     *)
(* dial, and a binary update sent between registration and reply only      *)
(* takes time.  A remote address is used by one connection, and node ids   *)
(* are not spelled like remote addresses.                                  *)
(***************************************************************************)
EXTENDS Naturals, Sequences

CONSTANTS
  Nodes,        \* system keys of the nodes (hello.Key)
  Conns,        \* connections, named by their remote address at the master
  Owner,        \* Owner[c] is the node that opens connection c
  Stalling,     \* nodes that may stop reading and keep their connections
  Admins,       \* HTTP handler goroutines that change routes
  NoConn,       \* "the node is dialling"
  SignalCap,    \* capacity of SignalChannel (8 in the code)
  LinkCap,      \* packets a socket buffers before Write blocks
  MaxVersion,   \* bound: changes of the route table, plus one
  MaxRestarts   \* bound: restarts of the master

ASSUME ConnsAssumption ==
  /\ Owner \in [Conns -> Nodes]
  /\ NoConn \notin Conns
  /\ Conns \cap Nodes = {}
ASSUME StallingAssumption == Stalling \subseteq Nodes
ASSUME BoundsAssumption ==
  /\ SignalCap \in Nat \ {0}
  /\ LinkCap \in Nat \ {0}
  /\ MaxVersion \in Nat \ {0}
  /\ MaxRestarts \in Nat

VARIABLES
  version,      \* the master's config.Routes, counted in changes
  admin,        \* admin[a]: "idle", or "signal" between the change and the send
  signals,      \* tokens buffered in SignalChannel
  updater,      \* routeUpdater: program counter, marshalled table, clients to go
  handler,      \* handler[c]: where handleConnection stands for connection c
  handlerKey,   \* handlerKey[c]: the local variable `key` its defer closes over
  reply,        \* reply[c]: the table the Hello case has read for its reply
  clients,      \* addresses in utils.Clients (the entry's Key is Owner[c])
  alive,        \* alive[c]: neither end nor the network has ended the connection
  toNode,       \* toNode[c]: Routes packets in flight to the node
  link,         \* link[n]: the node's global `master`, NoConn while it dials
  routes,       \* routes[n]: the node's config.Routes (0: whatever its file held)
  restarts,     \* restarts of the master so far
  newest,       \* history: the highest version written to c while it was alive
  last          \* history: the last packet written to c while it was alive

vars == << version, admin, signals, updater, handler, handlerKey, reply, clients,
           alive, toNode, link, routes, restarts, newest, last >>

masterVars == << handler, handlerKey, reply, clients >>
netVars    == << alive, toNode, newest, last >>
nodeVars   == << link, routes >>

Versions == 1 .. MaxVersion

UpdaterAt(pc, table, todo) == [pc |-> pc, table |-> table, todo |-> todo]
Waiting == UpdaterAt("wait", 0, {})

Init ==
  /\ version = 1
  /\ admin = [a \in Admins |-> "idle"]
  /\ signals = 0
  /\ updater = Waiting
  /\ handler = [c \in Conns |-> "none"]
  /\ handlerKey = [c \in Conns |-> c]
  /\ reply = [c \in Conns |-> 0]
  /\ clients = {}
  /\ alive = [c \in Conns |-> FALSE]
  /\ toNode = [c \in Conns |-> << >>]
  /\ link = [n \in Nodes |-> NoConn]
  /\ routes = [n \in Nodes |-> 0]
  /\ restarts = 0
  /\ newest = [c \in Conns |-> 0]
  /\ last = [c \in Conns |-> [by |-> "nobody", table |-> 0]]

-----------------------------------------------------------------------------
(* Conn.Write from the master.  It blocks while the socket buffer is full;  *)
(* on a connection that has ended it fails, and every caller logs the error *)
(* and goes on.                                                             *)
Write(c, by, table) ==
  IF alive[c]
  THEN /\ Len(toNode[c]) < LinkCap
       /\ toNode' = [toNode EXCEPT ![c] = Append(@, table)]
       /\ newest' = [newest EXCEPT ![c] = IF table > @ THEN table ELSE @]
       /\ last' = [last EXCEPT ![c] = [by |-> by, table |-> table]]
       /\ UNCHANGED alive
  ELSE UNCHANGED netVars

(* utils.GetClients copies the map into one keyed by node: of the entries  *)
(* that belong to one node an arbitrary one survives (map iteration order). *)
ClientCopies ==
  { S \in SUBSET clients :
      /\ \A c \in clients : \E d \in S : Owner[d] = Owner[c]
      /\ \A c, d \in S : Owner[c] = Owner[d] => c = d }

-----------------------------------------------------------------------------
(* The HTTP handlers. *)

(* AddRoute, RemoveRoute: the change of config.Routes of a request that is *)
(* not refused (a refused one changes nothing and sends no signal).        *)
ChangeRoutesNoSignal(a) ==      \* mutant: the handler forgets the signal
  /\ admin[a] = "idle"
  /\ version < MaxVersion
  /\ version' = version + 1
  /\ UNCHANGED << admin, signals, updater, masterVars, netVars, nodeVars, restarts >>

ChangeRoutes(a) ==
  /\ admin[a] = "idle"
  /\ version < MaxVersion
  /\ version' = version + 1
  /\ admin' = [admin EXCEPT ![a] = "signal"]
  /\ UNCHANGED << signals, updater, masterVars, netVars, nodeVars, restarts >>

(* SignalChannel <- true: blocks while the buffer is full. *)
SignalUnbuffered(a) ==          \* mutant: the send does not respect the capacity
  /\ admin[a] = "signal"
  /\ signals' = signals + 1
  /\ admin' = [admin EXCEPT ![a] = "idle"]
  /\ UNCHANGED << version, updater, masterVars, netVars, nodeVars, restarts >>

Signal(a) ==
  /\ admin[a] = "signal"
  /\ signals < SignalCap
  /\ signals' = signals + 1
  /\ admin' = [admin EXCEPT ![a] = "idle"]
  /\ UNCHANGED << version, updater, masterVars, netVars, nodeVars, restarts >>

-----------------------------------------------------------------------------
(* routeUpdater. *)

UpdaterReceive ==
  /\ updater.pc = "wait"
  /\ signals > 0
  /\ signals' = signals - 1
  /\ updater' = UpdaterAt("marshal", 0, {})
  /\ UNCHANGED << version, admin, masterVars, netVars, nodeVars, restarts >>

UpdaterMarshal ==
  /\ updater.pc = "marshal"
  /\ updater' = UpdaterAt("clients", version, {})
  /\ UNCHANGED << version, admin, signals, masterVars, netVars, nodeVars, restarts >>

UpdaterClients ==
  /\ updater.pc = "clients"
  /\ \E S \in ClientCopies :
       updater' = IF S = {} THEN Waiting ELSE UpdaterAt("send", updater.table, S)
  /\ UNCHANGED << version, admin, signals, masterVars, netVars, nodeVars, restarts >>

AfterSend(todo) ==
  IF todo = {} THEN Waiting ELSE UpdaterAt("send", updater.table, todo)

UpdaterSendOrReturn(c) ==       \* mutant: a failed write ends the goroutine
  /\ updater.pc = "send"
  /\ c \in updater.todo
  /\ Write(c, "push", updater.table)
  /\ updater' = IF alive[c] THEN AfterSend(updater.todo \ {c})
                ELSE UpdaterAt("returned", 0, {})
  /\ UNCHANGED << version, admin, signals, masterVars, nodeVars, restarts >>

UpdaterSend(c) ==
  /\ updater.pc = "send"
  /\ c \in updater.todo
  /\ Write(c, "push", updater.table)
  /\ updater' = AfterSend(updater.todo \ {c})
  /\ UNCHANGED << version, admin, signals, masterVars, nodeVars, restarts >>

-----------------------------------------------------------------------------
(* handleConnection, from the accepted connection on. *)

(* The Hello packet is read, node and passphrase are right: `key` becomes  *)
(* the node's key and the connection is entered in utils.Clients.  The     *)
(* packet may still be in the socket after the connection has ended.       *)
HelloRegister(c) ==
  /\ handler[c] = "greet"
  /\ handler' = [handler EXCEPT ![c] = "registered"]
  /\ handlerKey' = [handlerKey EXCEPT ![c] = Owner[c]]
  /\ clients' = clients \cup {c}
  /\ UNCHANGED << version, admin, signals, updater, reply, netVars, nodeVars, restarts >>

(* routes := config.GetRoutes() *)
HelloRead(c) ==
  /\ handler[c] = "registered"
  /\ handler' = [handler EXCEPT ![c] = "reply"]
  /\ reply' = [reply EXCEPT ![c] = version]
  /\ UNCHANGED << version, admin, signals, updater, handlerKey, clients,
                  netVars, nodeVars, restarts >>

HelloReply(c) ==
  /\ handler[c] = "reply"
  /\ Write(c, "hello", reply[c])
  /\ handler' = [handler EXCEPT ![c] = "loop"]
  /\ UNCHANGED << version, admin, signals, updater, handlerKey, reply, clients,
                  nodeVars, restarts >>

(* The deferred function: FindClient and RemoveClient with the variable    *)
(* `key`, which since the Hello is not the key of the map any more.        *)
Deferred(c, key) ==
  /\ alive' = [alive EXCEPT ![c] = FALSE]
  /\ clients' = clients \ {key}
  /\ handler' = [handler EXCEPT ![c] = "ended"]

(* Unknown node or wrong passphrase: the node list is edited at any time,  *)
(* so a Hello may always be refused.                                       *)
HelloReject(c) ==
  /\ handler[c] = "greet"
  /\ handlerKey' = [handlerKey EXCEPT ![c] = Owner[c]]
  /\ Deferred(c, Owner[c])
  /\ UNCHANGED << version, admin, signals, updater, reply, toNode, newest, last,
                  nodeVars, restarts >>

(* The read fails with EOF or a reset: before the Hello or in the loop. *)
HandlerEnd(c) ==
  /\ handler[c] \in {"greet", "loop"}
  /\ ~ alive[c]
  /\ Deferred(c, handlerKey[c])
  /\ UNCHANGED << version, admin, signals, updater, handlerKey, reply, toNode,
                  newest, last, nodeVars, restarts >>

-----------------------------------------------------------------------------
(* handleMasterConnection on the node. *)

(* loadPublicKey and dialMaster succeed, the shared secret and the Hello   *)
(* are sent; the master accepts the connection.                            *)
NodeDial(n, c) ==
  /\ link[n] = NoConn
  /\ Owner[c] = n
  /\ handler[c] = "none"
  /\ link' = [link EXCEPT ![n] = c]
  /\ alive' = [alive EXCEPT ![c] = TRUE]
  /\ handler' = [handler EXCEPT ![c] = "greet"]
  /\ UNCHANGED << version, admin, signals, updater, handlerKey, reply, clients,
                  toNode, routes, restarts, newest, last >>

(* A Routes packet: config.SetRoutes(routes.Routes). *)
NodeReceiveOnce(n) ==           \* mutant: only the first table is stored
  /\ link[n] # NoConn
  /\ toNode[link[n]] # << >>
  /\ routes' = [routes EXCEPT ![n] = IF @ = 0 THEN Head(toNode[link[n]]) ELSE @]
  /\ toNode' = [toNode EXCEPT ![link[n]] = Tail(@)]
  /\ UNCHANGED << version, admin, signals, updater, masterVars, alive, link,
                  restarts, newest, last >>

NodeReceive(n) ==
  /\ link[n] # NoConn
  /\ toNode[link[n]] # << >>
  /\ routes' = [routes EXCEPT ![n] = Head(toNode[link[n]])]
  /\ toNode' = [toNode EXCEPT ![link[n]] = Tail(@)]
  /\ UNCHANGED << version, admin, signals, updater, masterVars, alive, link,
                  restarts, newest, last >>

(* EOF, once what the socket still held has been read: the reader starts   *)
(* over with loadPublicKey.                                                *)
NodeEOF(n) ==
  /\ link[n] # NoConn
  /\ ~ alive[link[n]]
  /\ toNode[link[n]] = << >>
  /\ link' = [link EXCEPT ![n] = NoConn]
  /\ UNCHANGED << version, admin, signals, updater, masterVars, netVars, routes,
                  restarts >>

(* The node process ends (upgrade, crash) and starts again: its sockets    *)
(* are closed, its table is the one its config.json holds.                 *)
NodeRestart(n) ==
  /\ link[n] # NoConn
  /\ alive' = [alive EXCEPT ![link[n]] = FALSE]
  /\ toNode' = [toNode EXCEPT ![link[n]] = << >>]
  /\ link' = [link EXCEPT ![n] = NoConn]
  /\ UNCHANGED << version, admin, signals, updater, masterVars, routes, restarts,
                  newest, last >>

-----------------------------------------------------------------------------
(* The network, and the master process as a whole. *)

Drop(c) ==
  /\ alive[c]
  /\ alive' = [alive EXCEPT ![c] = FALSE]
  /\ UNCHANGED << version, admin, signals, updater, masterVars, toNode, newest,
                  last, nodeVars, restarts >>

(* Of what was in flight on an ended connection any suffix may be lost. *)
LoseTail(c) ==
  /\ ~ alive[c]
  /\ toNode[c] # << >>
  /\ toNode' = [toNode EXCEPT ![c] = SubSeq(@, 1, Len(@) - 1)]
  /\ UNCHANGED << version, admin, signals, updater, masterVars, alive, newest,
                  last, nodeVars, restarts >>

(* config.json keeps the routes; goroutines, channel, client map and       *)
(* connections are gone.                                                   *)
MasterRestart ==
  /\ restarts < MaxRestarts
  /\ restarts' = restarts + 1
  /\ admin' = [a \in Admins |-> "idle"]
  /\ signals' = 0
  /\ updater' = Waiting
  /\ handler' = [c \in Conns |-> IF handler[c] = "none" THEN "none" ELSE "ended"]
  /\ clients' = {}
  /\ alive' = [c \in Conns |-> FALSE]
  /\ UNCHANGED << version, handlerKey, reply, toNode, newest, last, nodeVars >>

-----------------------------------------------------------------------------
Updater == UpdaterReceive \/ UpdaterMarshal \/ UpdaterClients
             \/ \E c \in Conns : UpdaterSend(c)
HandlerStep(c) == HelloRegister(c) \/ HelloRead(c) \/ HelloReply(c) \/ HandlerEnd(c)
NodeRead(n) == NodeReceive(n) \/ NodeEOF(n)

Next ==
  \/ \E a \in Admins : ChangeRoutes(a) \/ Signal(a)
  \/ Updater
  \/ \E c \in Conns : HandlerStep(c) \/ HelloReject(c)
  \/ \E n \in Nodes : NodeRead(n) \/ NodeRestart(n)
  \/ \E n \in Nodes, c \in Conns : NodeDial(n, c)
  \/ \E c \in Conns : Drop(c) \/ LoseTail(c)
  \/ MasterRestart

Spec == Init /\ [][Next]_vars

(* Runnable goroutines run: the updater, the handlers, each node's reader   *)
(* and redialling loop.  Of the handlers blocked on the full channel the    *)
(* runtime serves the longest waiting one, hence strong fairness of Signal. *)
(* A node of Stalling (its process hangs, its host is gone) may stop        *)
(* reading: a Write to its full socket has no deadline, and whichever       *)
(* client the updater's range comes to first, it may be that one.           *)
(* Nothing obliges an admin to change routes, the network to break or a     *)
(* process to restart.                                                      *)
UpdaterStuck ==
  /\ updater.pc = "send"
  /\ \E c \in updater.todo :
       Owner[c] \in Stalling /\ alive[c] /\ Len(toNode[c]) = LinkCap

Fairness ==
  /\ WF_vars(~ UpdaterStuck /\ Updater)
  /\ \A c \in Conns : WF_vars(HandlerStep(c))
  /\ \A n \in Nodes \ Stalling : WF_vars(NodeRead(n))
  /\ \A n \in Nodes : WF_vars(\E c \in Conns : NodeDial(n, c))
  /\ \A a \in Admins : SF_vars(Signal(a))

FairSpec == Spec /\ Fairness

-----------------------------------------------------------------------------
(* Properties. *)

UpdaterStates ==
  [pc : {"wait", "marshal", "clients", "send"}, table : Nat, todo : SUBSET Conns]

(* Every variable keeps its type; the channel never holds more tokens than *)
(* it has room for (routes/add_route.go: make(chan bool, 8)).              *)
TypeOK ==
  /\ version \in Nat \ {0}
  /\ admin \in [Admins -> {"idle", "signal"}]
  /\ signals \in 0 .. SignalCap
  /\ updater \in UpdaterStates
  /\ handler \in [Conns -> {"none", "greet", "registered", "reply", "loop", "ended"}]
  /\ handlerKey \in [Conns -> Conns \cup Nodes]
  /\ reply \in [Conns -> Nat]
  /\ clients \subseteq Conns
  /\ alive \in [Conns -> BOOLEAN]
  /\ toNode \in [Conns -> Seq(Nat)]
  /\ link \in [Nodes -> Conns \cup {NoConn}]
  /\ routes \in [Nodes -> Nat]
  /\ restarts \in Nat
  /\ newest \in [Conns -> Nat]
  /\ last \in [Conns -> [by : {"nobody", "push", "hello"}, table : Nat]]

(* c is registered, up, and the only entry of its node in utils.Clients. *)
Serving(c) ==
  /\ c \in clients
  /\ alive[c]
  /\ \A d \in clients : Owner[d] = Owner[c] => d = c

(* A change the updater has not marshalled yet is announced. *)
Announced == signals > 0 \/ \E a \in Admins : admin[a] = "signal"

(* The updater has not marshalled yet what it was woken for, or holds the  *)
(* present table and has still to write it to c.                           *)
UpdaterWillSend(c) ==
  \/ updater.pc = "marshal"
  \/ updater.pc = "clients" /\ updater.table = version
  \/ updater.pc = "send" /\ updater.table = version /\ c \in updater.todo

HandlerWillSend(c) ==
  \/ handler[c] = "registered"
  \/ handler[c] = "reply" /\ reply[c] = version

Quiet == ~ Announced /\ updater.pc = "wait"

(* No update is lost: a node served by one connection has been sent the    *)
(* present table, or somebody is still going to send it.  The hazard is    *)
(* the window between a Hello being registered and answered while routes   *)
(* change and the updater is in the middle of a round.                     *)
NoLostUpdate ==
  \A c \in Conns : Serving(c) =>
    \/ newest[c] = version
    \/ Announced
    \/ UpdaterWillSend(c)
    \/ HandlerWillSend(c)

(* The end-to-end consequence: when the master has nothing left to do and  *)
(* the node has read everything, the node holds the present table unless   *)
(* the last packet it was sent is the answer to its Hello -- the one packet *)
(* that carries a table read before a round that overtook it.              *)
PushedNodesAreCurrent ==
  \A c \in Conns :
    /\ Serving(c) /\ handler[c] = "loop" /\ Quiet
    /\ link[Owner[c]] = c /\ toNode[c] = << >>
    => routes[Owner[c]] = version \/ last[c].by = "hello"

(* A change that has been signalled reaches every node that is served when *)
(* it is signalled and stays so: the node comes to hold that table or a    *)
(* newer one, unless it stops reading for good, or another node does that  *)
(* the updater then waits for.                                             *)
StopsReading(c) == toNode[c] # << >> \/ UpdaterStuck

ChangesReachNodes ==
  \A c \in Conns, v \in Versions :
    (Serving(c) /\ version = v /\ signals > 0)
      ~> ((routes[Owner[c]] >= v \/ ~ Serving(c)) \/ []StopsReading(c))

(* A request that changed the routes is answered: the send on the bounded  *)
(* SignalChannel gets through whatever nodes connect, hang up or restart.  *)
(* The one thing that holds it up is a node that has stopped reading and   *)
(* whose socket is full: the updater, and then every request, waits for it. *)
SignalsGetThrough ==
  \A a \in Admins : admin[a] = "signal" ~> (admin[a] = "idle" \/ []UpdaterStuck)

(* Claim (README.md:13): the nodes proxy the routes given by the master.   *)
(* Once routes stop changing, a node that stays connected comes to hold    *)
(* the master's table and keeps it.                                        *)
NodesConverge ==
  \A n \in Nodes :
    <>[](routes[n] = version \/ link[n] = NoConn \/ ~ alive[link[n]])

(* Claim (master.go:417, README.md:13): a change of the routes is sent to  *)
(* all clients, so also to a node that has connected more than once.       *)
AllClientsAreSent ==
  \A c \in clients :
    \/ ~ alive[c]
    \/ newest[c] = version
    \/ Announced
    \/ UpdaterWillSend(c)
    \/ HandlerWillSend(c)
=============================================================================
