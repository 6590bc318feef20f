--------------------------- MODULE PlayerRegistry ---------------------------
(***************************************************************************)
(* The lists of players: the node's own and the one the master shows.      *)
(*                                                                         *)
(*   handleMinecraftConnection  (node, one goroutine per player)           *)
(*        enters the player in the node's list, sends PlayerAdd to the     *)
(*        master; when the session ends, takes the player off the list and *)
(*        500 ms later sends PlayerRemove -- both on whatever connection   *)
(*        the global `master` is by then                                   *)
(*   handleConnection  (master, one goroutine per connection)              *)
(*        appends and removes what arrives on its connection               *)
(*                                                                         *)
(* Abstractions.  One node.  The key exchange is part of the dial; packets *)
(* are written and read whole.  A record is a protocol.Player without its  *)
(* Conn: two sessions may have equal records (same player, same second).   *)
(***************************************************************************)
EXTENDS Naturals, Sequences, FiniteSets

CONSTANTS
  Sessions,     \* logins of players at the node
  Record,       \* Record[s]: the protocol.Player of session s
  Conns,        \* connections of the node, named by their remote address
  NoConn,
  LinkCap,      \* packets a socket buffers before Write blocks
  MaxDrops,     \* bound: connections the network breaks
  MaxRestarts   \* bound: restarts of either process

ASSUME NamesAssumption == NoConn \notin Conns
ASSUME RecordAssumption == DOMAIN Record = Sessions
ASSUME BoundsAssumption ==
  LinkCap \in Nat \ {0} /\ MaxDrops \in Nat /\ MaxRestarts \in Nat

VARIABLES
  session,      \* session[s]: where the goroutine of the player stands
  local,        \* the node's utils.PlayersArray
  link,         \* the node's global `master`, NoConn while it is a closed one
  serving,      \* the proxy server listens: the first dial has succeeded
  alive,        \* alive[c]: neither end nor the network has ended the connection
  handler,      \* handler[c]: "none", "loop", "ended"
  toMaster,     \* toMaster[c]: player packets in flight
  listed,       \* the master's utils.PlayersArray
  clients,      \* addresses in the master's utils.Clients
  drops, restarts,
  addedOn,      \* history: the connection PlayerAdd was written to, or NoConn
  removedOn,    \* history: the connection PlayerRemove was written to, or NoConn
  lossy         \* history: connections that have lost a packet

sessionVars == << session, local, addedOn, removedOn >>
netVars     == << alive, toMaster, lossy >>
masterVars  == << handler, listed, clients >>
faultVars   == << drops, restarts >>
vars == << sessionVars, link, serving, netVars, masterVars, drops, restarts >>

Records == { Record[s] : s \in Sessions }

Init ==
  /\ session = [s \in Sessions |-> "new"]
  /\ local = << >>
  /\ link = NoConn
  /\ serving = FALSE
  /\ alive = [c \in Conns |-> FALSE]
  /\ handler = [c \in Conns |-> "none"]
  /\ toMaster = [c \in Conns |-> << >>]
  /\ listed = << >>
  /\ clients = {}
  /\ drops = 0 /\ restarts = 0
  /\ addedOn = [s \in Sessions |-> NoConn]
  /\ removedOn = [s \in Sessions |-> NoConn]
  /\ lossy = {}

-----------------------------------------------------------------------------
RemoveAll(list, record) ==      \* mutant: the loop does not stop at the first
  SelectSeq(list, LAMBDA entry : entry # record)

RemoveOldest(list, record) ==   \* mutant: the index found is not the one cut out
  IF \A i \in DOMAIN list : list[i] # record THEN list ELSE Tail(list)

RemoveNone(list, record) ==     \* mutant: records are compared with their Conn
  list

(* RemovePlayer: the first entry that equals the player is cut out. *)
RemoveFirst(list, record) ==
  IF \A i \in DOMAIN list : list[i] # record
  THEN list
  ELSE LET i == CHOOSE i \in DOMAIN list :
                  list[i] = record /\ \A j \in 1 .. i - 1 : list[j] # record
       IN  SubSeq(list, 1, i - 1) \o SubSeq(list, i + 1, Len(list))

SendUnblocked(type, s) ==       \* mutant: a full socket does not block
  IF link # NoConn /\ alive[link]
  THEN toMaster' = [toMaster EXCEPT
         ![link] = Append(@, [type |-> type, record |-> Record[s]])]
  ELSE UNCHANGED toMaster

(* master.SendPacket: fails on a connection that has ended, and the error  *)
(* is logged; blocks while the socket is full.                             *)
Send(type, s) ==
  IF link # NoConn /\ alive[link]
  THEN /\ Len(toMaster[link]) < LinkCap
       /\ toMaster' = [toMaster EXCEPT
            ![link] = Append(@, [type |-> type, record |-> Record[s]])]
  ELSE UNCHANGED toMaster

SentOn == IF link # NoConn /\ alive[link] THEN link ELSE NoConn

-----------------------------------------------------------------------------
(* The player's goroutine on the node. *)

(* addPlayer: utils.AddPlayer.  The proxy server starts after the first dial. *)
Join(s) ==
  /\ serving
  /\ session[s] = "new"
  /\ session' = [session EXCEPT ![s] = "joined"]
  /\ local' = Append(local, Record[s])
  /\ UNCHANGED << addedOn, removedOn, link, netVars, masterVars, faultVars, serving >>

(* addPlayer: SendPacket(PlayerAdd). *)
Announce(s) ==
  /\ session[s] = "joined"
  /\ Send("add", s)
  /\ session' = [session EXCEPT ![s] = "playing"]
  /\ addedOn' = [addedOn EXCEPT ![s] = SentOn]
  /\ UNCHANGED << local, removedOn, link, alive, lossy, masterVars, faultVars,
                  serving >>

(* The copying ends; the deferred removePlayer. *)
Leave(s) ==
  /\ session[s] = "playing"
  /\ session' = [session EXCEPT ![s] = "leaving"]
  /\ local' = RemoveFirst(local, Record[s])
  /\ UNCHANGED << addedOn, removedOn, link, netVars, masterVars, faultVars, serving >>

(* 500 ms later, on the connection there is by then. *)
Farewell(s) ==
  /\ session[s] = "leaving"
  /\ Send("remove", s)
  /\ session' = [session EXCEPT ![s] = "gone"]
  /\ removedOn' = [removedOn EXCEPT ![s] = SentOn]
  /\ UNCHANGED << local, addedOn, link, alive, lossy, masterVars, faultVars, serving >>

-----------------------------------------------------------------------------
(* The node's connection. *)

NodeDial(c) ==
  /\ link = NoConn
  /\ handler[c] = "none"
  /\ link' = c
  /\ serving' = TRUE
  /\ alive' = [alive EXCEPT ![c] = TRUE]
  /\ handler' = [handler EXCEPT ![c] = "loop"]
  /\ clients' = clients \cup {c}
  /\ UNCHANGED << sessionVars, toMaster, lossy, listed, drops, restarts >>

NodeEOF ==
  /\ link # NoConn
  /\ ~ alive[link]
  /\ link' = NoConn
  /\ UNCHANGED << sessionVars, netVars, masterVars, faultVars, serving >>

(* The node process ends and starts again: its players are thrown out. *)
NodeRestart ==
  /\ restarts < MaxRestarts
  /\ restarts' = restarts + 1
  /\ session' = [s \in Sessions |-> IF session[s] = "new" THEN "new" ELSE "gone"]
  /\ local' = << >>
  /\ link' = NoConn
  /\ serving' = FALSE
  /\ alive' = [c \in Conns |-> IF c = link THEN FALSE ELSE alive[c]]
  /\ UNCHANGED << addedOn, removedOn, toMaster, lossy, masterVars, drops >>

-----------------------------------------------------------------------------
(* handleConnection on the master. *)

MasterReceive(c) ==
  /\ handler[c] = "loop"
  /\ toMaster[c] # << >>
  /\ LET packet == Head(toMaster[c])
     IN  listed' = IF packet.type = "add"
                   THEN Append(listed, packet.record)
                   ELSE RemoveFirst(listed, packet.record)
  /\ toMaster' = [toMaster EXCEPT ![c] = Tail(@)]
  /\ UNCHANGED << sessionVars, link, alive, lossy, handler, clients, faultVars,
                  serving >>

(* EOF: the handler returns; neither the entry in utils.Clients nor the    *)
(* players of the node go away.                                            *)
MasterEOF(c) ==
  /\ handler[c] = "loop"
  /\ ~ alive[c]
  /\ toMaster[c] = << >>
  /\ handler' = [handler EXCEPT ![c] = "ended"]
  /\ UNCHANGED << sessionVars, link, netVars, listed, clients, faultVars, serving >>

MasterRestart ==
  /\ restarts < MaxRestarts
  /\ restarts' = restarts + 1
  /\ handler' = [c \in Conns |-> IF handler[c] = "none" THEN "none" ELSE "ended"]
  /\ listed' = << >>
  /\ clients' = {}
  /\ alive' = [c \in Conns |-> FALSE]
  /\ lossy' = lossy \cup { c \in Conns : toMaster[c] # << >> }
  /\ toMaster' = [c \in Conns |-> << >>]
  /\ UNCHANGED << sessionVars, link, drops, serving >>

-----------------------------------------------------------------------------
(* The network. *)

Drop(c) ==
  /\ alive[c]
  /\ drops < MaxDrops
  /\ drops' = drops + 1
  /\ alive' = [alive EXCEPT ![c] = FALSE]
  /\ UNCHANGED << sessionVars, link, toMaster, lossy, masterVars, restarts, serving >>

LoseTail(c) ==
  /\ ~ alive[c]
  /\ toMaster[c] # << >>
  /\ toMaster' = [toMaster EXCEPT ![c] = SubSeq(@, 1, Len(@) - 1)]
  /\ lossy' = lossy \cup {c}
  /\ UNCHANGED << sessionVars, link, alive, masterVars, faultVars, serving >>

-----------------------------------------------------------------------------
Next ==
  \/ \E s \in Sessions : Join(s) \/ Announce(s) \/ Leave(s) \/ Farewell(s)
  \/ \E c \in Conns : NodeDial(c) \/ MasterReceive(c) \/ MasterEOF(c)
  \/ NodeEOF \/ NodeRestart \/ MasterRestart
  \/ \E c \in Conns : Drop(c) \/ LoseTail(c)

Spec == Init /\ [][Next]_vars

-----------------------------------------------------------------------------
(* Properties. *)

Packets == [type : {"add", "remove"}, record : Records]

(* Every variable keeps its type. *)
TypeOK ==
  /\ session \in [Sessions -> {"new", "joined", "playing", "leaving", "gone"}]
  /\ local \in Seq(Records)
  /\ link \in Conns \cup {NoConn}
  /\ serving \in BOOLEAN
  /\ alive \in [Conns -> BOOLEAN]
  /\ handler \in [Conns -> {"none", "loop", "ended"}]
  /\ toMaster \in [Conns -> Seq(Packets)]
  /\ \A c \in Conns : Len(toMaster[c]) <= LinkCap
  /\ listed \in Seq(Records)
  /\ clients \subseteq Conns
  /\ drops \in Nat /\ restarts \in Nat
  /\ addedOn \in [Sessions -> Conns \cup {NoConn}]
  /\ removedOn \in [Sessions -> Conns \cup {NoConn}]
  /\ lossy \subseteq Conns

Count(list, r) == Cardinality({ i \in DOMAIN list : list[i] = r })
Having(S, r) == Cardinality({ s \in S : Record[s] = r })

(* The node's own list is, as a bag, the sessions between addPlayer and    *)
(* removePlayer, although equal records are removed in any order.          *)
Here == { s \in Sessions : session[s] \in {"joined", "playing"} }
LocalListIsExact == \A r \in Records : Count(local, r) = Having(Here, r)

(* s is over, both its packets went out on one connection that lost none,  *)
(* and the master has read that connection to its end.                     *)
Settled(s) ==
  /\ session[s] = "gone"
  /\ addedOn[s] # NoConn
  /\ removedOn[s] = addedOn[s]
  /\ addedOn[s] \notin lossy
  /\ toMaster[addedOn[s]] = << >>

(* Every entry of the master's list is explained by a session whose Add    *)
(* was written and that is not settled: what two handlers do in whatever   *)
(* order never leaves a player behind whose packets share a connection.    *)
Unsettled == { s \in Sessions : addedOn[s] # NoConn /\ ~ Settled(s) }
EntriesAreExplained == \A r \in Records : Count(listed, r) <= Having(Unsettled, r)

(* A player who is playing and was announced on the connection that is     *)
(* still up is listed once the master has read it, as often as at the node *)
(* -- with a record of his own through whatever faults, with one that      *)
(* others share as long as connections hold, nobody restarts and nothing   *)
(* is under way.  After a fault equal records may differ for ever: both    *)
(* packets are sent once, nothing is purged.                               *)
AtRest ==
  /\ \A s \in Sessions : session[s] \in {"new", "playing", "gone"}
  /\ \A c \in Conns : toMaster[c] = << >>
PlayingAreListed ==
  \A s \in Sessions :
    /\ session[s] = "playing"
    /\ addedOn[s] # NoConn
    /\ alive[addedOn[s]]
    /\ toMaster[addedOn[s]] = << >>
    /\ \/ \A t \in Sessions \ {s} : Record[t] # Record[s]
       \/ AtRest /\ drops + restarts = 0
    => Count(listed, Record[s]) = Count(local, Record[s])
=============================================================================
