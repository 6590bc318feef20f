-------------------------- MODULE RouteSync_proofs --------------------------
(***************************************************************************)
(* Proofs about RouteSync: type correctness, and that no change of the     *)
(* routes is lost on the way to a node.                                    *)
(***************************************************************************)
EXTENDS RouteSync, SequenceTheorems, TLAPS

-----------------------------------------------------------------------------
(* Type correctness. *)

(* Writing a table to a connection keeps the types of the network state.   *)
LEMMA WriteType ==
  ASSUME TypeOK, NEW c \in Conns, NEW by \in {"push", "hello"}, NEW table \in Nat,
         Write(c, by, table)
  PROVE  /\ alive' \in [Conns -> BOOLEAN]
         /\ toNode' \in [Conns -> Seq(Nat)]
         /\ newest' \in [Conns -> Nat]
         /\ last' \in [Conns -> [by : {"nobody", "push", "hello"}, table : Nat]]
<1>1. CASE alive[c]
  <2>1. alive' = alive /\ toNode' = [toNode EXCEPT ![c] = Append(toNode[c], table)]
    BY <1>1 DEF Write
  <2>2. Append(toNode[c], table) \in Seq(Nat)
    BY DEF TypeOK
  <2>3. PICK m \in Nat : newest' = [newest EXCEPT ![c] = m]
    BY <1>1 DEF TypeOK, Write
  <2>4. last' = [last EXCEPT ![c] = [by |-> by, table |-> table]]
    BY <1>1 DEF Write
  <2> QED BY <2>1, <2>2, <2>3, <2>4 DEF TypeOK
<1>2. CASE ~ alive[c]
  BY <1>2 DEF TypeOK, Write, netVars
<1> QED BY <1>1, <1>2

(* Every step of the system keeps every variable in its type.              *)
LEMMA TypeStep == TypeOK /\ [Next]_vars => TypeOK'
<1> SUFFICES ASSUME TypeOK, [Next]_vars
             PROVE  TypeOK'
  OBVIOUS
<1> USE ConnsAssumption, BoundsAssumption
<1>1. ASSUME NEW a \in Admins, ChangeRoutes(a)
      PROVE  TypeOK'
  BY <1>1 DEF TypeOK, ChangeRoutes, masterVars, netVars, nodeVars
<1>2. ASSUME NEW a \in Admins, Signal(a)
      PROVE  TypeOK'
  BY <1>2 DEF TypeOK, Signal, masterVars, netVars, nodeVars
<1>3. CASE UpdaterReceive
  BY <1>3 DEF TypeOK, UpdaterReceive, UpdaterStates, UpdaterAt, masterVars, netVars, nodeVars
<1>4. CASE UpdaterMarshal
  BY <1>4 DEF TypeOK, UpdaterMarshal, UpdaterStates, UpdaterAt, masterVars, netVars, nodeVars
<1>5. CASE UpdaterClients
  BY <1>5 DEF TypeOK, UpdaterClients, ClientCopies, UpdaterStates, UpdaterAt, Waiting,
              masterVars, netVars, nodeVars
<1>6. ASSUME NEW c \in Conns, UpdaterSend(c)
      PROVE  TypeOK'
  <2>1. updater.table \in Nat
    BY DEF TypeOK, UpdaterStates
  <2>2. updater' \in UpdaterStates
    BY <1>6 DEF TypeOK, UpdaterSend, UpdaterStates, AfterSend, UpdaterAt, Waiting
  <2>3. Write(c, "push", updater.table)
    BY <1>6 DEF UpdaterSend
  <2> QED BY <1>6, <2>1, <2>2, <2>3, WriteType
          DEF TypeOK, UpdaterSend, masterVars, nodeVars
<1>7. ASSUME NEW c \in Conns, HelloRegister(c)
      PROVE  TypeOK'
  BY <1>7 DEF TypeOK, HelloRegister, netVars, nodeVars
<1>8. ASSUME NEW c \in Conns, HelloRead(c)
      PROVE  TypeOK'
  BY <1>8 DEF TypeOK, HelloRead, netVars, nodeVars
<1>9. ASSUME NEW c \in Conns, HelloReply(c)
      PROVE  TypeOK'
  <2>1. reply[c] \in Nat /\ Write(c, "hello", reply[c])
    BY <1>9 DEF TypeOK, HelloReply
  <2> QED BY <1>9, <2>1, WriteType DEF TypeOK, HelloReply, nodeVars
<1>10. ASSUME NEW c \in Conns, HelloReject(c)
       PROVE  TypeOK'
  BY <1>10 DEF TypeOK, HelloReject, Deferred, nodeVars
<1>11. ASSUME NEW c \in Conns, HandlerEnd(c)
       PROVE  TypeOK'
  BY <1>11 DEF TypeOK, HandlerEnd, Deferred, nodeVars
<1>12. ASSUME NEW n \in Nodes, NEW c \in Conns, NodeDial(n, c)
       PROVE  TypeOK'
  BY <1>12 DEF TypeOK, NodeDial
<1>13. ASSUME NEW n \in Nodes, NodeReceive(n)
       PROVE  TypeOK'
  <2> DEFINE c == link[n]
  <2>1. c \in Conns /\ toNode[c] \in Seq(Nat) /\ toNode[c] # << >>
    BY <1>13 DEF TypeOK, NodeReceive
  <2>2. Head(toNode[c]) \in Nat /\ Tail(toNode[c]) \in Seq(Nat)
    BY <2>1
  <2> QED BY <1>13, <2>1, <2>2 DEF TypeOK, NodeReceive, masterVars
<1>14. ASSUME NEW n \in Nodes, NodeEOF(n)
       PROVE  TypeOK'
  BY <1>14 DEF TypeOK, NodeEOF, masterVars, netVars
<1>15. ASSUME NEW n \in Nodes, NodeRestart(n)
       PROVE  TypeOK'
  BY <1>15 DEF TypeOK, NodeRestart, masterVars
<1>16. ASSUME NEW c \in Conns, Drop(c)
       PROVE  TypeOK'
  BY <1>16 DEF TypeOK, Drop, masterVars, nodeVars
<1>17. ASSUME NEW c \in Conns, LoseTail(c)
       PROVE  TypeOK'
  <2>1. toNode[c] \in Seq(Nat) /\ toNode[c] # << >>
    BY <1>17 DEF TypeOK, LoseTail
  <2>2. SubSeq(toNode[c], 1, Len(toNode[c]) - 1) \in Seq(Nat)
    BY <2>1
  <2> QED BY <1>17, <2>2 DEF TypeOK, LoseTail, masterVars, nodeVars
<1>18. CASE MasterRestart
  BY <1>18 DEF TypeOK, MasterRestart, UpdaterStates, Waiting, UpdaterAt, nodeVars
<1>19. CASE UNCHANGED vars
  BY <1>19 DEF TypeOK, vars
<1> QED
  BY <1>1, <1>2, <1>3, <1>4, <1>5, <1>6, <1>7, <1>8, <1>9, <1>10, <1>11, <1>12,
     <1>13, <1>14, <1>15, <1>16, <1>17, <1>18, <1>19
  DEF Next, Updater, HandlerStep, NodeRead

(* The initial state is well typed. *)
LEMMA TypeInit == Init => TypeOK
BY ConnsAssumption, BoundsAssumption
   DEF Init, TypeOK, UpdaterStates, Waiting, UpdaterAt

(* Type correctness of the specification.                                  *)
THEOREM TypeCorrect == Spec => []TypeOK
BY TypeInit, TypeStep, PTL DEF Spec

-----------------------------------------------------------------------------
(* Entries of utils.Clients are never removed: the key a handler ends with *)
(* is not one of the map's keys.                                           *)

KeyInv ==
  \A c \in Conns :
    /\ handlerKey[c] \in {c, Owner[c]}
    /\ handlerKey[c] = c => c \notin clients
    /\ handler[c] \in {"none", "greet"} => handlerKey[c] = c

(* Nobody holds a table newer than the master's. *)
VersionInv ==
  /\ updater.table <= version
  /\ \A c \in Conns : reply[c] <= version /\ newest[c] <= version

SyncInv == TypeOK /\ KeyInv /\ VersionInv /\ NoLostUpdate

(* What else PushedNodesAreCurrent rests on.  The updater writes to        *)
(* registered connections only; a connection nobody has registered has     *)
(* been sent nothing; a link belongs to its node.                          *)
TodoInv == updater.todo \subseteq clients
NobodyInv ==
  \A c \in Conns :
    /\ handler[c] \in {"none", "greet"} => last[c].by = "nobody"
    /\ newest[c] > 0 => last[c].by # "nobody"
LinkInv == \A n \in Nodes : link[n] # NoConn => Owner[link[n]] = n

(* The updater's table falls behind the master's only by an announced      *)
(* change.                                                                 *)
BehindInv ==
  updater.pc \in {"clients", "send"} /\ updater.table # version => Announced

(* A push that is the last packet of a served connection is the present    *)
(* table, or the next round is on its way.                                 *)
PushInv ==
  \A c \in Conns :
    Serving(c) /\ last[c].by = "push" /\ last[c].table # version
      => Announced \/ UpdaterWillSend(c)

(* The link is a FIFO: the last packet sent is the last one in flight, or  *)
(* else it is what the node holds.                                         *)
FlowInv ==
  \A c \in Conns :
    link[Owner[c]] = c /\ alive[c] /\ last[c].by # "nobody"
      => /\ toNode[c] = << >> => routes[Owner[c]] = last[c].table
         /\ toNode[c] # << >> => toNode[c][Len(toNode[c])] = last[c].table

FeedInv ==
  /\ SyncInv
  /\ TodoInv
  /\ NobodyInv
  /\ LinkInv
  /\ BehindInv
  /\ PushInv
  /\ FlowInv

-----------------------------------------------------------------------------
(* The deferred function of a handler removes no entry of utils.Clients.   *)
LEMMA EntriesStay ==
  ASSUME TypeOK, KeyInv, NEW c \in Conns, HelloReject(c) \/ HandlerEnd(c)
  PROVE  clients' = clients /\ ~ alive'[c]
<1>1. Owner[c] \notin Conns
  BY ConnsAssumption
<1>2. CASE HelloReject(c)
  BY <1>1, <1>2 DEF TypeOK, HelloReject, Deferred
<1>3. CASE HandlerEnd(c)
  BY <1>1, <1>3 DEF TypeOK, KeyInv, HandlerEnd, Deferred
<1> QED BY <1>2, <1>3

(* The key of a handler and the entries keep their relation.               *)
LEMMA KeyStep == TypeOK /\ KeyInv /\ [Next]_vars => KeyInv'
<1> SUFFICES ASSUME TypeOK, KeyInv, [Next]_vars
             PROVE  KeyInv'
  OBVIOUS
<1> USE ConnsAssumption DEF KeyInv
<1>1. ASSUME NEW c \in Conns, HelloRegister(c)
      PROVE  KeyInv'
  BY <1>1 DEF TypeOK, HelloRegister
<1>2. ASSUME NEW c \in Conns, HelloRead(c) \/ HelloReply(c)
      PROVE  KeyInv'
  BY <1>2 DEF TypeOK, HelloRead, HelloReply
<1>3. ASSUME NEW c \in Conns, HelloReject(c)
      PROVE  KeyInv'
  BY <1>3, EntriesStay DEF TypeOK, HelloReject, Deferred
<1>4. ASSUME NEW c \in Conns, HandlerEnd(c)
      PROVE  KeyInv'
  BY <1>4, EntriesStay DEF TypeOK, HandlerEnd, Deferred
<1>5. ASSUME NEW n \in Nodes, NEW c \in Conns, NodeDial(n, c)
      PROVE  KeyInv'
  BY <1>5 DEF TypeOK, NodeDial
<1>6. CASE MasterRestart
  BY <1>6 DEF TypeOK, MasterRestart
<1>7. CASE UNCHANGED masterVars
  BY <1>7 DEF masterVars
<1>8. ASSUME NEW c \in Conns, UpdaterSend(c)
      PROVE  KeyInv'
  BY <1>8, <1>7 DEF UpdaterSend
<1> QED
  BY <1>1, <1>2, <1>3, <1>4, <1>5, <1>6, <1>7, <1>8
  DEF Next, vars, masterVars, ChangeRoutes, Signal, Updater, UpdaterReceive,
      UpdaterMarshal, UpdaterClients, HandlerStep, NodeRead, NodeReceive,
      NodeEOF, NodeRestart, Drop, LoseTail

(* What a write does to the highest version written to a connection.       *)
LEMMA WriteNewest ==
  ASSUME TypeOK, NEW c \in Conns, NEW by \in {"push", "hello"}, NEW table \in Nat,
         Write(c, by, table), NEW d \in Conns
  PROVE  newest'[d] = IF d = c /\ alive[c] /\ table > newest[c]
                      THEN table ELSE newest[d]
<1>1. CASE alive[c]
  BY <1>1 DEF TypeOK, Write
<1>2. CASE ~ alive[c]
  BY <1>2 DEF Write, netVars
<1> QED BY <1>1, <1>2

(* No table in the system is newer than the master's.                      *)
LEMMA VersionStep == TypeOK /\ VersionInv /\ [Next]_vars => VersionInv'
<1> SUFFICES ASSUME TypeOK, VersionInv, [Next]_vars
             PROVE  VersionInv'
  OBVIOUS
<1> USE DEF VersionInv
<1>0. version \in Nat /\ updater.table \in Nat
  BY DEF TypeOK, UpdaterStates
<1>1. ASSUME NEW a \in Admins, ChangeRoutes(a)
      PROVE  VersionInv'
  BY <1>0, <1>1 DEF TypeOK, ChangeRoutes, masterVars, netVars
<1>2. CASE UpdaterReceive \/ UpdaterMarshal \/ UpdaterClients
  BY <1>0, <1>2 DEF UpdaterReceive, UpdaterMarshal, UpdaterClients, UpdaterAt,
                    Waiting, masterVars, netVars
<1>3. ASSUME NEW c \in Conns, UpdaterSend(c)
      PROVE  VersionInv'
  <2>1. Write(c, "push", updater.table) /\ version' = version /\ reply' = reply
    BY <1>3 DEF UpdaterSend, masterVars
  <2>2. \A d \in Conns : newest'[d] <= version
    BY <1>0, <2>1, WriteNewest
  <2>3. updater'.table <= version
    BY <1>0, <1>3 DEF UpdaterSend, AfterSend, UpdaterAt, Waiting
  <2> QED BY <2>1, <2>2, <2>3
<1>4. ASSUME NEW c \in Conns, HelloRead(c)
      PROVE  VersionInv'
  BY <1>0, <1>4 DEF TypeOK, HelloRead, netVars
<1>5. ASSUME NEW c \in Conns, HelloReply(c)
      PROVE  VersionInv'
  <2>1. Write(c, "hello", reply[c]) /\ version' = version /\ reply' = reply
        /\ updater' = updater /\ reply[c] \in Nat
    BY <1>5 DEF TypeOK, HelloReply
  <2>2. \A d \in Conns : newest'[d] <= version
    BY <1>0, <2>1, WriteNewest
  <2> QED BY <2>1, <2>2
<1>6. CASE MasterRestart
  BY <1>0, <1>6 DEF MasterRestart, Waiting, UpdaterAt
<1>7. CASE UNCHANGED << version, updater, reply, newest >>
  BY <1>7
<1> QED
  BY <1>1, <1>2, <1>3, <1>4, <1>5, <1>6, <1>7
  DEF Next, vars, masterVars, netVars, Signal, Updater, HandlerStep, HelloRegister,
      HelloReject, HandlerEnd, NodeRead, NodeDial, NodeReceive, NodeEOF,
      NodeRestart, Drop, LoseTail

-----------------------------------------------------------------------------
(* No step loses an update.  Each case says who is going to write to c, or  *)
(* that c is not served any more.                                          *)
LEMMA NoLostUpdateStep == SyncInv /\ [Next]_vars => NoLostUpdate'
<1> SUFFICES ASSUME SyncInv, Next \/ UNCHANGED vars, NEW c \in Conns, Serving(c)'
             PROVE  \/ newest'[c] = version'
                    \/ Announced'
                    \/ UpdaterWillSend(c)'
                    \/ HandlerWillSend(c)'
  BY DEF NoLostUpdate
<1> DEFINE Fed == \/ newest[c] = version
                  \/ Announced
                  \/ UpdaterWillSend(c)
                  \/ HandlerWillSend(c)
<1> USE ConnsAssumption
<1>0. /\ TypeOK /\ KeyInv /\ VersionInv /\ (Serving(c) => Fed)
      /\ version \in Nat /\ updater.table \in Nat
  BY DEF SyncInv, NoLostUpdate, TypeOK, UpdaterStates
<1>1. ASSUME NEW a \in Admins, ChangeRoutes(a) \/ Signal(a)
      PROVE  Announced'
  <2>1. CASE ChangeRoutes(a)
    BY <1>0, <2>1 DEF TypeOK, ChangeRoutes, Announced
  <2>2. CASE Signal(a)
    BY <1>0, <2>2 DEF TypeOK, Signal, Announced
  <2> QED BY <1>1, <2>1, <2>2
<1>2. CASE UpdaterReceive \/ UpdaterMarshal
  BY <1>2 DEF UpdaterReceive, UpdaterMarshal, UpdaterAt, UpdaterWillSend
<1>3. CASE UpdaterClients
  <2>1. Serving(c) /\ Fed
    BY <1>0, <1>3 DEF UpdaterClients, Serving, masterVars, netVars
  <2>2. PICK S \in ClientCopies :
          updater' = IF S = {} THEN Waiting ELSE UpdaterAt("send", updater.table, S)
    BY <1>3 DEF UpdaterClients
  <2>3. c \in S
    BY <2>1 DEF Serving, ClientCopies
  <2>4. CASE UpdaterWillSend(c)
    BY <1>3, <2>2, <2>3, <2>4 DEF UpdaterClients, UpdaterWillSend, UpdaterAt
  <2>5. CASE ~ UpdaterWillSend(c)
    BY <1>3, <2>1, <2>5
       DEF UpdaterClients, Announced, HandlerWillSend, masterVars, netVars
  <2> QED BY <2>4, <2>5
<1>4. ASSUME NEW d \in Conns, UpdaterSend(d)
      PROVE  newest'[c] = version' \/ Announced' \/ UpdaterWillSend(c)' \/ HandlerWillSend(c)'
  <2>1. Write(d, "push", updater.table) /\ alive' = alive
    BY <1>4 DEF UpdaterSend, Write, netVars
  <2>2. newest'[c] = IF c = d /\ alive[d] /\ updater.table > newest[d]
                     THEN updater.table ELSE newest[c]
    BY <1>0, <2>1, WriteNewest
  <2>3. Serving(c) /\ Fed
    BY <1>0, <1>4, <2>1 DEF UpdaterSend, Serving, masterVars
  <2>4. newest[c] \in Nat /\ newest[c] <= version /\ updater.table <= version
    BY <1>0 DEF TypeOK, VersionInv
  <2>5. CASE newest[c] = version
    BY <1>0, <1>4, <2>2, <2>4, <2>5 DEF UpdaterSend
  <2>6. CASE Announced \/ HandlerWillSend(c)
    BY <1>4, <2>6 DEF UpdaterSend, Announced, HandlerWillSend, masterVars
  <2>7. CASE UpdaterWillSend(c) /\ c = d
    BY <1>0, <1>4, <2>2, <2>3, <2>4, <2>7 DEF UpdaterSend, UpdaterWillSend, Serving
  <2>8. CASE UpdaterWillSend(c) /\ c # d
    BY <1>4, <2>8 DEF UpdaterSend, UpdaterWillSend, AfterSend, UpdaterAt
  <2> QED BY <2>3, <2>5, <2>6, <2>7, <2>8
<1>5. ASSUME NEW d \in Conns, HelloRegister(d)
      PROVE  newest'[c] = version' \/ Announced' \/ UpdaterWillSend(c)' \/ HandlerWillSend(c)'
  <2>1. CASE c = d
    BY <1>0, <1>5, <2>1 DEF TypeOK, HelloRegister, HandlerWillSend
  <2>2. CASE c # d
    <3>1. Serving(c) /\ Fed
      BY <1>0, <1>5, <2>2 DEF HelloRegister, Serving, netVars
    <3> QED BY <1>0, <1>5, <2>2, <3>1
            DEF TypeOK, HelloRegister, Announced, UpdaterWillSend, HandlerWillSend, netVars
  <2> QED BY <2>1, <2>2
<1>6. ASSUME NEW d \in Conns, HelloRead(d)
      PROVE  newest'[c] = version' \/ Announced' \/ UpdaterWillSend(c)' \/ HandlerWillSend(c)'
  <2>1. Serving(c) /\ Fed
    BY <1>0, <1>6 DEF HelloRead, Serving, netVars
  <2> QED BY <1>0, <1>6, <2>1
          DEF TypeOK, HelloRead, Announced, UpdaterWillSend, HandlerWillSend, netVars
<1>7. ASSUME NEW d \in Conns, HelloReply(d)
      PROVE  newest'[c] = version' \/ Announced' \/ UpdaterWillSend(c)' \/ HandlerWillSend(c)'
  <2>1. Write(d, "hello", reply[d]) /\ reply[d] \in Nat /\ alive' = alive
    BY <1>0, <1>7 DEF TypeOK, HelloReply, Write, netVars
  <2>2. newest'[c] = IF c = d /\ alive[d] /\ reply[d] > newest[d]
                     THEN reply[d] ELSE newest[c]
    BY <1>0, <2>1, WriteNewest
  <2>3. Serving(c) /\ Fed
    BY <1>0, <1>7, <2>1 DEF HelloReply, Serving
  <2>4. newest[c] \in Nat /\ newest[c] <= version /\ reply[d] <= version
    BY <1>0 DEF TypeOK, VersionInv
  <2>5. CASE newest[c] = version
    BY <1>0, <1>7, <2>1, <2>2, <2>4, <2>5 DEF HelloReply
  <2>6. CASE Announced \/ UpdaterWillSend(c)
    BY <1>7, <2>6 DEF HelloReply, Announced, UpdaterWillSend
  <2>7. CASE HandlerWillSend(c) /\ c = d
    BY <1>0, <1>7, <2>1, <2>2, <2>3, <2>4, <2>7 DEF HelloReply, HandlerWillSend, Serving
  <2>8. CASE HandlerWillSend(c) /\ c # d
    BY <1>0, <1>7, <2>8 DEF TypeOK, HelloReply, HandlerWillSend
  <2> QED BY <2>3, <2>5, <2>6, <2>7, <2>8
<1>8. ASSUME NEW d \in Conns, HelloReject(d) \/ HandlerEnd(d)
      PROVE  newest'[c] = version' \/ Announced' \/ UpdaterWillSend(c)' \/ HandlerWillSend(c)'
  <2>1. clients' = clients /\ c # d
    BY <1>0, <1>8, EntriesStay DEF Serving
  <2>2. Serving(c) /\ Fed
    BY <1>0, <1>8, <2>1 DEF TypeOK, HelloReject, HandlerEnd, Deferred, Serving
  <2> QED BY <1>0, <1>8, <2>1, <2>2
          DEF TypeOK, HelloReject, HandlerEnd, Deferred, Announced, UpdaterWillSend,
              HandlerWillSend
<1>9. ASSUME NEW n \in Nodes, NEW d \in Conns, NodeDial(n, d)
      PROVE  newest'[c] = version' \/ Announced' \/ UpdaterWillSend(c)' \/ HandlerWillSend(c)'
  <2>1. c # d /\ Serving(c) /\ Fed
    BY <1>0, <1>9 DEF TypeOK, KeyInv, NodeDial, Serving
  <2> QED BY <1>0, <1>9, <2>1
          DEF TypeOK, NodeDial, Announced, UpdaterWillSend, HandlerWillSend
<1>10. CASE MasterRestart
  BY <1>10 DEF MasterRestart, Serving
<1>11. ASSUME UNCHANGED << version, admin, signals, updater, masterVars, newest >>,
              alive'[c] => alive[c]
       PROVE  newest'[c] = version' \/ Announced' \/ UpdaterWillSend(c)' \/ HandlerWillSend(c)'
  <2>1. Serving(c) /\ Fed
    BY <1>0, <1>11 DEF Serving, masterVars
  <2> QED BY <1>11, <2>1 DEF Announced, UpdaterWillSend, HandlerWillSend, masterVars
<1>12. ASSUME NEW n \in Nodes, NodeRead(n) \/ NodeRestart(n)
       PROVE  /\ UNCHANGED << version, admin, signals, updater, masterVars, newest >>
              /\ alive'[c] => alive[c]
  BY <1>0, <1>12 DEF TypeOK, NodeRead, NodeReceive, NodeEOF, NodeRestart, netVars
<1>13. ASSUME NEW d \in Conns, Drop(d) \/ LoseTail(d)
       PROVE  /\ UNCHANGED << version, admin, signals, updater, masterVars, newest >>
              /\ alive'[c] => alive[c]
  BY <1>0, <1>13 DEF TypeOK, Drop, LoseTail
<1>14. CASE UNCHANGED vars
  BY <1>11, <1>14 DEF vars, masterVars
<1> QED
  BY <1>1, <1>2, <1>3, <1>4, <1>5, <1>6, <1>7, <1>8, <1>9, <1>10, <1>11, <1>12,
     <1>13, <1>14
  DEF Next, Updater, HandlerStep

(* The inductive invariant, from the initial states on.                    *)
LEMMA SyncInit == Init => SyncInv
BY TypeInit, ConnsAssumption
   DEF Init, SyncInv, KeyInv, VersionInv, NoLostUpdate, Serving, Waiting, UpdaterAt

(* No update is lost, whatever the number of nodes, connections, handlers  *)
(* and restarts and whatever the capacities.                               *)
THEOREM NoUpdateIsLost == Spec => []NoLostUpdate
<1>1. Init => SyncInv
  BY SyncInit
<1>2. SyncInv /\ [Next]_vars => SyncInv'
  BY TypeStep, KeyStep, VersionStep, NoLostUpdateStep DEF SyncInv
<1>3. SyncInv => NoLostUpdate
  BY DEF SyncInv
<1> QED BY <1>1, <1>2, <1>3, PTL DEF Spec

-----------------------------------------------------------------------------
(* A write to a connection that is up is its last packet.                  *)
LEMMA WriteOwn ==
  ASSUME TypeOK, NEW c \in Conns, NEW by \in {"push", "hello"}, NEW table \in Nat,
         Write(c, by, table), alive[c]
  PROVE  /\ last'[c] = [by |-> by, table |-> table]
         /\ toNode'[c] = Append(toNode[c], table)
BY DEF TypeOK, Write

(* A write concerns no other connection, and none if its own has ended.    *)
LEMMA WriteOther ==
  ASSUME TypeOK, NEW c \in Conns, NEW by \in {"push", "hello"}, NEW table \in Nat,
         Write(c, by, table), NEW d \in Conns, d # c \/ ~ alive[c]
  PROVE  last'[d] = last[d] /\ toNode'[d] = toNode[d]
<1>1. CASE alive[c]
  BY <1>1 DEF TypeOK, Write
<1>2. CASE ~ alive[c]
  BY <1>2 DEF Write, netVars
<1> QED BY <1>1, <1>2

(* A write leaves nobody but its own connection with a history.            *)
LEMMA WriteSomebody ==
  ASSUME TypeOK, NobodyInv, NEW c \in Conns, NEW by \in {"push", "hello"},
         NEW table \in Nat, Write(c, by, table), NEW d \in Conns
  PROVE  /\ newest'[d] > 0 => last'[d].by # "nobody"
         /\ d # c => last'[d] = last[d]
<1>1. CASE d = c /\ alive[c]
  <2>1. last'[c] = [by |-> by, table |-> table]
    BY <1>1, WriteOwn
  <2>2. last'[d].by = by
    BY <1>1, <2>1
  <2> QED BY <1>1, <2>2
<1>2. CASE d # c \/ ~ alive[c]
  <2>1. last'[d] = last[d]
    BY <1>2, WriteOther
  <2>2. newest'[d] = newest[d]
    BY <1>2, WriteNewest
  <2> QED BY <2>1, <2>2 DEF NobodyInv
<1> QED BY <1>1, <1>2

(* The updater only ever writes to registered connections.                 *)
LEMMA TodoStep ==
  SyncInv /\ TodoInv /\ [Next]_vars => TodoInv'
<1> SUFFICES ASSUME SyncInv, TodoInv, [Next]_vars
             PROVE  TodoInv'
  OBVIOUS
<1> USE DEF TodoInv
<1>0. TypeOK /\ KeyInv
  BY DEF SyncInv
<1>1. CASE UpdaterReceive \/ UpdaterMarshal
  BY <1>1 DEF UpdaterReceive, UpdaterMarshal, UpdaterAt
<1>2. CASE UpdaterClients
  BY <1>2 DEF UpdaterClients, ClientCopies, UpdaterAt, Waiting, masterVars
<1>3. ASSUME NEW c \in Conns, UpdaterSend(c)
      PROVE  TodoInv'
  BY <1>3 DEF UpdaterSend, AfterSend, UpdaterAt, Waiting, masterVars
<1>4. ASSUME NEW c \in Conns, HelloRegister(c)
      PROVE  TodoInv'
  BY <1>4 DEF HelloRegister
<1>5. ASSUME NEW c \in Conns, HelloReject(c) \/ HandlerEnd(c)
      PROVE  TodoInv'
  BY <1>0, <1>5, EntriesStay DEF HelloReject, HandlerEnd
<1>6. CASE MasterRestart
  BY <1>6 DEF MasterRestart, Waiting, UpdaterAt
<1>7. CASE UNCHANGED << updater, clients >>
  BY <1>7
<1> QED
  BY <1>1, <1>2, <1>3, <1>4, <1>5, <1>6, <1>7
  DEF Next, vars, masterVars, ChangeRoutes, Signal, Updater, HandlerStep, HelloRead,
      HelloReply, NodeRead, NodeDial, NodeReceive, NodeEOF, NodeRestart, Drop, LoseTail

(* Nothing is sent on a connection before its Hello.                       *)
LEMMA NobodyStep ==
  SyncInv /\ TodoInv /\ NobodyInv /\ [Next]_vars => NobodyInv'
<1> SUFFICES ASSUME SyncInv, TodoInv, NobodyInv, [Next]_vars
             PROVE  NobodyInv'
  OBVIOUS
<1>0. TypeOK /\ KeyInv
  BY DEF SyncInv
<1>1. ASSUME NEW c \in Conns, UpdaterSend(c)
      PROVE  NobodyInv'
  <2>1. /\ Write(c, "push", updater.table) /\ updater.table \in Nat
        /\ handler' = handler
    BY <1>0, <1>1 DEF UpdaterSend, masterVars, TypeOK, UpdaterStates
  <2>2. handler[c] \notin {"none", "greet"}
    BY <1>0, <1>1 DEF UpdaterSend, TodoInv, KeyInv
  <2>3. ASSUME NEW d \in Conns
        PROVE  /\ newest'[d] > 0 => last'[d].by # "nobody"
               /\ d # c => last'[d] = last[d]
    BY <1>0, <2>1, WriteSomebody
  <2> QED BY <2>1, <2>2, <2>3 DEF NobodyInv
<1>2. ASSUME NEW c \in Conns, HelloReply(c)
      PROVE  NobodyInv'
  <2>1. Write(c, "hello", reply[c]) /\ reply[c] \in Nat
    BY <1>0, <1>2 DEF HelloReply, TypeOK
  <2>2. handler[c] = "reply" /\ handler' = [handler EXCEPT ![c] = "loop"]
    BY <1>2 DEF HelloReply
  <2>3. ASSUME NEW d \in Conns
        PROVE  /\ newest'[d] > 0 => last'[d].by # "nobody"
               /\ d # c => last'[d] = last[d]
    BY <1>0, <2>1, WriteSomebody
  <2> QED BY <1>0, <2>2, <2>3 DEF NobodyInv, TypeOK
<1>3. ASSUME NEW c \in Conns, HelloRegister(c) \/ HelloRead(c)
      PROVE  NobodyInv'
  BY <1>0, <1>3 DEF NobodyInv, TypeOK, HelloRegister, HelloRead, netVars
<1>4. ASSUME NEW c \in Conns, HelloReject(c) \/ HandlerEnd(c)
      PROVE  NobodyInv'
  BY <1>0, <1>4 DEF NobodyInv, TypeOK, HelloReject, HandlerEnd, Deferred
<1>5. ASSUME NEW n \in Nodes, NEW c \in Conns, NodeDial(n, c)
      PROVE  NobodyInv'
  BY <1>0, <1>5 DEF NobodyInv, TypeOK, NodeDial
<1>6. CASE MasterRestart
  BY <1>0, <1>6 DEF NobodyInv, TypeOK, MasterRestart
<1>7. CASE UNCHANGED << handler, newest, last >>
  BY <1>7 DEF NobodyInv
<1> QED
  BY <1>1, <1>2, <1>3, <1>4, <1>5, <1>6, <1>7
  DEF Next, vars, masterVars, netVars, ChangeRoutes, Signal, Updater, UpdaterReceive,
      UpdaterMarshal, UpdaterClients, HandlerStep, NodeRead, NodeReceive, NodeEOF,
      NodeRestart, Drop, LoseTail

(* A node's link is a connection of its own.                               *)
LEMMA LinkStep == TypeOK /\ LinkInv /\ [Next]_vars => LinkInv'
<1> SUFFICES ASSUME TypeOK, LinkInv, [Next]_vars
             PROVE  LinkInv'
  OBVIOUS
<1>1. ASSUME NEW n \in Nodes, NEW c \in Conns, NodeDial(n, c)
      PROVE  LinkInv'
  BY <1>1 DEF TypeOK, LinkInv, NodeDial
<1>2. ASSUME NEW n \in Nodes, NodeEOF(n) \/ NodeRestart(n)
      PROVE  LinkInv'
  BY <1>2 DEF TypeOK, LinkInv, NodeEOF, NodeRestart
<1>3. CASE UNCHANGED link
  BY <1>3 DEF LinkInv
<1> QED
  BY <1>1, <1>2, <1>3
  DEF Next, vars, nodeVars, ChangeRoutes, Signal, Updater, UpdaterReceive,
      UpdaterMarshal, UpdaterClients, UpdaterSend, HandlerStep, HelloRegister,
      HelloRead, HelloReply, HelloReject, HandlerEnd, NodeRead, NodeReceive, Drop,
      LoseTail, MasterRestart

(* The updater works on the present table or is going to be woken again.   *)
LEMMA BehindStep == TypeOK /\ BehindInv /\ [Next]_vars => BehindInv'
<1> SUFFICES ASSUME TypeOK, BehindInv, [Next]_vars
             PROVE  BehindInv'
  OBVIOUS
<1> USE DEF BehindInv, Announced
<1>1. ASSUME NEW a \in Admins, ChangeRoutes(a) \/ Signal(a)
      PROVE  BehindInv'
  BY <1>1 DEF TypeOK, ChangeRoutes, Signal
<1>2. CASE UpdaterReceive \/ UpdaterMarshal
  BY <1>2 DEF UpdaterReceive, UpdaterMarshal, UpdaterAt
<1>3. CASE UpdaterClients
  BY <1>3 DEF UpdaterClients, UpdaterAt, Waiting
<1>4. ASSUME NEW c \in Conns, UpdaterSend(c)
      PROVE  BehindInv'
  BY <1>4 DEF UpdaterSend, AfterSend, UpdaterAt, Waiting
<1>5. CASE MasterRestart
  BY <1>5 DEF MasterRestart, UpdaterAt, Waiting
<1>6. CASE UNCHANGED << version, admin, signals, updater >>
  BY <1>6
<1> QED
  BY <1>1, <1>2, <1>3, <1>4, <1>5, <1>6
  DEF Next, vars, Updater, HandlerStep, HelloRegister, HelloRead, HelloReply,
      HelloReject, HandlerEnd, NodeRead, NodeDial, NodeReceive, NodeEOF, NodeRestart,
      Drop, LoseTail

(* A served connection whose last packet is an outdated push is sent       *)
(* another one.                                                            *)
LEMMA PushStep ==
  FeedInv /\ [Next]_vars => PushInv'
<1> SUFFICES ASSUME FeedInv, Next \/ UNCHANGED vars, NEW c \in Conns, Serving(c)',
                    last'[c].by = "push", last'[c].table # version'
             PROVE  Announced' \/ UpdaterWillSend(c)'
  BY DEF PushInv
<1> DEFINE Outdated == last[c].by = "push" /\ last[c].table # version
<1> DEFINE Fed == Announced \/ UpdaterWillSend(c)
<1>0. /\ TypeOK /\ KeyInv /\ TodoInv /\ NobodyInv /\ BehindInv
      /\ (Serving(c) /\ Outdated => Fed)
      /\ version \in Nat /\ updater.table \in Nat
  BY DEF FeedInv, SyncInv, PushInv, TypeOK, UpdaterStates
<1>1. ASSUME NEW a \in Admins, ChangeRoutes(a) \/ Signal(a)
      PROVE  Announced'
  <2>1. CASE ChangeRoutes(a)
    BY <1>0, <2>1 DEF TypeOK, ChangeRoutes, Announced
  <2>2. CASE Signal(a)
    BY <1>0, <2>2 DEF TypeOK, Signal, Announced
  <2> QED BY <1>1, <2>1, <2>2
<1>2. CASE UpdaterReceive \/ UpdaterMarshal
  BY <1>2 DEF UpdaterReceive, UpdaterMarshal, UpdaterAt, UpdaterWillSend
<1>3. CASE UpdaterClients
  <2>1. Serving(c) /\ Outdated
    BY <1>0, <1>3 DEF UpdaterClients, Serving, masterVars, netVars
  <2>2. PICK S \in ClientCopies :
          updater' = IF S = {} THEN Waiting ELSE UpdaterAt("send", updater.table, S)
    BY <1>3 DEF UpdaterClients
  <2>3. c \in S
    BY <2>1 DEF Serving, ClientCopies
  <2>4. CASE UpdaterWillSend(c)
    BY <1>3, <2>2, <2>3, <2>4 DEF UpdaterClients, UpdaterWillSend, UpdaterAt
  <2>5. CASE Announced
    BY <1>3, <2>5 DEF UpdaterClients, Announced
  <2> QED BY <1>0, <2>1, <2>4, <2>5
<1>4. ASSUME NEW d \in Conns, UpdaterSend(d)
      PROVE  Announced' \/ UpdaterWillSend(c)'
  <2>1. Write(d, "push", updater.table)
    BY <1>4 DEF UpdaterSend
  <2>2. alive' = alive
    BY <2>1 DEF Write, netVars
  <2>3. Serving(c)
    BY <1>4, <2>2 DEF UpdaterSend, Serving, masterVars
  <2>4. UNCHANGED << version, admin, signals >>
    BY <1>4 DEF UpdaterSend
  <2>5. CASE updater.table # version
    BY <1>0, <1>4, <2>4, <2>5 DEF BehindInv, UpdaterSend, Announced
  <2>6. CASE updater.table = version /\ c = d
    <3>1. last'[c] = [by |-> "push", table |-> updater.table]
      BY <1>0, <2>1, <2>3, <2>6, WriteOwn DEF Serving
    <3> QED BY <2>4, <2>6, <3>1
  <2>7. CASE updater.table = version /\ c # d
    <3>1. last'[c] = last[c]
      BY <1>0, <2>1, <2>7, WriteOther
    <3>2. Fed
      BY <1>0, <2>3, <2>4, <3>1
    <3> QED BY <1>4, <2>4, <2>7, <3>2
            DEF UpdaterSend, Announced, UpdaterWillSend, AfterSend, UpdaterAt
  <2> QED BY <2>5, <2>6, <2>7
<1>5. ASSUME NEW d \in Conns, HelloRegister(d)
      PROVE  Announced' \/ UpdaterWillSend(c)'
  <2>1. c # d
    BY <1>0, <1>5 DEF HelloRegister, NobodyInv, netVars
  <2>2. Serving(c) /\ Outdated
    BY <1>5, <2>1 DEF HelloRegister, Serving, netVars
  <2> QED BY <1>0, <1>5, <2>2 DEF HelloRegister, Announced, UpdaterWillSend
<1>6. ASSUME NEW d \in Conns, HelloRead(d)
      PROVE  Announced' \/ UpdaterWillSend(c)'
  <2>1. Serving(c) /\ Outdated
    BY <1>6 DEF HelloRead, Serving, netVars
  <2> QED BY <1>0, <1>6, <2>1 DEF HelloRead, Announced, UpdaterWillSend
<1>7. ASSUME NEW d \in Conns, HelloReply(d)
      PROVE  Announced' \/ UpdaterWillSend(c)'
  <2>1. Write(d, "hello", reply[d]) /\ reply[d] \in Nat
    BY <1>0, <1>7 DEF HelloReply, TypeOK
  <2>2. alive' = alive
    BY <2>1 DEF Write, netVars
  <2>3. Serving(c)
    BY <1>7, <2>2 DEF HelloReply, Serving
  <2>4. c # d
    <3>1. ASSUME c = d
          PROVE  last'[c] = [by |-> "hello", table |-> reply[d]]
      BY <1>0, <2>1, <2>3, <3>1, WriteOwn DEF Serving
    <3> QED BY <3>1
  <2>5. last'[c] = last[c]
    BY <1>0, <2>1, <2>4, WriteOther
  <2> QED BY <1>0, <1>7, <2>3, <2>5 DEF HelloReply, Announced, UpdaterWillSend
<1>8. ASSUME NEW d \in Conns, HelloReject(d) \/ HandlerEnd(d)
      PROVE  Announced' \/ UpdaterWillSend(c)'
  <2>1. clients' = clients /\ c # d
    BY <1>0, <1>8, EntriesStay DEF Serving
  <2>2. Serving(c) /\ Outdated
    BY <1>0, <1>8, <2>1 DEF TypeOK, HelloReject, HandlerEnd, Deferred, Serving
  <2> QED BY <1>0, <1>8, <2>2 DEF HelloReject, HandlerEnd, Announced, UpdaterWillSend
<1>9. ASSUME NEW n \in Nodes, NEW d \in Conns, NodeDial(n, d)
      PROVE  Announced' \/ UpdaterWillSend(c)'
  <2>1. c # d /\ Serving(c) /\ Outdated
    BY <1>0, <1>9 DEF TypeOK, KeyInv, NodeDial, Serving
  <2> QED BY <1>0, <1>9, <2>1 DEF NodeDial, Announced, UpdaterWillSend
<1>10. CASE MasterRestart
  BY <1>10 DEF MasterRestart, Serving
<1>11. ASSUME UNCHANGED << version, admin, signals, updater, clients, last >>,
              alive'[c] => alive[c]
       PROVE  Announced' \/ UpdaterWillSend(c)'
  <2>1. Serving(c) /\ Outdated
    BY <1>11 DEF Serving
  <2> QED BY <1>0, <1>11, <2>1 DEF Announced, UpdaterWillSend
<1>12. ASSUME NEW n \in Nodes, NodeRead(n) \/ NodeRestart(n)
       PROVE  /\ UNCHANGED << version, admin, signals, updater, clients, last >>
              /\ alive'[c] => alive[c]
  BY <1>0, <1>12
     DEF TypeOK, NodeRead, NodeReceive, NodeEOF, NodeRestart, masterVars, netVars
<1>13. ASSUME NEW d \in Conns, Drop(d) \/ LoseTail(d)
       PROVE  /\ UNCHANGED << version, admin, signals, updater, clients, last >>
              /\ alive'[c] => alive[c]
  BY <1>0, <1>13 DEF TypeOK, Drop, LoseTail, masterVars
<1>14. CASE UNCHANGED vars
  BY <1>11, <1>14 DEF vars
<1> QED
  BY <1>1, <1>2, <1>3, <1>4, <1>5, <1>6, <1>7, <1>8, <1>9, <1>10, <1>11, <1>12,
     <1>13, <1>14
  DEF Next, Updater, HandlerStep

(* The last element of a queue that grows at its end, shrinks at its head. *)
LEMMA AppendLast ==
  ASSUME NEW s \in Seq(Nat), NEW e
  PROVE  Append(s, e) # << >> /\ Append(s, e)[Len(Append(s, e))] = e
OBVIOUS

LEMMA LenNotZero ==
  ASSUME NEW s \in Seq(Nat), s # << >>
  PROVE  Len(s) = 1 \/ Len(s) > 1
<1>1. Head(s) \in Nat /\ Len(Tail(s)) = Len(s) - 1 /\ Tail(s) \in Seq(Nat)
  OBVIOUS
<1>2. Len(s) \in Nat /\ Len(Tail(s)) \in Nat
  BY <1>1, LenProperties
<1> QED BY <1>1, <1>2

LEMMA TailLast ==
  ASSUME NEW s \in Seq(Nat), Len(s) > 1
  PROVE  Tail(s) # << >> /\ Tail(s)[Len(Tail(s))] = s[Len(s)]
<1>1. s # << >>
  OBVIOUS
<1>2. Len(Tail(s)) = Len(s) - 1 /\ Tail(s) \in Seq(Nat)
  BY <1>1
<1>3. Tail(s) # << >>
  <2>1. Len(Tail(s)) # 0
    BY <1>2
  <2>2. Len(<< >>) = 0
    OBVIOUS
  <2> QED BY <2>1, <2>2
<1>4. \A i \in 1 .. Len(s) - 1 : Tail(s)[i] = s[i + 1]
  BY <1>1
<1> QED BY <1>2, <1>3, <1>4

(* What is in flight, or what the node holds, ends with the last packet.   *)
LEMMA FlowStep ==
  FeedInv /\ [Next]_vars => FlowInv'
<1> SUFFICES ASSUME FeedInv, Next \/ UNCHANGED vars, NEW c \in Conns,
                    link'[Owner[c]] = c, alive'[c], last'[c].by # "nobody"
             PROVE  /\ toNode'[c] = << >> => routes'[Owner[c]] = last'[c].table
                    /\ toNode'[c] # << >> =>
                         toNode'[c][Len(toNode'[c])] = last'[c].table
  BY DEF FlowInv
<1> DEFINE Flow == /\ toNode[c] = << >> => routes[Owner[c]] = last[c].table
                   /\ toNode[c] # << >> => toNode[c][Len(toNode[c])] = last[c].table
<1> DEFINE Flow2 == /\ toNode'[c] = << >> => routes'[Owner[c]] = last'[c].table
                    /\ toNode'[c] # << >> => toNode'[c][Len(toNode'[c])] = last'[c].table
<1>0. /\ TypeOK /\ NobodyInv /\ LinkInv /\ Owner[c] \in Nodes
      /\ (link[Owner[c]] = c /\ alive[c] /\ last[c].by # "nobody" => Flow)
  BY ConnsAssumption DEF FeedInv, SyncInv, FlowInv
<1>1. ASSUME NEW d \in Conns, NEW by \in {"push", "hello"}, NEW table \in Nat,
             Write(d, by, table), UNCHANGED << link, routes >>
      PROVE  Flow2
  <2>1. alive' = alive
    BY <1>1 DEF Write, netVars
  <2>2. CASE c = d
    <3>1. last'[c] = [by |-> by, table |-> table] /\ toNode'[c] = Append(toNode[c], table)
      BY <1>0, <1>1, <2>1, <2>2, WriteOwn
    <3>2. toNode[c] \in Seq(Nat)
      BY <1>0 DEF TypeOK
    <3> QED BY <3>1, <3>2, AppendLast
  <2>3. CASE c # d
    <3>1. last'[c] = last[c] /\ toNode'[c] = toNode[c]
      BY <1>0, <1>1, <2>3, WriteOther
    <3> QED BY <1>0, <1>1, <2>1, <3>1
  <2> QED BY <2>2, <2>3
<1>2. ASSUME NEW d \in Conns, UpdaterSend(d)
      PROVE  Flow2
  <2>1. updater.table \in Nat
    BY <1>0 DEF TypeOK, UpdaterStates
  <2> QED BY <1>1, <1>2, <2>1 DEF UpdaterSend, nodeVars
<1>3. ASSUME NEW d \in Conns, HelloReply(d)
      PROVE  Flow2
  <2>1. reply[d] \in Nat
    BY <1>0 DEF TypeOK
  <2> QED BY <1>1, <1>3, <2>1 DEF HelloReply, nodeVars
<1>4. ASSUME NEW n \in Nodes, NEW d \in Conns, NodeDial(n, d)
      PROVE  Flow2
  <2>1. c # d
    BY <1>0, <1>4 DEF NodeDial, NobodyInv
  <2>2. link[Owner[c]] = c /\ alive[c] /\ last[c].by # "nobody"
    BY <1>0, <1>4, <2>1 DEF NodeDial, TypeOK
  <2> QED BY <1>0, <1>4, <2>2 DEF NodeDial
<1>5. ASSUME NEW n \in Nodes, NodeReceive(n)
      PROVE  Flow2
  <2>1. link[Owner[c]] = c /\ alive[c] /\ last[c].by # "nobody" /\ Flow
    BY <1>0, <1>5 DEF NodeReceive
  <2>2. last' = last /\ toNode[c] \in Seq(Nat)
    BY <1>0, <1>5 DEF NodeReceive, TypeOK
  <2>3. CASE n = Owner[c]
    <3>1. /\ toNode[c] # << >>
          /\ routes'[Owner[c]] = Head(toNode[c])
          /\ toNode'[c] = Tail(toNode[c])
      BY <1>0, <1>5, <2>1, <2>3 DEF NodeReceive, TypeOK
    <3>2. CASE Len(toNode[c]) = 1
      BY <2>1, <2>2, <3>1, <3>2
    <3>3. CASE Len(toNode[c]) > 1
      <4>1. /\ toNode'[c] # << >>
            /\ toNode'[c][Len(toNode'[c])] = toNode[c][Len(toNode[c])]
        BY <2>2, <3>1, <3>3, TailLast
      <4> QED BY <2>1, <2>2, <3>1, <4>1
    <3>4. Len(toNode[c]) = 1 \/ Len(toNode[c]) > 1
      BY <2>2, <3>1, LenNotZero
    <3> QED BY <3>2, <3>3, <3>4
  <2>4. CASE n # Owner[c]
    <3>1. link[n] # c /\ link[n] \in Conns
      BY <1>0, <1>5, <2>4 DEF LinkInv, NodeReceive, TypeOK
    <3>2. toNode'[c] = toNode[c] /\ routes'[Owner[c]] = routes[Owner[c]]
      BY <1>0, <1>5, <2>4, <3>1 DEF NodeReceive, TypeOK
    <3> QED BY <2>1, <2>2, <3>2
  <2> QED BY <2>3, <2>4
<1>6. ASSUME NEW n \in Nodes, NodeEOF(n)
      PROVE  Flow2
  BY <1>0, <1>6, ConnsAssumption DEF NodeEOF, TypeOK, netVars
<1>7. ASSUME NEW n \in Nodes, NodeRestart(n)
      PROVE  Flow2
  BY <1>0, <1>7, ConnsAssumption DEF NodeRestart, TypeOK
<1>8. ASSUME NEW d \in Conns, Drop(d)
      PROVE  Flow2
  BY <1>0, <1>8 DEF Drop, TypeOK, nodeVars
<1>9. ASSUME NEW d \in Conns, LoseTail(d)
      PROVE  Flow2
  BY <1>0, <1>9 DEF LoseTail, TypeOK, nodeVars
<1>10. ASSUME NEW d \in Conns, HelloReject(d) \/ HandlerEnd(d)
       PROVE  Flow2
  BY <1>0, <1>10 DEF HelloReject, HandlerEnd, Deferred, TypeOK, nodeVars
<1>11. CASE MasterRestart
  BY <1>11 DEF MasterRestart
<1>12. CASE UNCHANGED << netVars, nodeVars >>
  BY <1>0, <1>12 DEF netVars, nodeVars
<1> QED
  BY <1>2, <1>3, <1>4, <1>5, <1>6, <1>7, <1>8, <1>9, <1>10, <1>11, <1>12
  DEF Next, vars, netVars, nodeVars, ChangeRoutes, Signal, Updater, UpdaterReceive,
      UpdaterMarshal, UpdaterClients, HandlerStep, HelloRegister, HelloRead, NodeRead

(* The strengthened invariant, from the initial states on.                 *)
LEMMA FeedInit == Init => FeedInv
BY SyncInit, ConnsAssumption
   DEF Init, FeedInv, TodoInv, NobodyInv, LinkInv, BehindInv, PushInv, FlowInv,
       Serving, Waiting, UpdaterAt

LEMMA FeedStep == FeedInv /\ [Next]_vars => FeedInv'
BY TypeStep, KeyStep, VersionStep, NoLostUpdateStep, TodoStep, NobodyStep, LinkStep,
   BehindStep, PushStep, FlowStep
DEF FeedInv, SyncInv

(* What the invariant says of a quiet master.                              *)
LEMMA FeedCurrent == FeedInv => PushedNodesAreCurrent
<1> SUFFICES ASSUME FeedInv, NEW c \in Conns, Serving(c), handler[c] = "loop", Quiet,
                    link[Owner[c]] = c, toNode[c] = << >>, last[c].by # "hello"
             PROVE  routes[Owner[c]] = version
  BY DEF PushedNodesAreCurrent
<1>1. ~ Announced /\ ~ UpdaterWillSend(c) /\ ~ HandlerWillSend(c)
  BY DEF Quiet, UpdaterWillSend, HandlerWillSend
<1>2. newest[c] = version
  BY <1>1 DEF FeedInv, SyncInv, NoLostUpdate
<1>3. newest[c] > 0
  BY <1>2 DEF FeedInv, SyncInv, TypeOK
<1>4. last[c].by = "push"
  BY <1>3 DEF FeedInv, SyncInv, TypeOK, NobodyInv
<1>5. last[c].table = version
  BY <1>1, <1>4 DEF FeedInv, PushInv
<1>6. routes[Owner[c]] = last[c].table
  BY <1>4 DEF FeedInv, FlowInv, Serving
<1> QED BY <1>5, <1>6

(* A quiet master has brought every served node up to date, except one     *)
(* whose Hello was answered last.                                          *)
THEOREM QuietMeansCurrent == Spec => []PushedNodesAreCurrent
BY FeedInit, FeedStep, FeedCurrent, PTL DEF Spec
=============================================================================
