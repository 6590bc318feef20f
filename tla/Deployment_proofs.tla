-------------------------- MODULE Deployment_proofs --------------------------
(***************************************************************************)
(* Proofs about the master's start and those who meet it half-way: type    *)
(* correctness, that a key once served is the master's for good, that a    *)
(* node exits for a reason only, that users have one row each, that        *)
(* signing in changes no role, and that a token carries the role in force. *)
(***************************************************************************)
EXTENDS Deployment, ListFacts, FiniteSetTheorems, SequenceTheorems, TLAPS

(* The rows of the users' table. *)
Rows == [id : Users, role : Roles]

-----------------------------------------------------------------------------
(* The inductive invariant. *)

(* wired.key is written last and only with the pair wired.pub holds, so    *)
(* that a complete wired.key means two equal files.  A pair is generated   *)
(* only when there is no wired.pub, which excludes that one was served; it *)
(* is in use only when both files hold it.                                 *)
KeyInv ==
  /\ keyFile \in Pairs => pubFile = keyFile
  /\ phase \in Generating \cup {"createPub"} =>
       fresh \in Pairs /\ wiredKey = NoKey /\ keyFile \notin Pairs /\ served = {}
  /\ phase \in {"createKey", "writeKey"} => pubFile = fresh
  /\ phase \in {"listen", "serve"} => wiredKey \in Pairs
  /\ wiredKey # NoKey => phase \in {"listen", "serve"} /\ pubFile = wiredKey /\ keyFile = wiredKey
  /\ \A k \in served : pubFile = k /\ keyFile = k

(* The node dials only when nothing connects it, and counts failures only  *)
(* while it dials; the master's handler clears `misses` of linked nodes    *)
(* only, whose count Dial has cleared.  The secret is under way on an open *)
(* connection, or something has ended it; without a key less of it is      *)
(* under way than the master must read to refuse it.                       *)
DialInv ==
  /\ node \notin {"secret", "read"} => conn \notin {"accepted", "sent", "ready"}
  /\ node \notin {"dial", "exited"} => failedAttempts = 0
  /\ node = "dial" => failedAttempts < MaxAttempts
  /\ failedAttempts <= misses
  /\ node = "secret" => conn \in {"accepted", "fin", "rst"}
  /\ node = "secret" /\ conn # "accepted" => struck \cap {"loss", "refusal"} # {}
  /\ node \notin {"secret", "exited"} => written = 0
  /\ nodeKey = NoKey => written < 2 /\ "refusal" \notin struck
  /\ ExitsAreExplained

(* Who is about to insert a row for id. *)
Creating(c) == call[c].pc = "create"

(* Outside `doubled` rows differ in their user, so do the callbacks about  *)
(* to insert one, and no row is there for a user who is being inserted.    *)
RowInv ==
  /\ \A i, j \in DOMAIN rows : rows[i].id = rows[j].id /\ rows[i].id \notin doubled => i = j
  /\ \A c, d \in Callbacks :
       Creating(c) /\ Creating(d) /\ call[c].id = call[d].id /\ call[c].id \notin doubled => c = d
  /\ \A c \in Callbacks, i \in DOMAIN rows :
       Creating(c) /\ call[c].id \notin doubled => rows[i].id # call[c].id

(* A callback past its look-up and not in `moved` knows the table: the     *)
(* role it carries, or that there is none.                                 *)
RoleInv ==
  \A c \in Callbacks :
    /\ Creating(c) => call[c].role = "none"
    /\ call[c].pc = "token" => call[c].role \in Roles
    /\ call[c].pc \in {"create", "token"} /\ c \notin moved
         => call[c].role = RoleIn(rows, call[c].id)

IInv == TypeOK /\ KeyInv /\ DialInv /\ RowInv /\ RoleInv

-----------------------------------------------------------------------------
(* What may happen to the variables of the start, whoever takes the step.  *)
MasterMove ==
  \/ StartupStep
  \/ Crash \/ LoadFatal \/ RemovePair
  \/ phase = "roles" /\ phase' \in {"stat", "promote"}
       /\ UNCHANGED << http, fresh, Files, wiredKey, Past >>
  \/ phase = "promote" /\ phase' = "stat" /\ UNCHANGED << http, fresh, Files, wiredKey, Past >>
  \/ Answers /\ Serve
  \/ UNCHANGED startupVars

(* Every step of the deployment moves the master's start in one of these   *)
(* ways.                                                                   *)
LEMMA NextMovesMaster == [Next]_vars => MasterMove
<1> SUFFICES ASSUME [Next]_vars
             PROVE  MasterMove
  OBVIOUS
<1>1. CASE MasterStep
  BY <1>1 DEF MasterStep, MasterMove, UpdateRolesLook, UpdateRolesChange, Enter
<1>2. CASE MasterEnds
  BY <1>2 DEF MasterEnds, MasterMove
<1>3. CASE NodeStep
  BY <1>3 DEF NodeStep, MasterMove, RequestPublicKey, DecodeFatal, Resolve, Dial, SendSecret, Read
<1>4. CASE FirstPacket \/ Drop
  BY <1>4 DEF MasterMove, FirstPacket, Refuse, Drop
<1>5. CASE AccountsStep
  BY <1>5 DEF AccountsStep, MasterMove, Panics, LookUp, CreateUser, CreateToken, SignIn,
              ChangeUserRole
<1>6. CASE UNCHANGED vars
  BY <1>6 DEF vars, MasterMove
<1>7. CASE RemovePair
  BY <1>7 DEF MasterMove
<1> QED BY <1>1, <1>2, <1>3, <1>4, <1>5, <1>6, <1>7 DEF Next

(* A move of the master's start keeps its types and the state of the pair. *)
LEMMA KeyStep ==
  ASSUME StartupTypeOK, KeyInv, MasterMove
  PROVE  StartupTypeOK' /\ KeyInv'
<1> USE PairsAssumption, CrashesAssumption
    DEF StartupTypeOK, KeyInv, Enter, Past, Files, Generating
<1>1. CASE Boot
  BY <1>1 DEF Boot
<1>2. CASE HttpListen
  BY <1>2 DEF HttpListen
<1>3. CASE OpenDb
  BY <1>3 DEF OpenDb
<1>4. CASE InitJwt
  BY <1>4 DEF InitJwt
<1>5. CASE Generate
  <2>1. /\ fresh' \in Pairs /\ generated' \subseteq Pairs /\ phase' = "createPub"
        /\ phase = "stat" /\ pubFile = Absent
        /\ UNCHANGED << http, Files, wiredKey, crashes, served, interrupted >>
    BY <1>5 DEF Generate
  <2>2. keyFile \notin Pairs /\ served = {} /\ wiredKey = NoKey
    BY <2>1
  <2> QED BY <2>1, <2>2
<1>6. CASE CreatePub
  BY <1>6 DEF CreatePub
<1>7. CASE WritePub
  BY <1>7 DEF WritePub
<1>8. CASE CreateKey
  BY <1>8 DEF CreateKey
<1>9. CASE WriteKey
  BY <1>9 DEF WriteKey
<1>10. CASE LoadPair
  BY <1>10 DEF LoadPair
<1>11. CASE Listen
  BY <1>11 DEF Listen
<1>12. CASE Crash
  <2>1. crashes' \in 0 .. MaxCrashes /\ interrupted' \in BOOLEAN
    BY <1>12 DEF Crash
  <2>2. UNCHANGED << Files, generated, served >>
        /\ phase' = "down" /\ http' = FALSE /\ fresh' = NoKey /\ wiredKey' = NoKey
    BY <1>12 DEF Crash, Down
  <2> QED BY <2>1, <2>2
<1>13. CASE LoadFatal
  BY <1>13 DEF LoadFatal, Down
<1>14. CASE /\ \/ phase = "roles" /\ phase' \in {"stat", "promote"}
               \/ phase = "promote" /\ phase' = "stat"
            /\ UNCHANGED << http, fresh, Files, wiredKey, Past >>
  BY <1>14
<1>15. CASE Answers /\ Serve
  BY <1>15 DEF Answers, Serve
<1>16. CASE UNCHANGED startupVars
  BY <1>16 DEF startupVars
<1>17. CASE RemovePair
  <2>1. /\ phase = "down" /\ pubFile' = Absent /\ keyFile' = Absent /\ served' = {}
        /\ interrupted' = FALSE /\ UNCHANGED << phase, http, fresh, wiredKey, generated >>
    BY <1>17 DEF RemovePair
  <2>2. crashes' \in 0 .. MaxCrashes
    BY <1>17 DEF RemovePair
  <2> QED BY <2>1, <2>2
<1> QED BY <1>1, <1>2, <1>3, <1>4, <1>5, <1>6, <1>7, <1>8, <1>9, <1>10, <1>11, <1>12,
           <1>13, <1>14, <1>15, <1>16, <1>17 DEF MasterMove, StartupStep

-----------------------------------------------------------------------------
(* Every step keeps the types of the node and the state of its dialling.   *)
LEMMA DialStep ==
  ASSUME StartupTypeOK, NodeTypeOK, DialInv, [Next]_vars
  PROVE  NodeTypeOK' /\ DialInv'
<1> USE AttemptsAssumption, PairsAssumption DEF StartupTypeOK, NodeTypeOK, DialInv, ExitsAreExplained
<1>1. CASE RequestPublicKey
  BY <1>1 DEF RequestPublicKey, Answers
<1>2. CASE DecodeFatal
  BY <1>2 DEF DecodeFatal, Break
<1>3. CASE Resolve
  <2>1. CASE node' = "dial" /\ UNCHANGED << breaks, struck >>
    BY <1>3, <2>1 DEF Resolve
  <2>2. CASE Break /\ node' = "exited" /\ struck' = struck \cup {"resolver"}
    BY <1>3, <2>2 DEF Resolve, Break
  <2> QED BY <1>3, <2>1, <2>2 DEF Resolve
<1>4. CASE Dial
  <2>1. CASE conn' = "accepted" /\ failedAttempts' = 0 /\ node' = "secret"
             /\ UNCHANGED << breaks, misses >>
    BY <1>4, <2>1 DEF Dial
  <2>2. CASE /\ failedAttempts' = failedAttempts + 1 /\ misses' = misses + 1
             /\ node' = (IF failedAttempts + 1 < MaxAttempts THEN "dial" ELSE "exited")
             /\ UNCHANGED conn
    BY <1>4, <2>2 DEF Dial, Break
  <2> QED BY <1>4, <2>1, <2>2 DEF Dial
<1>5. CASE SendSecret
  <2>1. /\ node = "secret"
        /\ UNCHANGED << nodeKey, failedAttempts, breaks, misses, struck >>
    BY <1>5 DEF SendSecret
  <2>2. CASE conn = "rst" /\ node' = "exited" /\ UNCHANGED << conn, written >>
    BY <2>1, <2>2
  <2>3. CASE /\ conn # "rst"
             /\ written' = (written + 1) % Writes
             /\ node' = (IF written + 1 = Writes THEN "read" ELSE node)
             /\ conn' \in (IF conn = "fin" THEN {"fin", "rst"}
                          ELSE IF written + 1 = Writes THEN {"sent"} ELSE {conn})
    <3>1. /\ written' \in 0 .. 3 /\ (nodeKey = NoKey => written' < 2)
          /\ (written + 1 = Writes => written' = 0)
      BY <2>3 DEF Writes
    <3>2. CASE written + 1 = Writes
      BY <2>1, <2>3, <3>1, <3>2
    <3>3. CASE written + 1 # Writes
      BY <2>1, <2>3, <3>1, <3>3
    <3> QED BY <3>2, <3>3
  <2> QED BY <1>5, <2>2, <2>3 DEF SendSecret
<1>6. CASE Read
  BY <1>6 DEF Read
<1>7. CASE FirstPacket
  <2>1. CASE Refuse
    <3>1. /\ conn = "sent" \/ (conn = "accepted" /\ written >= 2)
          /\ conn' \in {"fin", "rst"}
          /\ struck' = (IF node = "secret" THEN struck \cup {"refusal"} ELSE struck)
          /\ UNCHANGED << node, nodeKey, failedAttempts, written, breaks, misses >>
      BY <2>1 DEF Refuse
    <3> QED BY <3>1
  <2>2. CASE /\ conn = "sent" /\ conn' = "ready" /\ misses' = 0
             /\ UNCHANGED << node, nodeKey, failedAttempts, written, breaks, struck >>
    BY <2>2
  <2> QED BY <1>7, <2>1, <2>2 DEF FirstPacket
<1>8. CASE Drop
  BY <1>8 DEF Drop, Break, Ended, Struck
<1>9. CASE LoseMaster
  BY <1>9 DEF LoseMaster, Ended, Struck
<1>10. CASE UNCHANGED nodeVars
  BY <1>10 DEF nodeVars
<1> QED BY <1>1, <1>2, <1>3, <1>4, <1>5, <1>6, <1>7, <1>8, <1>9, <1>10
        DEF Next, MasterStep, MasterEnds, NodeStep, vars
-----------------------------------------------------------------------------
(* The first row of a user. *)

(* RoleIn finds the role in the first of the user's rows, and "none"       *)
(* exactly if he has no row.                                               *)
LEMMA RoleInFirst ==
  ASSUME NEW table \in Seq(Rows), NEW id
  PROVE  /\ RoleIn(table, id) \in Roles \cup {"none"}
         /\ RoleIn(table, id) = "none" <=> \A i \in DOMAIN table : table[i].id # id
         /\ \A i \in DOMAIN table :
              /\ table[i].id = id
              /\ \A j \in DOMAIN table : table[j].id = id => i <= j
              => RoleIn(table, id) = table[i].role
<1> DEFINE mine == { i \in DOMAIN table : table[i].id = id }
<1>1. "none" \notin Roles
  BY RoleAssumption DEF Roles
<1>2. DOMAIN table \subseteq Nat /\ \A i \in DOMAIN table : table[i].role \in Roles
  <2>1. Len(table) \in Nat /\ DOMAIN table = 1 .. Len(table) /\ \A i \in DOMAIN table : table[i] \in Rows
    BY LenProperties
  <2> QED BY <2>1 DEF Rows
<1>3. CASE mine = {}
  <2>1. RoleIn(table, id) = "none"
    BY <1>3 DEF RoleIn
  <2> QED BY <1>3, <2>1
<1>4. CASE mine # {}
  <2> DEFINE first == CHOOSE i \in mine : \A j \in mine : i <= j
  <2>1. \E i \in mine : \A j \in mine : i <= j
    <3>1. mine \in SUBSET Nat
      BY <1>2
    <3> QED BY <1>4, <3>1, LeastElement
  <2>2. first \in mine /\ \A j \in mine : first <= j
    BY <2>1
  <2>3. RoleIn(table, id) = table[first].role
    BY <1>4 DEF RoleIn
  <2>4. ASSUME NEW i \in mine, \A j \in mine : i <= j
        PROVE  i = first
    <3>1. i <= first /\ first <= i
      BY <2>2, <2>4
    <3>2. i \in Nat /\ first \in Nat
      BY <1>2, <2>2
    <3> HIDE DEF first
    <3> QED BY <3>1, <3>2
  <2> HIDE DEF first
  <2> QED BY <1>1, <1>2, <2>2, <2>3, <2>4
<1> QED BY <1>3, <1>4

(* A row added at the end is in force only for a user without a row.       *)
LEMMA RoleInAppend ==
  ASSUME NEW table \in Seq(Rows), NEW row \in Rows, NEW id
  PROVE  /\ Append(table, row) \in Seq(Rows)
         /\ RoleIn(Append(table, row), id) =
              IF RoleIn(table, id) = "none" /\ row.id = id THEN row.role ELSE RoleIn(table, id)
<1> DEFINE longer == Append(table, row)
           n == Len(table)
<1>1. /\ longer \in Seq(Rows) /\ n \in Nat
      /\ DOMAIN longer = 1 .. n + 1 /\ DOMAIN table = 1 .. n
      /\ longer[n + 1] = row /\ \A i \in 1 .. n : longer[i] = table[i]
  BY AppendProperties, LenProperties
<1> HIDE DEF longer, n
<1>2. CASE RoleIn(table, id) = "none"
  <2>1. \A i \in 1 .. n : longer[i].id # id
    BY <1>1, <1>2, RoleInFirst
  <2>2. CASE row.id = id
    <3>1. \A j \in DOMAIN longer : longer[j].id = id => n + 1 <= j
      BY <1>1, <2>1
    <3>2. n + 1 \in DOMAIN longer /\ longer[n + 1].id = id
      BY <1>1, <2>2
    <3>3. RoleIn(longer, id) = row.role
      BY <1>1, <3>1, <3>2, RoleInFirst
    <3> QED BY <1>1, <1>2, <2>2, <3>3 DEF longer
  <2>3. CASE row.id # id
    <3>1. \A j \in DOMAIN longer : longer[j].id # id
      BY <1>1, <2>1, <2>3
    <3>2. RoleIn(longer, id) = "none"
      BY <1>1, <3>1, RoleInFirst
    <3> QED BY <1>1, <1>2, <2>3, <3>2 DEF longer
  <2> QED BY <2>2, <2>3
<1>3. CASE RoleIn(table, id) # "none"
  <2> DEFINE mine == { i \in 1 .. n : table[i].id = id }
  <2>1. mine # {}
    BY <1>1, <1>3, RoleInFirst
  <2>2. PICK i \in mine : \A j \in mine : i <= j
    <3>1. mine \in SUBSET Nat
      BY <1>1
    <3> QED BY <2>1, <3>1, LeastElement
  <2>3. RoleIn(table, id) = table[i].role
    BY <1>1, <2>2, RoleInFirst
  <2>4. i \in DOMAIN longer /\ longer[i] = table[i] /\ longer[i].id = id
    BY <1>1
  <2>5. \A j \in DOMAIN longer : longer[j].id = id => i <= j
    BY <1>1, <2>2
  <2>6. RoleIn(longer, id) = table[i].role
    BY <1>1, <2>4, <2>5, RoleInFirst
  <2> QED BY <1>1, <1>3, <2>3, <2>6 DEF longer
<1> QED BY <1>2, <1>3

(* A change of one user's role leaves everybody's rows where they are and  *)
(* the roles of all others in force.                                       *)
LEMMA RoleInWithRole ==
  ASSUME NEW table \in Seq(Rows), NEW id \in Users, NEW role \in Roles
  PROVE  /\ WithRole(table, id, role) \in Seq(Rows)
         /\ DOMAIN WithRole(table, id, role) = DOMAIN table
         /\ \A i \in DOMAIN table : WithRole(table, id, role)[i].id = table[i].id
         /\ \A other : other # id => RoleIn(WithRole(table, id, role), other) = RoleIn(table, other)
<1> DEFINE changed == WithRole(table, id, role)
           n == Len(table)
<1>1. n \in Nat /\ DOMAIN table = 1 .. n /\ \A i \in 1 .. n : table[i] \in Rows
  BY LenProperties
<1>2. /\ changed \in [1 .. n -> Rows] /\ DOMAIN changed = 1 .. n
      /\ \A i \in 1 .. n : changed[i].id = table[i].id
                           /\ (table[i].id # id => changed[i] = table[i])
  BY <1>1 DEF WithRole, Row, Rows
<1>3. changed \in Seq(Rows)
  BY <1>1, <1>2
<1> HIDE DEF changed, n
<1>4. ASSUME NEW other, other # id
      PROVE  RoleIn(changed, other) = RoleIn(table, other)
  <2> DEFINE mine == { i \in 1 .. n : table[i].id = other }
  <2>1. CASE mine = {}
    BY <1>1, <1>2, <1>3, <2>1, RoleInFirst, SMTT(30)
  <2>2. CASE mine # {}
    <3>1. PICK i \in mine : \A j \in mine : i <= j
      <4>1. mine \in SUBSET Nat
        BY <1>1
      <4> QED BY <2>2, <4>1, LeastElement
    <3>2. RoleIn(table, other) = table[i].role
      BY <1>1, <3>1, RoleInFirst
    <3>3. i \in DOMAIN changed /\ changed[i] = table[i] /\ changed[i].id = other
      BY <1>2, <1>4
    <3>4. \A j \in DOMAIN changed : changed[j].id = other => i <= j
      BY <1>2, <3>1
    <3>5. RoleIn(changed, other) = changed[i].role
      BY <1>3, <3>3, <3>4, RoleInFirst
    <3> QED BY <3>2, <3>3, <3>5
  <2> QED BY <2>1, <2>2
<1> QED BY <1>1, <1>2, <1>3, <1>4 DEF changed
(* The same of the table in a step that changes it.                        *)
LEMMA RowsAppended ==
  ASSUME AccountsTypeOK, NEW id \in Users, rows' = Append(rows, Row(id, FirstRole))
  PROVE  /\ \A u : RoleIn(rows', u) = IF RoleIn(rows, u) = "none" /\ id = u
                                     THEN FirstRole ELSE RoleIn(rows, u)
         /\ rows' \in Seq(Rows)
<1>1. rows \in Seq(Rows)
  BY DEF AccountsTypeOK, Rows
<1>2. Row(id, FirstRole) \in Rows /\ Row(id, FirstRole).id = id
      /\ Row(id, FirstRole).role = FirstRole
  BY DEF Row, Rows, Roles
<1> QED BY <1>1, <1>2, RoleInAppend

(* And of a change of a role.                                              *)
LEMMA RowsChanged ==
  ASSUME AccountsTypeOK, NEW id \in Users, NEW role \in Roles, rows' = WithRole(rows, id, role)
  PROVE  /\ rows' \in Seq(Rows)
         /\ DOMAIN rows' = DOMAIN rows
         /\ \A i \in DOMAIN rows : rows'[i].id = rows[i].id
         /\ \A other : other # id => RoleIn(rows', other) = RoleIn(rows, other)
<1>1. rows \in Seq(Rows)
  BY DEF AccountsTypeOK, Rows
<1> QED BY <1>1, RoleInWithRole

-----------------------------------------------------------------------------
(* The steps that touch the accounts, for the lemmas below.                *)
LEMMA NextMovesAccounts ==
  ASSUME [Next]_vars
  PROVE  \/ \E c \in Callbacks : Panics(c) \/ LookUp(c) \/ CreateUser(c) \/ CreateToken(c)
         \/ \E c \in Callbacks, id \in Users : SignIn(c, id)
         \/ \E id \in Users, role \in Roles : ChangeUserRole(id, role)
         \/ UpdateRolesLook \/ UpdateRolesChange \/ LoseRequests
         \/ UNCHANGED accountVars
BY DEF Next, MasterStep, MasterEnds, AccountsStep, vars

(* Every step keeps the types of the accounts.                             *)
LEMMA AccountsTypeStep ==
  ASSUME AccountsTypeOK, RoleInv, [Next]_vars
  PROVE  AccountsTypeOK'
<1> USE AdminAssumption, SignInsAssumption DEF AccountsTypeOK, Row, Rows
<1>1. ASSUME NEW c \in Callbacks, Panics(c)
      PROVE  AccountsTypeOK'
  BY <1>1 DEF Panics, Idle, CallAt
<1>2. ASSUME NEW c \in Callbacks, LookUp(c)
      PROVE  AccountsTypeOK'
  <2> DEFINE id == call[c].id
  <2>1. id \in Users /\ RoleIn(rows, id) \in Roles \cup {"none"}
    BY RoleInFirst
  <2>2. /\ call' = [call EXCEPT ![c] = CallAt("token", id, RoleIn(rows, id))]
           \/ call' = [call EXCEPT ![c] = CallAt("create", id, "none")]
        /\ doubled' \in {doubled, doubled \cup {id}}
        /\ moved' \in {moved, moved \cup {c}}
        /\ dbFaults' = dbFaults \/ Fault
        /\ UNCHANGED << rows, tokens, signIns, changes >>
    BY <1>2 DEF LookUp
  <2>3. call' \in [Callbacks -> [pc : {"idle", "look", "create", "token"}, id : Users,
                                 role : Roles \cup {"none"}]]
    BY <2>1, <2>2 DEF CallAt
  <2>4. doubled' \subseteq Users /\ moved' \subseteq Callbacks
    BY <2>1, <2>2
  <2>5. dbFaults' \in 0 .. MaxDbFaults
    BY <2>2 DEF Fault
  <2> QED BY <2>2, <2>3, <2>4, <2>5
<1>3. ASSUME NEW c \in Callbacks, CreateUser(c)
      PROVE  AccountsTypeOK'
  <2> DEFINE id == call[c].id
  <2>1. id \in Users /\ FirstRole \in Roles
    BY DEF Roles
  <2>2. Append(rows, Row(id, FirstRole)) \in Seq(Rows)
    BY <2>1, RoleInAppend
  <2>3. rows' \in Seq(Rows)
    BY <1>3, <2>2 DEF CreateUser
  <2>4. call' \in [Callbacks -> [pc : {"idle", "look", "create", "token"}, id : Users,
                                 role : Roles \cup {"none"}]]
    BY <1>3, <2>1 DEF CreateUser, CallAt, Idle
  <2>5. moved' \subseteq Callbacks /\ dbFaults' \in 0 .. MaxDbFaults
    BY <1>3 DEF CreateUser, Fault
  <2> QED BY <1>3, <2>3, <2>4, <2>5 DEF CreateUser
<1>4. ASSUME NEW c \in Callbacks, CreateToken(c)
      PROVE  AccountsTypeOK'
  <2>1. call[c].id \in Users /\ call[c].role \in Roles
    BY <1>4 DEF CreateToken, RoleInv
  <2>2. [id |-> call[c].id, role |-> call[c].role, signed |-> phase \notin BeforeJwt]
          \in [id : Users, role : Roles, signed : BOOLEAN]
    BY <2>1
  <2>3. tokens' \subseteq [id : Users, role : Roles, signed : BOOLEAN]
    BY <1>4, <2>2, Zenon DEF CreateToken
  <2> QED BY <1>4, <2>3 DEF CreateToken, Idle, CallAt
<1>5. ASSUME NEW c \in Callbacks, NEW id \in Users, SignIn(c, id)
      PROVE  AccountsTypeOK'
  BY <1>5 DEF SignIn, CallAt
<1>6. ASSUME NEW id \in Users, NEW role \in Roles, ChangeUserRole(id, role)
      PROVE  AccountsTypeOK'
  <2>1. WithRole(rows, id, role) \in Seq(Rows)
    BY RoleInWithRole
  <2> QED BY <1>6, <2>1 DEF ChangeUserRole, Moves
<1>7. CASE UpdateRolesLook
  BY <1>7 DEF UpdateRolesLook, Fault
<1>8. CASE UpdateRolesChange
  <2>1. WithRole(rows, AdminId, "admin") \in Seq(Rows)
    BY RoleInWithRole DEF Roles
  <2> QED BY <1>8, <2>1 DEF UpdateRolesChange, Moves, Fault
<1>9. CASE LoseRequests
  BY <1>9 DEF LoseRequests, Idle, CallAt
<1>10. CASE UNCHANGED accountVars
  BY <1>10 DEF accountVars
<1> QED BY <1>1, <1>2, <1>3, <1>4, <1>5, <1>6, <1>7, <1>8, <1>9, <1>10, NextMovesAccounts

(* No step gives an undoubled user a second row.                           *)
LEMMA RowStep ==
  ASSUME AccountsTypeOK, RowInv, [Next]_vars
  PROVE  RowInv'
<1> USE DEF AccountsTypeOK, RowInv, Creating
<1>1. ASSUME NEW c \in Callbacks, Panics(c)
      PROVE  RowInv'
  BY <1>1 DEF Panics, Idle, CallAt
<1>2. ASSUME NEW c \in Callbacks, LookUp(c)
      PROVE  RowInv'
  <2> DEFINE id == call[c].id
  <2>1. \A d \in Callbacks \ {c} : call'[d] = call[d]
    BY <1>2 DEF LookUp
  <2>2. rows' = rows /\ doubled \subseteq doubled' /\ id \in Users
    BY <1>2 DEF LookUp
  <2>3. CASE call'[c].pc = "token"
    BY <2>1, <2>2, <2>3
  <2>4. CASE call'[c].pc = "create" /\ id \in doubled'
    <3>1. call'[c].id = id
      BY <1>2 DEF LookUp, CallAt
    <3> QED BY <2>1, <2>2, <2>4, <3>1
  <2>5. CASE /\ call'[c].pc = "create" /\ id \notin doubled'
             /\ RoleIn(rows, id) = "none"
             /\ ~ \E d \in Callbacks \ {c} : call[d].pc = "create" /\ call[d].id = id
    <3>1. call'[c].id = id
      BY <1>2 DEF LookUp, CallAt
    <3>2. \A i \in DOMAIN rows : rows[i].id # id
      BY <2>5, RoleInFirst DEF Rows
    <3> QED BY <2>1, <2>2, <2>5, <3>1, <3>2, SMTT(30)
  <2> QED BY <1>2, <2>3, <2>4, <2>5 DEF LookUp, CallAt
<1>3. ASSUME NEW c \in Callbacks, CreateUser(c)
      PROVE  RowInv'
  <2> DEFINE id == call[c].id
             n == Len(rows)
  <2>1. call[c].pc = "create" /\ doubled' = doubled /\ id \in Users
    BY <1>3 DEF CreateUser
  <2>2. call'[c].pc # "create" /\ \A d \in Callbacks \ {c} : call'[d] = call[d]
    BY <1>3 DEF CreateUser, CallAt, Idle
  <2>3. CASE rows' = rows
    BY <2>1, <2>2, <2>3
  <2>4. CASE rows' = Append(rows, Row(id, FirstRole))
    <3>1. /\ n \in Nat /\ DOMAIN rows' = 1 .. n + 1 /\ DOMAIN rows = 1 .. n
          /\ rows'[n + 1].id = id /\ \A i \in 1 .. n : rows'[i] = rows[i]
      BY <2>4, AppendProperties, LenProperties DEF Row
    <3>2. id \notin doubled => \A i \in 1 .. n : rows[i].id # id
      BY <2>1, <3>1
    <3>3. ASSUME NEW i \in DOMAIN rows', NEW j \in DOMAIN rows',
                 rows'[i].id = rows'[j].id, rows'[i].id \notin doubled'
          PROVE  i = j
      BY <2>1, <3>1, <3>2, <3>3
    <3>4. ASSUME NEW d \in Callbacks, NEW i \in DOMAIN rows',
                 call'[d].pc = "create", call'[d].id \notin doubled'
          PROVE  rows'[i].id # call'[d].id
      BY <2>1, <2>2, <3>1, <3>4
    <3> QED BY <2>1, <2>2, <3>3, <3>4
  <2> QED BY <1>3, <2>3, <2>4 DEF CreateUser
<1>4. ASSUME NEW c \in Callbacks, CreateToken(c)
      PROVE  RowInv'
  BY <1>4 DEF CreateToken, Idle, CallAt
<1>5. ASSUME NEW c \in Callbacks, NEW id \in Users, SignIn(c, id)
      PROVE  RowInv'
  BY <1>5 DEF SignIn, CallAt
<1>6. ASSUME NEW id \in Users, NEW role \in Roles, rows' = WithRole(rows, id, role),
             UNCHANGED << call, doubled >>
      PROVE  RowInv'
  <2>1. DOMAIN rows' = DOMAIN rows /\ \A i \in DOMAIN rows : rows'[i].id = rows[i].id
    BY <1>6, RowsChanged
  <2>2. call' = call /\ doubled' = doubled
    BY <1>6
  <2> QED BY <2>1, <2>2
<1>7. CASE UNCHANGED << rows, call, doubled >>
  BY <1>7
<1>8. CASE LoseRequests
  BY <1>8 DEF LoseRequests, Idle, CallAt
<1>9. ASSUME NEW id \in Users, NEW role \in Roles, ChangeUserRole(id, role)
      PROVE  RowInv'
  BY <1>6, <1>9 DEF ChangeUserRole
<1>10. CASE UpdateRolesChange
  BY <1>6, <1>7, <1>10, AdminAssumption DEF UpdateRolesChange, Roles
<1> QED BY <1>1, <1>2, <1>3, <1>4, <1>5, <1>7, <1>8, <1>9, <1>10, NextMovesAccounts
        DEF UpdateRolesLook, accountVars

(* What a callback knows of the table stays true, or it is in `moved`.     *)
LEMMA RoleStep ==
  ASSUME AccountsTypeOK, RoleInv, [Next]_vars
  PROVE  RoleInv'
<1> USE DEF AccountsTypeOK, RoleInv, Creating, Rows
<1>1. ASSUME NEW c \in Callbacks, Panics(c)
      PROVE  RoleInv'
  BY <1>1 DEF Panics, Idle, CallAt
<1>2. ASSUME NEW c \in Callbacks, LookUp(c)
      PROVE  RoleInv'
  <2> DEFINE id == call[c].id
             role == RoleIn(rows, id)
  <2>1. \A d \in Callbacks \ {c} : call'[d] = call[d] /\ (d \in moved <=> d \in moved')
    BY <1>2 DEF LookUp
  <2>2. rows' = rows /\ role \in Roles \cup {"none"} /\ call'[c].id = id
    <3>1. rows \in Seq(Rows)
      OBVIOUS
    <3>2. role \in Roles \cup {"none"}
      BY <3>1, RoleInFirst
    <3> QED BY <1>2, <3>2 DEF LookUp, CallAt
  <2>3. \/ call'[c].pc = "token" /\ call'[c].role = role /\ role # "none"
        \/ call'[c].pc = "create" /\ call'[c].role = "none"
           /\ (role = "none" \/ c \in moved')
    BY <1>2 DEF LookUp, CallAt
  <2> QED BY <2>1, <2>2, <2>3
<1>3. ASSUME NEW c \in Callbacks, CreateUser(c)
      PROVE  RoleInv'
  <2> DEFINE id == call[c].id
  <2>1. call[c].pc = "create" /\ id \in Users /\ FirstRole \in Roles
    BY <1>3 DEF CreateUser, Roles
  <2>2. CASE rows' = rows /\ moved' = moved /\ call' = [call EXCEPT ![c] = Idle]
    BY <2>2 DEF Idle, CallAt
  <2>3. CASE /\ rows' = Append(rows, Row(id, FirstRole))
             /\ call' = [call EXCEPT ![c] = CallAt("token", id, FirstRole)]
             /\ moved' = moved \cup { d \in Callbacks \ {c} :
                                        call[d].pc # "idle" /\ call[d].id = id }
    <3>1. call'[c].pc = "token" /\ call'[c].id = id /\ call'[c].role = FirstRole
      BY <2>3 DEF CallAt
    <3>2. \A d \in Callbacks \ {c} : call'[d] = call[d]
      BY <2>3
    <3>3. \A u : RoleIn(rows', u) = IF RoleIn(rows, u) = "none" /\ id = u
                                    THEN FirstRole ELSE RoleIn(rows, u)
      BY <2>1, <2>3, RowsAppended
    <3>4. c \notin moved' => RoleIn(rows', id) = FirstRole
      BY <2>1, <2>3, <3>3
    <3>5. ASSUME NEW d \in Callbacks \ {c}, d \notin moved', call[d].pc # "idle"
          PROVE  d \notin moved /\ RoleIn(rows', call[d].id) = RoleIn(rows, call[d].id)
      BY <2>3, <3>3, <3>5
    <3> QED BY <2>1, <3>1, <3>2, <3>4, <3>5
  <2> QED BY <1>3, <2>2, <2>3 DEF CreateUser
<1>4. ASSUME NEW c \in Callbacks, CreateToken(c)
      PROVE  RoleInv'
  BY <1>4 DEF CreateToken, Idle, CallAt
<1>5. ASSUME NEW c \in Callbacks, NEW id \in Users, SignIn(c, id)
      PROVE  RoleInv'
  BY <1>5 DEF SignIn, CallAt
<1>6. ASSUME NEW id \in Users, NEW role \in Roles, rows' = WithRole(rows, id, role),
             Moves(id), UNCHANGED call
      PROVE  RoleInv'
  <2>1. \A u : u # id => RoleIn(rows', u) = RoleIn(rows, u)
    BY <1>6, RowsChanged
  <2>2. ASSUME NEW d \in Callbacks, d \notin moved', call[d].pc # "idle"
        PROVE  d \notin moved /\ call[d].id # id
    BY <1>6, <2>2 DEF Moves
  <2>3. call' = call
    BY <1>6
  <2> QED BY <2>1, <2>2, <2>3
<1>7. CASE UNCHANGED << rows, call, moved >>
  BY <1>7
<1>8. CASE LoseRequests
  BY <1>8 DEF LoseRequests, Idle, CallAt
<1>9. ASSUME NEW id \in Users, NEW role \in Roles, ChangeUserRole(id, role)
      PROVE  RoleInv'
  BY <1>6, <1>9 DEF ChangeUserRole
<1>10. CASE UpdateRolesChange
  BY <1>6, <1>7, <1>10, AdminAssumption DEF UpdateRolesChange, Roles
<1> QED BY <1>1, <1>2, <1>3, <1>4, <1>5, <1>7, <1>8, <1>9, <1>10, NextMovesAccounts
        DEF UpdateRolesLook, accountVars

-----------------------------------------------------------------------------
(* The inductive invariant and what follows from it. *)

(* The initial states satisfy the invariant.                               *)
LEMMA InvInit == Init => IInv
<1> SUFFICES ASSUME Init
             PROVE  IInv
  OBVIOUS
<1>1. StartupTypeOK /\ KeyInv
  <2>1. StartupInit
    BY DEF Init
  <2>2. StartupTypeOK
    <3>1. http \in BOOLEAN /\ interrupted \in BOOLEAN
      BY <2>1, Zenon DEF StartupInit
    <3> QED BY <2>1, <3>1, PairsAssumption, CrashesAssumption DEF StartupInit, StartupTypeOK
  <2>3. KeyInv
    BY <2>1, PairsAssumption DEF StartupInit, KeyInv, Generating
  <2> QED BY <2>2, <2>3
<1>2. NodeTypeOK /\ DialInv
  <2>1. NodeInit /\ node \in {"fetch", "off"}
    BY DEF Init
  <2>2. NodeTypeOK
    BY <2>1, AttemptsAssumption DEF NodeInit, NodeTypeOK
  <2>3. DialInv
    BY <2>1, AttemptsAssumption DEF NodeInit, DialInv, ExitsAreExplained
  <2> QED BY <2>2, <2>3
<1>3. AccountsTypeOK /\ RowInv /\ RoleInv
  BY AdminAssumption, SignInsAssumption
     DEF Init, AccountsInit, AccountsTypeOK, RowInv, RoleInv, Creating, Idle, CallAt
<1> QED BY <1>1, <1>2, <1>3 DEF IInv, TypeOK, Init

(* Every step keeps it.                                                    *)
LEMMA InvStep == IInv /\ [Next]_vars => IInv'
<1> SUFFICES ASSUME IInv, [Next]_vars
             PROVE  IInv'
  OBVIOUS
<1>1. StartupTypeOK' /\ KeyInv'
  BY NextMovesMaster, KeyStep DEF IInv, TypeOK
<1>2. NodeTypeOK' /\ DialInv'
  BY DialStep DEF IInv, TypeOK
<1>3. AccountsTypeOK' /\ RowInv' /\ RoleInv'
  BY AccountsTypeStep, RowStep, RoleStep DEF IInv, TypeOK
<1>4. scene' = scene
  BY DEF Next, vars
<1> QED BY <1>1, <1>2, <1>3, <1>4 DEF IInv, TypeOK

(* The invariant holds throughout.                                         *)
LEMMA InvHolds == Spec => []IInv
BY InvInit, InvStep, PTL DEF Spec

(* Type correctness of the specification.                                  *)
THEOREM TypeCorrect == Spec => []TypeOK
<1>1. IInv => TypeOK
  BY DEF IInv
<1> QED BY <1>1, InvHolds, PTL

(* A public key a node was given is the master's for good: both files hold *)
(* it and no later life of the master uses another one.                    *)
THEOREM KeyIsFinal == Spec => []ServedKeyIsFinal
<1>1. IInv => ServedKeyIsFinal
  BY DEF IInv, TypeOK, StartupTypeOK, KeyInv, ServedKeyIsFinal
<1> QED BY <1>1, InvHolds, PTL

(* A node gives up after as many failed dials since it was last linked as  *)
(* its limit says, or because what it does next is fatal and the other     *)
(* side has failed it: the resolver, the answer with the key, or the       *)
(* connection amid the writes of the secret.  Being refused for want of a  *)
(* key does not end it, only being refused amid those writes for one that  *)
(* was replaced.                                                           *)
THEOREM ExitIsExplained == Spec => []ExitsAreExplained
<1>1. IInv => ExitsAreExplained
  BY DEF IInv, DialInv
<1> QED BY <1>1, InvHolds, PTL

(* A user has one row unless his creations overlapped or a look-up failed. *)
THEOREM UsersAreUnique == Spec => []OneRowPerUser
<1>1. ASSUME IInv
      PROVE  OneRowPerUser
  <2> SUFFICES ASSUME NEW id \in Users \ doubled
               PROVE  Cardinality({ i \in DOMAIN rows : rows[i].id = id }) <= 1
    BY DEF OneRowPerUser
  <2> DEFINE mine == { i \in DOMAIN rows : rows[i].id = id }
  <2>1. ASSUME NEW i \in mine, NEW j \in mine
        PROVE  i = j
    <3>1. rows[i].id = rows[j].id /\ rows[i].id \notin doubled
      OBVIOUS
    <3> QED BY <1>1, <3>1 DEF IInv, RowInv
  <2>2. CASE mine = {}
    <3>1. Cardinality(mine) = 0
      BY <2>2, FS_EmptySet, Zenon
    <3> QED BY <3>1
  <2>3. CASE mine # {}
    <3>1. PICK i \in mine : TRUE
      BY <2>3
    <3>2. mine = {i}
      BY <2>1
    <3>3. Cardinality(mine) = 1
      BY <3>2, FS_Singleton, Zenon
    <3> QED BY <3>3
  <2> QED BY <2>2, <2>3
<1> QED BY <1>1, InvHolds, PTL

(* Signing in changes nobody's role: a role in force is changed by request *)
(* or by updateRoles only.                                                 *)
THEOREM SigningInKeepsRoles == Spec => SignInsKeepRoles
<1> DEFINE Kept ==
      \A id \in Users :
        RoleIn(rows, id) # "none" /\ RoleIn(rows', id) # RoleIn(rows, id)
          => changes' # changes \/ (id = AdminId /\ phase = "promote")
<1>1. ASSUME IInv, [Next]_vars
      PROVE  [Kept]_rows
  <2> USE <1>1 DEF IInv, TypeOK, AccountsTypeOK, Rows
  <2>1. ASSUME NEW c \in Callbacks, CreateUser(c), rows' # rows
        PROVE  Kept
    <3>1. call[c].id \in Users /\ FirstRole \in Roles
      BY DEF Roles
    <3>2. rows' = Append(rows, Row(call[c].id, FirstRole))
      BY <2>1 DEF CreateUser
    <3> QED BY <3>1, <3>2, RowsAppended
  <2>2. ASSUME NEW id \in Users, NEW role \in Roles, ChangeUserRole(id, role)
        PROVE  Kept
    BY <2>2 DEF ChangeUserRole
  <2>3. CASE UpdateRolesChange
    <3>1. rows' = rows \/ rows' = WithRole(rows, AdminId, "admin")
      BY <2>3 DEF UpdateRolesChange
    <3>2. phase = "promote"
      BY <2>3 DEF UpdateRolesChange
    <3>3. rows' = rows \/ \A id : id # AdminId => RoleIn(rows', id) = RoleIn(rows, id)
      BY <3>1, RowsChanged, AdminAssumption DEF Roles
    <3> QED BY <3>2, <3>3
  <2>4. CASE rows' = rows
    BY <2>4
  <2> QED BY <2>1, <2>2, <2>3, <2>4, NextMovesAccounts
          DEF Panics, LookUp, CreateToken, SignIn, UpdateRolesLook, LoseRequests, accountVars
<1> QED BY <1>1, InvHolds, PTL DEF Spec, SignInsKeepRoles

(* A token carries the role in force when it is handed out, unless the     *)
(* role was changed under the callback or its look-up failed.              *)
THEOREM TokenCarriesTheRole == Spec => TokensCarryTheRole
<1> DEFINE Carried ==
      \A c \in Callbacks :
        call[c].pc = "token" /\ tokens' # tokens /\ call'[c].pc = "idle" /\ c \notin moved
          => call[c].role = RoleIn(rows, call[c].id)
<1>1. IInv => Carried
  BY DEF IInv, RoleInv
<1> QED BY <1>1, InvHolds, PTL DEF TokensCarryTheRole
=============================================================================
