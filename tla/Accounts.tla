------------------------------ MODULE Accounts ------------------------------
(***************************************************************************)
(* The users' table and the roles in it: AuthDiscordCallback, which looks  *)
(* a user up, creates him if the look-up fails and hands out a token with  *)
(* his role; ChangeUserRole, allowed to holders of an admin's token; and   *)
(* updateRoles, which a start of the master runs while requests come in.   *)
(*                                                                         *)
(* The exchange with Discord comes before and is not modelled.  The table  *)
(* is a sequence of rows without a key: QueryRow returns the first match,  *)
(* UPDATE changes all.  A request that meets the nil database panics and   *)
(* is answered with nothing.                                               *)
(***************************************************************************)
EXTENDS Startup

CONSTANTS
  Users,
  AdminId,      \* the admin's id in the configuration
  Callbacks,    \* requests of /api/auth/discord/callback
  FirstRole,    \* "user", or "demo" in demo mode
  MaxSignIns,   \* bound: sign-ins
  MaxChanges,   \* bound: changes of a role by request
  MaxDbFaults   \* bound: statements that fail

ASSUME AdminAssumption == AdminId \in Users
ASSUME RoleAssumption == FirstRole \in {"user", "demo"}
ASSUME SignInsAssumption ==
  MaxSignIns \in Nat /\ MaxChanges \in Nat /\ MaxDbFaults \in Nat

VARIABLES
  rows,         \* the table
  call,         \* call[c]: where the callback stands
  tokens,       \* tokens handed out
  signIns, changes, dbFaults,
  doubled,      \* history: users whose creations overlapped or whose look-up failed
  moved         \* history: callbacks whose user's rows changed, or whose statement failed

accountVars == << rows, call, tokens, signIns, changes, dbFaults, doubled, moved >>

Roles == {"admin", FirstRole}
Row(id, role) == [id |-> id, role |-> role]
CallAt(pc, id, role) == [pc |-> pc, id |-> id, role |-> role]
Idle == CallAt("idle", AdminId, "none")

AccountsInit ==
  /\ rows = << >>
  /\ call = [c \in Callbacks |-> Idle]
  /\ tokens = {}
  /\ signIns = 0 /\ changes = 0 /\ dbFaults = 0
  /\ doubled = {} /\ moved = {}

(* GetUser: the first row; "none" is sql.ErrNoRows. *)
RoleIn(table, id) ==
  LET mine == { i \in DOMAIN table : table[i].id = id }
  IN  IF mine = {} THEN "none"
      ELSE table[CHOOSE i \in mine : \A j \in mine : i <= j].role

(* ChangeUserRole: all rows of the user. *)
WithRole(table, id, role) ==
  [i \in DOMAIN table |-> IF table[i].id = id THEN Row(id, role) ELSE table[i]]

DbOpen == phase \notin BeforeDb
Fault == dbFaults < MaxDbFaults /\ dbFaults' = dbFaults + 1

(* Whoever is at work on user id has seen what is no longer so. *)
Moves(id) ==
  moved' = moved \cup { c \in Callbacks : call[c].pc # "idle" /\ call[c].id = id }

-----------------------------------------------------------------------------
(* AuthDiscordCallback. *)

SignIn(c, id) ==
  /\ http
  /\ call[c].pc = "idle"
  /\ signIns < MaxSignIns
  /\ signIns' = signIns + 1
  /\ call' = [call EXCEPT ![c] = CallAt("look", id, "none")]
  /\ moved' = moved \ {c}
  /\ UNCHANGED << startupVars, rows, tokens, changes, dbFaults, doubled >>

Panics(c) ==
  /\ call[c].pc = "look"
  /\ ~ DbOpen
  /\ call' = [call EXCEPT ![c] = Idle]
  /\ UNCHANGED << startupVars, rows, tokens, signIns, changes, dbFaults, doubled, moved >>

LookUpUnasked(c) ==             \* mutant: the result of the look-up is not used
  /\ call[c].pc = "look"
  /\ DbOpen
  /\ call' = [call EXCEPT ![c].pc = "create"]
  /\ UNCHANGED << startupVars, rows, tokens, signIns, changes, dbFaults, doubled, moved >>

LookUpWithoutRole(c) ==         \* mutant: the known user's role is not taken over
  LET id == call[c].id IN
  /\ call[c].pc = "look"
  /\ DbOpen
  /\ call' = [call EXCEPT ![c] = IF RoleIn(rows, id) = "none"
                                 THEN CallAt("create", id, "none")
                                 ELSE CallAt("token", id, FirstRole)]
  /\ UNCHANGED << startupVars, rows, tokens, signIns, changes, dbFaults, doubled, moved >>

(* Any error is taken for an unknown user. *)
LookUp(c) ==
  LET id == call[c].id
      role == RoleIn(rows, id)
      other == \E d \in Callbacks \ {c} : call[d].pc = "create" /\ call[d].id = id
  IN  /\ call[c].pc = "look"
      /\ DbOpen
      /\ \/ /\ role # "none"
            /\ call' = [call EXCEPT ![c] = CallAt("token", id, role)]
            /\ UNCHANGED << dbFaults, doubled, moved >>
         \/ /\ role = "none"
            /\ call' = [call EXCEPT ![c] = CallAt("create", id, "none")]
            /\ doubled' = IF other THEN doubled \cup {id} ELSE doubled
            /\ UNCHANGED << dbFaults, moved >>
         \/ /\ Fault
            /\ call' = [call EXCEPT ![c] = CallAt("create", id, "none")]
            /\ doubled' = doubled \cup {id}
            /\ moved' = moved \cup {c}
      /\ UNCHANGED << startupVars, rows, tokens, signIns, changes >>

CreateUserFirst(c) ==           \* mutant: the new row comes first
  LET id == call[c].id IN
  /\ call[c].pc = "create"
  /\ rows' = << Row(id, FirstRole) >> \o rows
  /\ call' = [call EXCEPT ![c] = CallAt("token", id, FirstRole)]
  /\ moved' = moved \cup { d \in Callbacks \ {c} : call[d].pc # "idle" /\ call[d].id = id }
  /\ UNCHANGED << startupVars, tokens, signIns, changes, dbFaults, doubled >>

(* INSERT, or an error that ends the request. *)
CreateUser(c) ==
  LET id == call[c].id IN
  /\ call[c].pc = "create"
  /\ \/ /\ rows' = Append(rows, Row(id, FirstRole))
        /\ call' = [call EXCEPT ![c] = CallAt("token", id, FirstRole)]
        /\ moved' = moved \cup { d \in Callbacks \ {c} :
                                   call[d].pc # "idle" /\ call[d].id = id }
        /\ UNCHANGED dbFaults
     \/ /\ Fault
        /\ call' = [call EXCEPT ![c] = Idle]
        /\ UNCHANGED << rows, moved >>
  /\ UNCHANGED << startupVars, tokens, signIns, changes, doubled >>

(* CreateToken, with the key jwt.Init has set, or none yet. *)
CreateToken(c) ==
  /\ call[c].pc = "token"
  /\ tokens' = tokens \cup { [id |-> call[c].id, role |-> call[c].role,
                              signed |-> phase \notin BeforeJwt] }
  /\ call' = [call EXCEPT ![c] = Idle]
  /\ UNCHANGED << startupVars, rows, signIns, changes, dbFaults, doubled, moved >>

-----------------------------------------------------------------------------
(* /api/users/role: adminHandler checks the token, not the table. *)
Valid(token) == token.signed = (phase \notin BeforeJwt)   \* and not older than a week
Authorised == \E t \in tokens : t.role = "admin" /\ Valid(t)

ChangeUserRole(id, role) ==
  /\ http /\ DbOpen
  /\ Authorised
  /\ changes < MaxChanges
  /\ changes' = changes + 1
  /\ rows' = WithRole(rows, id, role)
  /\ Moves(id)
  /\ UNCHANGED << startupVars, call, tokens, dbFaults, doubled, signIns >>

(* updateRoles: GetUser, then ChangeUserRole if the role is another one.   *)
UpdateRolesLook ==
  /\ phase = "roles"
  /\ \/ /\ Enter(IF RoleIn(rows, AdminId) \in {"none", "admin"} THEN "stat" ELSE "promote")
        /\ UNCHANGED dbFaults
     \/ Fault /\ Enter("stat")
  /\ UNCHANGED << http, fresh, Files, wiredKey, Past, rows, call, tokens, signIns, changes, doubled,
                  moved >>

UpdateRolesChange ==
  /\ phase = "promote"
  /\ Enter("stat")
  /\ \/ /\ rows' = WithRole(rows, AdminId, "admin")
        /\ Moves(AdminId)
        /\ UNCHANGED dbFaults
     \/ Fault /\ UNCHANGED << rows, moved >>
  /\ UNCHANGED << http, fresh, Files, wiredKey, Past, call, tokens, signIns, changes, doubled >>

(* With the process the requests end; the table and the tokens stay.       *)
LoseRequests ==
  /\ call' = [c \in Callbacks |-> Idle]
  /\ UNCHANGED << rows, tokens, signIns, changes, dbFaults, doubled, moved >>

AccountsStep ==
  \/ \E c \in Callbacks :
       Panics(c) \/ LookUp(c) \/ CreateUser(c) \/ CreateToken(c)
       \/ \E id \in Users : SignIn(c, id)
  \/ \E id \in Users, role \in Roles : ChangeUserRole(id, role)

-----------------------------------------------------------------------------
(* Properties. *)

AccountsTypeOK ==
  /\ rows \in Seq([id : Users, role : Roles])
  /\ call \in [Callbacks -> [pc : {"idle", "look", "create", "token"}, id : Users,
                             role : Roles \cup {"none"}]]
  /\ tokens \subseteq [id : Users, role : Roles, signed : BOOLEAN]
  /\ signIns \in 0 .. MaxSignIns /\ changes \in 0 .. MaxChanges /\ dbFaults \in 0 .. MaxDbFaults
  /\ doubled \subseteq Users /\ moved \subseteq Callbacks

(* A user has one row unless two callbacks created him at a time or a      *)
(* failed look-up was taken for an unknown user: the table has no key.     *)
OneRowPerUser ==
  \A id \in Users \ doubled : Cardinality({ i \in DOMAIN rows : rows[i].id = id }) <= 1

(* Signing in changes nobody's role, not even when it adds a second row:   *)
(* the role in force changes by request or by updateRoles only.            *)
SignInsKeepRoles ==
  [][\A id \in Users :
       RoleIn(rows, id) # "none" /\ RoleIn(rows', id) # RoleIn(rows, id)
         => changes' # changes \/ (id = AdminId /\ phase = "promote")]_rows

(* A token carries the role that is in force when it is handed out, unless *)
(* the role was changed while the callback was at work on it, or its       *)
(* look-up failed.                                                         *)
TokensCarryTheRole ==
  [][\A c \in Callbacks :
       call[c].pc = "token" /\ tokens' # tokens /\ call'[c].pc = "idle" /\ c \notin moved
         => call[c].role = RoleIn(rows, call[c].id)]_<< call, tokens >>
=============================================================================
