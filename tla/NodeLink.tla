------------------------------ MODULE NodeLink ------------------------------
(***************************************************************************)
(* The node's way to a connection: connectToMaster, loadPublicKey,         *)
(* requestPublicKey, dialMaster and the beginning of                       *)
(* handleMasterConnection, with what the master's handler makes of the     *)
(* first packet.                                                           *)
(*                                                                         *)
(* A request for the key that fails is repeated after 5 seconds, which     *)
(* changes nothing and is no step here; one that is answered with a status *)
(* other than 200 yields neither a key nor an error; a body that is no PEM *)
(* block is fatal.  A Write to a closed connection succeeds and is         *)
(* answered with a reset, now or later; one to a reset connection fails.   *)
(* A reset is reported to a Read once, after that there is EOF.            *)
(***************************************************************************)
EXTENDS Startup

CONSTANTS
  MaxAttempts,  \* failed dials after which the node exits (10)
  MaxBreaks     \* bound: failures of the resolver, of dials and of connections

ASSUME AttemptsAssumption == MaxAttempts \in Nat \ {0} /\ MaxBreaks \in Nat

VARIABLES
  node,         \* "off", "fetch", "resolve", "dial", "secret", "read", "exited"
  nodeKey,      \* wiredPub, NoKey when nil
  failedAttempts,
  conn,         \* "none", "accepted", "sent", "ready", "fin", "rst"
  written,      \* the socket writes of the secret that are done, while some are not
  breaks,
  misses,       \* history: failed dials since the node was last linked
  struck        \* history: what has come over the node since it asked for its key

nodeVars == << node, nodeKey, failedAttempts, conn, written, breaks, misses, struck >>

NodeInit ==
  /\ nodeKey = NoKey
  /\ failedAttempts = 0
  /\ conn = "none"
  /\ written = 0
  /\ breaks = 0
  /\ misses = 0
  /\ struck = {}

Break == breaks < MaxBreaks /\ breaks' = breaks + 1

-----------------------------------------------------------------------------
RequestPublicKey ==
  /\ node = "fetch"
  /\ \/ Answers /\ nodeKey' = wiredKey /\ Serve
     \/ ~ Answers /\ nodeKey' = NoKey /\ UNCHANGED startupVars
  /\ node' = "resolve"
  /\ struck' = {}
  /\ UNCHANGED << failedAttempts, conn, written, breaks, misses >>

(* decodePEMToPublicKey: what answers with 200 is not the master's handler. *)
DecodeFatal ==
  /\ node = "fetch"
  /\ Break
  /\ node' = "exited"
  /\ struck' = {"body"}
  /\ UNCHANGED << startupVars, nodeKey, failedAttempts, conn, written, misses >>

(* "expected to recover", says a comment at the panic (node.go:60); nothing *)
(* does: the only recover() is in the goroutines of the proxy sessions.     *)
Resolve ==
  /\ node = "resolve"
  /\ \/ node' = "dial" /\ UNCHANGED << breaks, struck >>
     \/ Break /\ node' = "exited" /\ struck' = struck \cup {"resolver"}
  /\ UNCHANGED << startupVars, nodeKey, failedAttempts, conn, written, misses >>

DialNoReset ==                  \* mutant: a success does not start the count again
  /\ node = "dial"
  /\ \/ /\ phase = "serve"
        /\ conn' = "accepted"
        /\ node' = "secret"
        /\ UNCHANGED << failedAttempts, breaks, misses >>
     \/ /\ \/ phase # "serve" /\ UNCHANGED breaks
           \/ phase = "serve" /\ Break
        /\ failedAttempts' = failedAttempts + 1
        /\ misses' = misses + 1
        /\ node' = IF failedAttempts + 1 < MaxAttempts THEN "dial" ELSE "exited"
        /\ UNCHANGED conn
  /\ UNCHANGED << startupVars, nodeKey, written, struck >>

DialOnceMore ==                 \* mutant: the limit is passed by one
  /\ node = "dial"
  /\ \/ /\ phase = "serve"
        /\ conn' = "accepted"
        /\ failedAttempts' = 0
        /\ node' = "secret"
        /\ UNCHANGED << breaks, misses >>
     \/ /\ \/ phase # "serve" /\ UNCHANGED breaks
           \/ phase = "serve" /\ Break
        /\ failedAttempts' = failedAttempts + 1
        /\ misses' = misses + 1
        /\ node' = IF failedAttempts < MaxAttempts THEN "dial" ELSE "exited"
        /\ UNCHANGED conn
  /\ UNCHANGED << startupVars, nodeKey, written, struck >>

Dial ==
  /\ node = "dial"
  /\ \/ /\ phase = "serve"
        /\ conn' = "accepted"
        /\ failedAttempts' = 0
        /\ node' = "secret"
        /\ UNCHANGED << breaks, misses >>
     \/ /\ \/ phase # "serve" /\ UNCHANGED breaks
           \/ phase = "serve" /\ Break
        /\ failedAttempts' = failedAttempts + 1
        /\ misses' = misses + 1
        /\ node' = IF failedAttempts + 1 < MaxAttempts THEN "dial" ELSE "exited"
        /\ UNCHANGED conn
  /\ UNCHANGED << startupVars, nodeKey, written, struck >>

(* The shared secret: the length and the body of the packet, each a Write  *)
(* of its own, or two where it is encrypted (its length, its block).  Each *)
(* that fails is fatal.  The Hello goes after the last of them, whose      *)
(* failure nobody notices.                                                 *)
Writes == IF nodeKey = NoKey THEN 2 ELSE 4

SendSecret ==
  /\ node = "secret"
  /\ \/ /\ conn = "rst"
        /\ node' = "exited"
        /\ UNCHANGED << conn, written >>
     \/ /\ conn # "rst"
        /\ written' = (written + 1) % Writes
        /\ node' = IF written + 1 = Writes THEN "read" ELSE node
        /\ conn' \in IF conn = "fin" THEN {"fin", "rst"}
                    ELSE IF written + 1 = Writes THEN {"sent"} ELSE {conn}
  /\ UNCHANGED << startupVars, nodeKey, failedAttempts, breaks, misses, struck >>

(* handleConnection at the master.  It has read what two writes have sent  *)
(* (a length and what it takes for a block) when it finds that its key     *)
(* does not decrypt it, and ends the connection, with a reset if there is  *)
(* more.                                                                   *)
Refuse ==
  /\ phase = "serve" /\ nodeKey # wiredKey
  /\ conn = "sent" \/ (conn = "accepted" /\ written >= 2)
  /\ conn' \in IF conn = "sent" \/ written > 2 THEN {"fin", "rst"} ELSE {"fin"}
  /\ struck' = IF node = "secret" THEN struck \cup {"refusal"} ELSE struck
  /\ UNCHANGED << startupVars, node, nodeKey, failedAttempts, written, breaks, misses >>

FirstPacket ==
  \/ Refuse
  \/ /\ phase = "serve" /\ nodeKey = wiredKey /\ conn = "sent"
     /\ conn' = "ready"
     /\ misses' = 0
     /\ UNCHANGED << startupVars, node, nodeKey, failedAttempts, written, breaks, struck >>

ReadEndsWithoutDial ==          \* mutant: the reader ends and starts no other
  /\ node = "read"
  /\ \/ conn = "rst" /\ conn' = "fin" /\ UNCHANGED node
     \/ conn = "fin" /\ conn' = "none" /\ node' = "read"
  /\ UNCHANGED << startupVars, nodeKey, failedAttempts, written, breaks, misses, struck >>

(* The read loop: an error is passed over, EOF starts the next connection. *)
Read ==
  /\ node = "read"
  /\ \/ conn = "rst" /\ conn' = "fin" /\ UNCHANGED node
     \/ conn = "fin" /\ conn' = "none" /\ node' = "fetch"
  /\ UNCHANGED << startupVars, nodeKey, failedAttempts, written, breaks, misses, struck >>

(* The connection ends under both (or the master refuses a packet that a   *)
(* ping of an earlier connection's goroutine has come into), or with the   *)
(* master process.                                                         *)
Ended == IF conn \in {"accepted", "sent", "ready"} THEN {"fin", "rst"} ELSE {conn}
Struck == IF node = "secret" /\ conn = "accepted" THEN struck \cup {"loss"} ELSE struck

Drop ==
  /\ conn \in {"accepted", "sent", "ready"}
  /\ Break
  /\ conn' \in Ended
  /\ struck' = Struck
  /\ UNCHANGED << startupVars, node, nodeKey, failedAttempts, written, misses >>

LoseMaster ==
  /\ conn' \in Ended
  /\ struck' = Struck
  /\ UNCHANGED << node, nodeKey, failedAttempts, written, breaks, misses >>

NodeStep == RequestPublicKey \/ DecodeFatal \/ Resolve \/ Dial \/ SendSecret \/ Read

-----------------------------------------------------------------------------
(* Properties. *)

NodeTypeOK ==
  /\ node \in {"off", "fetch", "resolve", "dial", "secret", "read", "exited"}
  /\ nodeKey \in Pairs \cup {NoKey}
  /\ failedAttempts \in 0 .. MaxAttempts
  /\ conn \in {"none", "accepted", "sent", "ready", "fin", "rst"}
  /\ written \in 0 .. 3
  /\ breaks \in 0 .. MaxBreaks
  /\ misses \in Nat
  /\ struck \subseteq {"body", "resolver", "loss", "refusal"}

(* A node ends by one of these, and by nothing that came over an earlier   *)
(* connection: as many dials have failed since it was last linked as the   *)
(* limit says (failures of earlier days do not add up, node.go:67); its    *)
(* connection is lost while it writes the secret (node.go:89); a body is   *)
(* no key (node.go:336); the resolver fails, which node.go:60 expects to   *)
(* recover from and does not.  A refusal ends it only if it writes under a *)
(* key that is not the master's any more: a node that was given no key is  *)
(* refused by a master that is not up yet, but has written all it has to   *)
(* by then.                                                                *)
ExitsAreExplained ==
  node = "exited" =>
    \/ misses >= MaxAttempts
    \/ struck \cap {"body", "resolver", "loss"} # {}
    \/ "refusal" \in struck /\ nodeKey # NoKey

(* A node that has not exited is linked for good once the faults are over: *)
(* a key fetched too early (none) costs a connection and never the link, a *)
(* key from before the pair was replaced the connection or, where its      *)
(* refusal overtakes the secret's writes, the node.                        *)
NodeLinks ==
  <>[](interrupted \/ node \in {"off", "exited"} \/ conn = "ready")
=============================================================================
