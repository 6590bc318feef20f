------------------------------ MODULE Startup ------------------------------
(***************************************************************************)
(* The master's start: Run, which starts the HTTP server first, opens the  *)
(* database, takes the signing key of the tokens, sees to the roles and    *)
(* then loads or generates the key pair the nodes encrypt to.              *)
(*                                                                         *)
(* A file of a key pair is absent, Broken (created but not completely      *)
(* written) or holds the pair.  log.Fatal, a panic in Run, a failed write  *)
(* and a crash all end the process; somebody starts it again.  Somebody    *)
(* may also take the two files away while it is down, so that the next     *)
(* start generates another pair.                                           *)
(***************************************************************************)
EXTENDS Naturals, Sequences, FiniteSets

CONSTANTS
  Pairs,        \* key pairs rsa.GenerateKey may return
  OldPairs,     \* the pairs among them that may be on disk from the beginning
  NoKey, Absent, Broken,
  MaxCrashes    \* bound: crashes of the master, and removals of its pair

ASSUME PairsAssumption ==
  /\ OldPairs \subseteq Pairs
  /\ Pairs \cap {NoKey, Absent, Broken} = {}
ASSUME CrashesAssumption == MaxCrashes \in Nat

VARIABLES
  phase,        \* where Run stands, or "down"
  http,         \* the HTTP server listens
  fresh,        \* the pair just generated, or NoKey
  pubFile, keyFile,   \* wired.pub, wired.key
  wiredKey,     \* the global, nil (NoKey) until the pair is loaded
  generated,    \* pairs generated so far
  crashes,
  served,       \* history: public keys answered with since the pair was last removed
  interrupted   \* history: a generation was interrupted after wired.pub was created,
                \*   and nobody has removed the file since

startupVars == << phase, http, fresh, pubFile, keyFile, wiredKey, generated, crashes,
                  served, interrupted >>

Generating == {"writePub", "createKey", "writeKey"}
BeforeDb == {"down", "db"}
BeforeJwt == BeforeDb \cup {"jwt"}

StartupInit ==
  /\ phase = "down"
  /\ http = FALSE
  /\ fresh = NoKey
  /\ pubFile \in OldPairs \cup {Absent} /\ keyFile = pubFile
  /\ wiredKey = NoKey
  /\ generated = Pairs \cap {pubFile}
  /\ crashes = 0
  /\ served = {}
  /\ interrupted = FALSE

Enter(next) == phase' = next
Files == << pubFile, keyFile >>
Past == << generated, crashes, served, interrupted >>

-----------------------------------------------------------------------------
Boot ==
  /\ phase = "down"
  /\ Enter("db")
  /\ UNCHANGED << http, fresh, Files, wiredKey, Past >>

(* startHttpServer runs in a goroutine of its own. *)
HttpListen ==
  /\ phase # "down"
  /\ ~ http
  /\ http' = TRUE
  /\ UNCHANGED << phase, fresh, Files, wiredKey, Past >>

OpenDb ==
  /\ phase = "db"
  /\ Enter("jwt")
  /\ UNCHANGED << http, fresh, Files, wiredKey, Past >>

InitJwt ==
  /\ phase = "jwt"
  /\ Enter("roles")
  /\ UNCHANGED << http, fresh, Files, wiredKey, Past >>

-----------------------------------------------------------------------------
(* loadWiredKeyPair looks for wired.pub only.  *)

GenerateInFile ==               \* mutant: wired.pub is created first
  /\ phase = "stat" /\ pubFile = Absent
  /\ \E k \in Pairs \ generated : fresh' = k /\ generated' = generated \cup {k}
  /\ pubFile' = Broken
  /\ Enter("createPub")
  /\ UNCHANGED << http, keyFile, wiredKey, crashes, served, interrupted >>

GenerateAndSet ==               \* mutant: the pair is in use before it is on disk
  /\ phase = "stat" /\ pubFile = Absent
  /\ \E k \in Pairs \ generated :
       fresh' = k /\ wiredKey' = k /\ generated' = generated \cup {k}
  /\ Enter("createPub")
  /\ UNCHANGED << http, Files, crashes, served, interrupted >>

Generate ==
  /\ phase = "stat" /\ pubFile = Absent
  /\ \E k \in Pairs \ generated : fresh' = k /\ generated' = generated \cup {k}
  /\ Enter("createPub")
  /\ UNCHANGED << http, Files, wiredKey, crashes, served, interrupted >>

CreatePub ==
  /\ phase = "createPub"
  /\ pubFile' = Broken
  /\ Enter("writePub")
  /\ UNCHANGED << http, fresh, keyFile, wiredKey, Past >>

WritePub ==
  /\ phase = "writePub"
  /\ pubFile' = fresh
  /\ Enter("createKey")
  /\ UNCHANGED << http, fresh, keyFile, wiredKey, Past >>

CreateKey ==
  /\ phase = "createKey"
  /\ keyFile' = Broken
  /\ Enter("writeKey")
  /\ UNCHANGED << http, fresh, pubFile, wiredKey, Past >>

WriteKey ==
  /\ phase = "writeKey"
  /\ keyFile' = fresh
  /\ wiredKey' = fresh
  /\ Enter("listen")
  /\ UNCHANGED << http, fresh, pubFile, Past >>

Down == phase' = "down" /\ http' = FALSE /\ fresh' = NoKey /\ wiredKey' = NoKey

LoadPair ==
  /\ phase = "stat"
  /\ pubFile \in Pairs /\ keyFile \in Pairs
  /\ wiredKey' = keyFile
  /\ Enter("listen")
  /\ UNCHANGED << http, fresh, Files, Past >>

(* Either file not being as expected is fatal (a panic in the last case).  *)
LoadFatal ==
  /\ phase = "stat" /\ pubFile # Absent
  /\ {pubFile, keyFile} \cap {Absent, Broken} # {}
  /\ Down
  /\ UNCHANGED << Files, Past >>

(* net.Listen of startServer: from here on connections are accepted.       *)
Listen ==
  /\ phase = "listen"
  /\ Enter("serve")
  /\ UNCHANGED << http, fresh, Files, wiredKey, Past >>

Crash ==
  /\ phase # "down"
  /\ crashes < MaxCrashes
  /\ crashes' = crashes + 1
  /\ interrupted' = (interrupted \/ phase \in Generating)
  /\ Down
  /\ UNCHANGED << Files, generated, served >>

RemovePair ==
  /\ phase = "down"
  /\ pubFile # Absent
  /\ crashes < MaxCrashes
  /\ crashes' = crashes + 1
  /\ pubFile' = Absent /\ keyFile' = Absent
  /\ served' = {}
  /\ interrupted' = FALSE
  /\ UNCHANGED << phase, http, fresh, wiredKey, generated >>

(* The answer of /api/connect/publickey.  With a nil key the handler       *)
(* panics, and the web server in front of it answers with an error.        *)
Answers == http /\ wiredKey # NoKey
Serve == served' = served \cup {wiredKey} /\
         UNCHANGED << phase, http, fresh, Files, wiredKey, generated, crashes, interrupted >>

StartupStep ==
  \/ Boot \/ HttpListen \/ OpenDb \/ InitJwt
  \/ Generate \/ CreatePub \/ WritePub \/ CreateKey \/ WriteKey \/ LoadPair \/ Listen

-----------------------------------------------------------------------------
(* Properties. *)

StartupTypeOK ==
  /\ phase \in {"down", "db", "jwt", "roles", "promote", "stat", "createPub", "writePub",
                "createKey", "writeKey", "listen", "serve"}
  /\ http \in BOOLEAN
  /\ fresh \in Pairs \cup {NoKey}
  /\ pubFile \in Pairs \cup {Absent, Broken}
  /\ keyFile \in Pairs \cup {Absent, Broken}
  /\ wiredKey \in Pairs \cup {NoKey}
  /\ generated \subseteq Pairs /\ served \subseteq Pairs
  /\ crashes \in 0 .. MaxCrashes
  /\ interrupted \in BOOLEAN

(* A public key that was given to a node is the master's until somebody    *)
(* takes the pair away: both files hold it, through crashes at any point,  *)
(* and no later life of the process uses another pair.                     *)
ServedKeyIsFinal ==
  \A k \in served : pubFile = k /\ keyFile = k /\ wiredKey \in {NoKey, k}

(* A master that crashes comes up again, unless the crash fell into the    *)
(* generation of the pair after wired.pub was created: since only that     *)
(* file is looked for, every later start is fatal.                         *)
MasterComesUp == <>[](interrupted \/ phase = "serve")
=============================================================================
