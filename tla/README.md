# WiredProxy: a TLA+ model

WiredProxy is a master that manages *nodes*, and nodes that proxy Minecraft
connections along the routes the master gives them. This directory holds
TLA+ modules that model how its goroutines, processes and connections work
together, configurations with which TLC checks them on small instances, and
proofs, checked by TLAPS, that hold for instances of any size. Every
definition is translated from the Go source; `PROJECT.json` maps each to its
lines.

## 1. The system

| Part | State it keeps | Operations | Hard because |
| --- | --- | --- | --- |
| Route distribution: `master/routes/{add_route,remove_route}.go`, `master.go` (`routeUpdater`, Hello case), `utils/clients.go`, node's Routes case | `config.Routes`, `SignalChannel` (8), map `Clients`, each node's table | add, remove; push to all clients; answer a Hello; reconnect | a goroutine per request, one updater, a handler per connection; a table is read some time before it is written; dead entries stay in the map |
| Binary update: `update_binary.go`, `set_node_hash.go`, `sendBinaryUpdate`, `binaryloader.go`, node's BinaryData and BinaryEnd cases, `upgrade` | the stored binary and its hash, `binaryData` at the node, its executable | upload, send on Hello or on request, collect, replace, exec | upload, two kinds of senders and the node's reader share a file, a connection and one label; crashes in between |
| Player registry: `utils/players.go`, `addPlayer`, `removePlayer`, PlayerAdd and PlayerRemove cases, `disconnect_node.go` | `PlayersArray` at node and master | join, leave, disconnect | packets go out on whatever connection there is by then, 500 ms late, once |
| Wire protocol: `protocol/{packet,connection,cfb8,types}.go` | cipher state of each direction | write a packet, read a packet, switch to AES | several goroutines write, nothing is locked, length and body are two writes |
| Configuration: `config/config.go`, the requests that change its lists, `master add-node` | the global `config`, `config.json` | add, delete, save, load | unsynchronised slices; truncate-then-write; two processes, one file |
| Proxy session: `handleMinecraftConnection`, `copyData`, `node/protocol` | two sockets, copying goroutines | handshake, route look-up, dial, login, copy both ways, screens, disconnect by the master | the halves of a session end one after the other; deferred clean-up; a reset loses what was written last; the handler must stop reading exactly where the copying starts |
| Node connection set-up: `dialMaster`, `loadPublicKey`, `resolver.go` | `failedAttempts`, global `master` | fetch the key, resolve, dial, send the secret, read on, give up | retries, fatal exits, a key fetched too early, errors that are passed over |
| Key pair and start-up: `crypto.go`, `Run` | two key files, `wiredKey` | listen for HTTP, open the database, load or generate the pair, listen for nodes | HTTP server runs before the key is loaded; crash between two files |
| Accounts: `sqlite.go`, `jwt.go`, `auth_discord*.go`, `change_user_role.go` | table of users, roles in tokens | sign in, change role, promote the admin at the start | look-up and creation are two steps, and so are look-up and promotion; a token keeps the role it was given |

How they meet: HTTP handlers change the configuration and put a token into
`SignalChannel`; the updater and the connection handlers write to the same
`protocol.Conn`; a node's reader stores what arrives in its own `config` and
dials again when the connection ends; a player's goroutine writes to the
global `master`, which by then may be another connection. The HTTP requests,
the connection handlers, the updater, the node's reader, its pinger and its
players are goroutines; the locks are `ClientsMutex`, `PlayersMux` and
`binaryDataMux`, each around single operations.

What makes each part correct is stated in section 3 with the runs; everything
that is hard to test is listed at its line under `hazards` in `PROJECT.json`,
with the properties that guard it, a note where they only bound what it can do,
or the reason why none guards it.

## 2. The modules

| Module | Models | Run by |
| --- | --- | --- |
| `RouteSync` | route distribution, clients map, Hello, reconnects, restarts | `MCRouteSync` |
| `BinaryUpdate` | upload, transfer, upgrade | `MCBinaryUpdate` |
| `PlayerRegistry` | the two lists of players | `MCPlayerRegistry` |
| `PacketStream` | one direction of a connection, piece by piece | `MCPacketStream` |
| `Channel` | abstract: a queue of packets, as long as the senders keep apart | through `PacketStream` |
| `ProxySession` | a Minecraft session between two sockets | `MCProxySession` |
| `Frames` | the bytes of both protocols, as functions | through the next two |
| `SessionFrames`, `StreamFrames` | the packets of `ProxySession` and `PacketStream`, as bytes | `MCProxySession`, `MCPacketStream` |
| `ConfigStore` | the master's `config` and `config.json`, store by store, and the updater's reading of the list | `MCConfigStore` |
| `Configuration` | abstract: two lists, changed in one step by a request and saved before its answer | through `ConfigStore` |
| `Startup` | the master's `Run` and its key pair | through `Deployment` |
| `NodeLink` | the node's way to a connection | through `Deployment` |
| `Accounts` | users, roles, tokens | through `Deployment` |
| `Deployment` | the three composed: a master's lives with a node and users | `MCDeployment` |
| `RouteSync_proofs`, `BinaryUpdate_proofs`, `PlayerRegistry_proofs`, `PacketStream_proofs`, `ConfigStore_proofs`, `ProxySession_proofs`, `Deployment_proofs` | theorems about the modules they are named after, and their proofs | `tlapm` |
| `ListFacts` | lemmas on numbers and sequences, for the proofs | `tlapm` |

Each abstracts from what another details: `RouteSync`, `BinaryUpdate` and
`PlayerRegistry` take packets to be written and read whole and the key
exchange to be part of the dial (`PacketStream` implements `Channel` as long as
the writers keep apart, and `NodeLink` has the dial's retries); `RouteSync`
takes the change of `config.Routes` to be one step (`ConfigStore` has its
steps, and implements `Configuration`, where it is one, as long as requests come
one at a time); `ProxySession` and `PacketStream` take a packet to be a unit, whose
bytes `Frames` has.

**RouteSync.** `version` stands for `config.Routes`: the number of changes so
far, so that two tables differ exactly when a change lies between them. `admin`
is where a request stands between its change and its send on the channel,
`signals` the tokens in the channel, `updater` the program counter and local
variables of `routeUpdater`, `handler`, `handlerKey` and `reply` those of
`handleConnection` (its `key`, and the table it has read for its reply),
`clients` the addresses in `utils.Clients`. A connection is named by its remote
address at the master and is used once. `ClientCopies` is `GetClients`: of the
entries of one node an arbitrary one survives. `Deferred` is the deferred
function, which looks for `key` in a map keyed by address. A connection may
break at any time (`Drop`), losing any suffix of what is in flight
(`LoseTail`); node and master may restart.

**BinaryUpdate.** A binary of version v is the sequence of its chunks; the hash
of a file is its content. `uploader[u]` is where a call of `UpdateBinary` stands
(create, copy chunk by chunk, hash, store the hash); several write the one file
at a time, and the histories `overlap` and `trusted` say what has become of it:
whether uploads overlap or ever have, and whether the last upload that was
complete and alone is still undisturbed. `sender` where a call of
`sendBinaryUpdate` stands, for the Hello of a connection or for a request to
`/api/node/update`; reading the file goes chunk by chunk too. `buffer` is
`binaryData["upgrade"]`; it survives a reconnect, not the process. The upgrade
is three steps (remove, write, exec) between which the process may be killed.
Disk faults end a copy or spoil a write.

**PlayerRegistry.** A record is a `protocol.Player` without its `Conn`; two
logins of one player in one second have equal records. The histories `addedOn`
and `removedOn` remember the connection each packet went out on, `lossy` the
connections that lost one.

**PacketStream.** `way` is the direction the behaviour is about, chosen at the
start. A piece is what one `Conn.Write` puts on the socket. Its
`prev` is the piece the cipher state was left by: the reader can decipher it
exactly when it has just deciphered that one. `Early` are goroutines left from
before a reconnect, which see the global connection before its key exchange is
complete; `Atomic` is the updater, which writes a marshalled packet at once.

**Channel.** What senders and receivers may rely on: `sent` and `got` are the
packets begun and delivered, in order; `mixed` says that senders overlapped,
after which packets may be lost or overtaken, though never doubled or made up,
and `lost` that the receiver has given up. `PacketStream` maps the order in
which packets were begun to `sent`, its history `overlapped` to `mixed` and a
reader that no longer reads to `lost`.

**ProxySession.** A session has two ends, `"client"` and `"server"`; for each
there is the peer's state, the socket's, what has arrived unread (`inq`), what
is written and not yet received (`outq`), and what the peer has received
(`got`). `pc` is where `handleMinecraftConnection` stands, `loop[s][w]` where
the copying goroutine of a direction does; the loop of the way down is the
handler's own. Units are the packets the handler treats itself and pieces of
data it copies; a `Read` takes any number of the units that have arrived. A
script says what a client and its server have to say and which of them may
leave. The rules of TCP the code depends on are in the head of the module and
marked external in the map: a `Write` to a peer that has gone succeeds once, a
socket closed with unread data resets the connection, a reset may cost the peer
what it has not read.

**Frames.** VarInt, String, the frame of a packet, the handshake and the login
of `node/protocol`, and the packets of `modules/protocol` with the RSA blocks
of the first one, as functions from values to bytes and from bytes to a value
and the rest. A byte has `Base` values for each seven bits, an integer
`Modulus` values (in the code 128 and 2^32); `MaxLen` is the length of the
longest VarInt. The recursion is a recursive function. `SessionFrames` and
`StreamFrames` state what the other two modules rely on: that a reader takes
exactly the bytes of its packet, in the state in which it reads it.

**Startup, NodeLink, Accounts, Deployment.** `phase` is where `Run` stands;
`http` says that the HTTP server is up, which it may be at any time after the
start. A key file is absent, `Broken` or holds a pair. `LoadFatal` is the end
of a process that finds one file without the other; `RemovePair` is somebody
who takes the pair away while the master is down, so that a node may hold the
public key of a pair that has gone. `node` is where the node
stands between the request for the key and the read loop, `conn` its
connection, as the two ends see it, `written` how many of the socket writes of
the shared secret are done: two with no key (length and body of the packet),
four with one (each of them is an RSA block with its length in front). The
master reads on meanwhile: `Refuse` may end the connection between the second
write and the last. What ends the node is in the model where the code has it: a
write of the secret that fails (`SendSecret`), a body that is no key
(`DecodeFatal`), the resolver's panic (`Resolve`) and the tenth failed dial
(`Dial`); the history `struck` says what has come over the node since it asked
for its key, `misses` how many dials have failed since it was last linked.
`rows` is the table of users, a sequence
since it has no key; `call[c]` is where a callback stands. A crash of the
master ends the node's connection and the requests under way in the same step.
`scene` chooses whether a behaviour has a node or users: the two share only the
master's `phase`, which both see in all its orders.

**ConfigStore.** A list is a Go slice: `header` (array, length, capacity) over
`heap`. Nothing is locked, so that a request is as many steps as it has
stores: it reads the header and knows the slice it is to make (`FetchToAdd`,
`FetchToDelete`); a deletion moves the tail down entry by entry (`Move`); then the
new slot and the words of the header are stored one at a time, in any order
(`Store`; `todo` holds what is left), as the compiler may have it: an append that
fits stores the length without the pointer, and maybe before the slot. A save marshals, truncates and writes in three steps. The
signal is sent after it, on a channel of `SignalRoom` places, and
`routeUpdater` reads the words of the header and then slot after slot while
requests go on storing; `pushed` is the table it sent last. The `add-node`
command is one more saver with a copy of its own. A request looks for its
entry, reads the header and marshals in one step each: what several requests do
to each other in between is already anything (see `overlapped` below), and the
updater does not store. The histories `promised` (what was saved when it was
added and not asked to be deleted), `overlapped` and `torn` serve the properties
only; the disk does not fail.

**Configuration.** What an admin may rely on: `lists` and `saved`, the lists in
the memory and in the file; `request` and its `stage` (asked, made, saving). A
request changes one list in one step, the file is emptied and written, then the
answer goes out; a crash takes the lists from the file. `mixed` says that
requests have been under way together, after which only the types are left.
`ConfigStore` maps the contents of its slices to `lists`, while a request stores
the list as it was before its first store (`Settled`), what `Load` would
return to `saved`, the one busy goroutine to `request`, `overlapped` to `mixed`.
A request that waits for room in the channel has done its part.

## 3. The runs

Most hazards of this code come from one cause: nothing is locked where several
goroutines (or processes) write the same thing. A property that simply denied
the damage would be refuted at the first overlap and would say nothing of the
rest. The passing runs therefore explore the overlaps too, and their
properties name the conditions under which the mechanism is sound: histories
record that writers have overlapped or that a save was torn, and each property
holds in every state in which its condition does. What a condition excludes is
listed below; the code establishes none of them.

| Passing run | Properties | Instance | Distinct states |
| --- | --- | --- | --- |
| `RouteSync_reconnect` | `NoLostUpdate`, `PushedNodesAreCurrent` | two nodes, one with two connections; two admins, one change; a restart of the master | 2.8 million |
| `RouteSync_live` | `TypeOK`, `ChangesReachNodes`, `SignalsGetThrough` (liveness) | a node that may stop reading, a connection; two admins, four changes at a channel with one place | 59,000 |
| `BinaryUpdate_faults` | `TypeOK`, `HashDescribesFile`, `TransferIsExact`, `NoDowngrade` (action) | two uploaders, two connections, a request to `/api/node/update`; any three of: uploads, a hash set by hand, the request, a drop, a kill, a restart, a disk fault | 3.4 million |
| `BinaryUpdate_live` | `TransfersEnd`, `NodeBecomesCurrent` (liveness) | two connections and a request, a drop, a kill | 45,000 |
| `PlayerRegistry_faults` | `TypeOK`, `LocalListIsExact`, `EntriesAreExplained`, `PlayingAreListed` | three sessions (two of equal record), two connections, a drop, a restart | 971,000 |
| `PacketStream_stream` | `TypeOK`, `DeliveredAsSent`, `StreamIsChannel` (refinement, with its liveness), `WiredPacketsRoundTrip` of `StreamFrames` | both directions: the opener and a writer left from before the reconnect; the handler and the updater; two packets each | 21,000 |
| `ConfigStore_requests` | `TypeOK`, `LastTableIsWhole`, `QuietFileIsMemory`, `DomainsAreUnique`, `AddedIsSaved`, `StoreIsConfiguration` (refinement) | two admins and the add-node command, two requests on routes and nodes, a channel with one place, a crash | 410,000 |
| `ProxySession_ends` | `TypeOK`, `ServerStreamIsFaithful`, `ClientStreamIsFaithful`, `TheLastWordArrives`, `EntriesHoldTheirSockets`, `SessionsEnd` (liveness); `PacketsRoundTrip` of `SessionFrames` | a status, a login and a transfer client, a malformed first or second packet, an unknown domain; a player twice with equal or different records | 97,000 |
| `Deployment_start` | `TypeOK`, `ServedKeyIsFinal`, `ExitsAreExplained`, `OneRowPerUser`; `SignInsKeepRoles`, `TokensCarryTheRole` (action); `MasterComesUp`, `NodeLinks` (liveness) | no key files or a complete pair; two crashes or removals of the pair; a node with three dials and two failures; two users and callbacks, three sign-ins, one change of a role, one failed statement | 687,000 |

What they show:

- *Route distribution.* `NoLostUpdate`: however Hellos, route requests and the
  updater's rounds interleave, a node with a single entry in the client map has
  been written the newest table or somebody still holds or will read it for
  that node. `PushedNodesAreCurrent` follows the packet to the node.
  `ChangesReachNodes` says that it gets there, `SignalsGetThrough` that the
  bounded channel never blocks a request for good. Both say what a node costs
  the others that stops reading without closing its connection: the updater's
  `Write` has no deadline, so that once that node's socket is full nobody is
  sent anything and, the channel being full too, requests hang. Without the
  exception `[]UpdaterStuck` both are refuted.
- *Binary update.* `TransferIsExact`: a node executes exactly what one
  `SendFile` has read (which is not to say that it read a whole binary).
  `HashDescribesFile`: when no upload is under way the hash is that of the file,
  so that a node that runs it is not sent it at its Hello, unless the hash was
  set by hand or an upload failed, died with the master or ran into another
  (`trusted`); the next upload that is complete and alone restores what those
  have left. `NoDowngrade` holds until an upload begins during another: the
  exec closes the socket and discards the buffer, so nothing older can be
  applied afterwards.
- *Players.* `LocalListIsExact` holds although equal records are removed in any
  order. `EntriesAreExplained`: a ghost at the master is always a session whose
  Add and Remove went out on different connections, on one that lost them, or
  are still under way. `PlayingAreListed`: who plays is listed as often as at the
  node, equal records included as long as connections hold.
- *Stream.* Only packets that overlap damage it (`DeliveredAsSent`), and
  without one `PacketStream` implements `Channel`, its fairness included: what
  was begun is delivered, once and in order.
- *Proxy sessions.* However reads cut the stream and whoever goes first, the
  server is sent a beginning of the handshake rewritten for it, the login and
  the client's data, and the client a beginning of the server's data or a
  single screen; a screen for the server list goes to no client but one that
  asked for its status, except when its first packet could not be read. `TheLastWordArrives`: what the server
  said before it closed, a kick message for instance, is not lost by the order
  in which the two goroutines and the deferred functions end.
  `EntriesHoldTheirSockets`: `FindPlayer` returns a socket of a session that is
  on. `SessionsEnd`: once one end is gone the session ends and leaves no
  goroutine and no socket, or it waits for the other end; it does wait, a player
  who has left stays listed while his server is silent, since only the way down
  ends the handler.
- *Bytes.* What is written is read back, and not a byte more: every VarInt,
  negative ones included, strings, and packets of every id. The first packet's length survives being read from RSA
  blocks because the writer puts it in a block of its own and it has one byte.
- *Start.* `ServedKeyIsFinal`: the HTTP server answers with a key only when both
  files hold it. `MasterComesUp` fails only for a crash between the creation of
  `wired.pub` and the end of the generation (`interrupted`): every later start
  is then fatal. `NodeLinks`: unless it exits, a node that fetched no key, or a
  key that is not the master's any more, is not stuck with it.
  `ExitsAreExplained` says what it exits of: as many failed dials since it was
  last linked as the limit says; a connection lost amid the writes of its
  secret, a body that is no key, or the resolver (each since it last asked for
  the key); or the master's refusal of a stale key between two of these writes.
  What it denies takes several steps: that failures add up over connections
  that held, that a loss or a refusal of an earlier connection counts, and that
  a node without a key is ever ended by the refusal that it is bound to meet.
  The resolver is on that list because the code ends there, not because it
  should, see below.
- *Accounts.* Each user has one row and the role in force is changed by requests
  and `updateRoles` only, though look-up, creation, promotion and token are
  steps of their own; the exceptions are in the table below.
- *Configuration.* `LastTableIsWhole`: the updater reads a list that requests
  are storing to, and may send a table with an entry missing, one twice, or a
  slot without an entry at its end. No such table is the last: the request
  signals after its stores, and the channel has room for the signal or the
  request waits. This and the others hold as long as requests come
  one at a time and no command runs, crashes of the master included, except that a
  crash between truncation and write (`torn`) loses what was saved.
  `StoreIsConfiguration`: until then the slices, which share arrays and are cut
  in place, are two lists: an append never writes into the other's array, a
  deletion removes the entry asked for and no other, and an answer means that
  the file holds what the memory holds. Once requests overlap nothing of this
  is left in the code, nor is it claimed.

| Violation run | Property | What happens |
| --- | --- | --- |
| `RouteSync_overtaken` | `NodesConverge` | the Hello answer carries a table read before a change and arrives after the push of that change; the node keeps the old table |
| `RouteSync_stale_client` | `AllClientsAreSent` | the dead entry of a node, never removed, is the one `GetClients` returns: the live connection is not sent the change |
| `BinaryUpdate_residue` | `UpgradesAreWhole` | the chunks of a transfer that was cut off stay in `binaryData` in front of the next one's; that file is executed |

`findings` in `PROJECT.json` quotes the lines these runs contradict.

One disagreement of a comment with the code needs no run. `dialMaster` panics when
the resolver fails, and `node.go:60` says of it "expected to recover". It runs in
main's goroutine (`node.go:49`) or in that of `handleMasterConnection`
(`node.go:121`), and the only `recover()` of the program is in the goroutines of
the proxy sessions (`node.go:365`): one failure of the resolver ends the node,
with all its sessions, while a failed dial is tried ten times. `Resolve` does
what the code does, and `ExitsAreExplained` names it among the ways to end; no
property promises the recovery.

### What the conditions exclude

Each of these happens in the explored state graphs; the properties step aside
for it, and nothing in the code prevents it.

| Condition | Excluded behaviour |
| --- | --- |
| the only entry of its node (`NoLostUpdate`) | a node that has reconnected without a restart of the master, see `RouteSync_stale_client` |
| last packet not the Hello answer (`PushedNodesAreCurrent`) | see `RouteSync_overtaken` |
| one sender per connection (`TransferIsExact`, `Requested = {}`) | the Hello's transfer and one of `/api/node/update` interleave their chunks under the one label |
| connections hold (`TransferIsExact`) | see `BinaryUpdate_residue` |
| content one `SendFile` read (`TransferIsExact`) | the file is read while an upload truncates or writes it: the node executes part of a binary |
| `trusted` (`HashDescribesFile`) | two uploads that overlap leave the hash of one with the file of the other, or a file that is a mixture of both, and every Hello transfers it again |
| `overlap = "never"` (`NoDowngrade`) | the older of two uploads that overlap is the last to write: the stored file goes back a version, and so does a node that is sent it |
| `drops + restarts = 0` (`PlayingAreListed`, for equal records) | the only PlayerRemove is lost: the player stays listed, nothing purges the list of a node that has gone |
| `overlapped` (`PacketStream`) | the updater's packet falls between the length and the body of the handler's: the node loses the frames for good; a pinger or player of the previous connection writes before the shared secret: the master closes the connection |
| `overlapped` (`ConfigStore`) | two requests find a domain free; of two saves the older is written last; a command and the master overwrite each other's file; an index found in one list cuts another, so that a different route is removed; two appends store to one slot, or words of two headers mix and the list covers slots nothing was stored to |
| `[]UpdaterStuck` (`SignalsGetThrough`, `ChangesReachNodes`) | a node that stops reading blocks the updater, and then all route requests, for good |
| `unread`, `kicked` (`TheLastWordArrives`) | a login sent to a domain without route is never read: closing the socket resets it, and the screen may be lost; `DisconnectPlayer` closes the socket in mid-stream |
| `cutOff` (`TheLastWordArrives`) | the connection to the server breaks, and what it said is lost with it |
| `twins` (`EntriesHoldTheirSockets`) | one player twice in a second: the wrong entry of the two is removed |
| `interrupted` (`MasterComesUp`, `NodeLinks`) | a crash after `wired.pub` was created leaves a file that no start survives |
| `doubled` (`OneRowPerUser`) | two callbacks of a new user, or a look-up that fails for another reason, add a second row |
| `moved` (`TokensCarryTheRole`) | a role changed while its token is made is not in it |
| `torn` (`AddedIsSaved`) | a crash between truncation and write: the file does not parse and the master starts with the empty configuration; the other properties of `ConfigStore` hold of that one |
| a request at work (`LastTableIsWhole`) | a table read amid the stores of a request goes out and stands until the one for its signal |
| `struck` (`ExitsAreExplained`) | one lost connection, a refusal that overtakes the secret, a body that is no key or a failure of the resolver ends the node at once |

A condition that excludes a hazard means that the property does not catch that
hazard: `hazards` in `PROJECT.json` names only properties that would, with a
note where they bound the damage (how long it lasts, or what else may not cause
it) without denying it.

### Bounds

Every bound is a constant or named in a comment: changes of the routes,
uploads, sessions, packets, requests, sign-ins; drops, failed dials, failed
statements, kills, crashes, restarts and disk faults; connections (a remote
address is used once). The channel has one place rather than 8 and a socket one or two so that they are full in small instances. Two
connections of a node, two requests at a time, two chunks and two packets are
what the interleavings need: every hazard is between two actors, or between one
actor and a fault, and each run has the two actors and one of each fault it is
about (`BinaryUpdate_faults` any three of them in a behaviour, `MaxEvents`; once
uploads have overlapped it looks at one connection and no request, the
constraint `Focus`, since a second one adds nothing to what two writers do to
the file). For
every invariant and action property of the table a theorem removes the bounds (section 4): the instance only has to be large
enough to refute what is false. Since
connections, sessions and changes are bounded the system may come to rest, so
deadlock is not checked (`CHECK_DEADLOCK FALSE`); that what must go on does go
on is the subject of the liveness runs. `AdminSymmetry` permutes the admins and `Alike` the uploaders, which no action
tells apart, `Interchangeable` the admins and the two keys that no saved entry
has; they are used for safety only. A node gives up after
three dials instead of ten, with two failures of its own to spend beside the
time a master is down. In `Frames` a byte carries two bits instead of seven
and an integer seven instead of 32, so that VarInts have one to four bytes,
the last not full, as the fifth of the code's is not; a string has up to five
bytes and a UUID two. All values are enumerated.

### Fairness

Goroutines that can run do run: weak fairness of the updater, of each handler,
of the node's reader and of its redialling loop. Sends on a full channel are
served in order of arrival by the Go runtime, and so are writers waiting on a
full socket: strong fairness of `Signal` and `SenderSend`. In `PacketStream`
a packet begun is finished. A node of `Stalling` (in `RouteSync_live`, the
one) need not read. In `ProxySession` the handler and the copying goroutine run
when they can; clients and servers owe nothing, so that a session may wait for
one for ever. A master that is down is started again and its `Run` goes on; a
node's loop goes on. Nothing obliges anybody to make a request, a
player to leave, the network to break or a process to crash. Each instance
allows a bounded number of faults, so that after the last one the connection
holds.

## 4. The proofs

Each `*_proofs` module proves theorems about the module it is named after, for
every value of the constants that the `ASSUME`s of that module admit; TLC
evaluates these on every run. Every invariant and every action property of the
passing runs is proved. The pattern is always the
same: an inductive invariant, a conjunction of named parts that
each say one thing; that the initial states have it and every step keeps it,
one case per action; and what follows from it. Every strengthened invariant was
first checked by TLC on small instances.

| Module | Theorem | States | Assumes beside types of constants |
| --- | --- | --- | --- |
| `RouteSync` | `TypeCorrect`, `NoUpdateIsLost`, `QuietMeansCurrent` | `TypeOK`, `NoLostUpdate`, `PushedNodesAreCurrent` | a connection has one owner and is not a node's name |
| `BinaryUpdate` | `TypeCorrect`, `ExecutesWhatWasRead`, `HashIsOfTheFile`, `NeverSetBack` | `TypeOK`, `TransferIsExact`, `HashDescribesFile`, `NoDowngrade` | calls for a Hello and for a request are distinct |
| `PlayerRegistry` | `TypeCorrect`, `LocalListExact`, `EntriesExplained`, `PlayersAreListed` | `TypeOK`, `LocalListIsExact`, `EntriesAreExplained`, `PlayingAreListed` | |
| `PacketStream` | `TypeCorrect`, `StreamDelivers` | `TypeOK`, `DeliveredAsSent` | the opener writes its packet in two pieces and belongs to this connection |
| | `StreamImplementsChannel` | `Channel`'s initial states and steps under the refinement mapping | the same |
| | `PacketsAreReadBack`, `StreamPacketBack`, `BlocksPacketBack` | `WiredPacketsRoundTrip`; a packet of any data, on the stream and in RSA blocks | the widths of `Frames` |
| `ConfigStore` | `TypeCorrect`, `LastTableWhole`, `QuietFile`, `DomainsUnique`, `AddedSaved` | `TypeOK`, `LastTableIsWhole`, `QuietFileIsMemory`, `DomainsAreUnique`, `AddedIsSaved` | the file at the start has each domain once |
| | `StoreImplementsConfiguration`, `OnlyAskedLeave` | `StoreIsConfiguration`; an entry leaves the configuration only by a request to delete it, or in a restart | the same |
| `ProxySession` | `TypeCorrect`, `ServersAreServed`, `ClientsAreServed`, `LastWordArrives`, `SocketsAreHeld` | `TypeOK`, `ServerStreamIsFaithful`, `ClientStreamIsFaithful`, `TheLastWordArrives`, `EntriesHoldTheirSockets` | a socket has room for a unit |
| | `PacketsAreReadBack`, `HandshakeBack`, `LoginBack` | `PacketsRoundTrip`; a handshake and a login with any bytes in their strings | the widths of `Frames` |
| `Deployment` | `TypeCorrect`, `KeyIsFinal`, `ExitIsExplained`, `UsersAreUnique`, `SigningInKeepsRoles`, `TokenCarriesTheRole` | `TypeOK`, `ServedKeyIsFinal`, `ExitsAreExplained`, `OneRowPerUser`, `SignInsKeepRoles`, `TokensCarryTheRole` | a generated pair differs from an absent or broken file |

`ListFacts` has what several of them need of numbers and sequences: the least
element of a set of naturals; the elements of a list after an append, a tail, a
cut in the middle or a beginning; tables of powers, of sums of digits and of the
digits of a number, that they exist and that digits and sums invert each other.

**RouteSync.** `NoLostUpdate` is not inductive. That a table the updater holds
is not newer than the master's, and that nobody was written a newer one, is
`VersionInv`; that the deferred function never removes an entry -- it looks for
a node id among addresses -- is `KeyInv`; with `TypeOK` they make `SyncInv`,
which is. A change of the routes makes every connection stale but leaves the
admin about to signal (`Announced`); the updater's receipt turns `Announced`
into `UpdaterWillSend`; its marshalling takes the newest table; its copy of the
clients holds every served connection, since it is the only entry of its node;
a registration after that copy leaves `HandlerWillSend`. For the third theorem
`FeedInv` adds the way of a packet: the updater writes to registered
connections only (`TodoInv`), nothing was written before the registration
(`NobodyInv`), a link belongs to its node (`LinkInv`), the updater's table
falls behind only by an announced change (`BehindInv`), the last push is the
newest table or another is coming (`PushInv`), and the last packet written is
the last in flight, or else what the node holds (`FlowInv`).

**BinaryUpdate.** `Safe` adds to the types what a call that sends has in hand
(`SenderInv`) and that the file exists while it is written (`CopyInv`).
`HashInv`: while uploads do not overlap there is one at most, and the hash it is
about to store is that of the file; while nobody writes, a `trusted`
hash is that of the file. An upload that begins during another ends this, one that begins alone
restores it. For `NeverSetBack`, `FreshInv` bounds every chunk that can still reach the node,
in the buffer, on its connection or held by a call that sends to it, by the
version the node runs from below and the latest upload from above
(`ReachInv`); what is in the file is of the latest upload (`FileInv`, until uploads overlap), and a
connection that was never opened is known to nobody (`ConnInv`), so that a new
one starts without chunks of an older transfer. For `ExecutesWhatWasRead`,
while connections hold there is one link (`OneLink`) and what was read once is
spread without a gap over the node's buffer, the connection and what the call
has still to send (`StreamInv`): positions n and m, which the proof names at
each step, say where each part ends.

**PlayerRegistry.** A packet holds a record, and sessions may share one, so that
the state alone does not say whose Add or Remove is in flight. The invariant
says that an assignment `from` of packets to sessions exists that fits:
each session's packets are under way once at most, Add before Remove
(`InOrder`), and the master lists no record more often than there are sessions
with it whose Add was, or may have been, read and whose Remove was not
(`Accounted`), exactly as often while there are no faults, and at least once
where the record is a session's own (`Shown`). A step that writes a packet
names the new assignment; one that reads it takes the head off. The counts are
cardinalities, so that each step adds or removes one element of a finite set.

**PacketStream.** `CipherInv` follows the cipher state over the pieces in
flight: `At(i)` is the reader's state once it has read i of them, and each
piece, on the wire or held by a writer, fits the state it will meet.
`OrderInv` says the same of the order of packets: an index `due` from positions
on the wire to places in `order` exists. Both hold as long as writers have not
overlapped (`ApartInv`); that no packet is delivered twice (`OnceInv`) holds
always, and is what `Channel` promises even for `mixed`. The refinement takes
each action to an action of `Channel` or to a stutter; of the actions of the
reader it needs the invariant.

**ConfigStore.** `Safe` is about all interleavings: it adds to the types what
a request has in hand at each place (`ActorInv`) and that the updater reads an
array of the heap (`ReaderInv`). The rest is about behaviours in which requests
come one at a time: `Sequential` says that then one of the savers is at work
(`AloneInv`), the two lists have arrays of their own (`ApartInv`: an append in
place never writes into the other's array), a list nobody stores to has entries
in all its slots (`WholeInv`), a deletion aims at an entry that is there
(`AimInv`), what was marshalled is the memory (`DataInv`) and the file holds
entries only (`LoadInv`). `HandInv` is about the stores: the request remembers
the list b as it was before the first, and the slice s it makes holds b and, once
stored, the new entry behind it (`Longer`), or b without its entry at some d, of
whose tail the part below `at` has moved (`Shorter`); the words of the header
that are not left to do are those of s. When nothing is left to do the list is
`Append` or `RemoveAt` of b. `overlapped` never becomes false again, so that it
can be a condition.

From this every step is shown to be a step of `Configuration`, or a stutter
(`Promise!AskToAdd` and so on, together with what it does to `promised` and
`torn`). An arrival
is a request asked; the fetch, the moves, the stores but the last, the
marshalling, the signal and the updater do not show; the last store is `Append`
or `RemoveAt` of the one list; the truncation and the write are `Save` and
`Answer`, by `DataInv`; a restart is `Crash`. Every step with `overlapped` is
`Mixed`. `Configuration` has no fairness, so that `StoreImplementsConfiguration`
is all of `Spec => Configuration!Spec`. The other invariants are then proved of
the two lists and the file as `Configuration` sees them: `ListsInv` says that
each list has a domain once, that a domain that is asked for is free, that lists
and file agree outside a request, and that what is promised is in both as long as
no crash has torn a save.

For `LastTableWhole`, `Calm` says that no request has begun to store to the
routes whose signal the updater has not taken. While that is so, what it has
read of the header and the slots is still there (`TableOK`): the first store of
a request ends the calm, and the updater's receipt of its signal, when it has
read nothing yet, may bring it back.

**ProxySession.** `EndsInv` is about one session at a time, and a step is one
session's (`OneSession`). `Shape` ties the places of the handler to the loops,
the sockets and the screen. `UpInv` and `DownInv` each name the number b of
units that the node has read so far: what has arrived unread is what follows b
in the stream of the peer (`Queue`), the buffer of the loop what follows those
already sent, and what was sent is a beginning. While the peer is there,
nothing is lost between the three; once it is reset, only that what it has read
is a beginning still holds (`Live`). The handler stops reading exactly where the
loop starts because b is 2 there, or 1 for a status request. For the last word
`Shown` and `Copied` say in addition that a client that stays has been sent
everything: a read ends the loop only when the server has gone and nothing is
left, and closing a socket without unread data loses nothing. For the players'
list, `Listed` says whose the entries are, and `Seated` that there are at least
as many equal entries as sessions with that record that are on (an injection
`seat` exists, since entries of twins may be swapped): hence `RemovePlayer`
always finds an entry, and takes another session's only if both were listed
with equal records at a time, that is, are `twins`.

**Frames.** The round trips are facts about functions, not about steps; that
they hold in each state follows at once. What makes them hard is recursion: the
library's induction theorems cannot be used here, so that each induction is a
least counterexample instead. It shows first that the functions that are
defined by recursion (powers, digits, partial sums) exist, then that a number is the sum of its
digits and has between one and `MaxLen` of them. From this follows that a VarInt ahead
of any bytes is read as the number it was, a negative one by its complement
modulo `Modulus`; and from that one, field by field, a string, a handshake, a
login, a packet. `ProxySession` and `PacketStream` each include `Frames` on
their own, so that both proof modules have their lemmas on VarInts. The widths of
the code (128, 5, 2^32 and 16) satisfy the assumptions `WidthAssumption` and
`LengthAssumption`: there are numbers of five bytes but the fifth is not full,
and a packet is shorter than the largest integer.

**Deployment.** `KeyInv`: `wired.key` is written last and only with the pair
that `wired.pub` holds, and a pair is generated only if there is no
`wired.pub`, which excludes that one was served. `DialInv`: a node counts
failures only while it dials, and no success comes in between without clearing
the count, so that they are at most the `misses`; while it writes its secret the
connection is open or the loss or refusal that ended it is in `struck`; and with
no key it has written less than the master must read to refuse it, which is
why a refusal can end only a node that has a key.
`RowInv`: a callback about to insert a row is the only one for its
user, and there is no row yet, outside `doubled`. `RoleInv`: a callback that is
not in `moved` carries the role in force.

### Only model-checked

- Liveness: `ChangesReachNodes`, `SignalsGetThrough`, `TransfersEnd`,
  `NodeBecomesCurrent`, `SessionsEnd`, `MasterComesUp`, `NodeLinks`, and the
  fairness part of `StreamIsChannel` (that what was begun is delivered): the
  prover has no rule for fairness and `ENABLED` here.

## 5. What is not modelled

- The gob encoding of payloads: the library's. Its result is a payload of bytes
  to `Frames` and a value to the others.
- Time. The 5, 10 and 500 seconds or milliseconds are "later"; tokens do not
  expire, and a ping that is not answered has no consequence in the code.
- The request to disconnect a player: `disconnect_node.go:34` looks the node's
  id up in a map that `AddClient` keys by address, so that the answer is "Node
  not found" whatever the state. The node's case for the packet is in
  `ProxySession`, as something that may happen at any time.
- The scalar setters of the configuration, which save as the modelled ones do,
  and the node's `setup` command beside a running node, a race of the kind
  `ConfigStore` has for the master.
- Discord's part of a sign-in, the list of users (a read) and the handler of the
  demo mode.
- Logging, the index page, the terminal's colours.

`PROJECT.json` lists each part with its status, and under `hazards` what no
property covers, with the reason.

## 6. Plan

The invariants, the action properties and the steps of the two refinements are
proved. What is left is an abstract specification of the route distribution: a
register per node that follows the master's, implemented by `RouteSync` while
each node has one connection and no answer is overtaken. Its steps can be
proved from the invariants of section 4, as for `Channel` and `Configuration`.
