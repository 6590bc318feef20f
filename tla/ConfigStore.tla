----------------------------- MODULE ConfigStore -----------------------------
(***************************************************************************)
(* config.go in the master: the global config, the HTTP handlers that      *)
(* change its two lists (routes and nodes) from goroutines of their own,   *)
(* config.json, and the add-node command, a second process that loads and  *)
(* saves the same file.  Nothing is locked.                                *)
(*                                                                         *)
(* A list is a Go slice: a header of three words (array, length, capacity) *)
(* over a backing array.  append and the in-place deletion read the header *)
(* and later store: a slot, the words of the header, each on its own, and  *)
(* in any order where the compiler may choose it (it stores the length of  *)
(* an append that fits before the slot).  A save marshals what it finds,   *)
(* then truncates the file, then writes; a change of a route is signalled  *)
(* after that.  routeUpdater, a goroutine of its own, takes the signals    *)
(* and reads the list word by word and slot by slot into the table that it *)
(* sends.  A restart loads what the file holds.                            *)
(*                                                                         *)
(* Abstractions.  An entry is [id, key]: the random route id (taken to be  *)
(* unique) and the proxy_domain, or a number and the node id.  All entries *)
(* have the same length in the file.  A slot is stored at once.  A request *)
(* looks for its entry, reads the header and marshals the configuration in *)
(* one step each: it is the only one to store unless requests overlap, and *)
(* then no property speaks of the lists.  What lies behind an array (only  *)
(* a header of mixed words reaches it) reads as None, no entry, and keeps  *)
(* nothing.  The disk does not fail, and a restart is a crash of the       *)
(* process, not of the machine.  The other fields of the file never change *)
(* here.                                                                   *)
(***************************************************************************)
EXTENDS Naturals, Sequences, SequencesExt

CONSTANTS
  Admins,         \* goroutines that serve requests of the admin API
  Cli,            \* the process "master add-node"
  Kinds,          \* lists the requests change: "routes", "nodes" or both
  Keys,           \* proxy domains, or node ids
  None,
  Saved,          \* the configuration in the file at the start
  SignalRoom,     \* capacity of SignalChannel (8)
  MaxRequests,    \* bound: requests and commands
  MaxRestarts     \* bound: crashes of the master

Lists == {"routes", "nodes"}
Zero == [routes |-> << >>, nodes |-> << >>]
Ids == 1 .. MaxRequests + Len(Saved.routes) + Len(Saved.nodes)
Entries == [id : Ids, key : Keys]
Slots == Entries \cup {None}
Configs == [Lists -> Seq(Slots)]

ASSUME ActorsAssumption == Cli \notin Admins /\ Kinds \subseteq Lists
ASSUME NoneAssumption == None \notin Entries /\ None \notin Configs
ASSUME SavedAssumption ==       \* as the requests would have left the file
  /\ Saved \in [Lists -> Seq(Entries)]
  /\ \A i, j \in DOMAIN Saved.routes : Saved.routes[i].key = Saved.routes[j].key => i = j
ASSUME BoundsAssumption == 
  /\ SignalRoom \in Nat /\ MaxRequests \in Nat \ {0} /\ MaxRestarts \in Nat

VARIABLES
  heap,           \* heap[a]: a backing array
  header,         \* header[k]: [arr, len, cap], the slice of list k
  actor,          \* actor[p]: what p is at, see Free
  file,           \* config.json: [size, config], None when it does not parse
  signals,        \* SignalChannel: the number of signals in it
  reader,         \* routeUpdater: the slice and the slots it has read so far
  pushed,         \* the table routeUpdater sent last, None before the first
  requests,       \* number of requests and commands so far
  restarts,       \* number of crashes so far
  promised,       \* history: entries saved by who added them, not asked to be deleted
  overlapped,     \* history: two requests at a time, or a command beside the master
  torn            \* history: a crash has come between truncation and write

memory == << heap, header >>
updater == << signals, reader, pushed >>
bounds == << requests, restarts >>
histories == << promised, overlapped, torn >>
vars == << memory, actor, file, updater, bounds, histories >>

Savers == Admins \cup {Cli}
Words == {"arr", "len", "cap"}
(* The request in hand, the slice it makes, which stores are left to do,   *)
(* the list before the first of them, and what it has marshalled.          *)
Free == [pc |-> "free", op |-> None, kind |-> None, entry |-> None, at |-> None,
         slice |-> None, todo |-> {}, before |-> None, data |-> None]
AtWork(p) == actor[p].pc \notin {"free", "saved"}
Resting == [pc |-> "rests", todo |-> {"arr", "len"}, arr |-> 0, len |-> 0, read |-> << >>]

Slot(a, i) == IF i \in DOMAIN heap[a] THEN heap[a][i] ELSE None
Contents(k) == [i \in 1 .. header[k].len |-> Slot(header[k].arr, i)]
Memory == [k \in Lists |-> Contents(k)]
Size(c) == Len(c.routes) + Len(c.nodes)
NextId == requests + 1 + Len(Saved.routes) + Len(Saved.nodes)

(* readConfigFile: an empty or damaged file gives the zero configuration.  *)
Load == IF file.config = None THEN Zero ELSE file.config

(* json.Unmarshal makes slices of its own; here with no room to spare.     *)
HeapOf(c) == << c.routes, c.nodes >>
HeadersOf(c) == [k \in Lists |->
  [arr |-> IF k = "routes" THEN 1 ELSE 2, len |-> Len(c[k]), cap |-> Len(c[k])]]

Init ==
  /\ file = [size |-> Size(Saved), config |-> Saved]
  /\ heap = HeapOf(Saved)
  /\ header = HeadersOf(Saved)
  /\ actor = [p \in Savers |-> Free]
  /\ signals = 0 /\ reader = Resting /\ pushed = None
  /\ requests = 0
  /\ restarts = 0
  /\ promised = ToSet(Saved.routes) \cup ToSet(Saved.nodes)
  /\ overlapped = FALSE
  /\ torn = FALSE

-----------------------------------------------------------------------------
(* Requests.  AddRoute looks for the proxy_domain first; AddNode does not. *)

Arrive(p, k, op, entry, at) ==
  /\ p \in Admins
  /\ k \in Kinds
  /\ actor[p].pc = "free"
  /\ requests < MaxRequests
  /\ requests' = requests + 1
  /\ overlapped' = (overlapped \/ \E q \in Savers : AtWork(q))
  /\ actor' = [actor EXCEPT ![p] = [Free EXCEPT !.pc = "begun", !.op = op, !.kind = k,
                                                !.entry = entry, !.at = at]]

Shows(k, i) == i \in DOMAIN Contents(k) /\ Contents(k)[i] # None
Taken(k, key) == \E i \in DOMAIN Contents(k) : Shows(k, i) /\ Contents(k)[i].key = key

AddUnchecked(p, k, key) ==      \* mutant: the proxy_domain is not looked for
  /\ Arrive(p, k, "add", [id |-> NextId, key |-> key], None)
  /\ UNCHANGED << memory, file, updater, restarts, promised, torn >>

Add(p, k, key) ==
  /\ k = "routes" => ~ Taken(k, key)
  /\ Arrive(p, k, "add", [id |-> NextId, key |-> key], None)
  /\ UNCHANGED << memory, file, updater, restarts, promised, torn >>

(* DeleteRoute and DeleteNode find the entry (or answer 404 and change     *)
(* nothing); from here on nobody promises that it stays.                   *)
Delete(p, k) ==
  \E i \in 1 .. header[k].len :
    LET e == Contents(k)[i] IN
      /\ Shows(k, i)
      /\ k = "nodes" => \A j \in 1 .. i - 1 : Shows(k, j) => Contents(k)[j].key # e.key
      /\ Arrive(p, k, "delete", e, i)
      /\ promised' = promised \ {e}
      /\ UNCHANGED << memory, file, updater, restarts, torn >>

-----------------------------------------------------------------------------
(* append and the in-place deletion, store by store. *)

Fetched(p, slice, todo) ==
  actor' = [actor EXCEPT ![p].pc = "fetched", ![p].slice = slice, ![p].todo = todo,
                         ![p].before = Contents(actor[p].kind)]

(* append: what fits goes behind the list, else into a copy of twice its   *)
(* size.                                                                   *)
FetchToAdd(p) ==
  LET k == actor[p].kind
      h == header[k]
      size == IF h.len = 0 THEN 1 ELSE 2 * h.len
      room == [i \in 1 .. size |-> IF i <= h.len THEN Contents(k)[i] ELSE None]
  IN  /\ actor[p].pc = "begun"
      /\ actor[p].op = "add"
      /\ IF h.len < h.cap
         THEN Fetched(p, [h EXCEPT !.len = @ + 1], {"len", "slot"}) /\ UNCHANGED heap
         ELSE /\ heap' = Append(heap, room)
              /\ Fetched(p, [arr |-> Len(heap) + 1, len |-> h.len + 1, cap |-> size],
                         Words \cup {"slot"})
      /\ UNCHANGED << header, file, updater, bounds, histories >>

(* append(s[:i], s[i+1:]...): the same array, one entry less.  The index   *)
(* was found in the list as it was when the request came.                  *)
FetchToDelete(p) ==
  LET h == header[actor[p].kind] IN
    /\ actor[p].pc = "begun"
    /\ actor[p].op = "delete"
    /\ actor[p].at <= h.len
    /\ Fetched(p, [h EXCEPT !.len = @ - 1], Words)
    /\ UNCHANGED << memory, file, updater, bounds, histories >>

(* The list has become shorter: the slice expression panics, and net/http  *)
(* recovers the goroutine.                                                 *)
DeletePanics(p) ==
  /\ actor[p].pc = "begun"
  /\ actor[p].op = "delete"
  /\ actor[p].at > header[actor[p].kind].len
  /\ actor' = [actor EXCEPT ![p] = Free]
  /\ UNCHANGED << memory, file, updater, bounds, histories >>

SetSlot(a, i, e) == heap' = [heap EXCEPT ![a] = [j \in DOMAIN @ |-> IF j = i THEN e ELSE @[j]]]

(* The tail moves down in its array, an entry at a time, the first first.  *)
MovedShort(p) ==                \* mutant: the last entry is not moved
  actor[p].op = "delete" => actor[p].at >= actor[p].slice.len

Moved(p) == actor[p].op = "delete" => actor[p].at > actor[p].slice.len

Move(p) ==
  LET a == actor[p].slice.arr
      i == actor[p].at
  IN  /\ actor[p].pc = "fetched"
      /\ ~ Moved(p)
      /\ SetSlot(a, i, Slot(a, i + 1))
      /\ actor' = [actor EXCEPT ![p].at = i + 1]
      /\ UNCHANGED << header, file, updater, bounds, histories >>

(* One store: the new slot, or a word of the header.                       *)
Store(p) ==
  \E word \in actor[p].todo :
    LET s == actor[p].slice IN
      /\ actor[p].pc = "fetched"
      /\ Moved(p)
      /\ IF word = "slot"
         THEN SetSlot(s.arr, s.len, actor[p].entry) /\ UNCHANGED header
         ELSE header' = [header EXCEPT ![actor[p].kind][word] = s[word]] /\ UNCHANGED heap
      /\ actor' = [actor EXCEPT ![p].todo = @ \ {word},
                                ![p].pc = IF actor[p].todo = {word} THEN "stored" ELSE @]
      /\ UNCHANGED << file, updater, bounds, histories >>

-----------------------------------------------------------------------------
(* saveConfigFile. *)

Marshal(p) ==
  /\ actor[p].pc = "stored"
  /\ actor' = [actor EXCEPT ![p].pc = "marshalled", ![p].data = Memory]
  /\ UNCHANGED << memory, file, updater, bounds, histories >>

Truncate(p) ==
  /\ actor[p].pc = "marshalled"
  /\ file' = [size |-> 0, config |-> None]
  /\ actor' = [actor EXCEPT ![p].pc = "truncated"]
  /\ UNCHANGED << memory, updater, bounds, histories >>

(* A write from the start of the file; what is longer than it shows below. *)
Written(d) ==
  IF Size(d) >= file.size
  THEN [size |-> Size(d), config |-> d]
  ELSE [size |-> file.size, config |-> None]

(* What is left to do is to signal the change, if it is one of a route.    *)
Answer(p) ==
  /\ actor' = [actor EXCEPT ![p] =
                 IF actor[p].kind = "routes" THEN [Free EXCEPT !.pc = "saved"] ELSE Free]
  /\ promised' = IF actor[p].op = "add" THEN promised \cup {actor[p].entry} ELSE promised

PutNothing(p) ==                \* mutant: the error of the write is only logged
  /\ actor[p].pc = "truncated"
  /\ Answer(p)
  /\ UNCHANGED << memory, file, updater, bounds, overlapped, torn >>

PutUnsignalled(p) ==            \* mutant: the removal of a route is not signalled
  /\ actor[p].pc = "truncated"
  /\ file' = Written(actor[p].data)
  /\ IF actor[p].op = "delete"
     THEN actor' = [actor EXCEPT ![p] = Free] /\ UNCHANGED promised
     ELSE Answer(p)
  /\ UNCHANGED << memory, updater, bounds, overlapped, torn >>

Put(p) ==
  /\ actor[p].pc = "truncated"
  /\ file' = Written(actor[p].data)
  /\ Answer(p)
  /\ UNCHANGED << memory, updater, bounds, overlapped, torn >>

-----------------------------------------------------------------------------
(* The signal, and routeUpdater: the words of the header in any order, the *)
(* slots one after the other, while requests go on storing.                *)

SignalAnyway(p) ==              \* mutant: the send does not wait for room
  /\ actor[p].pc = "saved"
  /\ signals' = signals + 1
  /\ actor' = [actor EXCEPT ![p] = Free]
  /\ UNCHANGED << memory, file, reader, pushed, bounds, histories >>

Signal(p) ==
  /\ actor[p].pc = "saved"
  /\ signals < SignalRoom
  /\ signals' = signals + 1
  /\ actor' = [actor EXCEPT ![p] = Free]
  /\ UNCHANGED << memory, file, reader, pushed, bounds, histories >>

UpdaterTake ==
  /\ reader.pc = "rests"
  /\ signals > 0
  /\ signals' = signals - 1
  /\ reader' = [Resting EXCEPT !.pc = "reads"]
  /\ UNCHANGED << memory, actor, file, pushed, bounds, histories >>

UpdaterLoad ==
  \E word \in reader.todo :
    /\ reader.pc = "reads"
    /\ reader' = [reader EXCEPT !.todo = @ \ {word}, ![word] = header["routes"][word]]
    /\ UNCHANGED << memory, actor, file, signals, pushed, bounds, histories >>

UpdaterRead ==
  /\ reader.pc = "reads" /\ reader.todo = {}
  /\ Len(reader.read) < reader.len
  /\ reader' = [reader EXCEPT !.read = Append(@, Slot(reader.arr, Len(@) + 1))]
  /\ UNCHANGED << memory, actor, file, signals, pushed, bounds, histories >>

UpdaterPush ==
  /\ reader.pc = "reads" /\ reader.todo = {}
  /\ Len(reader.read) = reader.len
  /\ pushed' = reader.read
  /\ reader' = Resting
  /\ UNCHANGED << memory, actor, file, signals, bounds, histories >>

-----------------------------------------------------------------------------
(* The other process, and the crash of this one. *)

(* config.Init, then AddNode on the copy that was loaded, up to the save.  *)
CliAddNode(key) ==
  /\ "nodes" \in Kinds
  /\ actor[Cli].pc = "free"
  /\ requests < MaxRequests
  /\ requests' = requests + 1
  /\ LET e == [id |-> NextId, key |-> key] IN
       actor' = [actor EXCEPT ![Cli] =
         [Free EXCEPT !.pc = "marshalled", !.op = "add", !.kind = "nodes", !.entry = e,
                      !.data = [Load EXCEPT !.nodes = Append(@, e)]]]
  /\ overlapped' = TRUE
  /\ UNCHANGED << memory, file, updater, restarts, promised, torn >>

Restart ==
  /\ restarts < MaxRestarts
  /\ restarts' = restarts + 1
  /\ heap' = HeapOf(Load)
  /\ header' = HeadersOf(Load)
  /\ actor' = [p \in Savers |-> IF p = Cli THEN actor[p] ELSE Free]
  /\ signals' = 0 /\ reader' = Resting /\ pushed' = None
  /\ torn' = (torn \/ file.config = None)
  /\ UNCHANGED << file, requests, promised, overlapped >>

-----------------------------------------------------------------------------
Request(p) ==
  \/ \E k \in Kinds, key \in Keys : Add(p, k, key)
  \/ \E k \in Kinds : Delete(p, k)
Change(p) ==
  FetchToAdd(p) \/ FetchToDelete(p) \/ DeletePanics(p) \/ Move(p) \/ Store(p) \/ Marshal(p)
Save(p) == Truncate(p) \/ Put(p)
Updater == UpdaterTake \/ UpdaterLoad \/ UpdaterRead \/ UpdaterPush

Next ==
  \/ \E p \in Admins : Request(p) \/ Change(p) \/ Signal(p)
  \/ \E p \in Savers : Save(p)
  \/ Updater
  \/ \E key \in Keys : CliAddNode(key)
  \/ Restart

Spec == Init /\ [][Next]_vars

-----------------------------------------------------------------------------
(* Properties. *)

Slices == [arr : Nat \ {0}, len : Nat, cap : Nat]

(* Every variable keeps its type, every list has an array of the heap, and *)
(* the signals have room in their channel.                                 *)
TypeOK ==
  /\ heap \in Seq(Seq(Slots))
  /\ header \in [Lists -> Slices] /\ \A k \in Lists : header[k].arr <= Len(heap)
  /\ actor \in [Savers ->
       [pc : {"free", "begun", "fetched", "stored", "marshalled", "truncated", "saved"},
        op : {"add", "delete", None}, kind : Lists \cup {None}, entry : Slots,
        at : Nat \cup {None}, slice : Slices \cup {None}, todo : SUBSET (Words \cup {"slot"}),
        before : Seq(Slots) \cup {None}, data : Configs \cup {None}]]
  /\ file \in [size : Nat, config : Configs \cup {None}]
  /\ signals \in 0 .. SignalRoom
  /\ reader \in [pc : {"rests", "reads"}, todo : SUBSET {"arr", "len"}, arr : Nat, len : Nat,
                 read : Seq(Slots)]
  /\ pushed \in Seq(Slots) \cup {None}
  /\ requests \in 0 .. MaxRequests
  /\ restarts \in 0 .. MaxRestarts
  /\ promised \subseteq Entries
  /\ {overlapped, torn} \subseteq BOOLEAN

Quiet == \A p \in Savers : ~ AtWork(p)

(* routeUpdater reads while requests store: a table it sends may miss an   *)
(* entry, hold one twice or end in a slot without an entry.  As long as    *)
(* requests come one at a time no such table is the last: when they and    *)
(* their signals are done with and it waits for the next signal, what it   *)
(* sent last is the list (add_route.go:48, remove_route.go:27).            *)
LastTableIsWhole ==
  /\ ~ overlapped
  /\ \A p \in Savers : actor[p].pc = "free"
  /\ signals = 0 /\ reader = Resting /\ pushed # None
  => pushed = Contents("routes")

(* As long as requests come one at a time and no command runs, a restart   *)
(* between two requests would change nothing: the file gives what the      *)
(* master has in memory, after crashes too.                                *)
QuietFileIsMemory == Quiet /\ ~ overlapped => Load = Memory

(* As long as requests come one at a time a proxy_domain in use is not     *)
(* given out again (add_route.go:32), also after crashes.  (Amid the       *)
(* stores of a deletion an entry may be there twice.)                      *)
DomainsAreUnique ==
  ~ overlapped /\ (\A p \in Savers : actor[p].pc # "fetched") =>
    \A i, j \in DOMAIN Contents("routes") :
      Contents("routes")[i].key = Contents("routes")[j].key => i = j

(* What was saved when it was added (add_route.go:45) and nobody has asked *)
(* to be deleted is in the file between requests.  It is lost only where   *)
(* requests overlap, or where a crash hits a save, of whatever entry,      *)
(* between its truncation and its write.                                   *)
AddedIsSaved ==
  Quiet /\ ~ overlapped /\ ~ torn =>
    promised \subseteq ToSet(Load.routes) \cup ToSet(Load.nodes)

(* The store is a Configuration: however a request is spread over slots,    *)
(* words, arrays and writes of the file (add_route.go, remove_route.go and  *)
(* the like, saveConfigFile), while requests come one at a time it changes  *)
(* its list at once, with its last store, and only that one, and the save   *)
(* it makes holds all lists.                                                *)
InForce ==
  IF overlapped \/ Quiet THEN Free ELSE actor[CHOOSE p \in Savers : AtWork(p)]
StageOf(pc) ==
  CASE pc = "free" -> "idle"
    [] pc \in {"begun", "fetched"} -> "asked"
    [] pc \in {"stored", "marshalled"} -> "made"
    [] pc = "truncated" -> "saving"
AskedBy(a) ==
  IF a.pc = "free" THEN None ELSE [op |-> a.op, kind |-> a.kind, entry |-> a.entry]
Settled(a) ==
  [k \in Lists |-> IF a.pc = "fetched" /\ a.kind = k THEN a.before ELSE Contents(k)]
Promise == INSTANCE Configuration WITH
  lists <- Settled(InForce), saved <- Load, stage <- StageOf(InForce.pc),
  request <- AskedBy(InForce), mixed <- overlapped
StoreIsConfiguration == Promise!Spec
=============================================================================
