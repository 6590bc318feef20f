------------------------- MODULE ConfigStore_proofs -------------------------
(***************************************************************************)
(* Proofs about ConfigStore: type correctness, however the requests        *)
(* overlap; and, for requests that come one at a time, that the store is a *)
(* Configuration whatever the order of its stores, what this means for the *)
(* file and for the lists, through crashes too, and that the last table of *)
(* routeUpdater is the list.                                               *)
(***************************************************************************)
EXTENDS ConfigStore, ListFacts

-----------------------------------------------------------------------------
(* What holds however the requests overlap. *)

(* What a request knows at each of its steps.                              *)
Working(p) == actor[p].pc \in {"begun", "fetched"}
ActorOK(p) ==
  /\ AtWork(p) => /\ actor[p].op \in {"add", "delete"} /\ actor[p].kind \in Lists
                  /\ actor[p].entry \in Entries
  /\ Working(p) => p \in Admins /\ (actor[p].op = "delete" => actor[p].at \in Nat \ {0})
  /\ actor[p].pc = "fetched" =>
       /\ actor[p].slice \in Slices /\ actor[p].slice.arr \in 1 .. Len(heap)
       /\ actor[p].before \in Seq(Slots)
  /\ actor[p].pc \in {"marshalled", "truncated"} => actor[p].data \in Configs
ActorInv == \A p \in Savers : ActorOK(p)

(* The array that routeUpdater reads is one of the heap.                   *)
ReaderInv ==
  reader.pc = "reads" /\ "arr" \notin reader.todo => reader.arr \in 1 .. Len(heap)

Safe == TypeOK /\ ActorInv /\ ReaderInv

-----------------------------------------------------------------------------
(* Lists, slices and arrays. *)

(* What a list shows is what its slots hold.                               *)
LEMMA ContentsAre ==
  ASSUME TypeOK, NEW k \in Lists
  PROVE  /\ header[k] \in Slices /\ header[k].arr \in 1 .. Len(heap)
         /\ Len(heap) \in Nat /\ header[k].len \in Nat
         /\ Contents(k) \in Seq(Slots) /\ Len(Contents(k)) = header[k].len
         /\ DOMAIN Contents(k) = 1 .. header[k].len
         /\ \A i \in 1 .. header[k].len : Contents(k)[i] = Slot(header[k].arr, i)
         /\ \A a \in 1 .. Len(heap) : \A i : Slot(a, i) \in Slots
<1>1. heap \in Seq(Seq(Slots)) /\ header[k] \in Slices /\ header[k].arr <= Len(heap)
  BY DEF TypeOK
<1>2. Len(heap) \in Nat
  BY <1>1, ListDomain
<1>3. header[k].arr \in 1 .. Len(heap) /\ header[k].len \in Nat
  BY <1>1, <1>2 DEF Slices
<1>4. ASSUME NEW a \in 1 .. Len(heap), NEW i
      PROVE  Slot(a, i) \in Slots
  <2>1. PICK array \in Seq(Slots) : array = heap[a]
    BY <1>1, ListDomain
  <2>2. i \in DOMAIN array => array[i] \in Slots
    BY <2>1, ListDomain
  <2>3. None \in Slots
    BY DEF Slots
  <2> QED BY <2>1, <2>2, <2>3 DEF Slot
<1>5. PICK n \in Nat, a \in 1 .. Len(heap) : n = header[k].len /\ a = header[k].arr
  BY <1>3
<1>6. PICK list : list = [i \in 1 .. n |-> Slot(a, i)]
  OBVIOUS
<1>7. /\ list \in Seq(Slots) /\ Len(list) = n /\ DOMAIN list = 1 .. n
      /\ \A i \in 1 .. n : list[i] = Slot(a, i)
  BY <1>4, <1>6
<1>8. Contents(k) = list
  BY <1>5, <1>6 DEF Contents
<1> QED BY <1>1, <1>2, <1>3, <1>4, <1>5, <1>7, <1>8

(* The heap does not become smaller.                                       *)
HeapGrows ==
  /\ heap' \in Seq(Seq(Slots)) /\ Len(heap) \in Nat /\ Len(heap') \in Nat
  /\ Len(heap) <= Len(heap')

LEMMA SameHeap ==
  ASSUME TypeOK, heap' = heap
  PROVE  HeapGrows /\ \A a, i : Slot(a, i)' = Slot(a, i)
<1>1. heap \in Seq(Seq(Slots)) /\ Len(heap) \in Nat
  BY ListDomain DEF TypeOK
<1> QED BY <1>1 DEF HeapGrows, Slot

(* One slot is set, if it is there; all others keep what they hold.        *)
LEMMA SlotSet ==
  ASSUME TypeOK, NEW a \in 1 .. Len(heap), NEW n, NEW e \in Slots, SetSlot(a, n, e)
  PROVE  /\ HeapGrows /\ Len(heap') = Len(heap)
         /\ \A b \in 1 .. Len(heap) : DOMAIN heap'[b] = DOMAIN heap[b] /\ Len(heap'[b]) = Len(heap[b])
         /\ \A b \in 1 .. Len(heap) : \A i :
              Slot(b, i)' = IF b = a /\ i = n /\ n \in DOMAIN heap[a] THEN e ELSE Slot(b, i)
<1>1. heap \in Seq(Seq(Slots)) /\ Len(heap) \in Nat
  BY ListDomain DEF TypeOK
<1>2. PICK old \in Seq(Slots) : old = heap[a]
  BY <1>1, ListDomain
<1>3. PICK new : new = [j \in DOMAIN old |-> IF j = n THEN e ELSE old[j]]
  OBVIOUS
<1>4. /\ new \in Seq(Slots) /\ DOMAIN new = DOMAIN old /\ Len(new) = Len(old)
      /\ \A j \in DOMAIN old : new[j] = IF j = n THEN e ELSE old[j]
  <2>1. DOMAIN old = 1 .. Len(old) /\ Len(old) \in Nat /\ \A j \in 1 .. Len(old) : old[j] \in Slots
    BY ListDomain
  <2> QED BY <1>3, <2>1
<1>5. heap' = [heap EXCEPT ![a] = new]
  BY <1>2, <1>3 DEF SetSlot
<1>6. /\ heap' \in Seq(Seq(Slots)) /\ Len(heap') = Len(heap)
      /\ \A b \in 1 .. Len(heap) : heap'[b] = IF b = a THEN new ELSE heap[b]
  BY <1>1, <1>4, <1>5, ExceptSeq
<1>7. ASSUME NEW b \in 1 .. Len(heap)
      PROVE  DOMAIN heap'[b] = DOMAIN heap[b] /\ Len(heap'[b]) = Len(heap[b])
  BY <1>2, <1>4, <1>6
<1>8. ASSUME NEW b \in 1 .. Len(heap), NEW i
      PROVE  Slot(b, i)' = IF b = a /\ i = n /\ n \in DOMAIN heap[a] THEN e ELSE Slot(b, i)
  BY <1>2, <1>4, <1>6 DEF Slot
<1> QED BY <1>1, <1>6, <1>7, <1>8 DEF HeapGrows

(* A new array comes behind the others.                                    *)
LEMMA ArrayAdded ==
  ASSUME TypeOK, NEW n, n = Len(heap), NEW room \in Seq(Slots), heap' = Append(heap, room)
  PROVE  /\ HeapGrows /\ n \in Nat /\ Len(heap') = n + 1 /\ heap'[n + 1] = room
         /\ \A a \in 1 .. n : heap'[a] = heap[a]
         /\ \A a \in 1 .. n : \A i : Slot(a, i)' = Slot(a, i)
         /\ \A i \in DOMAIN room : Slot(n + 1, i)' = room[i]
<1>1. heap \in Seq(Seq(Slots)) /\ n \in Nat
  BY ListDomain DEF TypeOK
<1>2. /\ heap' \in Seq(Seq(Slots)) /\ Len(heap') = n + 1 /\ heap'[n + 1] = room
      /\ \A a \in 1 .. n : heap'[a] = heap[a]
  BY <1>1, AppendedList
<1>3. HeapGrows
  BY <1>1, <1>2 DEF HeapGrows
<1>4. \A a \in 1 .. n : \A i : Slot(a, i)' = Slot(a, i)
  BY <1>2 DEF Slot
<1>5. \A i \in DOMAIN room : Slot(n + 1, i)' = room[i]
  BY <1>2 DEF Slot
<1> QED BY <1>1, <1>2, <1>3, <1>4, <1>5

-----------------------------------------------------------------------------
(* What a step does to the actor that takes it. *)

Pcs == {"free", "begun", "fetched", "stored", "marshalled", "truncated", "saved"}
ActorSet == [pc : Pcs, op : {"add", "delete", None}, kind : Lists \cup {None},
             entry : Slots, at : Nat \cup {None}, slice : Slices \cup {None},
             todo : SUBSET (Words \cup {"slot"}), before : Seq(Slots) \cup {None},
             data : Configs \cup {None}]
OthersStay(p) ==
  /\ actor' \in [Savers -> ActorSet]
  /\ \A q \in Savers \ {p} : actor'[q] = actor[q]
SameJob(p) ==
  actor'[p].op = actor[p].op /\ actor'[p].kind = actor[p].kind /\ actor'[p].entry = actor[p].entry
SameSlice(p) == actor'[p].slice = actor[p].slice /\ actor'[p].before = actor[p].before

LEMMA ActorBecomes ==
  ASSUME actor \in [Savers -> ActorSet], NEW p \in Savers, NEW a \in ActorSet,
         actor' = [actor EXCEPT ![p] = a]
  PROVE  OthersStay(p) /\ actor'[p] = a
BY DEF OthersStay

LEMMA FreeActor == Free \in ActorSet /\ [Free EXCEPT !.pc = "saved"] \in ActorSet
BY DEF Free, ActorSet, Slots, Pcs

LEMMA ActorFetches ==
  ASSUME actor \in [Savers -> ActorSet], NEW p \in Savers, NEW slice \in Slices,
         NEW todo \in SUBSET (Words \cup {"slot"}), Contents(actor[p].kind) \in Seq(Slots),
         Fetched(p, slice, todo)
  PROVE  /\ OthersStay(p) /\ SameJob(p) /\ actor'[p].pc = "fetched"
         /\ actor'[p].slice = slice /\ actor'[p].todo = todo /\ actor'[p].at = actor[p].at
         /\ actor'[p].before = Contents(actor[p].kind)
<1>1. PICK list \in Seq(Slots) : list = Contents(actor[p].kind)
  OBVIOUS
<1>2. PICK a : a = [actor[p] EXCEPT !.pc = "fetched", !.slice = slice, !.todo = todo,
                                    !.before = list]
  OBVIOUS
<1>3. actor' = [actor EXCEPT ![p] = a]
  BY <1>1, <1>2 DEF Fetched
<1>4. /\ a \in ActorSet /\ a.pc = "fetched" /\ a.op = actor[p].op /\ a.kind = actor[p].kind
      /\ a.entry = actor[p].entry /\ a.at = actor[p].at /\ a.slice = slice /\ a.todo = todo
      /\ a.before = list
  <2>1. PICK old : old = actor[p]
    OBVIOUS
  <2>2. old \in ActorSet /\ a = [old EXCEPT !.pc = "fetched", !.slice = slice, !.todo = todo,
                                            !.before = list]
    BY <1>2, <2>1
  <2>3. a \in ActorSet
    BY <2>2 DEF ActorSet, Pcs
  <2>4. /\ a.pc = "fetched" /\ a.op = old.op /\ a.kind = old.kind /\ a.entry = old.entry
        /\ a.at = old.at /\ a.slice = slice /\ a.todo = todo /\ a.before = list
    BY <2>2 DEF ActorSet
  <2> QED BY <2>1, <2>3, <2>4
<1>5. OthersStay(p) /\ actor'[p] = a
  BY <1>3, <1>4, ActorBecomes
<1> QED BY <1>1, <1>4, <1>5 DEF SameJob

LEMMA ActorMoves ==
  ASSUME actor \in [Savers -> ActorSet], NEW p \in Savers, NEW i \in Nat,
         actor' = [actor EXCEPT ![p].at = i]
  PROVE  /\ OthersStay(p) /\ SameJob(p) /\ SameSlice(p) /\ actor'[p].at = i
         /\ actor'[p].pc = actor[p].pc /\ actor'[p].todo = actor[p].todo
<1>1. [actor[p] EXCEPT !.at = i] \in ActorSet
  BY DEF ActorSet
<1> QED BY <1>1 DEF OthersStay, SameJob, SameSlice, ActorSet

LEMMA ActorStores ==
  ASSUME actor \in [Savers -> ActorSet], NEW p \in Savers, NEW word,
         actor' = [actor EXCEPT ![p].todo = @ \ {word},
                                ![p].pc = IF actor[p].todo = {word} THEN "stored" ELSE @]
  PROVE  /\ OthersStay(p) /\ SameJob(p) /\ SameSlice(p) /\ actor'[p].at = actor[p].at
         /\ actor'[p].pc = (IF actor[p].todo = {word} THEN "stored" ELSE actor[p].pc)
         /\ actor'[p].todo = actor[p].todo \ {word}
<1>1. PICK left \in SUBSET (Words \cup {"slot"}), pc \in Pcs :
        /\ left = actor[p].todo \ {word}
        /\ pc = IF actor[p].todo = {word} THEN "stored" ELSE actor[p].pc
  BY DEF ActorSet, Pcs
<1>2. PICK a : a = [actor[p] EXCEPT !.todo = left, !.pc = pc]
  OBVIOUS
<1>3. actor' = [actor EXCEPT ![p] = a]
  BY <1>1, <1>2
<1>4. /\ a \in ActorSet /\ a.pc = pc /\ a.op = actor[p].op /\ a.kind = actor[p].kind
      /\ a.entry = actor[p].entry /\ a.at = actor[p].at /\ a.slice = actor[p].slice
      /\ a.todo = left /\ a.before = actor[p].before
  BY <1>2 DEF ActorSet
<1>5. OthersStay(p) /\ actor'[p] = a
  BY <1>3, <1>4, ActorBecomes
<1> QED BY <1>1, <1>4, <1>5 DEF SameJob, SameSlice

LEMMA ActorMarshals ==
  ASSUME actor \in [Savers -> ActorSet], NEW p \in Savers, NEW d \in Configs,
         actor' = [actor EXCEPT ![p].pc = "marshalled", ![p].data = d]
  PROVE  OthersStay(p) /\ SameJob(p) /\ actor'[p].pc = "marshalled" /\ actor'[p].data = d
<1>1. actor' = [actor EXCEPT ![p] = [actor[p] EXCEPT !.pc = "marshalled", !.data = d]]
  OBVIOUS
<1>2. [actor[p] EXCEPT !.pc = "marshalled", !.data = d] \in ActorSet
  BY DEF ActorSet, Pcs
<1> QED BY <1>1, <1>2 DEF OthersStay, SameJob, ActorSet

LEMMA ActorTruncates ==
  ASSUME actor \in [Savers -> ActorSet], NEW p \in Savers,
         actor' = [actor EXCEPT ![p].pc = "truncated"]
  PROVE  OthersStay(p) /\ SameJob(p) /\ actor'[p].pc = "truncated"
         /\ actor'[p].data = actor[p].data
<1>1. [actor[p] EXCEPT !.pc = "truncated"] \in ActorSet
  BY DEF ActorSet, Pcs
<1> QED BY <1>1 DEF OthersStay, SameJob, ActorSet

-----------------------------------------------------------------------------
(* The steps keep this. *)

RestOK ==
  /\ file \in [size : Nat, config : Configs \cup {None}]
  /\ requests \in 0 .. MaxRequests /\ restarts \in 0 .. MaxRestarts
  /\ promised \subseteq Entries /\ {overlapped, torn} \subseteq BOOLEAN
UpdaterOK ==
  /\ signals \in 0 .. SignalRoom
  /\ reader \in [pc : {"rests", "reads"}, todo : SUBSET {"arr", "len"}, arr : Nat, len : Nat,
                 read : Seq(Slots)]
  /\ pushed \in Seq(Slots) \cup {None}
  /\ ReaderInv

LEMMA TypeParts ==
  ASSUME heap \in Seq(Seq(Slots)), header \in [Lists -> Slices],
         \A k \in Lists : header[k].arr <= Len(heap), actor \in [Savers -> ActorSet],
         RestOK, UpdaterOK
  PROVE  TypeOK
<1>1. /\ actor \in [Savers ->
           [pc : {"free", "begun", "fetched", "stored", "marshalled", "truncated", "saved"},
            op : {"add", "delete", None}, kind : Lists \cup {None}, entry : Slots,
            at : Nat \cup {None}, slice : Slices \cup {None}, todo : SUBSET (Words \cup {"slot"}),
            before : Seq(Slots) \cup {None}, data : Configs \cup {None}]]
  BY DEF ActorSet, Pcs
<1>2. /\ file \in [size : Nat, config : Configs \cup {None}]
      /\ requests \in 0 .. MaxRequests /\ restarts \in 0 .. MaxRestarts
      /\ promised \subseteq Entries /\ {overlapped, torn} \subseteq BOOLEAN
  BY DEF RestOK
<1>3. /\ signals \in 0 .. SignalRoom
      /\ reader \in [pc : {"rests", "reads"}, todo : SUBSET {"arr", "len"}, arr : Nat, len : Nat,
                     read : Seq(Slots)]
      /\ pushed \in Seq(Slots) \cup {None}
  BY DEF UpdaterOK
<1> QED BY <1>1, <1>2, <1>3, Zenon DEF TypeOK

LEMMA SafeParts ==
  ASSUME Safe
  PROVE  /\ TypeOK /\ ActorInv /\ RestOK /\ UpdaterOK
         /\ heap \in Seq(Seq(Slots)) /\ Len(heap) \in Nat
         /\ header \in [Lists -> Slices] /\ \A k \in Lists : header[k].arr \in 1 .. Len(heap)
         /\ actor \in [Savers -> ActorSet]
<1>1. TypeOK /\ ActorInv /\ ReaderInv
  BY DEF Safe
<1>2. actor \in [Savers -> ActorSet]
  BY <1>1 DEF TypeOK, ActorSet, Pcs
<1>3. RestOK
  BY <1>1 DEF TypeOK, RestOK
<1>4. UpdaterOK
  BY <1>1 DEF TypeOK, UpdaterOK
<1>5. heap \in Seq(Seq(Slots)) /\ header \in [Lists -> Slices]
  BY <1>1 DEF TypeOK
<1> QED BY <1>1, <1>2, <1>3, <1>4, <1>5, ListDomain, ContentsAre

(* A step of one actor: what the others know of the heap remains so.       *)
LEMMA SafeStep ==
  ASSUME Safe, NEW p \in Savers, HeapGrows, OthersStay(p), ActorOK(p)',
         header' \in [Lists -> Slices], \A k \in Lists : header'[k].arr \in 1 .. Len(heap'),
         RestOK', UpdaterOK'
  PROVE  Safe'
<1>1. ASSUME NEW q \in Savers \ {p}
      PROVE  ActorOK(q)'
  <2>1. PICK a, low, high : a = actor[q] /\ low = Len(heap) /\ high = Len(heap')
    OBVIOUS
  <2>2. low \in Nat /\ high \in Nat /\ low <= high /\ actor'[q] = a
    BY <2>1 DEF HeapGrows, OthersStay
  <2>3. ActorOK(q)
    BY SafeParts DEF ActorInv
  <2>4. a.pc = "fetched" => a.slice.arr \in 1 .. high
    BY <2>1, <2>2, <2>3 DEF ActorOK
  <2> QED BY <2>1, <2>2, <2>3, <2>4 DEF ActorOK, Working, AtWork
<1>2. ActorInv'
  BY <1>1 DEF ActorInv
<1>3. heap' \in Seq(Seq(Slots)) /\ actor' \in [Savers -> ActorSet] /\ Len(heap') \in Nat
  BY DEF HeapGrows, OthersStay
<1>4. TypeOK' /\ ReaderInv'
  BY <1>3 DEF TypeOK, ActorSet, Pcs, RestOK, UpdaterOK
<1> QED BY <1>2, <1>4 DEF Safe

LEMMA UpdaterStays ==
  ASSUME Safe, UNCHANGED updater, HeapGrows
  PROVE  UpdaterOK'
BY SafeParts DEF UpdaterOK, ReaderInv, updater, HeapGrows

LEMMA SafeInPlace ==
  ASSUME Safe, NEW p \in Savers, UNCHANGED memory, OthersStay(p), ActorOK(p)', RestOK', UpdaterOK'
  PROVE  Safe'
<1>1. heap' = heap /\ header' = header
  BY DEF memory
<1>2. HeapGrows /\ header' \in [Lists -> Slices] /\ \A k \in Lists : header'[k].arr \in 1 .. Len(heap')
  BY <1>1, SafeParts, SameHeap
<1> QED BY <1>2, SafeStep

LEMMA SameUpdater ==
  ASSUME Safe, UNCHANGED << memory, updater >>
  PROVE  UpdaterOK'
BY SafeParts, SameHeap, UpdaterStays DEF memory

Unrelated == UNCHANGED << file, updater, bounds, histories >>

LEMMA UnrelatedOK ==
  ASSUME Safe, Unrelated, HeapGrows
  PROVE  RestOK' /\ UpdaterOK'
<1>1. RestOK'
  BY SafeParts DEF RestOK, Unrelated, bounds, histories
<1> QED BY <1>1, UpdaterStays DEF Unrelated

(* A new entry has an id within the bound.                                 *)
LEMMA SavedIs == Saved \in Configs /\ Len(Saved.routes) \in Nat /\ Len(Saved.nodes) \in Nat
                 /\ Saved.routes \in Seq(Entries) /\ Saved.nodes \in Seq(Entries)
                 /\ Saved["routes"] = Saved.routes /\ Saved["nodes"] = Saved.nodes
<1>1. Saved["routes"] \in Seq(Entries) /\ Saved["nodes"] \in Seq(Entries)
      /\ Saved \in [Lists -> Seq(Entries)]
  BY SavedAssumption DEF Lists
<1>2. ASSUME NEW list \in Seq(Entries)
      PROVE  list \in Seq(Slots)
  <2>1. /\ Len(list) \in Nat /\ list = [i \in 1 .. Len(list) |-> list[i]]
        /\ \A i \in 1 .. Len(list) : list[i] \in Entries
    BY ListDomain
  <2> QED BY <2>1 DEF Slots
<1>3. Saved \in Configs
  BY <1>1, <1>2 DEF Configs
<1> QED BY <1>1, <1>3, ListDomain

LEMMA NewEntry ==
  ASSUME requests \in 0 .. MaxRequests, requests < MaxRequests, NEW key \in Keys
  PROVE  [id |-> NextId, key |-> key] \in Entries
<1>1. NextId \in Ids
  <2>1. PICK m \in Nat, n \in Nat : m = Len(Saved.routes) /\ n = Len(Saved.nodes)
    BY SavedIs
  <2>2. PICK r \in Nat, bound \in Nat : r = requests /\ bound = MaxRequests /\ r < bound
    BY BoundsAssumption
  <2>3. r + 1 + m + n <= bound + m + n /\ 1 <= r + 1 + m + n
    BY <2>2
  <2>4. r + 1 + m + n \in 1 .. bound + m + n
    BY <2>3
  <2> QED BY <2>1, <2>2, <2>4 DEF NextId, Ids
<1> HIDE DEF NextId, Ids
<1> QED BY <1>1 DEF Entries

(* What the file gives.                                                    *)
LEMMA LoadIs ==
  ASSUME RestOK
  PROVE  /\ Load \in Configs
         /\ \A k \in Lists : Load[k] \in Seq(Slots) /\ Len(Load[k]) \in Nat
         /\ Load.routes = Load["routes"] /\ Load.nodes = Load["nodes"]
         /\ file.config # None => Load = file.config
         /\ file.config = None => Load = Zero
<1>1. Zero \in Configs
  <2>1. Zero = [k \in Lists |-> << >>]
    BY DEF Zero, Lists
  <2>2. << >> \in Seq(Slots)
    OBVIOUS
  <2> QED BY <2>1, <2>2 DEF Configs
<1>2. file.config \in Configs \cup {None}
  BY DEF RestOK
<1>3. Load \in Configs
  BY <1>1, <1>2 DEF Load
<1>4. \A k \in Lists : Load[k] \in Seq(Slots) /\ Len(Load[k]) \in Nat
  BY <1>3, ListDomain DEF Configs
<1>5. Load.routes = Load["routes"] /\ Load.nodes = Load["nodes"]
  OBVIOUS
<1> QED BY <1>3, <1>4, <1>5 DEF Load

LEMMA ArriveEffect ==
  ASSUME Safe, NEW p, NEW k, NEW op \in {"add", "delete"}, NEW entry \in Entries,
         NEW at \in Nat \cup {None}, op = "delete" => at \in Nat \ {0},
         Arrive(p, k, op, entry, at)
  PROVE  /\ p \in Savers /\ p \in Admins /\ k \in Lists /\ actor[p].pc = "free"
         /\ OthersStay(p) /\ actor'[p].pc = "begun" /\ actor'[p].op = op
         /\ actor'[p].kind = k /\ actor'[p].entry = entry /\ actor'[p].at = at
         /\ ActorOK(p)'
         /\ requests' \in 0 .. MaxRequests /\ overlapped' \in BOOLEAN
         /\ ~ overlapped' => ~ overlapped /\ Quiet
<1>1. p \in Savers /\ p \in Admins /\ k \in Lists /\ actor[p].pc = "free"
  BY ActorsAssumption DEF Arrive, Savers
<1>2. PICK a : a = [Free EXCEPT !.pc = "begun", !.op = op, !.kind = k, !.entry = entry, !.at = at]
  OBVIOUS
<1>3. a \in ActorSet /\ a.pc = "begun" /\ a.op = op /\ a.kind = k /\ a.entry = entry /\ a.at = at
  BY <1>1, <1>2 DEF Free, ActorSet, Pcs, Slots
<1>4. actor' = [actor EXCEPT ![p] = a]
  BY <1>2 DEF Arrive
<1>5. OthersStay(p) /\ actor'[p] = a
  BY <1>1, <1>3, <1>4, SafeParts, ActorBecomes
<1>6. ActorOK(p)'
  BY <1>1, <1>3, <1>5 DEF ActorOK, Working, AtWork
<1>7. requests' \in 0 .. MaxRequests
  <2>1. requests \in 0 .. MaxRequests
    BY SafeParts DEF RestOK
  <2> QED BY <2>1, BoundsAssumption DEF Arrive
<1>8. overlapped' = (overlapped \/ \E q \in Savers : AtWork(q))
  BY DEF Arrive
<1>9. overlapped' \in BOOLEAN
  BY <1>8, Zenon
<1> QED BY <1>1, <1>3, <1>5, <1>6, <1>7, <1>8, <1>9 DEF Quiet

LEMMA AddEffect ==
  ASSUME Safe, NEW p, NEW k, NEW key \in Keys, Add(p, k, key)
  PROVE  /\ [id |-> NextId, key |-> key] \in Entries
         /\ Arrive(p, k, "add", [id |-> NextId, key |-> key], None)
         /\ UNCHANGED << memory, file, updater, restarts, promised, torn >>
         /\ k = "routes" => ~ Taken(k, key)
<1>1. Arrive(p, k, "add", [id |-> NextId, key |-> key], None)
  BY DEF Add
<1>2. [id |-> NextId, key |-> key] \in Entries
  BY <1>1, SafeParts, NewEntry DEF Arrive, RestOK
<1> QED BY <1>1, <1>2 DEF Add

LEMMA AddSafe ==
  ASSUME Safe, NEW p, NEW k, NEW key \in Keys, Add(p, k, key)
  PROVE  Safe'
<1>1. PICK e \in Entries : Arrive(p, k, "add", e, None)
  BY AddEffect
<1>2. /\ p \in Savers /\ OthersStay(p) /\ ActorOK(p)'
      /\ requests' \in 0 .. MaxRequests /\ overlapped' \in BOOLEAN
  BY <1>1, ArriveEffect
<1>3. UNCHANGED << memory, file, updater, restarts, promised, torn >>
  BY AddEffect
<1>4. RestOK'
  BY <1>2, <1>3, SafeParts DEF RestOK
<1> QED BY <1>2, <1>3, <1>4, SameUpdater, SafeInPlace

LEMMA DeleteEffect ==
  ASSUME Safe, NEW p, NEW k, Delete(p, k)
  PROVE  \E i \in 1 .. header[k].len, e \in Entries :
           /\ e = Contents(k)[i] /\ i \in Nat \ {0}
           /\ Arrive(p, k, "delete", e, i)
           /\ promised' = promised \ {e}
           /\ UNCHANGED << memory, file, updater, restarts, torn >>
<1>1. PICK i \in 1 .. header[k].len :
        /\ Shows(k, i)
        /\ Arrive(p, k, "delete", Contents(k)[i], i)
        /\ promised' = promised \ {Contents(k)[i]}
        /\ UNCHANGED << memory, file, updater, restarts, torn >>
  BY DEF Delete
<1>2. k \in Lists
  BY <1>1, ActorsAssumption DEF Arrive
<1>3. header[k].len \in Nat /\ Contents(k) \in Seq(Slots)
  BY <1>2, SafeParts, ContentsAre
<1>4. Contents(k)[i] \in Entries
  <2>1. Contents(k)[i] \in Slots /\ Contents(k)[i] # None
    BY <1>1, <1>3, ListDomain DEF Shows
  <2> QED BY <2>1 DEF Slots
<1> QED BY <1>1, <1>3, <1>4

LEMMA DeleteSafe ==
  ASSUME Safe, NEW p, NEW k, Delete(p, k)
  PROVE  Safe'
<1>1. PICK i \in Nat \ {0}, e \in Entries :
        /\ Arrive(p, k, "delete", e, i) /\ promised' = promised \ {e}
        /\ UNCHANGED << memory, file, updater, restarts, torn >>
  BY DeleteEffect
<1>2. /\ p \in Savers /\ OthersStay(p) /\ ActorOK(p)'
      /\ requests' \in 0 .. MaxRequests /\ overlapped' \in BOOLEAN
  BY <1>1, ArriveEffect
<1>3. RestOK'
  BY <1>1, <1>2, SafeParts DEF RestOK
<1> QED BY <1>1, <1>2, <1>3, SameUpdater, SafeInPlace

-----------------------------------------------------------------------------
(* The stores. *)

LEMMA FetchToAddEffect ==
  ASSUME Safe, NEW p \in Admins, FetchToAdd(p), NEW k, k = actor[p].kind,
         NEW h, h = header[k], NEW n, n = Len(heap), NEW s, s = actor'[p].slice
  PROVE  /\ p \in Savers /\ k \in Lists /\ actor[p].pc = "begun" /\ actor[p].op = "add"
         /\ header' = header /\ Unrelated /\ HeapGrows /\ OthersStay(p) /\ SameJob(p)
         /\ actor'[p].pc = "fetched" /\ actor'[p].before = Contents(k)
         /\ s \in Slices /\ s.arr \in 1 .. Len(heap') /\ s.len = h.len + 1
         /\ \A a \in 1 .. n : heap'[a] = heap[a] /\ \A i : Slot(a, i)' = Slot(a, i)
         /\ \/ /\ h.len < h.cap /\ heap' = heap
               /\ s.arr = h.arr /\ s.cap = h.cap /\ actor'[p].todo = {"len", "slot"}
            \/ /\ s.arr = n + 1 /\ actor'[p].todo = Words \cup {"slot"}
               /\ s.cap = Len(heap'[n + 1]) /\ s.len <= s.cap
               /\ \A i \in 1 .. h.len : Slot(n + 1, i)' = Contents(k)[i]
<1>1. /\ p \in Savers /\ actor[p].pc = "begun" /\ actor[p].op = "add" /\ header' = header /\ Unrelated
  BY DEF FetchToAdd, Savers, Unrelated
<1>2. k \in Lists
  BY <1>1, SafeParts DEF ActorInv, ActorOK, AtWork
<1>3. /\ h \in Slices /\ h.arr \in 1 .. n /\ n \in Nat /\ h.len \in Nat /\ h.cap \in Nat
      /\ Contents(k) \in Seq(Slots) /\ Len(Contents(k)) = h.len
      /\ \A i \in 1 .. h.len : Contents(k)[i] \in Slots
  BY <1>2, SafeParts, ContentsAre, ListDomain DEF Slices
<1>4. CASE h.len < h.cap
  <2>1. PICK t : t = [h EXCEPT !.len = @ + 1]
    OBVIOUS
  <2>2. Fetched(p, t, {"len", "slot"}) /\ heap' = heap
    BY <1>4, <2>1 DEF FetchToAdd
  <2>3. t \in Slices /\ t.arr = h.arr /\ t.len = h.len + 1 /\ t.cap = h.cap
    BY <1>3, <2>1 DEF Slices
  <2>4. /\ OthersStay(p) /\ SameJob(p) /\ actor'[p].pc = "fetched" /\ s = t
        /\ actor'[p].todo = {"len", "slot"} /\ actor'[p].before = Contents(k)
    <3>1. {"len", "slot"} \in SUBSET (Words \cup {"slot"})
      BY DEF Words
    <3> QED BY <1>1, <1>3, <2>2, <2>3, <3>1, SafeParts, ActorFetches
  <2>5. HeapGrows /\ \A a \in 1 .. n : heap'[a] = heap[a] /\ \A i : Slot(a, i)' = Slot(a, i)
    BY <2>2, SafeParts, SameHeap
  <2> QED BY <1>1, <1>2, <1>3, <1>4, <2>2, <2>3, <2>4, <2>5
<1>5. CASE ~ (h.len < h.cap)
  <2>1. PICK size : size = IF h.len = 0 THEN 1 ELSE 2 * h.len
    OBVIOUS
  <2>2. size \in Nat \ {0} /\ h.len + 1 <= size
    BY <1>3, <2>1
  <2>3. PICK room : room = [i \in 1 .. size |-> IF i <= h.len THEN Contents(k)[i] ELSE None]
    OBVIOUS
  <2>4. /\ room \in Seq(Slots) /\ Len(room) = size /\ DOMAIN room = 1 .. size
        /\ \A i \in 1 .. h.len : room[i] = Contents(k)[i]
    <3>1. None \in Slots
      BY DEF Slots
    <3>2. \A i \in 1 .. size : (IF i <= h.len THEN Contents(k)[i] ELSE None) \in Slots
      BY <1>3, <3>1
    <3> HIDE DEF Contents
    <3> QED BY <1>3, <2>2, <2>3, <3>2
  <2>5. PICK t : t = [arr |-> n + 1, len |-> h.len + 1, cap |-> size]
    OBVIOUS
  <2>6. heap' = Append(heap, room) /\ Fetched(p, t, Words \cup {"slot"})
    BY <1>5, <2>1, <2>3, <2>5 DEF FetchToAdd
  <2>7. t \in Slices /\ t.arr = n + 1 /\ t.len = h.len + 1 /\ t.cap = size
    BY <1>3, <2>2, <2>5 DEF Slices
  <2>8. /\ HeapGrows /\ Len(heap') = n + 1 /\ heap'[n + 1] = room
        /\ \A a \in 1 .. n : heap'[a] = heap[a]
        /\ \A a \in 1 .. n : \A i : Slot(a, i)' = Slot(a, i)
        /\ \A i \in 1 .. h.len : Slot(n + 1, i)' = Contents(k)[i]
    <3>1. /\ HeapGrows /\ Len(heap') = n + 1 /\ heap'[n + 1] = room
          /\ \A a \in 1 .. n : heap'[a] = heap[a]
          /\ \A a \in 1 .. n : \A i : Slot(a, i)' = Slot(a, i)
          /\ \A i \in DOMAIN room : Slot(n + 1, i)' = room[i]
      BY <2>4, <2>6, SafeParts, ArrayAdded
    <3>2. \A i \in 1 .. h.len : i \in DOMAIN room
      BY <1>3, <2>2, <2>4
    <3> QED BY <2>4, <3>1, <3>2
  <2>9. /\ OthersStay(p) /\ SameJob(p) /\ actor'[p].pc = "fetched" /\ s = t
        /\ actor'[p].todo = Words \cup {"slot"} /\ actor'[p].before = Contents(k)
    BY <1>1, <1>3, <2>6, <2>7, SafeParts, ActorFetches
  <2>10. n + 1 \in 1 .. n + 1
    BY <1>3
  <2> QED BY <1>1, <1>2, <1>3, <2>2, <2>4, <2>7, <2>8, <2>9, <2>10
<1> QED BY <1>4, <1>5

LEMMA FetchToDeleteEffect ==
  ASSUME Safe, NEW p \in Admins, FetchToDelete(p), NEW k, k = actor[p].kind,
         NEW h, h = header[k], NEW s, s = actor'[p].slice
  PROVE  /\ p \in Savers /\ k \in Lists /\ actor[p].pc = "begun" /\ actor[p].op = "delete"
         /\ UNCHANGED memory /\ Unrelated /\ OthersStay(p) /\ SameJob(p)
         /\ actor'[p].pc = "fetched" /\ actor'[p].before = Contents(k)
         /\ actor'[p].at = actor[p].at /\ actor'[p].todo = Words
         /\ h.len \in Nat /\ actor[p].at \in 1 .. h.len
         /\ s \in Slices /\ s.arr = h.arr /\ s.len = h.len - 1 /\ s.cap = h.cap
<1>1. /\ p \in Savers /\ actor[p].pc = "begun" /\ actor[p].op = "delete"
      /\ UNCHANGED memory /\ Unrelated
  BY DEF FetchToDelete, Savers, Unrelated
<1>2. k \in Lists /\ actor[p].at \in Nat \ {0}
  BY <1>1, SafeParts DEF ActorInv, ActorOK, AtWork, Working
<1>3. /\ h \in Slices /\ h.len \in Nat /\ Contents(k) \in Seq(Slots)
  BY <1>2, SafeParts, ContentsAre
<1>4. actor[p].at \in 1 .. h.len
  BY <1>2, <1>3 DEF FetchToDelete
<1>5. PICK t : t = [h EXCEPT !.len = @ - 1]
  OBVIOUS
<1>6. t \in Slices /\ t.arr = h.arr /\ t.len = h.len - 1 /\ t.cap = h.cap
  BY <1>3, <1>4, <1>5 DEF Slices
<1>7. Fetched(p, t, Words)
  BY <1>5 DEF FetchToDelete
<1>8. /\ OthersStay(p) /\ SameJob(p) /\ actor'[p].pc = "fetched" /\ s = t
      /\ actor'[p].todo = Words /\ actor'[p].before = Contents(k) /\ actor'[p].at = actor[p].at
  BY <1>1, <1>3, <1>6, <1>7, SafeParts, ActorFetches
<1> QED BY <1>1, <1>2, <1>3, <1>4, <1>6, <1>8

LEMMA FetchSafe ==
  ASSUME Safe, NEW p \in Admins, FetchToAdd(p) \/ FetchToDelete(p)
  PROVE  Safe'
<1>1. PICK k, h, n, s : k = actor[p].kind /\ h = header[k] /\ n = Len(heap) /\ s = actor'[p].slice
  OBVIOUS
<1>2. /\ p \in Savers /\ k \in Lists /\ actor[p].pc = "begun"
      /\ header' = header /\ Unrelated /\ HeapGrows /\ OthersStay(p) /\ SameJob(p)
      /\ actor'[p].pc = "fetched" /\ actor'[p].before = Contents(k)
      /\ s \in Slices /\ s.arr \in 1 .. Len(heap')
      /\ actor[p].op = "delete" => actor'[p].at \in Nat \ {0}
  <2>1. CASE FetchToAdd(p)
    BY <1>1, <2>1, FetchToAddEffect
  <2>2. CASE FetchToDelete(p)
    <3>1. /\ p \in Savers /\ k \in Lists /\ actor[p].pc = "begun" /\ actor[p].op = "delete"
          /\ UNCHANGED memory /\ Unrelated /\ OthersStay(p) /\ SameJob(p)
          /\ actor'[p].pc = "fetched" /\ actor'[p].before = Contents(k)
          /\ h.len \in Nat /\ actor'[p].at \in 1 .. h.len /\ s \in Slices /\ s.arr = h.arr
      BY <1>1, <2>2, FetchToDeleteEffect
    <3>2. heap' = heap /\ header' = header /\ HeapGrows
      BY <3>1, SafeParts, SameHeap DEF memory
    <3>3. s.arr \in 1 .. Len(heap')
      BY <1>1, <3>1, <3>2, SafeParts
    <3> QED BY <3>1, <3>2, <3>3
  <2> QED BY <2>1, <2>2
<1>3. Contents(k) \in Seq(Slots) /\ ActorOK(p)
  BY <1>2, SafeParts, ContentsAre DEF ActorInv
<1>4. ActorOK(p)'
  BY <1>1, <1>2, <1>3 DEF ActorOK, SameJob, Working, AtWork
<1>5. header' \in [Lists -> Slices] /\ \A j \in Lists : header'[j].arr \in 1 .. Len(heap')
  <2>1. Len(heap) \in Nat /\ Len(heap') \in Nat /\ Len(heap) <= Len(heap')
    BY <1>2 DEF HeapGrows
  <2> QED BY <1>2, <2>1, SafeParts
<1> QED BY <1>2, <1>4, <1>5, UnrelatedOK, SafeStep

LEMMA PanicEffect ==
  ASSUME Safe, NEW p \in Admins, DeletePanics(p)
  PROVE  /\ p \in Savers /\ OthersStay(p) /\ actor'[p] = Free /\ ActorOK(p)'
         /\ UNCHANGED memory /\ Unrelated
         /\ actor[p].pc = "begun" /\ actor[p].op = "delete"
         /\ actor[p].at > header[actor[p].kind].len
<1>1. p \in Savers /\ actor' = [actor EXCEPT ![p] = Free]
  BY DEF DeletePanics, Savers
<1>2. OthersStay(p) /\ actor'[p] = Free
  BY <1>1, FreeActor, SafeParts, ActorBecomes
<1>3. ActorOK(p)'
  BY <1>2 DEF ActorOK, Working, AtWork, Free
<1> QED BY <1>1, <1>2, <1>3 DEF DeletePanics, Unrelated

LEMMA PanicSafe ==
  ASSUME Safe, NEW p \in Admins, DeletePanics(p)
  PROVE  Safe'
<1>1. HeapGrows
  BY PanicEffect, SafeParts, SameHeap DEF memory
<1> QED BY <1>1, PanicEffect, UnrelatedOK, SafeInPlace

LEMMA MoveEffect ==
  ASSUME Safe, NEW p \in Admins, Move(p), NEW s, s = actor[p].slice, NEW i, i = actor[p].at
  PROVE  /\ p \in Savers /\ actor[p].pc = "fetched" /\ actor[p].op = "delete"
         /\ i \in Nat \ {0} /\ s \in Slices /\ s.arr \in 1 .. Len(heap) /\ i <= s.len
         /\ SetSlot(s.arr, i, Slot(s.arr, i + 1)) /\ Slot(s.arr, i + 1) \in Slots
         /\ header' = header /\ Unrelated /\ HeapGrows /\ Len(heap') = Len(heap)
         /\ OthersStay(p) /\ SameJob(p) /\ SameSlice(p) /\ actor'[p].pc = "fetched"
         /\ actor'[p].at = i + 1 /\ actor'[p].todo = actor[p].todo
<1>1. /\ p \in Savers /\ actor[p].pc = "fetched" /\ actor[p].op = "delete"
      /\ ~ (i > s.len) /\ SetSlot(s.arr, i, Slot(s.arr, i + 1))
      /\ header' = header /\ Unrelated /\ actor' = [actor EXCEPT ![p].at = i + 1]
  BY DEF Move, Moved, Savers, Unrelated
<1>2. i \in Nat \ {0} /\ s \in Slices /\ s.arr \in 1 .. Len(heap)
  BY <1>1, SafeParts DEF ActorInv, ActorOK, Working
<1>3. i <= s.len
  BY <1>1, <1>2 DEF Slices
<1>4. Slot(s.arr, i + 1) \in Slots
  <2>1. "routes" \in Lists
    BY DEF Lists
  <2> QED BY <1>2, <2>1, SafeParts, ContentsAre
<1>5. HeapGrows /\ Len(heap') = Len(heap)
  BY <1>1, <1>2, <1>4, SafeParts, SlotSet
<1>6. i + 1 \in Nat
  BY <1>2
<1>7. /\ OthersStay(p) /\ SameJob(p) /\ SameSlice(p) /\ actor'[p].pc = "fetched"
      /\ actor'[p].at = i + 1 /\ actor'[p].todo = actor[p].todo
  BY <1>1, <1>6, SafeParts, ActorMoves
<1> QED BY <1>1, <1>2, <1>3, <1>4, <1>5, <1>7

LEMMA MoveSafe ==
  ASSUME Safe, NEW p \in Admins, Move(p)
  PROVE  Safe'
<1>1. PICK s, i : s = actor[p].slice /\ i = actor[p].at
  OBVIOUS
<1>2. /\ p \in Savers /\ actor[p].pc = "fetched" /\ actor[p].op = "delete"
      /\ i \in Nat \ {0} /\ header' = header /\ Unrelated /\ HeapGrows /\ Len(heap') = Len(heap)
      /\ OthersStay(p) /\ SameJob(p) /\ SameSlice(p) /\ actor'[p].pc = "fetched"
      /\ actor'[p].at = i + 1
  BY <1>1, MoveEffect
<1>3. ActorOK(p) /\ i + 1 \in Nat \ {0}
  BY <1>2, SafeParts DEF ActorInv
<1>4. ActorOK(p)'
  BY <1>2, <1>3 DEF ActorOK, SameJob, SameSlice, Working, AtWork
<1> QED BY <1>2, <1>4, SafeParts, UnrelatedOK, SafeStep

(* What one store does, of the slot or of a word of the header.            *)
Stores(p, word, s, k) ==
  /\ p \in Savers /\ actor[p].pc = "fetched" /\ Moved(p) /\ k \in Lists
  /\ s \in Slices /\ s.arr \in 1 .. Len(heap) /\ actor[p].entry \in Entries
  /\ \/ /\ word = "slot" /\ SetSlot(s.arr, s.len, actor[p].entry) /\ header' = header
     \/ /\ word \in Words /\ heap' = heap
        /\ \A j \in Lists \ {k} : header'[j] = header[j]
        /\ \A w \in Words : header'[k][w] = IF w = word THEN s[w] ELSE header[k][w]
  /\ HeapGrows /\ Len(heap') = Len(heap)
  /\ \A j \in Lists : header'[j].arr \in 1 .. Len(heap')
  /\ header' \in [Lists -> Slices]
  /\ Unrelated /\ OthersStay(p) /\ SameJob(p) /\ SameSlice(p) /\ actor'[p].at = actor[p].at
  /\ actor'[p].pc = (IF actor[p].todo = {word} THEN "stored" ELSE "fetched")
  /\ actor'[p].todo = actor[p].todo \ {word}

LEMMA StoreEffect ==
  ASSUME Safe, NEW p \in Admins, Store(p), NEW s, s = actor[p].slice, NEW k, k = actor[p].kind
  PROVE  \E word \in actor[p].todo : Stores(p, word, s, k)
<1>1. PICK word \in actor[p].todo :
        /\ actor[p].pc = "fetched" /\ Moved(p)
        /\ IF word = "slot"
           THEN SetSlot(s.arr, s.len, actor[p].entry) /\ UNCHANGED header
           ELSE header' = [header EXCEPT ![k][word] = s[word]] /\ UNCHANGED heap
        /\ actor' = [actor EXCEPT ![p].todo = @ \ {word},
                                  ![p].pc = IF actor[p].todo = {word} THEN "stored" ELSE @]
        /\ Unrelated
  BY DEF Store, Unrelated
<1>2. p \in Savers /\ ActorOK(p) /\ actor[p] \in ActorSet
  BY SafeParts DEF ActorInv, Savers
<1>3. /\ k \in Lists /\ s \in Slices /\ s.arr \in 1 .. Len(heap) /\ word \in Words \cup {"slot"}
      /\ actor[p].entry \in Entries /\ actor[p].entry \in Slots
  BY <1>1, <1>2 DEF ActorOK, AtWork, ActorSet
<1>4. /\ OthersStay(p) /\ SameJob(p) /\ SameSlice(p) /\ actor'[p].at = actor[p].at
      /\ actor'[p].pc = (IF actor[p].todo = {word} THEN "stored" ELSE "fetched")
      /\ actor'[p].todo = actor[p].todo \ {word}
  <2>1. actor \in [Savers -> ActorSet]
    BY SafeParts
  <2>2. /\ OthersStay(p) /\ SameJob(p) /\ SameSlice(p) /\ actor'[p].at = actor[p].at
        /\ actor'[p].pc = (IF actor[p].todo = {word} THEN "stored" ELSE actor[p].pc)
        /\ actor'[p].todo = actor[p].todo \ {word}
    BY <1>1, <1>2, <2>1, ActorStores
  <2> QED BY <1>1, <2>2
<1>5. CASE word = "slot"
  <2>1. SetSlot(s.arr, s.len, actor[p].entry) /\ header' = header
    BY <1>1, <1>5
  <2>2. HeapGrows /\ Len(heap') = Len(heap)
    BY <1>3, <2>1, SafeParts, SlotSet
  <2>3. Stores(p, word, s, k)
    BY <1>1, <1>2, <1>3, <1>4, <1>5, <2>1, <2>2, SafeParts DEF Stores
  <2> QED BY <2>3
<1>6. CASE word # "slot"
  <2>1. word \in Words /\ heap' = heap /\ header' = [header EXCEPT ![k][word] = s[word]]
    BY <1>1, <1>3, <1>6
  <2>2. PICK h, t : h = header[k] /\ t = [h EXCEPT ![word] = s[word]]
    OBVIOUS
  <2>3. header' = [header EXCEPT ![k] = t] /\ h \in Slices /\ h.arr \in 1 .. Len(heap)
    BY <1>3, <2>1, <2>2, SafeParts
  <2>4. t \in Slices /\ t.arr \in 1 .. Len(heap)
        /\ \A w \in Words : t[w] = IF w = word THEN s[w] ELSE h[w]
    <3>1. CASE word = "arr"
      <4>1. t = [h EXCEPT !.arr = s.arr]
        BY <2>2, <3>1
      <4> QED BY <1>3, <2>3, <3>1, <4>1 DEF Words, Slices
    <3>2. CASE word = "len"
      <4>1. t = [h EXCEPT !.len = s.len]
        BY <2>2, <3>2
      <4> QED BY <1>3, <2>3, <3>2, <4>1 DEF Words, Slices
    <3>3. CASE word = "cap"
      <4>1. t = [h EXCEPT !.cap = s.cap]
        BY <2>2, <3>3
      <4> QED BY <1>3, <2>3, <3>3, <4>1 DEF Words, Slices
    <3> QED BY <2>1, <3>1, <3>2, <3>3 DEF Words
  <2>5. /\ header' \in [Lists -> Slices] /\ header'[k] = t
        /\ \A j \in Lists \ {k} : header'[j] = header[j]
    BY <1>3, <2>3, <2>4, SafeParts
  <2>6. HeapGrows /\ Len(heap') = Len(heap)
    BY <2>1, SafeParts, SameHeap
  <2>7. \A j \in Lists : header'[j].arr \in 1 .. Len(heap')
    BY <2>4, <2>5, <2>6, SafeParts
  <2>8. \A w \in Words : header'[k][w] = IF w = word THEN s[w] ELSE header[k][w]
    BY <2>2, <2>4, <2>5
  <2>9. Stores(p, word, s, k)
    BY <1>1, <1>2, <1>3, <1>4, <2>1, <2>5, <2>6, <2>7, <2>8 DEF Stores
  <2> QED BY <2>9
<1> QED BY <1>5, <1>6

LEMMA StoreSafe ==
  ASSUME Safe, NEW p \in Admins, Store(p)
  PROVE  Safe'
<1>1. PICK k, s : k = actor[p].kind /\ s = actor[p].slice
  OBVIOUS
<1>2. PICK word \in actor[p].todo : Stores(p, word, s, k)
  BY <1>1, StoreEffect
<1>3. ActorOK(p)
  BY <1>2, SafeParts DEF ActorInv, Stores
<1>4. ActorOK(p)'
  BY <1>1, <1>2, <1>3 DEF Stores, ActorOK, SameJob, SameSlice, Working, AtWork
<1> QED BY <1>2, <1>4, UnrelatedOK, SafeStep DEF Stores

-----------------------------------------------------------------------------
(* Saves, signals and routeUpdater. *)

LEMMA MemoryIs ==
  ASSUME TypeOK
  PROVE  /\ Memory \in Configs /\ \A k \in Lists : Memory[k] = Contents(k)
         /\ Memory.routes = Contents("routes") /\ Memory.nodes = Contents("nodes")
<1>1. \A k \in Lists : Contents(k) \in Seq(Slots)
  BY ContentsAre
<1>2. Memory["routes"] = Contents("routes") /\ Memory["nodes"] = Contents("nodes")
  BY DEF Memory, Lists
<1> QED BY <1>1, <1>2 DEF Memory, Configs

LEMMA MarshalEffect ==
  ASSUME Safe, NEW p \in Admins, Marshal(p)
  PROVE  /\ p \in Savers /\ OthersStay(p) /\ SameJob(p) /\ ActorOK(p)'
         /\ actor[p].pc = "stored" /\ actor'[p].pc = "marshalled" /\ actor'[p].data = Memory
         /\ UNCHANGED memory /\ Unrelated
<1>1. PICK d \in Configs : d = Memory
  BY SafeParts, MemoryIs
<1>2. /\ p \in Savers /\ ActorOK(p) /\ actor[p].pc = "stored"
      /\ actor' = [actor EXCEPT ![p].pc = "marshalled", ![p].data = d]
      /\ UNCHANGED memory /\ Unrelated
  BY <1>1, SafeParts DEF Marshal, Savers, ActorInv, Unrelated
<1>3. OthersStay(p) /\ SameJob(p) /\ actor'[p].pc = "marshalled" /\ actor'[p].data = d
  BY <1>2, SafeParts, ActorMarshals
<1>4. ActorOK(p)'
  BY <1>2, <1>3 DEF ActorOK, Working, AtWork, SameJob
<1> QED BY <1>1, <1>2, <1>3, <1>4

LEMMA MarshalSafe ==
  ASSUME Safe, NEW p \in Admins, Marshal(p)
  PROVE  Safe'
<1>1. HeapGrows
  BY MarshalEffect, SafeParts, SameHeap DEF memory
<1> QED BY <1>1, MarshalEffect, UnrelatedOK, SafeInPlace

LEMMA TruncateEffect ==
  ASSUME Safe, NEW p \in Savers, Truncate(p)
  PROVE  /\ OthersStay(p) /\ SameJob(p) /\ ActorOK(p)'
         /\ actor[p].pc = "marshalled" /\ actor'[p].pc = "truncated"
         /\ actor'[p].data = actor[p].data /\ file' = [size |-> 0, config |-> None]
         /\ UNCHANGED << memory, updater, bounds, histories >>
<1>1. /\ ActorOK(p) /\ actor[p].pc = "marshalled"
      /\ actor' = [actor EXCEPT ![p].pc = "truncated"]
  BY SafeParts DEF Truncate, ActorInv
<1>2. /\ OthersStay(p) /\ SameJob(p) /\ actor'[p].pc = "truncated"
      /\ actor'[p].data = actor[p].data
  BY <1>1, SafeParts, ActorTruncates
<1>3. ActorOK(p)'
  BY <1>1, <1>2 DEF ActorOK, Working, AtWork, SameJob
<1> QED BY <1>1, <1>2, <1>3 DEF Truncate

LEMMA TruncateSafe ==
  ASSUME Safe, NEW p \in Savers, Truncate(p)
  PROVE  Safe'
<1>1. /\ OthersStay(p) /\ ActorOK(p)' /\ file' = [size |-> 0, config |-> None]
      /\ UNCHANGED << memory, updater, bounds, histories >>
  BY TruncateEffect
<1>2. [size |-> 0, config |-> None] \in [size : Nat, config : Configs \cup {None}]
  OBVIOUS
<1>3. RestOK'
  BY <1>1, <1>2, SafeParts DEF RestOK, bounds, histories
<1> QED BY <1>1, <1>3, SameUpdater, SafeInPlace

LEMMA SizeIs ==
  ASSUME NEW c \in Configs
  PROVE  Size(c) \in Nat
<1>1. c["routes"] \in Seq(Slots) /\ c["nodes"] \in Seq(Slots)
  BY DEF Configs, Lists
<1>2. Len(c.routes) \in Nat /\ Len(c.nodes) \in Nat
  BY <1>1, ListDomain
<1>3. PICK m \in Nat, n \in Nat : m = Len(c.routes) /\ n = Len(c.nodes)
  BY <1>2
<1>4. Size(c) = m + n
  BY <1>3 DEF Size
<1>5. m + n \in Nat
  OBVIOUS
<1> QED BY <1>4, <1>5, Zenon

LEMMA PutEffect ==
  ASSUME Safe, NEW p \in Savers, Put(p)
  PROVE  /\ OthersStay(p) /\ ActorOK(p)'
         /\ actor'[p] = IF actor[p].kind = "routes" THEN [Free EXCEPT !.pc = "saved"] ELSE Free
         /\ actor[p].pc = "truncated" /\ actor[p].data \in Configs
         /\ file' = Written(actor[p].data)
         /\ file' \in [size : Nat, config : Configs \cup {None}]
         /\ promised' = IF actor[p].op = "add" THEN promised \cup {actor[p].entry} ELSE promised
         /\ actor[p].entry \in Entries
         /\ UNCHANGED << memory, updater, bounds, overlapped, torn >>
<1>1. PICK a : a = IF actor[p].kind = "routes" THEN [Free EXCEPT !.pc = "saved"] ELSE Free
  OBVIOUS
<1>2. /\ ActorOK(p) /\ actor[p].pc = "truncated" /\ actor' = [actor EXCEPT ![p] = a]
      /\ file' = Written(actor[p].data)
      /\ promised' = IF actor[p].op = "add" THEN promised \cup {actor[p].entry} ELSE promised
      /\ UNCHANGED << memory, updater, bounds, overlapped, torn >>
  BY <1>1, SafeParts DEF Put, Answer, ActorInv
<1>3. a \in ActorSet /\ a.pc \in {"free", "saved"}
  BY <1>1, FreeActor DEF Free
<1>4. OthersStay(p) /\ actor'[p] = a
  BY <1>2, <1>3, SafeParts, ActorBecomes
<1>5. ActorOK(p)'
  BY <1>3, <1>4 DEF ActorOK, Working, AtWork
<1>6. PICK d \in Configs : d = actor[p].data
  BY <1>2 DEF ActorOK
<1>7. Written(d) \in [size : Nat, config : Configs \cup {None}]
  <2>1. file.size \in Nat /\ Size(d) \in Nat
    BY SafeParts, SizeIs DEF RestOK
  <2> HIDE DEF Size
  <2> QED BY <2>1 DEF Written
<1>8. actor[p].entry \in Entries
  BY <1>2 DEF ActorOK, AtWork
<1> QED BY <1>1, <1>2, <1>4, <1>5, <1>6, <1>7, <1>8

LEMMA PutSafe ==
  ASSUME Safe, NEW p \in Savers, Put(p)
  PROVE  Safe'
<1>1. OthersStay(p) /\ ActorOK(p)' /\ UNCHANGED << memory, updater, bounds, overlapped, torn >>
  BY PutEffect
<1>2. file' \in [size : Nat, config : Configs \cup {None}] /\ promised' \subseteq Entries
  BY PutEffect, SafeParts DEF RestOK
<1>3. RestOK'
  BY <1>1, <1>2, SafeParts DEF RestOK, bounds
<1> QED BY <1>1, <1>3, SameUpdater, SafeInPlace

LEMMA SignalEffect ==
  ASSUME Safe, NEW p \in Admins, Signal(p)
  PROVE  /\ p \in Savers /\ OthersStay(p) /\ actor'[p] = Free /\ actor[p].pc = "saved"
         /\ signals' = signals + 1 /\ signals' \in 0 .. SignalRoom
         /\ UNCHANGED << memory, file, reader, pushed, bounds, histories >>
<1>1. p \in Savers /\ actor' = [actor EXCEPT ![p] = Free]
  BY DEF Signal, Savers
<1>2. OthersStay(p) /\ actor'[p] = Free
  BY <1>1, FreeActor, SafeParts, ActorBecomes
<1>3. signals' \in 0 .. SignalRoom
  <2>1. signals \in 0 .. SignalRoom
    BY SafeParts DEF UpdaterOK
  <2> QED BY <2>1, BoundsAssumption DEF Signal
<1> QED BY <1>1, <1>2, <1>3 DEF Signal

LEMMA SignalSafe ==
  ASSUME Safe, NEW p \in Admins, Signal(p)
  PROVE  Safe'
<1>1. /\ p \in Savers /\ OthersStay(p) /\ actor'[p] = Free /\ signals' \in 0 .. SignalRoom
      /\ UNCHANGED << memory, file, reader, pushed, bounds, histories >>
  BY SignalEffect
<1>2. ActorOK(p)'
  BY <1>1 DEF ActorOK, Working, AtWork, Free
<1>3. RestOK' /\ UpdaterOK'
  BY <1>1, SafeParts DEF RestOK, UpdaterOK, ReaderInv, bounds, histories, memory
<1> QED BY <1>1, <1>2, <1>3, SafeInPlace

(* routeUpdater touches nothing but its own variables.                     *)
LEMMA SafeAside ==
  ASSUME Safe, UNCHANGED << memory, actor, file, bounds, histories >>, UpdaterOK'
  PROVE  Safe'
<1>1. TypeOK' /\ ReaderInv'
  BY SafeParts DEF TypeOK, UpdaterOK, memory, bounds, histories
<1>2. ActorInv'
  BY SafeParts DEF ActorInv, ActorOK, Working, AtWork, memory
<1> QED BY <1>1, <1>2 DEF Safe

ReaderSet == [pc : {"rests", "reads"}, todo : SUBSET {"arr", "len"}, arr : Nat, len : Nat,
              read : Seq(Slots)]

LEMMA TakeEffect ==
  ASSUME Safe, UpdaterTake
  PROVE  /\ signals' \in 0 .. SignalRoom /\ reader' \in ReaderSet
         /\ reader'.pc = "reads" /\ reader'.todo = {"arr", "len"} /\ reader'.read = << >>
         /\ reader.pc = "rests"
         /\ UNCHANGED << memory, actor, file, pushed, bounds, histories >>
<1>1. signals' \in 0 .. SignalRoom
  <2>1. signals \in 0 .. SignalRoom
    BY SafeParts DEF UpdaterOK
  <2> QED BY <2>1, BoundsAssumption DEF UpdaterTake
<1>2. << >> \in Seq(Slots)
  OBVIOUS
<1>3. reader' = [Resting EXCEPT !.pc = "reads"]
  BY DEF UpdaterTake
<1>4. /\ reader' \in ReaderSet
      /\ reader'.pc = "reads" /\ reader'.todo = {"arr", "len"} /\ reader'.read = << >>
  BY <1>2, <1>3 DEF Resting, ReaderSet
<1> QED BY <1>1, <1>4 DEF UpdaterTake

LEMMA LoadEffect ==
  ASSUME Safe, UpdaterLoad, NEW h, h = header["routes"]
  PROVE  /\ reader.pc = "reads" /\ reader' \in ReaderSet /\ reader'.pc = "reads"
         /\ \E word \in {"arr", "len"} :
              /\ word \in reader.todo
              /\ reader'.todo = reader.todo \ {word}
              /\ reader'.arr = (IF word = "arr" THEN h.arr ELSE reader.arr)
              /\ reader'.len = (IF word = "len" THEN h.len ELSE reader.len)
              /\ reader'.read = reader.read
         /\ h.arr \in 1 .. Len(heap)
         /\ UNCHANGED << memory, actor, file, signals, pushed, bounds, histories >>
<1>1. PICK word \in reader.todo :
        /\ reader.pc = "reads"
        /\ reader' = [reader EXCEPT !.todo = @ \ {word}, ![word] = h[word]]
        /\ UNCHANGED << memory, actor, file, signals, pushed, bounds, histories >>
  BY DEF UpdaterLoad
<1>2. reader \in ReaderSet /\ word \in {"arr", "len"}
  BY SafeParts DEF UpdaterOK, ReaderSet
<1>3. h \in Slices /\ h.arr \in 1 .. Len(heap) /\ h.arr \in Nat /\ h.len \in Nat
  BY SafeParts DEF Lists, Slices
<1>4. /\ reader' \in ReaderSet /\ reader'.pc = "reads" /\ reader'.todo = reader.todo \ {word}
      /\ reader'.arr = (IF word = "arr" THEN h.arr ELSE reader.arr)
      /\ reader'.len = (IF word = "len" THEN h.len ELSE reader.len)
      /\ reader'.read = reader.read
  <2>1. PICK left \in SUBSET {"arr", "len"} : left = reader.todo \ {word}
    BY <1>2 DEF ReaderSet
  <2>2. CASE word = "arr"
    <3>1. reader' = [reader EXCEPT !.todo = left, !.arr = h.arr]
      BY <1>1, <2>1, <2>2
    <3> QED BY <1>1, <1>2, <1>3, <2>1, <2>2, <3>1 DEF ReaderSet
  <2>3. CASE word = "len"
    <3>1. reader' = [reader EXCEPT !.todo = left, !.len = h.len]
      BY <1>1, <2>1, <2>3
    <3> QED BY <1>1, <1>2, <1>3, <2>1, <2>3, <3>1 DEF ReaderSet
  <2> QED BY <1>2, <2>2, <2>3
<1> QED BY <1>1, <1>2, <1>3, <1>4

LEMMA ReadEffect ==
  ASSUME Safe, UpdaterRead, NEW n, n = Len(reader.read)
  PROVE  /\ reader.pc = "reads" /\ reader.todo = {} /\ n \in Nat /\ n < reader.len
         /\ reader.len \in Nat
         /\ reader' \in ReaderSet /\ reader'.pc = "reads" /\ reader'.todo = {}
         /\ reader'.arr = reader.arr /\ reader'.len = reader.len
         /\ Len(reader'.read) = n + 1 /\ reader'.read[n + 1] = Slot(reader.arr, n + 1)
         /\ \A i \in 1 .. n : reader'.read[i] = reader.read[i]
         /\ UNCHANGED << memory, actor, file, signals, pushed, bounds, histories >>
<1>1. reader \in ReaderSet /\ ReaderInv
  BY SafeParts DEF UpdaterOK, ReaderSet
<1>2. PICK list \in Seq(Slots) : list = reader.read
  BY <1>1 DEF ReaderSet
<1>3. /\ reader.pc = "reads" /\ reader.todo = {} /\ n < reader.len
      /\ UNCHANGED << memory, actor, file, signals, pushed, bounds, histories >>
      /\ reader' = [reader EXCEPT !.read = Append(list, Slot(reader.arr, n + 1))]
  BY <1>2 DEF UpdaterRead
<1>4. Slot(reader.arr, n + 1) \in Slots
  <2>1. reader.arr \in 1 .. Len(heap)
    BY <1>1, <1>3 DEF ReaderInv
  <2>2. "routes" \in Lists
    BY DEF Lists
  <2> QED BY <2>1, <2>2, SafeParts, ContentsAre
<1>5. PICK new : new = Append(list, Slot(reader.arr, n + 1))
  OBVIOUS
<1>6. /\ new \in Seq(Slots) /\ Len(new) = n + 1 /\ n \in Nat
      /\ new[n + 1] = Slot(reader.arr, n + 1) /\ \A i \in 1 .. n : new[i] = list[i]
  BY <1>2, <1>4, <1>5, AppendedList
<1>7. reader' = [reader EXCEPT !.read = new]
  BY <1>3, <1>5
<1>8. /\ reader' \in ReaderSet /\ reader'.pc = "reads" /\ reader'.todo = {}
      /\ reader'.arr = reader.arr /\ reader'.len = reader.len /\ reader'.read = new
      /\ reader.len \in Nat
  BY <1>1, <1>3, <1>6, <1>7 DEF ReaderSet
<1> QED BY <1>2, <1>3, <1>6, <1>8

LEMMA PushEffect ==
  ASSUME Safe, UpdaterPush
  PROVE  /\ reader.pc = "reads" /\ reader.todo = {} /\ Len(reader.read) = reader.len
         /\ reader' = Resting /\ reader' \in ReaderSet /\ reader'.pc = "rests"
         /\ pushed' = reader.read /\ pushed' \in Seq(Slots)
         /\ UNCHANGED << memory, actor, file, signals, bounds, histories >>
<1>1. << >> \in Seq(Slots)
  OBVIOUS
<1>2. Resting \in ReaderSet /\ Resting.pc = "rests"
  BY <1>1 DEF Resting, ReaderSet
<1>3. reader.read \in Seq(Slots)
  BY SafeParts DEF UpdaterOK
<1> QED BY <1>2, <1>3 DEF UpdaterPush

LEMMA UpdaterSafe ==
  ASSUME Safe, Updater
  PROVE  Safe'
<1>1. UNCHANGED << memory, actor, file, bounds, histories >>
  BY DEF Updater, UpdaterTake, UpdaterLoad, UpdaterRead, UpdaterPush
<1>2. UpdaterOK' \/ ~ Updater
  <2>1. CASE UpdaterTake
    <3>1. /\ signals' \in 0 .. SignalRoom /\ reader' \in ReaderSet
          /\ reader'.todo = {"arr", "len"} /\ pushed' = pushed
      BY <2>1, TakeEffect
    <3> QED BY <3>1, SafeParts DEF UpdaterOK, ReaderSet, ReaderInv
  <2>2. CASE UpdaterLoad
    <3>1. PICK h : h = header["routes"]
      OBVIOUS
    <3>2. /\ reader.pc = "reads" /\ reader' \in ReaderSet
          /\ \E word \in {"arr", "len"} :
               /\ reader'.todo = reader.todo \ {word}
               /\ reader'.arr = (IF word = "arr" THEN h.arr ELSE reader.arr)
          /\ h.arr \in 1 .. Len(heap)
          /\ UNCHANGED << memory, signals, pushed >>
      BY <2>2, <3>1, LoadEffect
    <3>3. ReaderInv'
      BY <3>2, SafeParts DEF UpdaterOK, ReaderInv, memory
    <3> QED BY <3>2, <3>3, SafeParts DEF UpdaterOK, ReaderSet
  <2>3. CASE UpdaterRead
    <3>1. /\ reader.pc = "reads" /\ reader.todo = {} /\ reader' \in ReaderSet
          /\ reader'.arr = reader.arr /\ UNCHANGED << memory, signals, pushed >>
      BY <2>3, ReadEffect
    <3>2. ReaderInv'
      BY <3>1, SafeParts DEF UpdaterOK, ReaderInv, memory
    <3> QED BY <3>1, <3>2, SafeParts DEF UpdaterOK, ReaderSet
  <2>4. CASE UpdaterPush
    <3>1. /\ reader' \in ReaderSet /\ reader'.pc = "rests" /\ pushed' \in Seq(Slots)
          /\ UNCHANGED signals
      BY <2>4, PushEffect
    <3> QED BY <3>1, SafeParts DEF UpdaterOK, ReaderSet, ReaderInv
  <2> QED BY <2>1, <2>2, <2>3, <2>4 DEF Updater
<1> QED BY <1>1, <1>2, SafeAside

-----------------------------------------------------------------------------
(* The other process, the crash, and the start. *)

LEMMA CliSafe ==
  ASSUME Safe, NEW key \in Keys, CliAddNode(key)
  PROVE  Safe'
<1>1. PICK e : e = [id |-> NextId, key |-> key]
  OBVIOUS
<1>2. PICK d : d = [Load EXCEPT !.nodes = Append(Load.nodes, e)]
  OBVIOUS
<1>3. PICK a : a = [Free EXCEPT !.pc = "marshalled", !.op = "add", !.kind = "nodes",
                                !.entry = e, !.data = d]
  OBVIOUS
<1>4. e \in Entries /\ e \in Slots
  <2>1. e \in Entries
    BY <1>1, SafeParts, NewEntry DEF CliAddNode, RestOK
  <2> QED BY <2>1 DEF Slots
<1>5. d \in Configs
  <2>1. Load \in [Lists -> Seq(Slots)] /\ Load.nodes \in Seq(Slots)
    BY SafeParts, LoadIs DEF Configs, Lists
  <2>2. PICK list \in Seq(Slots) : list = Append(Load.nodes, e)
    BY <1>4, <2>1, AppendedList
  <2>3. d = [Load EXCEPT !["nodes"] = list]
    BY <1>2, <2>2
  <2> QED BY <2>1, <2>2, <2>3 DEF Configs
<1>6. a \in ActorSet /\ a.pc = "marshalled" /\ a.op = "add" /\ a.kind = "nodes"
      /\ a.entry = e /\ a.data = d
  BY <1>3, <1>4, <1>5 DEF Free, ActorSet, Pcs, Slots, Lists
<1>7. actor' = [actor EXCEPT ![Cli] = a] /\ Cli \in Savers
  BY <1>1, <1>2, <1>3 DEF CliAddNode, Savers
<1>8. OthersStay(Cli) /\ actor'[Cli] = a
  BY <1>6, <1>7, SafeParts, ActorBecomes
<1>9. ActorOK(Cli)'
  BY <1>4, <1>5, <1>6, <1>8 DEF ActorOK, Working, AtWork, Lists
<1>10. UNCHANGED << memory, file, updater, restarts, promised, torn >> /\ overlapped' = TRUE
  BY DEF CliAddNode
<1>11. requests' \in 0 .. MaxRequests
  <2>1. requests \in 0 .. MaxRequests
    BY SafeParts DEF RestOK
  <2> QED BY <2>1, BoundsAssumption DEF CliAddNode
<1>12. RestOK'
  BY <1>10, <1>11, SafeParts DEF RestOK
<1> QED BY <1>7, <1>8, <1>9, <1>10, <1>12, SameUpdater, SafeInPlace

(* Two lists that are loaded fill two arrays of their own lengths.         *)
LEMMA LoadedLists ==
  ASSUME NEW c \in Configs, NEW x, x = HeapOf(c), NEW h, h = HeadersOf(c)
  PROVE  /\ x \in Seq(Seq(Slots)) /\ Len(x) = 2 /\ h \in [Lists -> Slices]
         /\ \A k \in Lists : /\ h[k].arr = (IF k = "routes" THEN 1 ELSE 2)
                             /\ h[k].len = Len(c[k]) /\ h[k].cap = Len(c[k])
                             /\ x[h[k].arr] = c[k] /\ h[k].arr \in 1 .. Len(x)
<1>1. PICK r \in Seq(Slots), n \in Seq(Slots) : r = c["routes"] /\ n = c["nodes"]
  BY DEF Configs, Lists
<1>2. Len(r) \in Nat /\ Len(n) \in Nat
  BY ListDomain
<1>3. x = << r, n >>
  BY <1>1 DEF HeapOf
<1>4. x \in Seq(Seq(Slots)) /\ Len(x) = 2 /\ x[1] = r /\ x[2] = n
  BY <1>3
<1>5. h = [k \in Lists |-> [arr |-> IF k = "routes" THEN 1 ELSE 2, len |-> Len(c[k]), cap |-> Len(c[k])]]
  BY DEF HeadersOf
<1>6. \A k \in Lists : Len(c[k]) \in Nat
  BY <1>1, <1>2 DEF Lists
<1>7. \A k \in Lists :
        [arr |-> IF k = "routes" THEN 1 ELSE 2, len |-> Len(c[k]), cap |-> Len(c[k])] \in Slices
  BY <1>6 DEF Slices
<1>8. h \in [Lists -> Slices]
  BY <1>5, <1>7
<1>9. \A k \in Lists : /\ h[k].arr = (IF k = "routes" THEN 1 ELSE 2)
                       /\ h[k].len = Len(c[k]) /\ h[k].cap = Len(c[k])
  BY <1>5
<1>10. \A k \in Lists : x[h[k].arr] = c[k] /\ h[k].arr \in 1 .. Len(x)
  BY <1>1, <1>4, <1>9 DEF Lists
<1> QED BY <1>4, <1>8, <1>9, <1>10

LEMMA RestartEffect ==
  ASSUME Safe, Restart
  PROVE  /\ Load \in Configs
         /\ heap' \in Seq(Seq(Slots)) /\ Len(heap') = 2 /\ header' \in [Lists -> Slices]
         /\ \A k \in Lists : /\ header'[k].arr = (IF k = "routes" THEN 1 ELSE 2)
                             /\ header'[k].len = Len(Load[k]) /\ header'[k].cap = Len(Load[k])
                             /\ heap'[header'[k].arr] = Load[k]
                             /\ header'[k].arr \in 1 .. Len(heap')
         /\ actor' \in [Savers -> ActorSet] /\ actor'[Cli] = actor[Cli]
         /\ \A p \in Admins : actor'[p] = Free
         /\ \A p \in Savers : ActorOK(p)'
         /\ signals' = 0 /\ reader' = Resting /\ pushed' = None
         /\ restarts' = restarts + 1 /\ torn' = (torn \/ file.config = None)
         /\ UNCHANGED << file, requests, promised, overlapped >>
<1>1. Load \in Configs
  BY SafeParts, LoadIs
<1>2. heap' = HeapOf(Load) /\ header' = HeadersOf(Load)
  BY DEF Restart
<1>3. /\ heap' \in Seq(Seq(Slots)) /\ Len(heap') = 2 /\ header' \in [Lists -> Slices]
      /\ \A k \in Lists : /\ header'[k].arr = (IF k = "routes" THEN 1 ELSE 2)
                          /\ header'[k].len = Len(Load[k]) /\ header'[k].cap = Len(Load[k])
                          /\ heap'[header'[k].arr] = Load[k]
                          /\ header'[k].arr \in 1 .. Len(heap')
  <2>1. PICK c, x, h : c \in Configs /\ c = Load /\ x = HeapOf(c) /\ h = HeadersOf(c)
    BY <1>1
  <2> QED BY <1>2, <2>1, LoadedLists
<1>4. actor' = [p \in Savers |-> IF p = Cli THEN actor[p] ELSE Free]
  BY DEF Restart
<1>5. /\ actor' \in [Savers -> ActorSet] /\ actor'[Cli] = actor[Cli]
      /\ \A p \in Admins : actor'[p] = Free
  BY <1>4, SafeParts, FreeActor, ActorsAssumption DEF Savers
<1>6. \A p \in Savers : ActorOK(p)'
  <2>1. ASSUME NEW p \in Admins PROVE ActorOK(p)'
    BY <1>5 DEF ActorOK, Working, AtWork, Free
  <2>2. ActorOK(Cli)'
    <3>1. ActorOK(Cli)
      BY SafeParts DEF ActorInv, Savers
    <3>2. actor[Cli].pc # "begun" /\ actor[Cli].pc # "fetched"
      BY <3>1, ActorsAssumption DEF ActorOK, Working
    <3> QED BY <1>5, <3>1, <3>2 DEF ActorOK, Working, AtWork
  <2> QED BY <2>1, <2>2 DEF Savers
<1> QED BY <1>1, <1>3, <1>5, <1>6 DEF Restart

LEMMA RestingOK == Resting \in ReaderSet /\ Resting.pc = "rests"
<1>1. << >> \in Seq(Slots)
  OBVIOUS
<1> QED BY <1>1 DEF Resting, ReaderSet

LEMMA RestartSafe ==
  ASSUME Safe, Restart
  PROVE  Safe'
<1>1. RestOK'
  <2>1. restarts \in 0 .. MaxRestarts /\ restarts < MaxRestarts /\ torn \in BOOLEAN
    BY SafeParts DEF RestOK, Restart
  <2>2. restarts' \in 0 .. MaxRestarts
    BY <2>1, RestartEffect, BoundsAssumption
  <2>3. torn' \in BOOLEAN
    BY RestartEffect, Zenon
  <2> QED BY <2>2, <2>3, RestartEffect, SafeParts DEF RestOK
<1>2. ReaderInv' /\ UpdaterOK'
  BY RestartEffect, RestingOK, BoundsAssumption DEF UpdaterOK, ReaderSet, ReaderInv
<1>3. TypeOK'
  <2>1. heap' \in Seq(Seq(Slots)) /\ header' \in [Lists -> Slices] /\ actor' \in [Savers -> ActorSet]
        /\ \A k \in Lists : header'[k].arr <= Len(heap')
    BY RestartEffect
  <2> QED BY <1>1, <1>2, <2>1 DEF TypeOK, RestOK, UpdaterOK, ActorSet, Pcs
<1>4. ActorInv'
  BY RestartEffect DEF ActorInv
<1> QED BY <1>2, <1>3, <1>4 DEF Safe

LEMMA InitSafe ==
  ASSUME Init
  PROVE  Safe
<1>1. file = [size |-> Size(Saved), config |-> Saved] /\ Saved \in Configs
  BY SavedIs DEF Init
<1>2. /\ heap \in Seq(Seq(Slots)) /\ Len(heap) = 2 /\ header \in [Lists -> Slices]
      /\ \A k \in Lists : header[k].arr \in 1 .. Len(heap)
  <2>1. PICK c, x, h : c \in Configs /\ c = Saved /\ x = HeapOf(c) /\ h = HeadersOf(c)
    BY <1>1
  <2>2. heap = x /\ header = h
    BY <2>1 DEF Init
  <2> QED BY <2>1, <2>2, LoadedLists
<1>3. actor \in [Savers -> ActorSet] /\ \A p \in Savers : actor[p] = Free
  BY FreeActor DEF Init
<1>4. RestOK
  <2>1. promised \subseteq Entries
    <3>1. PICK x \in Seq(Entries), y \in Seq(Entries) : x = Saved.routes /\ y = Saved.nodes
      BY SavedIs
    <3>2. promised = {x[i] : i \in DOMAIN x} \cup {y[i] : i \in DOMAIN y}
      BY <3>1 DEF Init, ToSet
    <3>3. /\ DOMAIN x = 1 .. Len(x) /\ DOMAIN y = 1 .. Len(y)
          /\ \A i \in 1 .. Len(x) : x[i] \in Entries
          /\ \A i \in 1 .. Len(y) : y[i] \in Entries
      BY ListDomain
    <3> QED BY <3>2, <3>3
  <2>2. file.size = Size(Saved) /\ Size(Saved) \in Nat /\ file.config = Saved
    BY <1>1, SizeIs
  <2>3. file \in [size : Nat, config : Configs \cup {None}]
    BY <1>1, <2>2
  <2>4. requests = 0 /\ restarts = 0 /\ overlapped = FALSE /\ torn = FALSE
    BY DEF Init
  <2>5. requests \in 0 .. MaxRequests /\ restarts \in 0 .. MaxRestarts
    BY <2>4, BoundsAssumption
  <2>6. {overlapped, torn} \subseteq BOOLEAN
    BY <2>4, Zenon
  <2> QED BY <2>1, <2>3, <2>5, <2>6 DEF RestOK
<1>5. ReaderInv /\ UpdaterOK
  BY RestingOK, BoundsAssumption DEF Init, UpdaterOK, ReaderSet, ReaderInv
<1>6. TypeOK
  <2>1. PICK n : n = Len(heap) /\ n = 2
    BY <1>2
  <2>2. \A k \in Lists : header[k].arr \in 1 .. n
    BY <1>2, <2>1
  <2>3. \A k \in Lists : header[k].arr <= n
    BY <2>1, <2>2
  <2>4. \A k \in Lists : header[k].arr <= Len(heap)
    BY <2>1, <2>3
  <2> QED BY <1>2, <1>3, <1>4, <1>5, <2>4, TypeParts
<1>7. ActorInv
  BY <1>3 DEF ActorInv, ActorOK, Working, AtWork, Free
<1> QED BY <1>5, <1>6, <1>7 DEF Safe

LEMMA SafeInvariant ==
  ASSUME Safe, [Next]_vars
  PROVE  Safe'
<1>1. ASSUME NEW p \in Admins, Request(p)
      PROVE  Safe'
  <2>1. CASE \E k \in Kinds, key \in Keys : Add(p, k, key)
    BY <2>1, AddSafe
  <2>2. CASE \E k \in Kinds : Delete(p, k)
    BY <2>2, DeleteSafe
  <2> QED BY <1>1, <2>1, <2>2 DEF Request
<1>2. ASSUME NEW p \in Admins, Change(p)
      PROVE  Safe'
  BY <1>2, FetchSafe, PanicSafe, MoveSafe, StoreSafe, MarshalSafe DEF Change
<1>3. ASSUME NEW p \in Savers, Save(p)
      PROVE  Safe'
  BY <1>3, TruncateSafe, PutSafe DEF Save
<1>4. ASSUME UNCHANGED vars
      PROVE  Safe'
  <2>1. UNCHANGED << memory, actor, file, updater, bounds, histories >>
    BY <1>4 DEF vars
  <2>2. UpdaterOK'
    BY <2>1, SameUpdater
  <2> QED BY <2>1, <2>2, SafeAside
<1> QED BY <1>1, <1>2, <1>3, <1>4, SignalSafe, UpdaterSafe, CliSafe, RestartSafe DEF Next

(* Every variable keeps its type, every list has an array of the heap and  *)
(* no signal is left without a place in SignalChannel, in whatever order   *)
(* the requests, the command and routeUpdater take their steps.            *)
THEOREM TypeCorrect == Spec => []TypeOK
<1>1. Safe => TypeOK
  BY DEF Safe
<1> QED BY <1>1, InitSafe, SafeInvariant, PTL DEF Spec

-----------------------------------------------------------------------------
(* Requests that come one at a time: what the lists are made of while one  *)
(* of them is under way.                                                   *)

(* A list nobody stores to lies in its array and is made of entries.       *)
Whole(k) ==
  /\ header[k].len <= header[k].cap /\ header[k].cap = Len(heap[header[k].arr])
  /\ \A i \in 1 .. header[k].len : Slot(header[k].arr, i) \in Entries
WholeInv ==
  \A k \in Lists : (\A p \in Savers : actor[p].pc = "fetched" => actor[p].kind # k) => Whole(k)

(* The request that stores has a slice s of an array that the other list   *)
(* does not share, and remembers the list b as it was: s is to be b with   *)
(* the new entry behind it, or b without the entry at d, of whose tail     *)
(* what lies below `at' has moved.                                         *)
InHand(p, k, s, b) ==
  /\ b \in Seq(Entries)
  /\ s.cap = Len(heap[s.arr]) /\ s.len <= s.cap
  /\ \A j \in Lists \ {k} : header[j].arr # s.arr
  /\ \A w \in Words \ actor[p].todo : header[k][w] = s[w]
Longer(p, s, b) ==
  /\ s.len = Len(b) + 1
  /\ \A i \in 1 .. Len(b) : Slot(s.arr, i) = b[i]
  /\ "slot" \notin actor[p].todo => Slot(s.arr, s.len) = actor[p].entry
MovedFrom(p, s, b, d) ==
  /\ d <= actor[p].at /\ b[d] = actor[p].entry
  /\ \A j \in 1 .. Len(b) :
       Slot(s.arr, j) = IF d <= j /\ j < actor[p].at THEN b[j + 1] ELSE b[j]
Shorter(p, s, b) ==
  /\ "slot" \notin actor[p].todo
  /\ s.len = Len(b) - 1 /\ Len(b) <= s.cap /\ actor[p].at <= Len(b)
  /\ \E d \in 1 .. Len(b) : MovedFrom(p, s, b, d)
HandOK(p) ==
  /\ InHand(p, actor[p].kind, actor[p].slice, actor[p].before)
  /\ actor[p].op = "add" => Longer(p, actor[p].slice, actor[p].before)
  /\ actor[p].op = "delete" => Shorter(p, actor[p].slice, actor[p].before)
HandInv == \A p \in Savers : actor[p].pc = "fetched" => HandOK(p)

(* One request is under way; the lists have arrays of their own; a         *)
(* deletion has found its entry; what was marshalled is the memory, and    *)
(* the file is empty while it is written; it never holds anything but      *)
(* entries.                                                                *)
AloneInv ==
  /\ actor[Cli].pc = "free"
  /\ \A p, q \in Savers : AtWork(p) /\ AtWork(q) => p = q
ApartInv == header["routes"].arr # header["nodes"].arr
AimOK(p) ==
  actor[p].pc = "begun" /\ actor[p].op = "delete" =>
    /\ actor[p].at <= header[actor[p].kind].len
    /\ Contents(actor[p].kind)[actor[p].at] = actor[p].entry
AimInv == \A p \in Savers : AimOK(p)
DataOK(p) ==
  /\ actor[p].pc \in {"marshalled", "truncated"} => actor[p].data = Memory
  /\ actor[p].pc = "truncated" => file = [size |-> 0, config |-> None]
DataInv == \A p \in Savers : DataOK(p)
LoadInv == \A k \in Lists : Load[k] \in Seq(Entries)

Sequential == AloneInv /\ ApartInv /\ WholeInv /\ HandInv /\ AimInv /\ DataInv /\ LoadInv

LEMMA SequentialParts ==
  ASSUME Sequential
  PROVE  AloneInv /\ ApartInv /\ WholeInv /\ HandInv /\ AimInv /\ DataInv /\ LoadInv
BY DEF Sequential

LEMMA TheOnlyOne ==
  ASSUME AloneInv, NEW p \in Savers, AtWork(p), OthersStay(p)
  PROVE  p \in Admins /\ \A q \in Savers \ {p} : ~ AtWork(q) /\ ~ AtWork(q)'
<1>1. p # Cli
  BY DEF AloneInv, AtWork
<1> QED BY <1>1 DEF AloneInv, OthersStay, AtWork, Savers

LEMMA StaysAlone ==
  ASSUME AloneInv, NEW p \in Admins, AtWork(p) \/ Quiet, OthersStay(p)
  PROVE  AloneInv'
<1>1. p \in Savers /\ p # Cli /\ Cli \in Savers
  BY ActorsAssumption DEF Savers
<1>2. \A q \in Savers \ {p} : ~ AtWork(q)
  BY <1>1 DEF AloneInv, Quiet
<1>3. \A q \in Savers \ {p} : ~ AtWork(q)' /\ actor'[q] = actor[q]
  BY <1>2 DEF OthersStay, AtWork
<1> QED BY <1>1, <1>3 DEF AloneInv

(* The lists stay as they are.                                             *)
LEMMA SequentialInPlace ==
  ASSUME Safe, Sequential, NEW p \in Savers, UNCHANGED memory, OthersStay(p),
         actor[p].pc # "fetched", actor'[p].pc # "fetched", AloneInv', AimOK(p)', DataOK(p)',
         file' = file \/ \A q \in Savers \ {p} : ~ AtWork(q), LoadInv'
  PROVE  Sequential'
<1>1. /\ heap' = heap /\ header' = header /\ Memory' = Memory
      /\ \A k : Contents(k)' = Contents(k)
  BY DEF memory, Memory, Contents, Slot
<1>2. \A q \in Savers \ {p} : actor'[q] = actor[q]
  BY DEF OthersStay
<1>3. ApartInv' /\ WholeInv'
  <2>1. \A k \in Lists : Whole(k) => Whole(k)'
    BY <1>1 DEF Whole, Slot
  <2>2. \A q \in Savers : actor[q].pc = "fetched" <=> actor'[q].pc = "fetched"
    BY <1>2
  <2>3. \A q \in Savers : actor[q].pc = "fetched" => actor'[q] = actor[q]
    BY <1>2
  <2> QED BY <1>1, <2>1, <2>2, <2>3, SequentialParts DEF ApartInv, WholeInv
<1>4. HandInv'
  <2> SUFFICES ASSUME NEW q \in Savers, actor'[q].pc = "fetched"
               PROVE  HandOK(q)'
    BY DEF HandInv
  <2>1. actor'[q] = actor[q] /\ HandOK(q)
    BY <1>2, SequentialParts DEF HandInv
  <2> QED BY <1>1, <2>1 DEF HandOK, InHand, Longer, Shorter, MovedFrom, Slot
<1>5. AimInv'
  <2> SUFFICES ASSUME NEW q \in Savers \ {p}
               PROVE  AimOK(q)'
    BY DEF AimInv
  <2>1. actor'[q] = actor[q] /\ AimOK(q)
    BY <1>2, SequentialParts DEF AimInv
  <2> QED BY <1>1, <2>1 DEF AimOK
<1>6. DataInv'
  <2> SUFFICES ASSUME NEW q \in Savers \ {p}
               PROVE  DataOK(q)'
    BY DEF DataInv
  <2>1. actor'[q] = actor[q] /\ DataOK(q)
    BY <1>2, SequentialParts DEF DataInv
  <2> QED BY <1>1, <2>1 DEF DataOK, AtWork
<1> QED BY <1>3, <1>4, <1>5, <1>6 DEF Sequential

(* The request under way changes its own list.                             *)
LEMMA SequentialChange ==
  ASSUME Safe, Sequential, NEW p \in Savers, AtWork(p), OthersStay(p), SameJob(p),
         actor'[p].pc \in {"fetched", "stored"},
         NEW k \in Lists, k = actor[p].kind, file' = file,
         \A j \in Lists \ {k} : header'[j] = header[j] /\ heap'[header[j].arr] = heap[header[j].arr],
         ApartInv', actor'[p].pc = "fetched" => HandOK(p)', actor'[p].pc = "stored" => Whole(k)'
  PROVE  Sequential'
<1>1. p \in Admins /\ \A q \in Savers \ {p} : ~ AtWork(q) /\ ~ AtWork(q)'
  BY SequentialParts, TheOnlyOne
<1>2. AloneInv'
  BY <1>1, SequentialParts, StaysAlone
<1>3. WholeInv'
  <2>1. ASSUME NEW j \in Lists \ {k}
        PROVE  Whole(j)'
    <3>1. Whole(j)
      <4>1. \A q \in Savers : actor[q].pc = "fetched" => actor[q].kind # j
        BY <1>1 DEF AtWork
      <4> QED BY <4>1, SequentialParts DEF WholeInv
    <3>2. header'[j] = header[j] /\ heap'[header[j].arr] = heap[header[j].arr]
      OBVIOUS
    <3> QED BY <3>1, <3>2 DEF Whole, Slot
  <2>2. ASSUME \A q \in Savers : actor'[q].pc = "fetched" => actor'[q].kind # k
        PROVE  Whole(k)'
    BY <2>2 DEF SameJob
  <2> QED BY <2>1, <2>2 DEF WholeInv
<1>4. HandInv'
  BY <1>1 DEF HandInv, AtWork
<1>5. AimInv' /\ DataInv'
  BY <1>1 DEF AimInv, AimOK, DataInv, DataOK, AtWork
<1>6. LoadInv'
  BY SequentialParts DEF LoadInv, Load
<1> QED BY <1>2, <1>3, <1>4, <1>5, <1>6 DEF Sequential

(* With nobody at work on it a list is a list of entries.                  *)
LEMMA WholeList ==
  ASSUME TypeOK, NEW k \in Lists, Whole(k)
  PROVE  Contents(k) \in Seq(Entries)
<1>1. PICK b, n, a : b = Contents(k) /\ n = header[k].len /\ a = header[k].arr
  OBVIOUS
<1>2. b \in Seq(Slots) /\ Len(b) = n /\ n \in Nat /\ \A i \in 1 .. n : b[i] = Slot(a, i)
  BY <1>1, ContentsAre
<1>3. \A i \in 1 .. n : b[i] \in Entries
  BY <1>1, <1>2 DEF Whole
<1>4. b = [i \in 1 .. n |-> b[i]]
  BY <1>2
<1>5. [i \in 1 .. n |-> b[i]] \in Seq(Entries)
  BY <1>2, <1>3
<1> QED BY <1>1, <1>4, <1>5

LEMMA NobodyStores ==
  ASSUME TypeOK, Sequential, \A p \in Savers : actor[p].pc # "fetched"
  PROVE  \A k \in Lists : Whole(k) /\ Contents(k) \in Seq(Entries) /\ Memory[k] = Contents(k)
<1>1. \A k \in Lists : Whole(k)
  BY SequentialParts DEF WholeInv
<1> QED BY <1>1, WholeList, MemoryIs

(* A request that arrives finds the others gone.                           *)
LEMMA ArriveSequential ==
  ASSUME Safe, Sequential, NEW p \in Admins, NEW k, OthersStay(p), Quiet,
         actor[p].pc = "free", actor'[p].pc = "begun", actor'[p].kind = k,
         actor'[p].op = "delete" =>
           actor'[p].at <= header[k].len /\ Contents(k)[actor'[p].at] = actor'[p].entry,
         UNCHANGED << memory, file >>
  PROVE  Sequential'
<1>1. p \in Savers
  BY DEF Savers
<1>2. AloneInv'
  BY <1>1, SequentialParts, StaysAlone
<1>3. header' = header /\ LoadInv' /\ \A j : Contents(j)' = Contents(j)
  BY SequentialParts DEF memory, Contents, Slot, LoadInv, Load
<1> HIDE DEF Contents
<1>4. AimOK(p)' /\ DataOK(p)'
  BY <1>1, <1>3 DEF AimOK, DataOK
<1> QED BY <1>1, <1>2, <1>3, <1>4, SequentialInPlace

LEMMA AddSequential ==
  ASSUME Safe, Sequential, NEW p, NEW k, NEW key \in Keys, Add(p, k, key), ~ overlapped'
  PROVE  Sequential'
<1>1. PICK e \in Entries : Arrive(p, k, "add", e, None)
  BY AddEffect
<1>2. UNCHANGED << memory, file >>
  BY AddEffect
<1>3. /\ p \in Admins /\ actor[p].pc = "free" /\ OthersStay(p) /\ actor'[p].pc = "begun"
      /\ actor'[p].op = "add" /\ actor'[p].kind = k /\ Quiet
  BY <1>1, ArriveEffect
<1> QED BY <1>2, <1>3, ArriveSequential

LEMMA DeleteSequential ==
  ASSUME Safe, Sequential, NEW p, NEW k, Delete(p, k), ~ overlapped'
  PROVE  Sequential'
<1>1. PICK i \in Nat \ {0}, e \in Entries :
        /\ Arrive(p, k, "delete", e, i)
        /\ e = Contents(k)[i] /\ i \in 1 .. header[k].len
        /\ UNCHANGED << memory, file >>
  BY DeleteEffect
<1>2. /\ p \in Admins /\ actor[p].pc = "free" /\ OthersStay(p) /\ actor'[p].pc = "begun"
      /\ actor'[p].op = "delete" /\ actor'[p].kind = k /\ k \in Lists
      /\ actor'[p].at = i /\ actor'[p].entry = e
      /\ ~ overlapped' => ~ overlapped /\ Quiet
  <2>1. Arrive(p, k, "delete", e, i)
    BY <1>1
  <2>2. /\ p \in Savers /\ p \in Admins /\ actor[p].pc = "free" /\ OthersStay(p)
        /\ actor'[p].pc = "begun" /\ actor'[p].kind = k /\ k \in Lists
    BY <2>1, ArriveEffect
  <2>3. actor'[p].op = "delete" /\ actor'[p].at = i /\ actor'[p].entry = e
    BY <2>1, <2>2, SafeParts DEF Arrive, Free
  <2>4. ~ overlapped' => ~ overlapped /\ Quiet
    BY <2>1, Zenon DEF Arrive, Quiet
  <2> QED BY <2>2, <2>3, <2>4
<1>3. i <= header[k].len
  <2>1. header[k].len \in Nat
    BY <1>2, SafeParts, ContentsAre
  <2> QED BY <1>1, <2>1
<1> QED BY <1>1, <1>2, <1>3, ArriveSequential

(* An addition takes the place behind the list, or a copy of it.           *)
LEMMA FetchToAddSequential ==
  ASSUME Safe, Sequential, NEW p \in Admins, FetchToAdd(p)
  PROVE  Sequential'
<1>1. PICK k, h, n, s, b : k = actor[p].kind /\ h = header[k] /\ n = Len(heap)
                           /\ s = actor'[p].slice /\ b = Contents(k)
  OBVIOUS
<1>2. /\ p \in Savers /\ k \in Lists /\ actor[p].pc = "begun" /\ actor[p].op = "add"
      /\ header' = header /\ Unrelated /\ HeapGrows /\ OthersStay(p) /\ SameJob(p)
      /\ actor'[p].pc = "fetched" /\ actor'[p].before = b
      /\ s \in Slices /\ s.arr \in 1 .. Len(heap') /\ s.len = h.len + 1
      /\ \A a \in 1 .. n : heap'[a] = heap[a] /\ \A i : Slot(a, i)' = Slot(a, i)
      /\ \/ /\ h.len < h.cap /\ heap' = heap
            /\ s.arr = h.arr /\ s.cap = h.cap /\ actor'[p].todo = {"len", "slot"}
         \/ /\ s.arr = n + 1 /\ actor'[p].todo = Words \cup {"slot"}
            /\ s.cap = Len(heap'[n + 1]) /\ s.len <= s.cap
            /\ \A i \in 1 .. h.len : Slot(n + 1, i)' = b[i]
  BY <1>1, FetchToAddEffect
<1>3. AtWork(p)
  BY <1>2 DEF AtWork
<1>4. \A q \in Savers : actor[q].pc # "fetched"
  BY <1>2, <1>3, SequentialParts, TheOnlyOne DEF AtWork
<1>5. /\ Whole(k) /\ b \in Seq(Entries) /\ Len(b) = h.len /\ h \in Slices
      /\ \A i \in 1 .. h.len : b[i] = Slot(h.arr, i)
      /\ h.len \in Nat /\ n \in Nat /\ h.cap \in Nat
      /\ \A j \in Lists : header[j].arr \in 1 .. n
  <2>1. Whole(k) /\ b \in Seq(Entries)
    BY <1>1, <1>2, <1>4, SafeParts, NobodyStores
  <2>2. /\ h \in Slices /\ Len(b) = h.len /\ n \in Nat
        /\ \A i \in 1 .. h.len : b[i] = Slot(h.arr, i)
    BY <1>1, <1>2, SafeParts, ContentsAre
  <2>3. \A j \in Lists : header[j].arr \in 1 .. n
    BY <1>1, SafeParts
  <2>4. h.len \in Nat /\ h.cap \in Nat
    BY <2>2 DEF Slices
  <2> QED BY <2>1, <2>2, <2>3, <2>4
<1>6. \A j \in Lists \ {k} : header[j].arr # h.arr
  BY <1>1, <1>2, SequentialParts DEF ApartInv, Lists
<1>7. InHand(p, k, s, b)'
  <2>1. CASE h.len < h.cap /\ heap' = heap /\ s.arr = h.arr /\ s.cap = h.cap
             /\ actor'[p].todo = {"len", "slot"}
    <3>1. s.cap = Len(heap'[s.arr]) /\ s.len <= s.cap
      <4>1. h.cap = Len(heap[h.arr])
        BY <1>1, <1>5 DEF Whole
      <4> QED BY <1>2, <1>5, <2>1, <4>1
    <3>2. \A w \in Words \ actor'[p].todo : header'[k][w] = s[w]
      BY <1>1, <1>2, <2>1 DEF Words
    <3> QED BY <1>2, <1>5, <1>6, <2>1, <3>1, <3>2 DEF InHand
  <2>2. CASE s.arr = n + 1 /\ actor'[p].todo = Words \cup {"slot"}
             /\ s.cap = Len(heap'[n + 1]) /\ s.len <= s.cap
    <3>1. \A j \in Lists : header'[j].arr # s.arr
      BY <1>2, <1>5, <2>2
    <3> QED BY <1>2, <1>5, <2>2, <3>1 DEF InHand
  <2> QED BY <1>2, <2>1, <2>2
<1>8. Longer(p, s, b)'
  <2>1. \A i \in 1 .. Len(b) : Slot(s.arr, i)' = b[i]
    BY <1>1, <1>2, <1>5
  <2> QED BY <1>2, <1>5, <2>1 DEF Longer
<1>9. HandOK(p)'
  BY <1>1, <1>2, <1>7, <1>8 DEF HandOK, SameJob
<1>10. /\ ApartInv' /\ file' = file
       /\ \A j \in Lists \ {k} : header'[j] = header[j] /\ heap'[header[j].arr] = heap[header[j].arr]
  BY <1>2, <1>5, SequentialParts DEF ApartInv, Unrelated
<1> QED BY <1>1, <1>2, <1>3, <1>9, <1>10, SequentialChange

(* A deletion starts with nothing moved.                                   *)
LEMMA FetchToDeleteSequential ==
  ASSUME Safe, Sequential, NEW p \in Admins, FetchToDelete(p)
  PROVE  Sequential'
<1>1. PICK k, h, s, b, d : k = actor[p].kind /\ h = header[k] /\ s = actor'[p].slice
                           /\ b = Contents(k) /\ d = actor[p].at
  OBVIOUS
<1>2. /\ p \in Savers /\ k \in Lists /\ actor[p].pc = "begun" /\ actor[p].op = "delete"
      /\ UNCHANGED memory /\ Unrelated /\ OthersStay(p) /\ SameJob(p)
      /\ actor'[p].pc = "fetched" /\ actor'[p].before = b
      /\ actor'[p].at = d /\ actor'[p].todo = Words
      /\ h.len \in Nat /\ d \in 1 .. h.len
      /\ s \in Slices /\ s.arr = h.arr /\ s.len = h.len - 1 /\ s.cap = h.cap
  BY <1>1, FetchToDeleteEffect
<1>3. AtWork(p) /\ heap' = heap /\ header' = header
  BY <1>2 DEF AtWork, memory
<1>4. \A q \in Savers : actor[q].pc # "fetched"
  BY <1>2, <1>3, SequentialParts, TheOnlyOne DEF AtWork
<1>5. /\ Whole(k) /\ b \in Seq(Entries) /\ Len(b) = h.len /\ h \in Slices
      /\ \A i \in 1 .. h.len : b[i] = Slot(h.arr, i)
  BY <1>1, <1>2, <1>4, SafeParts, NobodyStores, ContentsAre
<1>6. h.len <= h.cap /\ h.cap = Len(heap[h.arr]) /\ h.cap \in Nat
  BY <1>1, <1>5 DEF Whole, Slices
<1>7. \A j \in Lists \ {k} : header[j].arr # h.arr
  BY <1>1, <1>2, SequentialParts DEF ApartInv, Lists
<1>8. InHand(p, k, s, b)'
  BY <1>2, <1>3, <1>5, <1>6, <1>7 DEF InHand
<1>9. b[d] = actor[p].entry
  BY <1>1, <1>2, SequentialParts DEF AimInv, AimOK
<1>10. MovedFrom(p, s, b, d)'
  <2>1. \A j \in 1 .. Len(b) : Slot(s.arr, j)' = b[j]
    BY <1>2, <1>3, <1>5 DEF Slot
  <2>2. \A j \in 1 .. Len(b) : ~ (d <= j /\ j < d)
    BY <1>2, <1>5
  <2> QED BY <1>2, <1>9, <2>1, <2>2 DEF MovedFrom, SameJob
<1>11. Shorter(p, s, b)'
  <2>1. "slot" \notin actor'[p].todo
    BY <1>2 DEF Words
  <2>2. s.len = Len(b) - 1 /\ Len(b) <= s.cap /\ actor'[p].at <= Len(b) /\ d \in 1 .. Len(b)
    BY <1>2, <1>5, <1>6
  <2> QED BY <1>10, <2>1, <2>2 DEF Shorter
<1>12. HandOK(p)'
  BY <1>1, <1>2, <1>8, <1>11 DEF HandOK, SameJob
<1>13. ApartInv' /\ file' = file
  BY <1>2, <1>3, SequentialParts DEF ApartInv, Unrelated
<1> QED BY <1>1, <1>2, <1>3, <1>12, <1>13, SequentialChange

(* One entry moves down.                                                   *)
LEMMA MoveSequential ==
  ASSUME Safe, Sequential, NEW p \in Admins, Move(p)
  PROVE  Sequential'
<1>1. PICK k, s, b, i : k = actor[p].kind /\ s = actor[p].slice /\ b = actor[p].before
                        /\ i = actor[p].at
  OBVIOUS
<1>2. /\ p \in Savers /\ actor[p].pc = "fetched" /\ actor[p].op = "delete"
      /\ i \in Nat \ {0} /\ s \in Slices /\ s.arr \in 1 .. Len(heap) /\ i <= s.len
      /\ SetSlot(s.arr, i, Slot(s.arr, i + 1)) /\ Slot(s.arr, i + 1) \in Slots
      /\ header' = header /\ Unrelated
      /\ OthersStay(p) /\ SameJob(p) /\ SameSlice(p) /\ actor'[p].pc = "fetched"
      /\ actor'[p].at = i + 1 /\ actor'[p].todo = actor[p].todo
  BY <1>1, MoveEffect
<1>3. k \in Lists /\ AtWork(p)
  BY <1>1, <1>2, SafeParts DEF ActorInv, ActorOK, AtWork
<1>4. InHand(p, k, s, b) /\ Shorter(p, s, b)
  BY <1>1, <1>2, SequentialParts DEF HandInv, HandOK
<1>5. PICK d \in 1 .. Len(b) : MovedFrom(p, s, b, d)
  BY <1>4 DEF Shorter
<1>6. b \in Seq(Entries) /\ Len(b) \in Nat /\ s.len = Len(b) - 1 /\ Len(b) <= s.cap
      /\ s.cap = Len(heap[s.arr])
  BY <1>4, ListDomain DEF InHand, Shorter
<1>7. PICK a, e : a = s.arr /\ e = Slot(a, i + 1)
  OBVIOUS
<1>8. /\ \A c \in 1 .. Len(heap) : DOMAIN heap'[c] = DOMAIN heap[c] /\ Len(heap'[c]) = Len(heap[c])
      /\ \A c \in 1 .. Len(heap) : \A j :
           Slot(c, j)' = IF c = a /\ j = i /\ i \in DOMAIN heap[a] THEN e ELSE Slot(c, j)
  <2>1. TypeOK /\ a \in 1 .. Len(heap) /\ e \in Slots /\ SetSlot(a, i, e)
    BY <1>2, <1>7, SafeParts
  <2> QED BY <2>1, SlotSet, Zenon
<1>9. i \in DOMAIN heap[a]
  <2>1. PICK array, m : array = heap[a] /\ m = Len(array)
    OBVIOUS
  <2>2. heap \in Seq(Seq(Slots)) /\ a \in 1 .. Len(heap)
    BY <1>2, <1>7, SafeParts
  <2>3. array \in Seq(Slots)
    BY <2>1, <2>2, ListDomain
  <2>4. DOMAIN array = 1 .. m /\ m \in Nat
    BY <2>1, <2>3, ListDomain
  <2>5. i <= m
    BY <1>2, <1>6, <1>7, <2>1
  <2> QED BY <1>2, <2>1, <2>4, <2>5
<1>10. e = b[i + 1]
  <2>1. i + 1 \in 1 .. Len(b) /\ ~ (i + 1 < i)
    BY <1>2, <1>6
  <2>2. \A j \in 1 .. Len(b) : Slot(s.arr, j) = IF d <= j /\ j < i THEN b[j + 1] ELSE b[j]
    BY <1>1, <1>5 DEF MovedFrom
  <2> QED BY <1>7, <2>1, <2>2
<1>11. MovedFrom(p, s, b, d)'
  <2>1. \A j \in 1 .. Len(b) : Slot(s.arr, j)' = IF j = i THEN b[i + 1] ELSE Slot(s.arr, j)
    BY <1>2, <1>7, <1>8, <1>9, <1>10
  <2>2. \A j \in 1 .. Len(b) : Slot(s.arr, j) = IF d <= j /\ j < i THEN b[j + 1] ELSE b[j]
    BY <1>1, <1>5 DEF MovedFrom
  <2>3. d <= i /\ b[d] = actor[p].entry
    BY <1>1, <1>5 DEF MovedFrom
  <2>4. \A j \in 1 .. Len(b) : Slot(s.arr, j)' = IF d <= j /\ j < i + 1 THEN b[j + 1] ELSE b[j]
    BY <1>2, <1>6, <2>1, <2>2, <2>3
  <2>5. d <= i + 1
    BY <1>2, <1>6, <2>3
  <2> QED BY <1>2, <2>3, <2>4, <2>5 DEF MovedFrom, SameJob
<1>12. Shorter(p, s, b)'
  <2>1. i + 1 <= Len(b)
    BY <1>2, <1>6
  <2> QED BY <1>2, <1>4, <1>11, <2>1 DEF Shorter
<1>13. InHand(p, k, s, b)'
  BY <1>2, <1>4, <1>7, <1>8 DEF InHand
<1>14. HandOK(p)'
  BY <1>1, <1>2, <1>12, <1>13 DEF HandOK, SameJob, SameSlice
<1>15. ASSUME NEW j \in Lists \ {k}
       PROVE  heap'[header[j].arr] = heap[header[j].arr]
  <2>1. header[j].arr # s.arr
    BY <1>4 DEF InHand
  <2> QED BY <1>2, <2>1 DEF SetSlot
<1>16. ApartInv' /\ file' = file
  BY <1>2, SequentialParts DEF ApartInv, Unrelated
<1> QED BY <1>1, <1>2, <1>3, <1>14, <1>15, <1>16, SequentialChange

(* When every store is done the list is what the request was to make of it. *)
Done(p, k, b) ==
  /\ Whole(k) /\ Contents(k) \in Seq(Entries)
  /\ actor[p].op = "add" => Contents(k) = Append(b, actor[p].entry)
  /\ actor[p].op = "delete" =>
       \E d \in 1 .. Len(b) : b[d] = actor[p].entry /\ Contents(k) = RemoveAt(b, d)
DoneIf(p) ==
  /\ actor[p].kind \in Lists /\ actor[p].op \in {"add", "delete"} /\ actor[p].entry \in Entries
  /\ actor[p].op = "delete" => actor[p].at \in Nat \ {0}
  /\ actor[p].slice \in Slices
  /\ HandOK(p) /\ actor[p].todo = {} /\ Moved(p)

LEMMA HandDone == Safe => \A p \in Savers : DoneIf(p) => Done(p, actor[p].kind, actor[p].before)
<1> SUFFICES ASSUME Safe, NEW p \in Savers, DoneIf(p)
             PROVE  Done(p, actor[p].kind, actor[p].before)
  OBVIOUS
<1>1. PICK k, s, b, e, list : k = actor[p].kind /\ s = actor[p].slice /\ b = actor[p].before
                              /\ e = actor[p].entry /\ list = Contents(k)
  OBVIOUS
<1>2. /\ k \in Lists /\ e \in Entries /\ s \in Slices /\ actor[p].op \in {"add", "delete"}
      /\ InHand(p, k, s, b) /\ actor[p].todo = {} /\ Moved(p)
      /\ actor[p].op = "add" => Longer(p, s, b)
      /\ actor[p].op = "delete" => Shorter(p, s, b) /\ actor[p].at \in Nat \ {0}
  BY <1>1 DEF DoneIf, HandOK
<1>3. header[k].arr = s.arr /\ header[k].len = s.len /\ header[k].cap = s.cap
  <2>1. \A w \in Words : header[k][w] = s[w]
    BY <1>2 DEF InHand
  <2> QED BY <2>1 DEF Words
<1>4. /\ list \in Seq(Slots) /\ Len(list) = s.len /\ s.len \in Nat
      /\ \A i \in 1 .. s.len : list[i] = Slot(s.arr, i)
  BY <1>1, <1>2, <1>3, SafeParts, ContentsAre
<1>5. b \in Seq(Entries) /\ Len(b) \in Nat /\ \A i \in 1 .. Len(b) : b[i] \in Entries
  BY <1>2, ListDomain DEF InHand
<1>6. header[k].len <= header[k].cap /\ header[k].cap = Len(heap[header[k].arr])
  BY <1>2, <1>3 DEF InHand
<1>7. ASSUME \A i \in 1 .. s.len : list[i] \in Entries
      PROVE  Whole(k) /\ list \in Seq(Entries)
  <2>1. Whole(k)
    BY <1>3, <1>4, <1>6, <1>7 DEF Whole
  <2> QED BY <1>1, <1>2, <2>1, SafeParts, WholeList
<1>8. CASE actor[p].op = "add"
  <2>1. s.len = Len(b) + 1 /\ Slot(s.arr, s.len) = e /\ \A i \in 1 .. Len(b) : Slot(s.arr, i) = b[i]
    BY <1>1, <1>2, <1>8 DEF Longer
  <2>2. /\ Append(b, e) \in Seq(Entries) /\ Len(Append(b, e)) = s.len
        /\ \A i \in 1 .. Len(b) : Append(b, e)[i] = b[i] /\ Append(b, e)[s.len] = e
    BY <1>2, <1>5, <2>1, AppendedList
  <2>3. \A i \in 1 .. s.len : list[i] = Append(b, e)[i]
    BY <1>4, <1>5, <2>1, <2>2
  <2>4. \A i \in 1 .. s.len : list[i] \in Entries
    BY <1>2, <1>4, <1>5, <2>1
  <2>5. Whole(k) /\ list \in Seq(Entries)
    BY <1>7, <2>4
  <2>6. list = Append(b, e)
    BY <1>4, <2>2, <2>3, <2>5, SeqEqual
  <2> QED BY <1>1, <1>8, <2>5, <2>6 DEF Done
<1>9. CASE actor[p].op = "delete"
  <2>1. PICK n \in Nat, at \in Nat : n = Len(b) /\ at = actor[p].at
    BY <1>2, <1>5, <1>9
  <2>2. s.len = n - 1 /\ at <= n /\ at > s.len
    BY <1>1, <1>2, <1>9, <2>1 DEF Shorter, Moved
  <2>3. PICK d \in 1 .. n : MovedFrom(p, s, b, d)
    BY <1>2, <1>9, <2>1 DEF Shorter
  <2>4. b[d] = e /\ \A i \in 1 .. n : Slot(s.arr, i) = IF d <= i /\ i < at THEN b[i + 1] ELSE b[i]
    BY <1>1, <2>1, <2>3 DEF MovedFrom
  <2>5. \A i \in 1 .. n - 1 : list[i] = IF i < d THEN b[i] ELSE b[i + 1]
    BY <1>4, <2>2, <2>4
  <2>6. PICK rest : rest = RemoveAt(b, d)
    OBVIOUS
  <2>7. /\ rest \in Seq(Entries) /\ Len(rest) = n - 1
        /\ \A i \in 1 .. n - 1 : rest[i] = IF i < d THEN b[i] ELSE b[i + 1]
    <3>1. rest = SubSeq(b, 1, d - 1) \o SubSeq(b, d + 1, Len(b))
      BY <2>6 DEF RemoveAt
    <3> QED BY <1>5, <2>1, <3>1, ListWithout
  <2>8. \A i \in 1 .. s.len : list[i] \in Entries
    BY <1>5, <2>1, <2>2, <2>5
  <2>9. Whole(k) /\ list \in Seq(Entries)
    BY <1>7, <2>8
  <2>10. list = rest
    BY <1>4, <2>2, <2>5, <2>7, <2>9, SeqEqual
  <2> QED BY <1>1, <1>9, <2>1, <2>4, <2>6, <2>9, <2>10 DEF Done
<1> QED BY <1>2, <1>8, <1>9

LEMMA HandDoneNext == Safe' => (\A p \in Savers : DoneIf(p) => Done(p, actor[p].kind, actor[p].before))'
BY HandDone, PTL

(* Each store brings the list nearer to it.                                *)
LEMMA StoreHand ==
  ASSUME Safe, Sequential, NEW p \in Admins, Store(p), NEW k, k = actor[p].kind,
         NEW s, s = actor[p].slice, NEW b, b = actor[p].before
  PROVE  /\ HandOK(p)' /\ ApartInv' /\ AtWork(p) /\ k \in Lists /\ p \in Savers
         /\ OthersStay(p) /\ SameJob(p) /\ SameSlice(p) /\ Unrelated
         /\ \A j \in Lists \ {k} : header'[j] = header[j] /\ heap'[header[j].arr] = heap[header[j].arr]
         /\ actor[p].pc = "fetched"
         /\ \/ actor'[p].pc = "fetched"
            \/ /\ actor'[p].pc = "stored" /\ DoneIf(p)'
<1>1. PICK word \in actor[p].todo : Stores(p, word, s, k)
  BY StoreEffect
<1>2. /\ p \in Savers /\ actor[p].pc = "fetched" /\ Moved(p) /\ k \in Lists
      /\ s \in Slices /\ s.arr \in 1 .. Len(heap) /\ actor[p].entry \in Entries
      /\ HeapGrows /\ Len(heap') = Len(heap)
      /\ Unrelated /\ OthersStay(p) /\ SameJob(p) /\ SameSlice(p) /\ actor'[p].at = actor[p].at
      /\ actor'[p].pc = (IF actor[p].todo = {word} THEN "stored" ELSE "fetched")
      /\ actor'[p].todo = actor[p].todo \ {word}
  BY <1>1 DEF Stores
<1>3. /\ InHand(p, k, s, b) /\ AtWork(p) /\ ActorOK(p)
      /\ actor[p].op = "add" => Longer(p, s, b)
      /\ actor[p].op = "delete" => Shorter(p, s, b)
  BY <1>2, SafeParts, SequentialParts DEF HandInv, HandOK, AtWork, ActorInv
<1>4. /\ actor[p].op \in {"add", "delete"}
      /\ actor[p].op = "delete" => actor[p].at \in Nat \ {0}
  BY <1>2, <1>3 DEF ActorOK, Working
<1>5. b \in Seq(Entries) /\ Len(b) \in Nat /\ s.len \in Nat /\ s.len <= s.cap
      /\ s.cap = Len(heap[s.arr])
  BY <1>2, <1>3, ListDomain DEF InHand, Slices
<1>6. \A j \in Lists \ {k} : header[j].arr # s.arr
  BY <1>3 DEF InHand
<1>7. CASE word = "slot" /\ SetSlot(s.arr, s.len, actor[p].entry) /\ header' = header
  <2>1. actor[p].entry \in Slots
    BY <1>2 DEF Slots
  <2>2. /\ Len(heap'[s.arr]) = Len(heap[s.arr])
        /\ \A i : Slot(s.arr, i)' = IF i = s.len /\ s.len \in DOMAIN heap[s.arr]
                                    THEN actor[p].entry ELSE Slot(s.arr, i)
    BY <1>2, <1>7, <2>1, SafeParts, SlotSet
  <2>3. actor[p].op = "add" /\ Longer(p, s, b)
    BY <1>1, <1>3, <1>4, <1>7 DEF Shorter
  <2>4. s.len = Len(b) + 1 /\ \A i \in 1 .. Len(b) : Slot(s.arr, i) = b[i]
    BY <2>3 DEF Longer
  <2>5. s.len \in DOMAIN heap[s.arr]
    <3>1. heap[s.arr] \in Seq(Slots)
      BY <1>2, SafeParts, ListDomain
    <3>2. DOMAIN heap[s.arr] = 1 .. Len(heap[s.arr]) /\ Len(heap[s.arr]) \in Nat
      BY <3>1, ListDomain
    <3> QED BY <1>5, <2>4, <3>2
  <2>6. Slot(s.arr, s.len)' = actor[p].entry /\ \A i \in 1 .. Len(b) : Slot(s.arr, i)' = b[i]
    BY <1>5, <2>2, <2>4, <2>5
  <2>7. Longer(p, s, b)'
    BY <1>2, <2>4, <2>6 DEF Longer, SameJob
  <2>8. InHand(p, k, s, b)'
    <3>1. \A w \in Words \ actor'[p].todo : header'[k][w] = s[w]
      BY <1>2, <1>3, <1>7 DEF InHand, Words
    <3> QED BY <1>5, <1>6, <1>7, <2>2, <3>1 DEF InHand
  <2>9. HandOK(p)'
    BY <1>2, <2>3, <2>7, <2>8 DEF HandOK, SameJob, SameSlice
  <2>10. \A j \in Lists \ {k} : heap'[header[j].arr] = heap[header[j].arr]
    BY <1>2, <1>6, <1>7, SafeParts DEF SetSlot
  <2>11. ApartInv'
    BY <1>7, SequentialParts DEF ApartInv
  <2>12. actor'[p].pc = "stored" => DoneIf(p)'
    BY <1>2, <1>4, <2>9 DEF DoneIf, SameJob, SameSlice, Moved
  <2> QED BY <1>2, <1>3, <1>7, <2>9, <2>10, <2>11, <2>12
<1>8. CASE /\ word \in Words /\ heap' = heap
           /\ \A j \in Lists \ {k} : header'[j] = header[j]
           /\ \A w \in Words : header'[k][w] = IF w = word THEN s[w] ELSE header[k][w]
  <2>1. \A w \in Words \ actor'[p].todo : header'[k][w] = s[w]
    BY <1>2, <1>3, <1>8 DEF InHand
  <2>2. InHand(p, k, s, b)'
    BY <1>5, <1>6, <1>8, <2>1 DEF InHand
  <2>3. "slot" \in actor'[p].todo <=> "slot" \in actor[p].todo
    BY <1>2, <1>8 DEF Words
  <2>4. actor[p].op = "add" => Longer(p, s, b)'
    BY <1>2, <1>3, <1>8, <2>3 DEF Longer, SameJob, Slot
  <2>5. actor[p].op = "delete" => Shorter(p, s, b)'
    BY <1>2, <1>3, <1>8, <2>3 DEF Shorter, MovedFrom, SameJob, Slot
  <2>6. HandOK(p)'
    BY <1>2, <2>2, <2>4, <2>5 DEF HandOK, SameJob, SameSlice
  <2>7. ApartInv'
    <3>1. header'[k].arr = header[k].arr \/ header'[k].arr = s.arr
      BY <1>8 DEF Words
    <3> QED BY <1>2, <1>6, <1>8, <3>1, SequentialParts DEF ApartInv, Lists
  <2>8. actor'[p].pc = "stored" => DoneIf(p)'
    BY <1>2, <1>4, <2>6 DEF DoneIf, SameJob, SameSlice, Moved
  <2> QED BY <1>2, <1>3, <1>8, <2>6, <2>7, <2>8
<1> QED BY <1>1, <1>7, <1>8 DEF Stores

LEMMA StoreSequential ==
  ASSUME Safe, Safe', Sequential, NEW p \in Admins, Store(p)
  PROVE  Sequential'
<1>1. PICK k, s, b : k = actor[p].kind /\ s = actor[p].slice /\ b = actor[p].before
  OBVIOUS
<1>2. /\ HandOK(p)' /\ ApartInv' /\ AtWork(p) /\ k \in Lists /\ p \in Savers
      /\ OthersStay(p) /\ SameJob(p) /\ Unrelated
      /\ \A j \in Lists \ {k} : header'[j] = header[j] /\ heap'[header[j].arr] = heap[header[j].arr]
      /\ \/ actor'[p].pc = "fetched"
         \/ /\ actor'[p].pc = "stored" /\ DoneIf(p)'
  BY <1>1, StoreHand
<1>3. actor'[p].pc = "stored" => Whole(k)'
  <2>1. ASSUME DoneIf(p)'
        PROVE  Done(p, actor[p].kind, actor[p].before)'
    BY <1>2, <2>1, HandDoneNext
  <2> QED BY <1>1, <1>2, <2>1 DEF Done, SameJob, Whole
<1>4. actor'[p].pc \in {"fetched", "stored"} /\ file' = file
  BY <1>2 DEF Unrelated
<1> QED BY <1>1, <1>2, <1>3, <1>4, SequentialChange

(* A deletion whose index is not in the list any more needs two requests.  *)
LEMMA PanicNeedsTwo ==
  ASSUME Safe, Sequential, NEW p \in Admins, DeletePanics(p)
  PROVE  FALSE
<1>1. PICK k, at, n : k = actor[p].kind /\ at = actor[p].at /\ n = header[k].len
  OBVIOUS
<1>2. p \in Savers /\ actor[p].pc = "begun" /\ actor[p].op = "delete" /\ at > n
  BY <1>1, PanicEffect
<1>3. k \in Lists /\ at \in Nat
  BY <1>1, <1>2, SafeParts DEF ActorInv, ActorOK, AtWork, Working
<1>4. n \in Nat
  BY <1>1, <1>3, SafeParts, ContentsAre
<1>5. at <= n
  BY <1>1, <1>2, SequentialParts DEF AimInv, AimOK
<1> QED BY <1>2, <1>3, <1>4, <1>5

LEMMA MarshalSequential ==
  ASSUME Safe, Sequential, NEW p \in Admins, Marshal(p)
  PROVE  Sequential'
<1>1. /\ p \in Savers /\ OthersStay(p) /\ actor[p].pc = "stored"
      /\ actor'[p].pc = "marshalled" /\ actor'[p].data = Memory
      /\ UNCHANGED memory /\ Unrelated
  BY MarshalEffect
<1>2. AloneInv' /\ file' = file /\ LoadInv' /\ Memory' = Memory
  <2>1. AloneInv'
    BY <1>1, SequentialParts, StaysAlone DEF AtWork
  <2> QED BY <1>1, <2>1, SequentialParts DEF Unrelated, LoadInv, Load, memory, Memory, Contents, Slot
<1>3. AimOK(p)' /\ DataOK(p)'
  BY <1>1, <1>2 DEF AimOK, DataOK
<1> QED BY <1>1, <1>2, <1>3, SequentialInPlace

(* A signal waits for room while the next request is under way.            *)
LEMMA SignalSequential ==
  ASSUME Safe, Sequential, NEW p \in Admins, Signal(p)
  PROVE  Sequential'
<1>1. /\ p \in Savers /\ OthersStay(p) /\ actor'[p].pc = "free" /\ actor[p].pc = "saved"
      /\ UNCHANGED memory /\ file' = file
  BY SignalEffect DEF Free
<1>2. AloneInv'
  <2>1. ~ AtWork(p)' /\ \A q \in Savers \ {p} : actor'[q] = actor[q]
    BY <1>1 DEF AtWork, OthersStay
  <2>2. p # Cli /\ Cli \in Savers
    BY ActorsAssumption DEF Savers
  <2> QED BY <2>1, <2>2, SequentialParts DEF AloneInv, AtWork
<1>3. LoadInv' /\ AimOK(p)' /\ DataOK(p)'
  BY <1>1, SequentialParts DEF LoadInv, Load, AimOK, DataOK
<1> QED BY <1>1, <1>2, <1>3, SequentialInPlace

LEMMA SequentialAside ==
  ASSUME Sequential, UNCHANGED << memory, actor, file >>
  PROVE  Sequential'
<1>1. heap' = heap /\ header' = header /\ actor' = actor /\ file' = file
  BY DEF memory
<1>2. Memory' = Memory /\ \A k : Contents(k)' = Contents(k)
  BY <1>1 DEF Memory, Contents, Slot
<1>3. AloneInv' /\ ApartInv' /\ LoadInv'
  BY <1>1, SequentialParts DEF AloneInv, AtWork, ApartInv, LoadInv, Load
<1>4. WholeInv'
  <2>1. \A k : Whole(k) => Whole(k)'
    BY <1>1 DEF Whole, Slot
  <2> QED BY <1>1, <2>1, SequentialParts DEF WholeInv
<1>5. HandInv'
  <2>1. \A a, i : Slot(a, i)' = Slot(a, i)
    BY <1>1 DEF Slot
  <2>2. ASSUME NEW p \in Savers, actor[p].pc = "fetched"
        PROVE  HandOK(p)'
    <3>1. PICK k, s, b : k = actor[p].kind /\ s = actor[p].slice /\ b = actor[p].before
      OBVIOUS
    <3>2. HandOK(p)
      BY <2>2, SequentialParts DEF HandInv
    <3>3. InHand(p, k, s, b) => InHand(p, k, s, b)'
      BY <1>1 DEF InHand
    <3>4. Longer(p, s, b) => Longer(p, s, b)'
      BY <1>1, <2>1 DEF Longer
    <3>5. \A n : MovedFrom(p, s, b, n) => MovedFrom(p, s, b, n)'
      BY <1>1, <2>1 DEF MovedFrom
    <3>6. Shorter(p, s, b) => Shorter(p, s, b)'
      BY <1>1, <3>5 DEF Shorter
    <3> QED BY <1>1, <3>1, <3>2, <3>3, <3>4, <3>6 DEF HandOK
  <2> QED BY <1>1, <2>2 DEF HandInv
<1>6. AimInv' /\ DataInv'
  <2> HIDE DEF Contents, Memory
  <2> QED BY <1>1, <1>2, SequentialParts DEF AimInv, AimOK, DataInv, DataOK
<1> QED BY <1>3, <1>4, <1>5, <1>6 DEF Sequential

LEMMA TruncateSequential ==
  ASSUME Safe, Sequential, NEW p \in Savers, Truncate(p)
  PROVE  Sequential'
<1>1. /\ OthersStay(p) /\ actor[p].pc = "marshalled" /\ actor'[p].pc = "truncated"
      /\ actor'[p].data = actor[p].data /\ file' = [size |-> 0, config |-> None]
      /\ UNCHANGED memory
  BY TruncateEffect
<1>2. p \in Admins /\ AtWork(p) /\ \A q \in Savers \ {p} : ~ AtWork(q)
  BY <1>1, SequentialParts, TheOnlyOne DEF AtWork
<1>3. AloneInv'
  BY <1>1, <1>2, SequentialParts, StaysAlone
<1>4. LoadInv'
  <2>1. Load' = Zero
    BY <1>1 DEF Load
  <2>2. << >> \in Seq(Entries)
    OBVIOUS
  <2>3. \A k \in Lists : Zero[k] = << >>
    BY DEF Zero, Lists
  <2> HIDE DEF Zero, Lists
  <2> QED BY <2>1, <2>2, <2>3 DEF LoadInv
<1>5. actor[p].data = Memory /\ Memory' = Memory
  BY <1>1, SequentialParts DEF DataInv, DataOK, memory, Memory, Contents, Slot
<1>6. AimOK(p)' /\ DataOK(p)'
  <2> HIDE DEF Memory
  <2> QED BY <1>1, <1>5 DEF AimOK, DataOK
<1> QED BY <1>1, <1>2, <1>3, <1>4, <1>6, SequentialInPlace

(* What the one request writes to the file is what the master has.         *)
LEMMA PutSaves ==
  ASSUME Safe, Sequential, NEW p \in Savers, Put(p)
  PROVE  /\ Load' = Memory /\ Memory' = Memory
         /\ \A k \in Lists : Memory[k] \in Seq(Entries)
         /\ p \in Admins /\ AtWork(p)
         /\ \A q \in Savers \ {p} : ~ AtWork(q) /\ ~ AtWork(q)'
<1>1. /\ OthersStay(p) /\ actor[p].pc = "truncated" /\ file' = Written(actor[p].data)
      /\ UNCHANGED memory
  BY PutEffect
<1>2. AtWork(p)
  BY <1>1 DEF AtWork
<1>3. p \in Admins /\ \A q \in Savers \ {p} : ~ AtWork(q) /\ ~ AtWork(q)'
  BY <1>1, <1>2, SequentialParts, TheOnlyOne
<1>4. actor[p].data = Memory /\ file = [size |-> 0, config |-> None] /\ Memory \in Configs
  BY <1>1, SequentialParts, SafeParts, MemoryIs DEF DataInv, DataOK
<1>5. PICK d \in Configs : d = Memory
  BY <1>4
<1>6. Size(d) \in Nat
  BY SizeIs
<1>7. Size(d) >= file.size
  BY <1>4, <1>6
<1>8. file'.config = d
  BY <1>1, <1>4, <1>5, <1>7 DEF Written
<1>9. Load' = d
  BY <1>5, <1>8, NoneAssumption DEF Load
<1>10. \A q \in Savers : actor[q].pc # "fetched"
  BY <1>1, <1>3 DEF AtWork
<1>11. \A k \in Lists : Memory[k] \in Seq(Entries)
  BY <1>10, SafeParts, NobodyStores
<1>12. Memory' = Memory
  BY <1>1 DEF memory, Memory, Contents, Slot
<1> QED BY <1>2, <1>3, <1>5, <1>9, <1>11, <1>12

LEMMA PutSequential ==
  ASSUME Safe, Sequential, NEW p \in Savers, Put(p)
  PROVE  Sequential'
<1>1. /\ OthersStay(p) /\ UNCHANGED memory /\ actor[p].pc = "truncated"
      /\ actor'[p] = IF actor[p].kind = "routes" THEN [Free EXCEPT !.pc = "saved"] ELSE Free
  BY PutEffect
<1>2. actor'[p].pc \in {"free", "saved"}
  BY <1>1 DEF Free
<1>3. /\ Load' = Memory /\ \A k \in Lists : Memory[k] \in Seq(Entries)
      /\ p \in Admins /\ AtWork(p) /\ \A q \in Savers \ {p} : ~ AtWork(q)
  BY PutSaves
<1>4. AloneInv' /\ LoadInv'
  BY <1>1, <1>3, SequentialParts, StaysAlone DEF LoadInv
<1>5. AimOK(p)' /\ DataOK(p)'
  BY <1>2 DEF AimOK, DataOK
<1> QED BY <1>1, <1>2, <1>3, <1>4, <1>5, SequentialInPlace

(* With nobody at work, two lists of entries in arrays of their own will do. *)
LEMMA LoadedSequential ==
  ASSUME heap \in Seq(Seq(Slots)), \A p \in Savers : actor[p].pc = "free", LoadInv,
         \A k \in Lists : /\ header[k].arr = (IF k = "routes" THEN 1 ELSE 2)
                          /\ header[k].len = Len(Load[k]) /\ header[k].cap = Len(Load[k])
                          /\ heap[header[k].arr] = Load[k]
  PROVE  Sequential /\ \A k \in Lists : Contents(k) = Load[k]
<1>1. ApartInv
  BY DEF ApartInv, Lists
<1>2. AloneInv /\ AimInv /\ DataInv /\ HandInv
  BY DEF AloneInv, AimInv, AimOK, DataInv, DataOK, HandInv, AtWork, Savers
<1>3. ASSUME NEW k \in Lists
      PROVE  Whole(k) /\ Contents(k) = Load[k]
  <2>1. PICK list, n, a : /\ list \in Seq(Entries) /\ n \in Nat
                          /\ list = Load[k] /\ n = Len(list) /\ a = header[k].arr
    BY ListDomain DEF LoadInv
  <2>2. header[k].len = n /\ header[k].cap = n /\ heap[a] = list
    BY <2>1
  <2>3. DOMAIN list = 1 .. n /\ \A i \in 1 .. n : list[i] \in Entries
    BY <2>1, ListDomain
  <2>4. \A i \in 1 .. n : Slot(a, i) = list[i]
    BY <2>2, <2>3 DEF Slot
  <2>5. Whole(k)
    <3>1. header[k].len <= header[k].cap /\ header[k].cap = Len(heap[header[k].arr])
      BY <2>1, <2>2
    <3>2. \A i \in 1 .. header[k].len : Slot(header[k].arr, i) \in Entries
      BY <2>1, <2>2, <2>3, <2>4
    <3> QED BY <3>1, <3>2 DEF Whole
  <2>6. Contents(k) = [i \in 1 .. n |-> list[i]]
    BY <2>1, <2>2, <2>4 DEF Contents
  <2>7. list = [i \in 1 .. n |-> list[i]]
    BY <2>1, <2>3
  <2> QED BY <2>1, <2>5, <2>6, <2>7
<1>4. WholeInv
  BY <1>3 DEF WholeInv
<1> QED BY <1>1, <1>2, <1>3, <1>4 DEF Sequential

LEMMA LoadedNext ==
  (heap \in Seq(Seq(Slots)) /\ (\A p \in Savers : actor[p].pc = "free") /\ LoadInv
   /\ (\A k \in Lists : /\ header[k].arr = (IF k = "routes" THEN 1 ELSE 2)
                        /\ header[k].len = Len(Load[k]) /\ header[k].cap = Len(Load[k])
                        /\ heap[header[k].arr] = Load[k])
   => Sequential /\ \A k \in Lists : Contents(k) = Load[k])'
BY LoadedSequential, PTL

LEMMA RestartSequential ==
  ASSUME Safe, Sequential, Restart
  PROVE  /\ Sequential' /\ Load' = Load /\ \A k \in Lists : Contents(k)' = Load[k]
         /\ \A p \in Savers : actor'[p].pc = "free"
<1>1. /\ heap' \in Seq(Seq(Slots)) /\ actor'[Cli] = actor[Cli] /\ \A p \in Admins : actor'[p] = Free
      /\ \A k \in Lists : /\ header'[k].arr = (IF k = "routes" THEN 1 ELSE 2)
                          /\ header'[k].len = Len(Load[k]) /\ header'[k].cap = Len(Load[k])
                          /\ heap'[header'[k].arr] = Load[k]
      /\ file' = file
  BY RestartEffect
<1>2. Load' = Load /\ LoadInv'
  BY <1>1, SequentialParts DEF Load, LoadInv
<1>3. \A p \in Savers : actor'[p].pc = "free"
  BY <1>1, SequentialParts DEF Savers, AloneInv, Free
<1> QED BY <1>1, <1>2, <1>3, LoadedNext

LEMMA InitSequential ==
  ASSUME Init
  PROVE  Sequential /\ Load = Saved /\ \A k \in Lists : Contents(k) = Load[k]
<1>1. Safe
  BY InitSafe
<1>2. PICK c \in Configs : c = Saved
  BY SavedIs
<1>3. file.config = c
  BY <1>2 DEF Init
<1>4. Load = c
  BY <1>3, NoneAssumption DEF Load
<1>5. LoadInv
  BY <1>2, <1>4, SavedAssumption DEF LoadInv
<1>6. \A k \in Lists : /\ header[k].arr = (IF k = "routes" THEN 1 ELSE 2)
                       /\ header[k].len = Len(Load[k]) /\ header[k].cap = Len(Load[k])
                       /\ heap[header[k].arr] = Load[k]
  <2>1. PICK x, h : x = HeapOf(c) /\ h = HeadersOf(c)
    OBVIOUS
  <2>2. heap = x /\ header = h
    BY <1>2, <2>1 DEF Init
  <2> QED BY <1>4, <2>1, <2>2, LoadedLists
<1>7. heap \in Seq(Seq(Slots)) /\ \A p \in Savers : actor[p].pc = "free"
  BY <1>1, SafeParts DEF Init, Free
<1> QED BY <1>2, <1>4, <1>5, <1>6, <1>7, LoadedSequential

(* The inductive invariant.                                                *)
IInv == Safe /\ (~ overlapped => Sequential)

(* Once requests have overlapped the history says so for good.             *)
LEMMA OverlapStays ==
  ASSUME [Next]_vars, ~ overlapped'
  PROVE  ~ overlapped
<1>1. ASSUME NEW p \in Admins, Request(p)
      PROVE  ~ overlapped
  BY <1>1, Zenon DEF Request, Add, Delete, Arrive
<1>2. ASSUME NEW p \in Admins, Change(p)
      PROVE  ~ overlapped
  <2>1. UNCHANGED histories
    BY <1>2 DEF Change, FetchToAdd, FetchToDelete, DeletePanics, Move, Store, Marshal
  <2> QED BY <2>1 DEF histories
<1>3. ASSUME NEW p \in Savers, Save(p)
      PROVE  ~ overlapped
  BY <1>3 DEF Save, Truncate, Put, histories
<1>4. CASE Updater
  BY <1>4 DEF Updater, UpdaterTake, UpdaterLoad, UpdaterRead, UpdaterPush, histories
<1>5. ASSUME NEW p \in Admins, Signal(p)
      PROVE  ~ overlapped
  BY <1>5 DEF Signal, histories
<1>6. ASSUME NEW key \in Keys, CliAddNode(key)
      PROVE  ~ overlapped
  BY <1>6 DEF CliAddNode
<1>7. CASE Restart \/ UNCHANGED vars
  BY <1>7 DEF Restart, vars, histories
<1> QED BY <1>1, <1>2, <1>3, <1>4, <1>5, <1>6, <1>7 DEF Next

LEMMA SequentialInvariant ==
  ASSUME Safe, Safe', Sequential, [Next]_vars, ~ overlapped'
  PROVE  Sequential'
<1>1. ASSUME NEW p \in Admins, Request(p)
      PROVE  Sequential'
  BY <1>1, AddSequential, DeleteSequential DEF Request
<1>2. ASSUME NEW p \in Admins, Change(p)
      PROVE  Sequential'
  BY <1>2, FetchToAddSequential, FetchToDeleteSequential, PanicNeedsTwo, MoveSequential,
     StoreSequential, MarshalSequential DEF Change
<1>3. ASSUME NEW p \in Savers, Save(p)
      PROVE  Sequential'
  BY <1>3, TruncateSequential, PutSequential DEF Save
<1>4. ASSUME NEW key \in Keys, CliAddNode(key)
      PROVE  FALSE
  BY <1>4 DEF CliAddNode
<1>5. CASE Updater \/ UNCHANGED vars
  <2>1. UNCHANGED << memory, actor, file >>
    BY <1>5 DEF vars, Updater, UpdaterTake, UpdaterLoad, UpdaterRead, UpdaterPush
  <2> QED BY <2>1, SequentialAside
<1> QED BY <1>1, <1>2, <1>3, <1>4, <1>5, SignalSequential, RestartSequential DEF Next

LEMMA Invariant == Spec => []IInv
<1>1. Init => IInv
  BY InitSafe, InitSequential DEF IInv
<1>2. IInv /\ [Next]_vars => IInv'
  BY SafeInvariant, OverlapStays, SequentialInvariant DEF IInv
<1> QED BY <1>1, <1>2, PTL DEF Spec

-----------------------------------------------------------------------------
(* What the store shows as a Configuration. *)

LEMMA Stages ==
  /\ StageOf("free") = "idle"
  /\ StageOf("begun") = "asked" /\ StageOf("fetched") = "asked"
  /\ StageOf("stored") = "made" /\ StageOf("marshalled") = "made"
  /\ StageOf("truncated") = "saving"
BY DEF StageOf

(* A list as it was before the stores, or else as it is.                   *)
LEMMA ShownIs ==
  /\ Settled(InForce) = [k \in Lists |-> Settled(InForce)[k]]
  /\ \A k \in Lists : Settled(InForce)[k] =
       IF InForce.pc = "fetched" /\ InForce.kind = k THEN InForce.before ELSE Contents(k)
BY DEF Settled

LEMMA ShownNext ==
  /\ Settled(InForce)' = [k \in Lists |-> Settled(InForce)'[k]]
  /\ \A k \in Lists : Settled(InForce)'[k] =
       IF InForce'.pc = "fetched" /\ InForce'.kind = k THEN InForce'.before ELSE Contents(k)'
<1>1. (/\ Settled(InForce) = [k \in Lists |-> Settled(InForce)[k]]
       /\ \A k \in Lists : Settled(InForce)[k] =
            IF InForce.pc = "fetched" /\ InForce.kind = k THEN InForce.before ELSE Contents(k))'
  BY ShownIs, PTL
<1> QED BY <1>1

LEMMA NoneInForce ==
  overlapped \/ Quiet =>
    /\ StageOf(InForce.pc) = "idle" /\ AskedBy(InForce) = None /\ InForce.pc = "free"
    /\ \A k \in Lists : Settled(InForce)[k] = Contents(k)
<1> SUFFICES ASSUME overlapped \/ Quiet
             PROVE  /\ StageOf(InForce.pc) = "idle" /\ AskedBy(InForce) = None
                    /\ InForce.pc = "free"
                    /\ \A k \in Lists : Settled(InForce)[k] = Contents(k)
  OBVIOUS
<1>1. InForce.pc = "free"
  BY DEF InForce, Free
<1>2. \A k \in Lists : Settled(InForce)[k] = Contents(k)
  BY <1>1, ShownIs
<1> QED BY <1>1, <1>2, Stages DEF AskedBy

LEMMA NoneInForceNext ==
  (overlapped \/ Quiet =>
    /\ StageOf(InForce.pc) = "idle" /\ AskedBy(InForce) = None /\ InForce.pc = "free"
    /\ \A k \in Lists : Settled(InForce)[k] = Contents(k))'
BY NoneInForce, PTL

LEMMA OneInForce ==
  ~ overlapped /\ AloneInv => \A p \in Savers : AtWork(p) => InForce = actor[p]
<1> SUFFICES ASSUME ~ overlapped, AloneInv, NEW p \in Savers, AtWork(p)
             PROVE  InForce = actor[p]
  OBVIOUS
<1>1. ~ (overlapped \/ Quiet)
  BY DEF Quiet
<1>2. \A q \in Savers : AtWork(q) => q = p
  BY DEF AloneInv
<1>3. (CHOOSE q \in Savers : AtWork(q)) = p
  BY <1>2
<1> QED BY <1>1, <1>3 DEF InForce

LEMMA OneInForceNext ==
  (~ overlapped /\ AloneInv => \A p \in Savers : AtWork(p) => InForce = actor[p])'
BY OneInForce, PTL

(* What the one request shows before and after a step of it.               *)
LEMMA StepOfOne ==
  ASSUME ~ overlapped, ~ overlapped', AloneInv, AloneInv', NEW p \in Savers,
         AtWork(p), AtWork(p)', SameJob(p)
  PROVE  /\ InForce = actor[p] /\ InForce' = actor'[p]
         /\ AskedBy(InForce) = [op |-> actor[p].op, kind |-> actor[p].kind,
                                entry |-> actor[p].entry]
         /\ AskedBy(InForce)' = AskedBy(InForce)
<1>1. InForce = actor[p]
  BY OneInForce
<1>2. InForce' = actor'[p]
  BY OneInForceNext
<1>3. actor[p].pc # "free" /\ actor'[p].pc # "free"
  BY DEF AtWork
<1> QED BY <1>1, <1>2, <1>3 DEF AskedBy, SameJob

(* While requests come one at a time the lists shown are lists of entries. *)
LEMMA ShownEntries ==
  Safe /\ Sequential /\ ~ overlapped =>
    /\ Settled(InForce) \in [Lists -> Seq(Entries)]
    /\ Load \in [Lists -> Seq(Entries)]
<1> SUFFICES ASSUME Safe, Sequential, ~ overlapped
             PROVE  /\ Settled(InForce) \in [Lists -> Seq(Entries)]
                    /\ Load \in [Lists -> Seq(Entries)]
  OBVIOUS
<1>1. ASSUME NEW k \in Lists
      PROVE  Settled(InForce)[k] \in Seq(Entries)
  <2>1. CASE \A p \in Savers : actor[p].pc = "fetched" => actor[p].kind # k
    <3>1. Contents(k) \in Seq(Entries)
      BY <2>1, SafeParts, SequentialParts, WholeList DEF WholeInv
    <3>2. ~ (InForce.pc = "fetched" /\ InForce.kind = k)
      <4>1. CASE Quiet
        BY <4>1, NoneInForce
      <4>2. ASSUME NEW p \in Savers, AtWork(p)
            PROVE  ~ (InForce.pc = "fetched" /\ InForce.kind = k)
        BY <2>1, <4>2, SequentialParts, OneInForce
      <4> QED BY <4>1, <4>2 DEF Quiet
    <3> QED BY <3>1, <3>2, ShownIs
  <2>2. ASSUME NEW p \in Savers, actor[p].pc = "fetched", actor[p].kind = k
        PROVE  Settled(InForce)[k] \in Seq(Entries)
    <3>1. InForce = actor[p]
      BY <2>2, SequentialParts, OneInForce DEF AtWork
    <3>2. actor[p].before \in Seq(Entries)
      BY <2>2, SequentialParts DEF HandInv, HandOK, InHand
    <3> QED BY <2>2, <3>1, <3>2, ShownIs
  <2> QED BY <2>1, <2>2
<1>2. Load \in [Lists -> Seq(Entries)]
  <2>1. Load \in [Lists -> Seq(Slots)]
    BY SafeParts, LoadIs DEF Configs
  <2>2. \A k \in Lists : Load[k] \in Seq(Entries)
    BY SequentialParts DEF LoadInv
  <2> QED BY <2>1, <2>2
<1> QED BY <1>1, <1>2, ShownIs

(* A step that leaves the lists, the file and what is asked as they are.   *)
LEMMA NothingShows ==
  ASSUME \A k \in Lists : Settled(InForce)'[k] = Settled(InForce)[k], file' = file,
         overlapped' = overlapped, StageOf(InForce.pc)' = StageOf(InForce.pc),
         AskedBy(InForce)' = AskedBy(InForce)
  PROVE  UNCHANGED Promise!configuration
<1>1. Settled(InForce)' = Settled(InForce)
  <2>1. PICK l, m : l = Settled(InForce) /\ m = Settled(InForce)'
    OBVIOUS
  <2>2. l = [k \in Lists |-> l[k]] /\ m = [k \in Lists |-> m[k]]
    BY <2>1, ShownIs, ShownNext
  <2>3. \A k \in Lists : l[k] = m[k]
    BY <2>1
  <2>4. [k \in Lists |-> l[k]] = [k \in Lists |-> m[k]]
    BY <2>3
  <2> QED BY <2>1, <2>2, <2>4
<1>2. Load' = Load
  BY DEF Load
<1> QED BY <1>1, <1>2 DEF Promise!configuration

LEMMA SameContents ==
  ASSUME NEW k, header'[k] = header[k], heap'[header[k].arr] = heap[header[k].arr]
  PROVE  Contents(k)' = Contents(k)
BY DEF Contents, Slot

LEMMA MemoryStays ==
  ASSUME UNCHANGED memory
  PROVE  \A k \in Lists : Contents(k)' = Contents(k)
BY DEF Contents, Slot, memory

-----------------------------------------------------------------------------
(* What each step shows. *)

LEMMA SameShown ==
  ASSUME \A k \in Lists : Settled(InForce)'[k] = Settled(InForce)[k]
  PROVE  Settled(InForce)' = Settled(InForce)
<1>1. PICK l, m : l = Settled(InForce) /\ m = Settled(InForce)'
  OBVIOUS
<1>2. l = [k \in Lists |-> l[k]] /\ m = [k \in Lists |-> m[k]]
  BY <1>1, ShownIs, ShownNext
<1>3. \A k \in Lists : l[k] = m[k]
  BY <1>1
<1>4. [k \in Lists |-> l[k]] = [k \in Lists |-> m[k]]
  BY <1>3
<1> QED BY <1>1, <1>2, <1>4

(* A request that arrives.                                                 *)
LEMMA ArriveShows ==
  ASSUME NEW p \in Savers, actor'[p].pc = "begun", Quiet, ~ overlapped', AloneInv',
         UNCHANGED << memory, file >>
  PROVE  /\ StageOf(InForce.pc) = "idle" /\ StageOf(InForce.pc)' = "asked"
         /\ AskedBy(InForce)' = [op |-> actor'[p].op, kind |-> actor'[p].kind,
                                 entry |-> actor'[p].entry]
         /\ Settled(InForce)' = Settled(InForce) /\ Load' = Load
         /\ \A k \in Lists : Settled(InForce)[k] = Contents(k)
<1>1. /\ StageOf(InForce.pc) = "idle"
      /\ \A k \in Lists : Settled(InForce)[k] = Contents(k)
  BY NoneInForce
<1>2. InForce' = actor'[p]
  BY OneInForceNext DEF AtWork
<1>3. StageOf(InForce.pc)' = "asked"
  BY <1>2, Stages
<1>4. AskedBy(InForce)' = [op |-> actor'[p].op, kind |-> actor'[p].kind,
                           entry |-> actor'[p].entry]
  BY <1>2 DEF AskedBy
<1>5. \A k \in Lists : Settled(InForce)'[k] = Contents(k)'
  BY <1>2, ShownNext
<1>6. \A k \in Lists : Contents(k)' = Contents(k)
  BY MemoryStays
<1>7. Settled(InForce)' = Settled(InForce)
  BY <1>1, <1>5, <1>6, SameShown
<1> QED BY <1>1, <1>3, <1>4, <1>7 DEF Load

LEMMA AddAsks ==
  ASSUME Safe, Sequential, Sequential', NEW p, NEW k, NEW key \in Keys, Add(p, k, key),
         ~ overlapped'
  PROVE  Promise!Alone /\ Promise!AskToAdd /\ promised' = promised /\ torn' = torn
<1>1. PICK e \in Entries : e = [id |-> NextId, key |-> key] /\ Arrive(p, k, "add", e, None)
  BY AddEffect
<1>2. /\ UNCHANGED << memory, file >> /\ promised' = promised /\ torn' = torn
      /\ e.key = key
      /\ k = "routes" => ~ Taken(k, key)
  <2>1. e.key = key
    BY <1>1
  <2> QED BY <2>1, AddEffect
<1>3. /\ p \in Savers /\ k \in Lists /\ actor'[p].pc = "begun" /\ actor'[p].op = "add"
      /\ actor'[p].kind = k /\ actor'[p].entry = e /\ ~ overlapped /\ Quiet
  <2>1. Arrive(p, k, "add", e, None)
    BY <1>1
  <2>2. /\ p \in Savers /\ k \in Lists /\ OthersStay(p) /\ actor'[p].pc = "begun"
        /\ actor'[p].kind = k /\ ~ overlapped /\ Quiet
    BY <2>1, ArriveEffect
  <2>3. actor'[p].op = "add" /\ actor'[p].entry = e
    BY <2>1, <2>2, SafeParts DEF Arrive, Free
  <2> QED BY <2>2, <2>3
<1>4. /\ StageOf(InForce.pc) = "idle" /\ StageOf(InForce.pc)' = "asked"
      /\ AskedBy(InForce)' = [op |-> "add", kind |-> k, entry |-> e]
      /\ Settled(InForce)' = Settled(InForce) /\ Load' = Load
      /\ \A j \in Lists : Settled(InForce)[j] = Contents(j)
  BY <1>2, <1>3, SequentialParts, ArriveShows DEF Sequential
<1>5. ASSUME k = "routes"
      PROVE  ~ Promise!InUse(k, e.key)
  <2>1. PICK list \in Seq(Entries) : list = Contents(k)
    BY <1>3, SafeParts, NobodyStores DEF Quiet, AtWork
  <2>2. \A i \in DOMAIN list : list[i] # None
    BY ListDomain, NoneAssumption
  <2>3. \A i \in DOMAIN list : list[i].key # key
    <3>1. ~ Taken(k, key)
      BY <1>2, <1>5
    <3>2. ~ \E i \in DOMAIN list : (i \in DOMAIN list /\ list[i] # None) /\ list[i].key = key
      BY <2>1, <3>1, Zenon DEF Taken, Shows
    <3> QED BY <2>2, <3>2
  <2>4. Settled(InForce)[k] = list
    BY <1>3, <1>4, <2>1
  <2>5. PICK other : other = e.key
    OBVIOUS
  <2>6. ~ Promise!InUse(k, other)
    BY <1>2, <2>3, <2>4, <2>5 DEF Promise!InUse
  <2> QED BY <2>5, <2>6
<1>6. Promise!AskToAdd
  BY <1>3, <1>4, <1>5 DEF Promise!AskToAdd
<1>7. overlapped' = FALSE
  BY <1>1, <1>3 DEF Arrive, Quiet
<1> QED BY <1>2, <1>3, <1>6, <1>7 DEF Promise!Alone

LEMMA DeleteAsks ==
  ASSUME Safe, Sequential, Sequential', NEW p, NEW k, Delete(p, k), ~ overlapped'
  PROVE  /\ Promise!Alone /\ Promise!AskToDelete
         /\ promised' = promised \ {AskedBy(InForce)'.entry} /\ torn' = torn
<1>1. PICK i \in 1 .. header[k].len, e \in Entries :
        /\ e = Contents(k)[i] /\ i \in Nat \ {0}
        /\ Arrive(p, k, "delete", e, i)
        /\ promised' = promised \ {e}
        /\ UNCHANGED << memory, file, updater, restarts, torn >>
  BY DeleteEffect
<1>2. /\ p \in Savers /\ k \in Lists /\ actor'[p].pc = "begun" /\ actor'[p].op = "delete"
      /\ actor'[p].kind = k /\ actor'[p].entry = e /\ ~ overlapped /\ Quiet
  <2>1. Arrive(p, k, "delete", e, i) /\ i \in Nat \ {0}
    BY <1>1
  <2>2. /\ p \in Savers /\ k \in Lists /\ OthersStay(p) /\ actor'[p].pc = "begun"
        /\ actor'[p].kind = k
    BY <2>1, ArriveEffect
  <2>3. actor'[p].op = "delete" /\ actor'[p].entry = e
    BY <2>1, <2>2, SafeParts DEF Arrive, Free
  <2>4. ~ overlapped /\ Quiet
    BY <2>1, Zenon DEF Arrive, Quiet
  <2> QED BY <2>2, <2>3, <2>4
<1>3. /\ StageOf(InForce.pc) = "idle" /\ StageOf(InForce.pc)' = "asked"
      /\ AskedBy(InForce)' = [op |-> "delete", kind |-> k, entry |-> e]
      /\ Settled(InForce)' = Settled(InForce) /\ Load' = Load
      /\ \A j \in Lists : Settled(InForce)[j] = Contents(j)
  BY <1>1, <1>2, ArriveShows DEF Sequential
<1>4. Settled(InForce)[k][i] = e /\ i \in DOMAIN Settled(InForce)[k]
  <2>1. DOMAIN Contents(k) = 1 .. header[k].len
    BY <1>2, SafeParts, ContentsAre
  <2> QED BY <1>1, <1>2, <1>3, <2>1
<1>5. Promise!AskToDelete
  BY <1>2, <1>3, <1>4 DEF Promise!AskToDelete
<1>6. overlapped' = FALSE
  <2>1. Arrive(p, k, "delete", e, i)
    BY <1>1
  <2> QED BY <1>2, <2>1 DEF Arrive, Quiet
<1> QED BY <1>1, <1>2, <1>3, <1>5, <1>6 DEF Promise!Alone

(* Reading the header, storing all but the last, and marshalling.          *)
LEMMA FetchHidden ==
  ASSUME Safe, Sequential, Sequential', ~ overlapped, NEW p \in Admins,
         FetchToAdd(p) \/ FetchToDelete(p)
  PROVE  UNCHANGED Promise!configuration /\ UNCHANGED histories
<1>1. PICK k, h, n, s : k = actor[p].kind /\ h = header[k] /\ n = Len(heap) /\ s = actor'[p].slice
  OBVIOUS
<1>2. /\ p \in Savers /\ k \in Lists /\ actor[p].pc = "begun" /\ Unrelated /\ SameJob(p)
      /\ actor'[p].pc = "fetched" /\ actor'[p].before = Contents(k)
      /\ header' = header /\ \A a \in 1 .. n : heap'[a] = heap[a]
  <2>1. CASE FetchToAdd(p)
    BY <1>1, <2>1, FetchToAddEffect
  <2>2. CASE FetchToDelete(p)
    <3>1. /\ p \in Savers /\ k \in Lists /\ actor[p].pc = "begun" /\ Unrelated /\ SameJob(p)
          /\ actor'[p].pc = "fetched" /\ actor'[p].before = Contents(k) /\ UNCHANGED memory
      BY <1>1, <2>2, FetchToDeleteEffect
    <3> QED BY <3>1 DEF memory
  <2> QED BY <2>1, <2>2
<1>3. UNCHANGED histories /\ overlapped' = overlapped /\ file' = file
  BY <1>2 DEF Unrelated, histories
<1>4. InForce = actor[p] /\ InForce' = actor'[p] /\ AskedBy(InForce)' = AskedBy(InForce)
  <2>1. AtWork(p) /\ AtWork(p)'
    BY <1>2 DEF AtWork
  <2> QED BY <1>2, <1>3, <2>1, StepOfOne DEF Sequential
<1>5. StageOf(InForce.pc)' = StageOf(InForce.pc)
  BY <1>2, <1>4, Stages
<1>6. \A j \in Lists : Contents(j)' = Contents(j)
  <2>1. \A j \in Lists : header[j].arr \in 1 .. n
    BY <1>1, SafeParts
  <2> QED BY <1>2, <2>1, SameContents
<1>7. \A j \in Lists : Settled(InForce)'[j] = Settled(InForce)[j]
  BY <1>1, <1>2, <1>4, <1>6, ShownIs, ShownNext DEF SameJob
<1> QED BY <1>3, <1>4, <1>5, <1>7, NothingShows

(* Amid the stores the list is shown as it was.                            *)
LEMMA StoresHidden ==
  ASSUME Safe, Sequential, Sequential', ~ overlapped, NEW p \in Savers, NEW k \in Lists,
         k = actor[p].kind, actor[p].pc = "fetched", actor'[p].pc = "fetched",
         SameJob(p), SameSlice(p), Unrelated,
         \A j \in Lists \ {k} : header'[j] = header[j] /\ heap'[header[j].arr] = heap[header[j].arr]
  PROVE  UNCHANGED Promise!configuration /\ UNCHANGED histories
<1>1. UNCHANGED histories /\ overlapped' = overlapped /\ file' = file
  BY DEF Unrelated, histories
<1>2. InForce = actor[p] /\ InForce' = actor'[p] /\ AskedBy(InForce)' = AskedBy(InForce)
  <2>1. AtWork(p) /\ AtWork(p)'
    BY DEF AtWork
  <2> QED BY <1>1, <2>1, StepOfOne DEF Sequential
<1>3. StageOf(InForce.pc)' = StageOf(InForce.pc)
  BY <1>2
<1>4. \A j \in Lists \ {k} : Contents(j)' = Contents(j)
  BY SameContents
<1>5. \A j \in Lists : Settled(InForce)'[j] = Settled(InForce)[j]
  BY <1>2, <1>4, ShownIs, ShownNext DEF SameJob, SameSlice
<1> QED BY <1>1, <1>2, <1>3, <1>5, NothingShows

LEMMA MoveHidden ==
  ASSUME Safe, Sequential, Sequential', ~ overlapped, NEW p \in Admins, Move(p)
  PROVE  UNCHANGED Promise!configuration /\ UNCHANGED histories
<1>1. PICK k, s, i, b : k = actor[p].kind /\ s = actor[p].slice /\ i = actor[p].at
                        /\ b = actor[p].before
  OBVIOUS
<1>2. /\ p \in Savers /\ actor[p].pc = "fetched" /\ s.arr \in 1 .. Len(heap)
      /\ SetSlot(s.arr, i, Slot(s.arr, i + 1)) /\ header' = header /\ Unrelated
      /\ SameJob(p) /\ SameSlice(p) /\ actor'[p].pc = "fetched"
  BY <1>1, MoveEffect
<1>3. k \in Lists /\ InHand(p, k, s, b)
  BY <1>1, <1>2, SafeParts, SequentialParts DEF ActorInv, ActorOK, AtWork, HandInv, HandOK
<1>4. \A j \in Lists \ {k} : heap'[header[j].arr] = heap[header[j].arr]
  BY <1>2, <1>3 DEF InHand, SetSlot
<1> QED BY <1>1, <1>2, <1>3, <1>4, StoresHidden

LEMMA MarshalHidden ==
  ASSUME Safe, Sequential, Sequential', ~ overlapped, NEW p \in Admins, Marshal(p)
  PROVE  UNCHANGED Promise!configuration /\ UNCHANGED histories
<1>1. /\ p \in Savers /\ SameJob(p) /\ actor[p].pc = "stored" /\ actor'[p].pc = "marshalled"
      /\ UNCHANGED memory /\ Unrelated
  BY MarshalEffect
<1>2. UNCHANGED histories /\ overlapped' = overlapped /\ file' = file
  BY <1>1 DEF Unrelated, histories
<1>3. InForce = actor[p] /\ InForce' = actor'[p] /\ AskedBy(InForce)' = AskedBy(InForce)
  <2>1. AtWork(p) /\ AtWork(p)'
    BY <1>1 DEF AtWork
  <2> QED BY <1>1, <1>2, <2>1, StepOfOne DEF Sequential
<1>4. StageOf(InForce.pc)' = StageOf(InForce.pc)
  BY <1>1, <1>3, Stages
<1>5. \A j \in Lists : Settled(InForce)'[j] = Settled(InForce)[j]
  BY <1>1, <1>3, MemoryStays, ShownIs, ShownNext
<1> QED BY <1>2, <1>3, <1>4, <1>5, NothingShows

(* The last store makes the change, of one list and no other.              *)
LEMMA StoreMakes ==
  ASSUME Safe, Safe', Sequential, Sequential', ~ overlapped, NEW p \in Admins, Store(p),
         actor'[p].pc = "stored"
  PROVE  /\ Promise!Alone /\ (Promise!MakeAddition \/ Promise!MakeDeletion)
         /\ UNCHANGED histories
<1>1. PICK k, s, b, e : k = actor[p].kind /\ s = actor[p].slice /\ b = actor[p].before
                        /\ e = actor[p].entry
  OBVIOUS
<1>2. /\ AtWork(p) /\ k \in Lists /\ p \in Savers /\ SameJob(p) /\ SameSlice(p) /\ Unrelated
      /\ \A j \in Lists \ {k} : header'[j] = header[j] /\ heap'[header[j].arr] = heap[header[j].arr]
      /\ actor[p].pc = "fetched" /\ DoneIf(p)'
  BY <1>1, StoreHand
<1>3. UNCHANGED histories /\ overlapped' = overlapped /\ Load' = Load
  BY <1>2 DEF Unrelated, histories, Load
<1>4. /\ InForce = actor[p] /\ InForce' = actor'[p] /\ AskedBy(InForce)' = AskedBy(InForce)
      /\ AskedBy(InForce) = [op |-> actor[p].op, kind |-> k, entry |-> e]
  <2>1. AtWork(p)'
    BY DEF AtWork
  <2> QED BY <1>1, <1>2, <1>3, <2>1, StepOfOne DEF Sequential
<1>5. StageOf(InForce.pc) = "asked" /\ StageOf(InForce.pc)' = "made"
  BY <1>2, <1>4, Stages
<1>6. PICK l, m : l = Settled(InForce) /\ m = Settled(InForce)'
  OBVIOUS
<1>7. /\ l = [j \in Lists |-> l[j]] /\ m = [j \in Lists |-> m[j]]
      /\ l[k] = b /\ m[k] = Contents(k)' /\ \A j \in Lists \ {k} : m[j] = l[j]
  <2>1. \A j \in Lists \ {k} : Contents(j)' = Contents(j)
    BY <1>2, SameContents
  <2> QED BY <1>1, <1>2, <1>4, <1>6, <2>1, ShownIs, ShownNext
<1>8. /\ actor[p].op = "add" => m[k] = Append(b, e)
      /\ actor[p].op = "delete" => \E d \in 1 .. Len(b) : b[d] = e /\ m[k] = RemoveAt(b, d)
      /\ actor[p].op \in {"add", "delete"}
  <2>1. Done(p, actor[p].kind, actor[p].before)'
    BY <1>2, HandDoneNext
  <2>2. /\ actor'[p].op = "add" => Contents(k)' = Append(b, e)
        /\ actor'[p].op = "delete" =>
             \E d \in 1 .. Len(b) : b[d] = e /\ Contents(k)' = RemoveAt(b, d)
    BY <1>1, <1>2, <2>1 DEF Done, SameJob, SameSlice
  <2> QED BY <1>2, <1>7, <2>2 DEF SameJob, DoneIf
<1>9. PICK asked : /\ asked = AskedBy(InForce)
                   /\ asked.op = actor[p].op /\ asked.kind = k /\ asked.entry = e
  BY <1>4
<1>10. CASE actor[p].op = "add"
  <2>1. m = [l EXCEPT ![k] = Append(b, e)]
    BY <1>2, <1>7, <1>8, <1>10
  <2>2. m = [l EXCEPT ![asked.kind] = Append(l[asked.kind], asked.entry)]
    BY <1>7, <1>9, <2>1
  <2>3. Promise!MakeAddition
    BY <1>3, <1>4, <1>5, <1>6, <1>9, <1>10, <2>2 DEF Promise!MakeAddition
  <2> QED BY <1>3, <2>3 DEF Promise!Alone
<1>11. CASE actor[p].op = "delete"
  <2>1. PICK d \in 1 .. Len(b) : b[d] = e /\ m[k] = RemoveAt(b, d)
    BY <1>8, <1>11
  <2>2. m = [l EXCEPT ![k] = RemoveAt(b, d)]
    BY <1>2, <1>7, <2>1
  <2>3. d \in DOMAIN b
    <3>1. b \in Seq(Entries)
      BY <1>1, <1>2, SequentialParts DEF HandInv, HandOK, InHand
    <3> QED BY <3>1, ListDomain
  <2>4. RemoveAt(b, d) = Promise!RemoveAt(b, d)
    BY DEF RemoveAt, Promise!RemoveAt
  <2>5. m = [l EXCEPT ![k] = Promise!RemoveAt(l[k], d)]
    BY <1>7, <2>2, <2>4, Zenon
  <2>6. \E i \in DOMAIN l[asked.kind] :
          /\ l[asked.kind][i] = asked.entry
          /\ m = [l EXCEPT ![asked.kind] = Promise!RemoveAt(@, i)]
    <3>1. d \in DOMAIN l[asked.kind] /\ l[asked.kind][d] = asked.entry
      BY <1>7, <1>9, <2>1, <2>3
    <3>2. m = [l EXCEPT ![asked.kind] = Promise!RemoveAt(l[asked.kind], d)]
      BY <1>9, <2>5, Zenon
    <3> QED BY <3>1, <3>2, Zenon
  <2>7. AskedBy(InForce).op = "delete" /\ StageOf(InForce.pc) = "asked"
        /\ StageOf(InForce.pc)' = "made"
        /\ Load' = Load /\ AskedBy(InForce)' = AskedBy(InForce)
    BY <1>3, <1>4, <1>5, <1>9, <1>11
  <2>8. Promise!MakeDeletion
    BY <1>6, <1>9, <2>6, <2>7, Zenon DEF Promise!MakeDeletion
  <2> QED BY <1>3, <2>8 DEF Promise!Alone
<1> QED BY <1>3, <1>8, <1>10, <1>11

LEMMA StoreShows ==
  ASSUME Safe, Safe', Sequential, Sequential', ~ overlapped, NEW p \in Admins, Store(p)
  PROVE  /\ \/ Promise!Alone /\ (Promise!MakeAddition \/ Promise!MakeDeletion)
            \/ UNCHANGED Promise!configuration
         /\ UNCHANGED histories
<1>1. PICK k, s, b : k = actor[p].kind /\ s = actor[p].slice /\ b = actor[p].before
  OBVIOUS
<1>2. /\ k \in Lists /\ p \in Savers /\ SameJob(p) /\ SameSlice(p) /\ Unrelated
      /\ \A j \in Lists \ {k} : header'[j] = header[j] /\ heap'[header[j].arr] = heap[header[j].arr]
      /\ actor[p].pc = "fetched"
      /\ actor'[p].pc = "fetched" \/ actor'[p].pc = "stored"
  BY <1>1, StoreHand
<1>3. CASE actor'[p].pc = "fetched"
  BY <1>1, <1>2, <1>3, StoresHidden
<1>4. CASE actor'[p].pc = "stored"
  BY <1>4, StoreMakes
<1> QED BY <1>2, <1>3, <1>4

(* Truncation and write of the file.                                       *)
LEMMA TruncateSaves ==
  ASSUME Safe, Sequential, Sequential', ~ overlapped, NEW p \in Savers, Truncate(p)
  PROVE  Promise!Alone /\ Promise!Save /\ UNCHANGED histories
<1>1. /\ SameJob(p) /\ actor[p].pc = "marshalled" /\ actor'[p].pc = "truncated"
      /\ file' = [size |-> 0, config |-> None] /\ UNCHANGED memory /\ UNCHANGED histories
  BY TruncateEffect
<1>2. overlapped' = FALSE
  BY <1>1, SafeParts DEF histories, RestOK
<1>3. InForce = actor[p] /\ InForce' = actor'[p] /\ AskedBy(InForce)' = AskedBy(InForce)
  <2>1. AtWork(p) /\ AtWork(p)'
    BY <1>1 DEF AtWork
  <2> QED BY <1>1, <1>2, <2>1, StepOfOne DEF Sequential
<1>4. StageOf(InForce.pc) = "made" /\ StageOf(InForce.pc)' = "saving"
  BY <1>1, <1>3, Stages
<1>5. Settled(InForce)' = Settled(InForce)
  <2>1. \A j \in Lists : Settled(InForce)'[j] = Settled(InForce)[j]
    BY <1>1, <1>3, MemoryStays, ShownIs, ShownNext
  <2> QED BY <2>1, SameShown
<1>6. Load' = Promise!Empty
  <2>1. Load' = Zero
    BY <1>1 DEF Load
  <2>2. Zero = Promise!Empty
    BY DEF Zero, Promise!Empty, Lists
  <2> QED BY <2>1, <2>2
<1> QED BY <1>1, <1>2, <1>3, <1>4, <1>5, <1>6 DEF Promise!Alone, Promise!Save

LEMMA PutAnswers ==
  ASSUME Safe, Sequential, ~ overlapped, NEW p \in Savers, Put(p)
  PROVE  /\ Promise!Alone /\ Promise!Answer /\ torn' = torn
         /\ promised' = IF AskedBy(InForce).op = "add"
                        THEN promised \cup {AskedBy(InForce).entry} ELSE promised
<1>1. /\ actor[p].pc = "truncated" /\ UNCHANGED << memory, overlapped, torn >>
      /\ actor'[p] = IF actor[p].kind = "routes" THEN [Free EXCEPT !.pc = "saved"] ELSE Free
      /\ promised' = IF actor[p].op = "add" THEN promised \cup {actor[p].entry} ELSE promised
  BY PutEffect
<1>2. /\ Load' = Memory /\ AtWork(p) /\ \A q \in Savers \ {p} : ~ AtWork(q)'
  BY PutSaves
<1>3. ~ AtWork(p)'
  BY <1>1 DEF AtWork, Free
<1>4. InForce = actor[p]
  BY <1>2, SequentialParts, OneInForce
<1>5. StageOf(InForce.pc) = "saving"
  BY <1>1, <1>4, Stages
<1>6. /\ StageOf(InForce.pc)' = "idle" /\ AskedBy(InForce)' = None
      /\ \A k \in Lists : Settled(InForce)'[k] = Contents(k)'
  BY <1>2, <1>3, NoneInForceNext DEF Quiet
<1>7. \A k \in Lists : Settled(InForce)[k] = Contents(k) /\ Contents(k)' = Contents(k)
  BY <1>1, <1>4, MemoryStays, ShownIs
<1>8. Settled(InForce)' = Settled(InForce)
  BY <1>6, <1>7, SameShown
<1>9. Settled(InForce) = Memory
  <2>1. PICK l, m : l = Settled(InForce) /\ m = Memory
    OBVIOUS
  <2>2. l = [k \in Lists |-> l[k]]
    BY <2>1, ShownIs
  <2>3. m = [k \in Lists |-> Contents(k)]
    BY <2>1 DEF Memory
  <2>4. \A k \in Lists : l[k] = Contents(k)
    BY <1>7, <2>1
  <2> QED BY <2>1, <2>2, <2>3, <2>4
<1>10. AskedBy(InForce).op = actor[p].op /\ AskedBy(InForce).entry = actor[p].entry
  BY <1>1, <1>4 DEF AskedBy
<1>11. overlapped' = FALSE
  BY <1>1, SafeParts DEF RestOK
<1> QED BY <1>1, <1>2, <1>5, <1>6, <1>8, <1>9, <1>10, <1>11 DEF Promise!Alone, Promise!Answer

(* Signals, and what routeUpdater does, have no part in it.                *)
LEMMA SignalHidden ==
  ASSUME Safe, Sequential, Sequential', ~ overlapped, NEW p \in Admins, Signal(p)
  PROVE  UNCHANGED Promise!configuration /\ UNCHANGED histories
<1>1. /\ p \in Savers /\ OthersStay(p) /\ actor'[p] = Free /\ actor[p].pc = "saved"
      /\ UNCHANGED << memory, file >> /\ UNCHANGED histories
  BY SignalEffect
<1>2. overlapped' = overlapped /\ file' = file
  BY <1>1 DEF histories
<1>3. \A q \in Savers : AtWork(q)' <=> AtWork(q)
  BY <1>1 DEF AtWork, Free, OthersStay
<1>4. InForce' = InForce
  <2>1. CASE Quiet
    <3>1. InForce = Free /\ InForce' = Free
      BY <1>3, <2>1 DEF Quiet, InForce
    <3> QED BY <3>1
  <2>2. ASSUME NEW q \in Savers, AtWork(q)
        PROVE  InForce' = InForce
    <3>1. q # p
      BY <1>1, <2>2 DEF AtWork
    <3>2. actor'[q] = actor[q]
      BY <1>1, <3>1 DEF OthersStay
    <3>3. InForce = actor[q] /\ InForce' = actor'[q]
      BY <1>2, <1>3, <2>2, OneInForce, OneInForceNext DEF Sequential
    <3> QED BY <3>2, <3>3
  <2> QED BY <2>1, <2>2 DEF Quiet
<1>5. StageOf(InForce.pc)' = StageOf(InForce.pc) /\ AskedBy(InForce)' = AskedBy(InForce)
  BY <1>4 DEF StageOf, AskedBy
<1>6. \A k \in Lists : Settled(InForce)'[k] = Settled(InForce)[k]
  BY <1>1, <1>4, MemoryStays, ShownIs, ShownNext
<1> QED BY <1>1, <1>2, <1>5, <1>6, NothingShows

LEMMA AsideHidden ==
  ASSUME UNCHANGED << memory, actor, file >>, UNCHANGED histories
  PROVE  UNCHANGED Promise!configuration
<1>1. actor' = actor /\ overlapped' = overlapped /\ file' = file
  BY DEF histories
<1>2. InForce' = InForce
  BY <1>1 DEF InForce, Quiet, AtWork
<1>3. StageOf(InForce.pc)' = StageOf(InForce.pc) /\ AskedBy(InForce)' = AskedBy(InForce)
  BY <1>2 DEF StageOf, AskedBy
<1>4. \A k \in Lists : Settled(InForce)'[k] = Settled(InForce)[k]
  BY <1>2, MemoryStays, ShownIs, ShownNext
<1> QED BY <1>1, <1>3, <1>4, NothingShows

(* A crash amid a save is one between truncation and write.                *)
LEMMA RestartCrashes ==
  ASSUME Safe, Sequential, ~ overlapped, Restart
  PROVE  /\ Promise!Alone /\ Promise!Crash /\ promised' = promised
         /\ torn' = (torn \/ file.config = None)
         /\ StageOf(InForce.pc) = "saving" => torn'
<1>1. /\ UNCHANGED << file, promised, overlapped >> /\ torn' = (torn \/ file.config = None)
  BY RestartEffect
<1>2. /\ Load' = Load /\ \A k \in Lists : Contents(k)' = Load[k]
      /\ \A p \in Savers : actor'[p].pc = "free"
  BY RestartSequential
<1>3. /\ StageOf(InForce.pc)' = "idle" /\ AskedBy(InForce)' = None
      /\ \A k \in Lists : Settled(InForce)'[k] = Contents(k)'
  BY <1>2, NoneInForceNext DEF Quiet, AtWork
<1>4. Settled(InForce)' = Load
  <2>1. PICK l, m : l = Settled(InForce)' /\ m = Load
    OBVIOUS
  <2>2. l = [k \in Lists |-> l[k]]
    BY <2>1, ShownNext
  <2>3. m = [k \in Lists |-> m[k]]
    BY <2>1, ShownEntries
  <2>4. \A k \in Lists : l[k] = m[k]
    BY <1>2, <1>3, <2>1
  <2> QED BY <2>1, <2>2, <2>3, <2>4
<1>5. ASSUME StageOf(InForce.pc) = "saving"
      PROVE  file.config = None
  <2>1. ~ Quiet
    <3>1. Quiet => StageOf(InForce.pc) = "idle"
      BY NoneInForce
    <3> QED BY <1>5, <3>1
  <2>2. PICK p \in Savers : AtWork(p)
    BY <2>1 DEF Quiet
  <2>3. InForce = actor[p]
    BY <2>2, SequentialParts, OneInForce
  <2>4. actor[p].pc \in {"begun", "fetched", "stored", "marshalled", "truncated"}
    BY <2>2, SafeParts DEF AtWork, ActorSet, Pcs
  <2>5. actor[p].pc = "truncated"
    BY <1>5, <2>3, <2>4, Stages
  <2> QED BY <2>5, SequentialParts DEF DataInv, DataOK
<1>6. overlapped' = FALSE
  BY <1>1, SafeParts DEF RestOK
<1> QED BY <1>1, <1>2, <1>3, <1>4, <1>5, <1>6 DEF Promise!Alone, Promise!Crash

-----------------------------------------------------------------------------
(* What this means for the lists, the file and the promises. *)

(* Every step, as what it shows and what it promises.                      *)
ShowsAskToAdd == Promise!Alone /\ Promise!AskToAdd /\ promised' = promised
ShowsAskToDelete ==
  /\ Promise!Alone /\ Promise!AskToDelete
  /\ promised' = promised \ {AskedBy(InForce)'.entry}
ShowsWork ==
  /\ Promise!Alone /\ (Promise!MakeAddition \/ Promise!MakeDeletion \/ Promise!Save)
  /\ promised' = promised
ShowsAnswer ==
  /\ Promise!Alone /\ Promise!Answer
  /\ promised' = IF AskedBy(InForce).op = "add"
                 THEN promised \cup {AskedBy(InForce).entry} ELSE promised
ShowsCrash ==
  /\ Promise!Alone /\ Promise!Crash /\ promised' = promised
  /\ StageOf(InForce.pc) = "saving" => torn'
  /\ restarts' # restarts
ShowsNothing == UNCHANGED Promise!configuration /\ promised' = promised

LEMMA EveryStepShows ==
  ASSUME Safe, Safe', Sequential, ~ overlapped, [Next]_vars, ~ overlapped'
  PROVE  /\ ShowsAskToAdd \/ ShowsAskToDelete \/ ShowsWork \/ ShowsAnswer \/ ShowsCrash \/ ShowsNothing
         /\ torn => torn'
<1>1. Sequential'
  BY SequentialInvariant
<1>2. ASSUME NEW p \in Admins, Request(p)
      PROVE  (ShowsAskToAdd \/ ShowsAskToDelete) /\ torn' = torn
  BY <1>1, <1>2, AddAsks, DeleteAsks DEF Request, ShowsAskToAdd, ShowsAskToDelete
<1>3. ASSUME NEW p \in Admins, Change(p)
      PROVE  (ShowsWork \/ ShowsNothing) /\ torn' = torn
  <2>1. CASE FetchToAdd(p) \/ FetchToDelete(p)
    BY <1>1, <2>1, FetchHidden DEF ShowsNothing, histories
  <2>2. CASE DeletePanics(p)
    BY <2>2, PanicNeedsTwo
  <2>3. CASE Move(p)
    BY <1>1, <2>3, MoveHidden DEF ShowsNothing, histories
  <2>4. CASE Store(p)
    BY <1>1, <2>4, StoreShows DEF ShowsWork, ShowsNothing, histories
  <2>5. CASE Marshal(p)
    BY <1>1, <2>5, MarshalHidden DEF ShowsNothing, histories
  <2> QED BY <1>3, <2>1, <2>2, <2>3, <2>4, <2>5 DEF Change
<1>4. ASSUME NEW p \in Savers, Save(p)
      PROVE  (ShowsWork \/ ShowsAnswer) /\ torn' = torn
  BY <1>1, <1>4, TruncateSaves, PutAnswers DEF Save, ShowsWork, ShowsAnswer, histories
<1>5. ASSUME NEW p \in Admins, Signal(p)
      PROVE  ShowsNothing /\ torn' = torn
  BY <1>1, <1>5, SignalHidden DEF ShowsNothing, histories
<1>6. CASE Updater \/ UNCHANGED vars
  <2>1. UNCHANGED << memory, actor, file >> /\ UNCHANGED histories
    BY <1>6 DEF vars, Updater, UpdaterTake, UpdaterLoad, UpdaterRead, UpdaterPush
  <2> QED BY <2>1, AsideHidden DEF ShowsNothing, histories
<1>7. ASSUME NEW key \in Keys, CliAddNode(key)
      PROVE  FALSE
  BY <1>7 DEF CliAddNode
<1>8. CASE Restart
  <2>1. /\ Promise!Alone /\ Promise!Crash /\ promised' = promised
        /\ torn' = (torn \/ file.config = None)
        /\ StageOf(InForce.pc) = "saving" => torn'
    BY <1>8, RestartCrashes
  <2>2. torn => torn'
    BY <2>1, Zenon
  <2>3. restarts' # restarts
    <3>1. restarts \in Nat
      BY SafeParts, BoundsAssumption DEF RestOK
    <3> QED BY <1>8, <3>1 DEF Restart
  <2> QED BY <2>1, <2>2, <2>3 DEF ShowsCrash
<1> QED BY <1>2, <1>3, <1>4, <1>5, <1>6, <1>7, <1>8 DEF Next

(* The lists l, the file's lists s, a request r at its stage, the promises *)
(* and whether a crash has torn a save.                                    *)
Keyed(list) == \A i, j \in DOMAIN list : list[i].key = list[j].key => i = j
Fresh(list, key) == \A i \in DOMAIN list : list[i].key # key
Held(l) == {e \in Entries : \E k \in Lists : \E i \in DOMAIN l[k] : l[k][i] = e}
ListsOK(l, s, stage, r, promises, t) ==
  /\ l \in [Lists -> Seq(Entries)] /\ s \in [Lists -> Seq(Entries)]
  /\ stage \in {"idle", "asked"} => l = s
  /\ Keyed(l["routes"]) /\ Keyed(s["routes"])
  /\ stage # "idle" => r.kind \in Lists /\ r.entry \in Entries
  /\ stage = "asked" /\ r.op = "add" /\ r.kind = "routes" => Fresh(l["routes"], r.entry.key)
  /\ stage \in {"made", "saving"} /\ r.op = "add" => r.entry \in Held(l)
  /\ ~ t => /\ promises \subseteq Held(l)
            /\ stage # "saving" => promises \subseteq Held(s)
            /\ stage = "asked" /\ r.op = "delete" => r.entry \notin promises

LEMMA KeyedAppend ==
  ASSUME NEW list \in Seq(Entries), NEW e \in Entries, Keyed(list), Fresh(list, e.key)
  PROVE  Keyed(Append(list, e))
<1>1. PICK n, new : new = Append(list, e) /\ n = Len(list) /\ n \in Nat
  BY ListDomain
<1>2. /\ DOMAIN list = 1 .. n /\ DOMAIN new = 1 .. n + 1
      /\ new[n + 1] = e /\ \A i \in 1 .. n : new[i] = list[i]
  BY <1>1, AppendedList
<1>3. PICK key : key = e.key
  OBVIOUS
<1>4. ASSUME NEW i \in 1 .. n + 1, NEW j \in 1 .. n + 1, new[i].key = new[j].key
      PROVE  i = j
  <2>1. \A m \in 1 .. n : new[m].key # key
    BY <1>2, <1>3 DEF Fresh
  <2>2. new[n + 1].key = key
    BY <1>2, <1>3
  <2>3. \A m \in 1 .. n + 1 : m # n + 1 => m \in 1 .. n
    BY <1>1
  <2>4. CASE i = n + 1 \/ j = n + 1
    BY <1>4, <2>1, <2>2, <2>3, <2>4
  <2>5. CASE i # n + 1 /\ j # n + 1
    <3>1. i \in 1 .. n /\ j \in 1 .. n
      BY <2>3, <2>5
    <3> QED BY <1>2, <1>4, <3>1 DEF Keyed
  <2> QED BY <2>4, <2>5
<1> QED BY <1>1, <1>2, <1>4 DEF Keyed

(* Without the entry at d a list keeps its order, and all others.          *)
LEMMA WithoutOne ==
  ASSUME NEW list \in Seq(Entries), NEW d \in DOMAIN list, NEW rest, rest = RemoveAt(list, d)
  PROVE  /\ rest \in Seq(Entries) /\ (Keyed(list) => Keyed(rest))
         /\ \A i \in DOMAIN list : i = d \/ \E j \in DOMAIN rest : rest[j] = list[i]
<1>1. PICK n \in Nat : n = Len(list) /\ DOMAIN list = 1 .. n
  BY ListDomain
<1> SUFFICES ASSUME NEW at \in 1 .. n, rest = RemoveAt(list, at)
             PROVE  /\ rest \in Seq(Entries) /\ (Keyed(list) => Keyed(rest))
                    /\ \A i \in DOMAIN list : i = at \/ \E j \in DOMAIN rest : rest[j] = list[i]
  BY <1>1
<1>2. /\ rest \in Seq(Entries) /\ Len(rest) = n - 1
      /\ \A i \in 1 .. n - 1 : rest[i] = IF i < at THEN list[i] ELSE list[i + 1]
  <2>1. rest = SubSeq(list, 1, at - 1) \o SubSeq(list, at + 1, Len(list))
    BY DEF RemoveAt
  <2>2. n = Len(list)
    BY <1>1
  <2>3. PICK whole : whole = SubSeq(list, 1, at - 1) \o SubSeq(list, at + 1, Len(list))
    OBVIOUS
  <2>4. /\ whole \in Seq(Entries) /\ Len(whole) = n - 1
        /\ \A i \in 1 .. n - 1 : whole[i] = IF i < at THEN list[i] ELSE list[i + 1]
    BY <2>2, <2>3, ListWithout
  <2> QED BY <2>1, <2>3, <2>4
<1>3. DOMAIN rest = 1 .. n - 1
  BY <1>2, ListDomain
<1>4. ASSUME Keyed(list), NEW i \in 1 .. n - 1, NEW j \in 1 .. n - 1, rest[i].key = rest[j].key
      PROVE  i = j
  <2>1. PICK u \in 1 .. n : u = IF i < at THEN i ELSE i + 1
    BY <1>1
  <2>2. PICK v \in 1 .. n : v = IF j < at THEN j ELSE j + 1
    BY <1>1
  <2>3. rest[i] = list[u] /\ rest[j] = list[v]
    BY <1>2, <2>1, <2>2
  <2>4. u = v
    BY <1>1, <1>4, <2>3 DEF Keyed
  <2> QED BY <1>1, <2>1, <2>2, <2>4
<1>5. ASSUME NEW i \in 1 .. n, i # at
      PROVE  \E j \in 1 .. n - 1 : rest[j] = list[i]
  <2>1. PICK j \in 1 .. n - 1 : j = IF i < at THEN i ELSE i - 1
    BY <1>1, <1>5
  <2>2. rest[j] = list[i]
    BY <1>1, <1>2, <1>5, <2>1
  <2> QED BY <2>2
<1> QED BY <1>1, <1>2, <1>3, <1>4, <1>5 DEF Keyed

LEMMA AdditionOK ==
  ASSUME NEW l, NEW s, NEW r, NEW pr, NEW t, NEW u, t => u, NEW m,
         ListsOK(l, s, "asked", r, pr, t), r.op = "add",
         m = [l EXCEPT ![r.kind] = Append(@, r.entry)]
  PROVE  ListsOK(m, s, "made", r, pr, u)
<1>1. PICK k \in Lists, e \in Entries : k = r.kind /\ e = r.entry
  BY DEF ListsOK
<1>2. l \in [Lists -> Seq(Entries)] /\ l[k] \in Seq(Entries)
  BY DEF ListsOK
<1>3. PICK old, n, new : /\ old \in Seq(Entries) /\ old = l[k]
                         /\ n \in Nat /\ n = Len(old) /\ new = Append(old, e)
  BY <1>2, ListDomain
<1>4. /\ new \in Seq(Entries) /\ DOMAIN old = 1 .. n /\ DOMAIN new = 1 .. n + 1
      /\ new[n + 1] = e /\ \A i \in 1 .. n : new[i] = old[i]
  BY <1>3, AppendedList
<1>5. m = [l EXCEPT ![k] = new]
  BY <1>1, <1>3
<1>6. m \in [Lists -> Seq(Entries)] /\ m[k] = new /\ \A j \in Lists \ {k} : m[j] = l[j]
  BY <1>2, <1>4, <1>5
<1>7. Keyed(m["routes"])
  <2>1. CASE k = "routes"
    <3>1. Keyed(old) /\ Fresh(old, e.key)
      BY <1>1, <1>3, <2>1 DEF ListsOK
    <3>2. Keyed(new)
      BY <1>3, <3>1, KeyedAppend
    <3> QED BY <1>6, <2>1, <3>2
  <2>2. CASE k # "routes"
    BY <1>6, <2>2 DEF ListsOK, Lists
  <2> QED BY <2>1, <2>2
<1>8. Held(l) \subseteq Held(m) /\ e \in Held(m)
  <2>1. n + 1 \in DOMAIN m[k] /\ m[k][n + 1] = e
    <3>1. n + 1 \in 1 .. n + 1
      BY <1>3
    <3> QED BY <1>4, <1>6, <3>1
  <2>2. ASSUME NEW j \in Lists, NEW i \in DOMAIN l[j]
        PROVE  i \in DOMAIN m[j] /\ m[j][i] = l[j][i]
    <3>1. \A v \in 1 .. n : v \in 1 .. n + 1
      BY <1>3
    <3>2. CASE j = k
      BY <1>3, <1>4, <1>6, <3>1, <3>2
    <3>3. CASE j # k
      BY <1>6, <3>3
    <3> QED BY <3>2, <3>3
  <2>3. Held(l) \subseteq Held(m)
    BY <2>2 DEF Held
  <2> QED BY <2>1, <2>3 DEF Held
<1>9. /\ s \in [Lists -> Seq(Entries)] /\ Keyed(s["routes"]) /\ r.kind \in Lists
      /\ r.entry \in Entries
      /\ ~ t => pr \subseteq Held(l) /\ pr \subseteq Held(s)
  BY DEF ListsOK
<1> QED BY <1>1, <1>6, <1>7, <1>8, <1>9 DEF ListsOK

LEMMA DeletionOK ==
  ASSUME NEW l, NEW s, NEW r, NEW pr, NEW t, NEW u, t => u, NEW m,
         ListsOK(l, s, "asked", r, pr, t), r.op = "delete",
         NEW d \in DOMAIN l[r.kind], l[r.kind][d] = r.entry,
         m = [l EXCEPT ![r.kind] = RemoveAt(@, d)]
  PROVE  ListsOK(m, s, "made", r, pr, u)
<1>1. PICK k \in Lists, e \in Entries : k = r.kind /\ e = r.entry
  BY DEF ListsOK
<1>2. l \in [Lists -> Seq(Entries)] /\ l[k] \in Seq(Entries)
  BY DEF ListsOK
<1>3. PICK old, new : old \in Seq(Entries) /\ old = l[k] /\ new = RemoveAt(old, d)
  BY <1>2
<1>4. d \in DOMAIN old /\ old[d] = e
  BY <1>1, <1>3
<1>5. /\ new \in Seq(Entries) /\ (Keyed(old) => Keyed(new))
      /\ \A i \in DOMAIN old : i = d \/ \E j \in DOMAIN new : new[j] = old[i]
  BY <1>3, <1>4, WithoutOne
<1>6. m = [l EXCEPT ![k] = new]
  <2>1. m = [l EXCEPT ![k] = RemoveAt(l[k], d)]
    BY <1>1
  <2> QED BY <1>3, <2>1
<1>7. m \in [Lists -> Seq(Entries)] /\ m[k] = new /\ \A j \in Lists \ {k} : m[j] = l[j]
  BY <1>2, <1>5, <1>6
<1>8. Keyed(m["routes"])
  <2>1. CASE k = "routes"
    BY <1>3, <1>5, <1>7, <2>1 DEF ListsOK
  <2>2. CASE k # "routes"
    BY <1>7, <2>2 DEF ListsOK, Lists
  <2> QED BY <2>1, <2>2
<1>9. Held(l) \ {e} \subseteq Held(m)
  <2>1. ASSUME NEW f \in Entries, f # e, NEW j \in Lists, NEW i \in DOMAIN l[j], l[j][i] = f
        PROVE  f \in Held(m)
    <3>1. \E v \in DOMAIN m[j] : m[j][v] = f
      <4>1. CASE j = k
        BY <1>3, <1>4, <1>5, <1>7, <2>1, <4>1
      <4>2. CASE j # k
        BY <1>7, <2>1, <4>2
      <4> QED BY <4>1, <4>2
    <3> QED BY <3>1 DEF Held
  <2> QED BY <2>1 DEF Held
<1>10. /\ s \in [Lists -> Seq(Entries)] /\ Keyed(s["routes"]) /\ r.kind \in Lists
       /\ r.entry \in Entries
       /\ ~ t => pr \subseteq Held(l) /\ pr \subseteq Held(s) /\ e \notin pr
  BY <1>1 DEF ListsOK
<1> QED BY <1>1, <1>7, <1>8, <1>9, <1>10 DEF ListsOK

(* Between steps the lists, the file and the promises agree so.            *)
ListsInv ==
  ListsOK(Settled(InForce), Load, StageOf(InForce.pc), AskedBy(InForce), promised, torn)

LEMMA StepsKeepLists ==
  ASSUME Safe, Safe', Sequential, ~ overlapped, ListsInv, [Next]_vars, ~ overlapped'
  PROVE  ListsInv'
<1>1. PICK l, m, s, u, st, sv, r, q, pr, ps, t, v :
        /\ l = Settled(InForce) /\ m = Settled(InForce)' /\ s = Load /\ u = Load'
        /\ st = StageOf(InForce.pc) /\ sv = StageOf(InForce.pc)'
        /\ r = AskedBy(InForce) /\ q = AskedBy(InForce)'
        /\ pr = promised /\ ps = promised' /\ t = torn /\ v = torn'
  OBVIOUS
<1>2. ListsOK(l, s, st, r, pr, t) /\ (t => v)
  BY <1>1, EveryStepShows DEF ListsInv
<1>3. /\ l \in [Lists -> Seq(Entries)] /\ s \in [Lists -> Seq(Entries)]
      /\ st \in {"idle", "asked"} => l = s
      /\ Keyed(l["routes"]) /\ Keyed(s["routes"])
      /\ st # "idle" => r.kind \in Lists /\ r.entry \in Entries
      /\ st \in {"made", "saving"} /\ r.op = "add" => r.entry \in Held(l)
      /\ ~ t => /\ pr \subseteq Held(l)
                /\ st # "saving" => pr \subseteq Held(s)
  BY <1>2 DEF ListsOK
<1> SUFFICES ListsOK(m, u, sv, q, ps, v)
  BY <1>1 DEF ListsInv
<1>4. CASE ShowsAskToAdd
  <2>1. PICK k \in Lists, e \in Entries :
          /\ st = "idle" /\ sv = "asked" /\ (k = "routes" => ~ Promise!InUse(k, e.key))
          /\ q = [op |-> "add", kind |-> k, entry |-> e] /\ m = l /\ u = s
    BY <1>1, <1>4 DEF ShowsAskToAdd, Promise!AskToAdd
  <2>2. k = "routes" => Fresh(m["routes"], e.key)
    BY <1>1, <2>1 DEF Promise!InUse, Fresh
  <2>3. ps = pr
    BY <1>1, <1>4 DEF ShowsAskToAdd
  <2>4. q.op = "add" /\ q.kind = k /\ q.entry = e
    BY <2>1
  <2> QED BY <1>2, <1>3, <2>1, <2>2, <2>3, <2>4 DEF ListsOK
<1>5. CASE ShowsAskToDelete
  <2>1. PICK k \in Lists : \E i \in DOMAIN l[k] :
          /\ st = "idle" /\ sv = "asked"
          /\ q = [op |-> "delete", kind |-> k, entry |-> l[k][i]] /\ m = l /\ u = s
    BY <1>1, <1>5 DEF ShowsAskToDelete, Promise!AskToDelete
  <2>2. PICK i \in DOMAIN l[k] :
          /\ st = "idle" /\ sv = "asked"
          /\ q = [op |-> "delete", kind |-> k, entry |-> l[k][i]] /\ m = l /\ u = s
    BY <2>1
  <2>3. q.op = "delete" /\ q.kind = k /\ q.entry = l[k][i]
    BY <2>2
  <2>4. l[k][i] \in Entries
    <3>1. l[k] \in Seq(Entries)
      BY <1>3
    <3> QED BY <3>1, ListDomain
  <2>5. ps = pr \ {q.entry}
    BY <1>1, <1>5 DEF ShowsAskToDelete
  <2> QED BY <1>2, <1>3, <2>2, <2>3, <2>4, <2>5 DEF ListsOK
<1>6. CASE ShowsWork
  <2>1. ps = pr
    BY <1>1, <1>6 DEF ShowsWork
  <2>2. CASE Promise!MakeAddition
    <3>1. /\ st = "asked" /\ r.op = "add" /\ m = [l EXCEPT ![r.kind] = Append(@, r.entry)]
          /\ sv = "made" /\ u = s /\ q = r
      BY <1>1, <2>2 DEF Promise!MakeAddition
    <3> QED BY <1>2, <2>1, <3>1, AdditionOK
  <2>3. CASE Promise!MakeDeletion
    <3>1. /\ st = "asked" /\ r.op = "delete" /\ sv = "made" /\ u = s /\ q = r
          /\ \E d \in DOMAIN l[r.kind] :
               l[r.kind][d] = r.entry /\ m = [l EXCEPT ![r.kind] = Promise!RemoveAt(@, d)]
      BY <1>1, <2>3 DEF Promise!MakeDeletion
    <3>2. PICK d \in DOMAIN l[r.kind] :
            l[r.kind][d] = r.entry /\ m = [l EXCEPT ![r.kind] = Promise!RemoveAt(@, d)]
      BY <3>1
    <3>3. m = [l EXCEPT ![r.kind] = RemoveAt(@, d)]
      BY <3>2 DEF RemoveAt, Promise!RemoveAt
    <3> QED BY <1>2, <2>1, <3>1, <3>2, <3>3, DeletionOK
  <2>4. CASE Promise!Save
    <3>1. st = "made" /\ sv = "saving" /\ u = Promise!Empty /\ m = l /\ q = r
      BY <1>1, <2>4 DEF Promise!Save
    <3>2. u \in [Lists -> Seq(Entries)] /\ u["routes"] = << >>
      <4>1. u = [k \in Lists |-> << >>]
        BY <3>1 DEF Promise!Empty
      <4>2. << >> \in Seq(Entries)
        OBVIOUS
      <4> QED BY <4>1, <4>2 DEF Lists
    <3>3. Keyed(u["routes"])
      <4>1. DOMAIN << >> = {}
        OBVIOUS
      <4> QED BY <3>2, <4>1 DEF Keyed
    <3> QED BY <1>2, <1>3, <2>1, <3>1, <3>2, <3>3 DEF ListsOK
  <2> QED BY <1>6, <2>2, <2>3, <2>4 DEF ShowsWork
<1>7. CASE ShowsAnswer
  <2>1. st = "saving" /\ sv = "idle" /\ u = l /\ m = l
    BY <1>1, <1>7 DEF ShowsAnswer, Promise!Answer
  <2>2. ps = IF r.op = "add" THEN pr \cup {r.entry} ELSE pr
    BY <1>1, <1>7 DEF ShowsAnswer
  <2> QED BY <1>2, <1>3, <2>1, <2>2 DEF ListsOK
<1>8. CASE ShowsCrash
  <2>1. m = s /\ sv = "idle" /\ u = s /\ ps = pr /\ (st = "saving" => v)
    BY <1>1, <1>8 DEF ShowsCrash, Promise!Crash
  <2> QED BY <1>2, <1>3, <2>1 DEF ListsOK
<1>9. CASE ShowsNothing
  <2>1. m = l /\ u = s /\ sv = st /\ q = r /\ ps = pr
    BY <1>1, <1>9 DEF ShowsNothing, Promise!configuration
  <2> QED BY <1>2, <1>3, <2>1 DEF ListsOK
<1> QED BY <1>4, <1>5, <1>6, <1>7, <1>8, <1>9, EveryStepShows

LEMMA InitLists == Init => ListsInv
<1> SUFFICES ASSUME Init
             PROVE  ListsInv
  OBVIOUS
<1>1. Safe /\ Sequential /\ Load = Saved /\ \A k \in Lists : Contents(k) = Load[k]
  BY InitSafe, InitSequential
<1>2. ~ overlapped /\ Quiet
  BY DEF Init, Quiet, AtWork, Free
<1>3. /\ StageOf(InForce.pc) = "idle"
      /\ \A k \in Lists : Settled(InForce)[k] = Load[k]
  BY <1>1, <1>2, NoneInForce
<1>4. PICK l, s : l = Settled(InForce) /\ s = Saved /\ s = Load
  BY <1>1
<1>5. l = s /\ s \in [Lists -> Seq(Entries)]
  <2>1. l \in [Lists -> Seq(Entries)] /\ s \in [Lists -> Seq(Entries)]
    BY <1>1, <1>2, <1>4, ShownEntries
  <2>2. \A k \in Lists : l[k] = s[k]
    BY <1>3, <1>4
  <2> QED BY <2>1, <2>2
<1>6. Keyed(s["routes"])
  BY <1>4, SavedAssumption DEF Keyed
<1>7. promised \subseteq Held(s)
  <2>1. PICK x, y : x = s["routes"] /\ y = s["nodes"]
    OBVIOUS
  <2>2. promised = {x[i] : i \in DOMAIN x} \cup {y[i] : i \in DOMAIN y}
    BY <1>4, <2>1, SavedIs DEF Init, ToSet
  <2>3. promised \subseteq Entries
    BY <1>1, SafeParts DEF RestOK
  <2> QED BY <2>1, <2>2, <2>3 DEF Held, Lists
<1>8. ListsOK(l, s, "idle", AskedBy(InForce), promised, torn)
  BY <1>5, <1>6, <1>7 DEF ListsOK
<1> QED BY <1>3, <1>4, <1>8 DEF ListsInv

LEMMA ListsInvariant == Spec => [](IInv /\ (~ overlapped => ListsInv))
<1>1. Init => IInv /\ (~ overlapped => ListsInv)
  BY InitSafe, InitSequential, InitLists DEF IInv
<1>2. IInv /\ (~ overlapped => ListsInv) /\ [Next]_vars => (IInv /\ (~ overlapped => ListsInv))'
  <2> SUFFICES ASSUME IInv, ~ overlapped => ListsInv, [Next]_vars
               PROVE  IInv' /\ (~ overlapped' => ListsInv')
    OBVIOUS
  <2>1. IInv'
    BY SafeInvariant, OverlapStays, SequentialInvariant DEF IInv
  <2>2. ~ overlapped' => ListsInv'
    BY <2>1, OverlapStays, StepsKeepLists DEF IInv
  <2> QED BY <2>1, <2>2
<1> QED BY <1>1, <1>2, PTL DEF Spec

(* With nobody at work, and requests one at a time, the file gives what    *)
(* the master has in memory: the save of each request (add_route.go:45)    *)
(* wrote the lists as its stores had left them.                            *)
THEOREM QuietFile == Spec => []QuietFileIsMemory
<1>1. IInv /\ (~ overlapped => ListsInv) => QuietFileIsMemory
  <2> SUFFICES ASSUME IInv, ListsInv, Quiet, ~ overlapped
               PROVE  Load = Memory
    BY DEF QuietFileIsMemory
  <2>1. /\ StageOf(InForce.pc) = "idle"
        /\ \A k \in Lists : Settled(InForce)[k] = Contents(k)
    BY NoneInForce
  <2>2. Settled(InForce) = Load
    BY <2>1 DEF ListsInv, ListsOK
  <2>3. PICK l : l = Load /\ l \in [Lists -> Seq(Entries)]
    BY ShownEntries DEF IInv
  <2>4. l = [k \in Lists |-> l[k]] /\ Memory = [k \in Lists |-> Contents(k)]
    BY <2>3 DEF Memory
  <2>5. \A k \in Lists : l[k] = Contents(k)
    BY <2>1, <2>2, <2>3
  <2> QED BY <2>3, <2>4, <2>5
<1> QED BY <1>1, ListsInvariant, PTL

(* As long as requests come one at a time no proxy_domain is in the routes *)
(* twice (add_route.go:32), whatever stores and crashes come in between.   *)
THEOREM DomainsUnique == Spec => []DomainsAreUnique
<1>1. IInv /\ (~ overlapped => ListsInv) => DomainsAreUnique
  <2> SUFFICES ASSUME IInv, ListsInv, ~ overlapped,
                      \A p \in Savers : actor[p].pc # "fetched"
               PROVE  Keyed(Contents("routes"))
    BY DEF DomainsAreUnique, Keyed
  <2>1. "routes" \in Lists
    BY DEF Lists
  <2>2. InForce.pc # "fetched"
    <3>1. CASE Quiet
      BY <3>1, NoneInForce
    <3>2. ASSUME NEW p \in Savers, AtWork(p)
          PROVE  InForce.pc # "fetched"
      BY <3>2, SequentialParts, OneInForce DEF IInv
    <3> QED BY <3>1, <3>2 DEF Quiet
  <2>3. Settled(InForce)["routes"] = Contents("routes")
    BY <2>1, <2>2, ShownIs
  <2> QED BY <2>3 DEF ListsInv, ListsOK
<1> QED BY <1>1, ListsInvariant, PTL

(* What a request has added and saved, and nobody has asked to be deleted, *)
(* is in the file between requests, unless they have overlapped or a crash *)
(* has come between a truncation and its write.                            *)
THEOREM AddedSaved == Spec => []AddedIsSaved
<1>1. IInv /\ (~ overlapped => ListsInv) => AddedIsSaved
  <2> SUFFICES ASSUME IInv, ListsInv, Quiet, ~ overlapped, ~ torn
               PROVE  promised \subseteq ToSet(Load.routes) \cup ToSet(Load.nodes)
    BY DEF AddedIsSaved
  <2>1. StageOf(InForce.pc) = "idle"
    BY NoneInForce
  <2>2. promised \subseteq Held(Load)
    BY <2>1 DEF ListsInv, ListsOK
  <2>3. PICK x, y, l : l = Load /\ x = l["routes"] /\ y = l["nodes"]
    OBVIOUS
  <2>4. Load.routes = x /\ Load.nodes = y
    BY <2>3, SafeParts, LoadIs DEF IInv
  <2>5. Held(l) \subseteq {x[i] : i \in DOMAIN x} \cup {y[i] : i \in DOMAIN y}
    BY <2>3 DEF Held, Lists
  <2> QED BY <2>2, <2>3, <2>4, <2>5 DEF ToSet
<1> QED BY <1>1, ListsInvariant, PTL

(* An entry leaves a list only for the request that is to delete it, while *)
(* requests come one at a time and the master does not crash: the stores   *)
(* of config.go:61/99 take out that entry and no other.                    *)
LeaveWhenAsked ==
  [][~ overlapped' /\ restarts' = restarts =>
       \A k \in Lists : \A e \in ToSet(Settled(InForce)[k]) \ ToSet(Settled(InForce)'[k]) :
         AskedBy(InForce).op = "delete" /\ AskedBy(InForce).entry = e]_vars

LEMMA StepLeaves ==
  ASSUME IInv, ~ overlapped => ListsInv, [Next]_vars, ~ overlapped', restarts' = restarts,
         NEW k \in Lists, NEW e \in ToSet(Settled(InForce)[k]) \ ToSet(Settled(InForce)'[k])
  PROVE  AskedBy(InForce).op = "delete" /\ AskedBy(InForce).entry = e
<1>1. Safe /\ Safe' /\ Sequential /\ ~ overlapped /\ ListsInv
  BY OverlapStays, SafeInvariant DEF IInv
<1>2. PICK l, m, r : l = Settled(InForce) /\ m = Settled(InForce)' /\ r = AskedBy(InForce)
  OBVIOUS
<1>3. PICK x, y : x = l[k] /\ y = m[k]
  OBVIOUS
<1>4. e \in {x[i] : i \in DOMAIN x} /\ e \notin {y[i] : i \in DOMAIN y}
  BY <1>2, <1>3 DEF ToSet
<1>5. PICK i \in DOMAIN x : x[i] = e
  BY <1>4
<1>6. ~ \E j \in DOMAIN y : y[j] = x[i]
  BY <1>4, <1>5
<1>7. l \in [Lists -> Seq(Entries)] /\ x \in Seq(Entries)
  BY <1>1, <1>2, <1>3, ShownEntries
<1>8. m # l
  BY <1>3, <1>6
<1>9. ShowsWork
  <2>1. ~ ShowsAskToAdd /\ ~ ShowsAskToDelete /\ ~ ShowsAnswer /\ ~ ShowsNothing
    BY <1>2, <1>8 DEF ShowsAskToAdd, ShowsAskToDelete, ShowsAnswer, ShowsNothing, Promise!AskToAdd, Promise!AskToDelete,
                      Promise!Answer, Promise!configuration
  <2>2. ~ ShowsCrash
    BY DEF ShowsCrash
  <2> QED BY <1>1, <2>1, <2>2, EveryStepShows
<1>10. CASE Promise!MakeAddition
  <2>1. /\ StageOf(InForce.pc) = "asked" /\ m = [l EXCEPT ![r.kind] = Append(@, r.entry)]
    BY <1>2, <1>10 DEF Promise!MakeAddition
  <2>2. r.kind \in Lists /\ r.entry \in Entries
    BY <1>1, <1>2, <2>1 DEF ListsInv, ListsOK
  <2>3. k = r.kind
    BY <1>3, <1>5, <1>6, <1>7, <2>1, <2>2
  <2>4. y = Append(x, r.entry)
    BY <1>3, <1>7, <2>1, <2>2, <2>3
  <2>5. /\ Len(x) \in Nat /\ DOMAIN x = 1 .. Len(x) /\ DOMAIN y = 1 .. Len(x) + 1
        /\ \A j \in 1 .. Len(x) : y[j] = x[j]
    BY <1>7, <2>2, <2>4, AppendedList
  <2>6. i \in DOMAIN y /\ y[i] = x[i]
    BY <2>5
  <2> QED BY <1>6, <2>6
<1>11. CASE Promise!MakeDeletion
  <2>1. /\ StageOf(InForce.pc) = "asked" /\ r.op = "delete"
        /\ \E d \in DOMAIN l[r.kind] :
             l[r.kind][d] = r.entry /\ m = [l EXCEPT ![r.kind] = Promise!RemoveAt(@, d)]
    BY <1>2, <1>11 DEF Promise!MakeDeletion
  <2>2. r.kind \in Lists
    BY <1>1, <1>2, <2>1 DEF ListsInv, ListsOK
  <2>3. PICK d \in DOMAIN l[r.kind] :
          l[r.kind][d] = r.entry /\ m = [l EXCEPT ![r.kind] = Promise!RemoveAt(@, d)]
    BY <2>1
  <2>4. k = r.kind
    BY <1>3, <1>5, <1>6, <1>7, <2>2, <2>3
  <2>5. d \in DOMAIN x /\ x[d] = r.entry /\ y = Promise!RemoveAt(x, d)
    BY <1>3, <1>7, <2>3, <2>4
  <2>6. y = RemoveAt(x, d)
    BY <2>5 DEF RemoveAt, Promise!RemoveAt
  <2>7. i = d
    BY <1>6, <1>7, <2>5, <2>6, WithoutOne
  <2> QED BY <1>2, <1>5, <2>1, <2>5, <2>7
<1>12. CASE Promise!Save
  BY <1>2, <1>8, <1>12 DEF Promise!Save
<1> QED BY <1>9, <1>10, <1>11, <1>12 DEF ShowsWork

(* This is so for any number of requests, routes and nodes.                *)
THEOREM OnlyAskedLeave == Spec => LeaveWhenAsked
<1>1. IInv /\ (~ overlapped => ListsInv) /\ [Next]_vars =>
        [~ overlapped' /\ restarts' = restarts =>
           \A k \in Lists : \A e \in ToSet(Settled(InForce)[k]) \ ToSet(Settled(InForce)'[k]) :
             AskedBy(InForce).op = "delete" /\ AskedBy(InForce).entry = e]_vars
  BY StepLeaves
<1> QED BY <1>1, ListsInvariant, PTL DEF Spec, LeaveWhenAsked

-----------------------------------------------------------------------------
(* The store is a Configuration. *)

LEMMA MixedLists ==
  Safe /\ overlapped => Settled(InForce) \in Promise!AnyLists /\ Load \in Promise!AnyLists
<1> SUFFICES ASSUME Safe, overlapped
             PROVE  Settled(InForce) \in Promise!AnyLists /\ Load \in Promise!AnyLists
  OBVIOUS
<1>1. PICK l : l = Settled(InForce)
  OBVIOUS
<1>2. \A k \in Lists : l[k] = Contents(k) /\ Contents(k) \in Seq(Slots)
  BY <1>1, NoneInForce, SafeParts, ContentsAre
<1>3. l \in [Lists -> Seq(Slots)]
  BY <1>1, <1>2, ShownIs
<1>4. Load \in [Lists -> Seq(Slots)]
  BY SafeParts, LoadIs DEF Configs
<1> QED BY <1>1, <1>3, <1>4 DEF Promise!AnyLists, Slots

LEMMA MixedNext ==
  (Safe /\ overlapped => Settled(InForce) \in Promise!AnyLists /\ Load \in Promise!AnyLists)'
BY MixedLists, PTL

LEMMA StepImplements ==
  ASSUME IInv, IInv', [Next]_vars
  PROVE  [Promise!Next]_(Promise!configuration)
<1>1. CASE overlapped'
  <2>1. (StageOf(InForce.pc) = "idle" /\ AskedBy(InForce) = None)'
    BY <1>1, NoneInForceNext
  <2>2. Settled(InForce)' \in Promise!AnyLists /\ Load' \in Promise!AnyLists
    BY <1>1, MixedNext DEF IInv
  <2>3. overlapped' = TRUE
    <3>1. overlapped' \in BOOLEAN
      BY DEF IInv, Safe, TypeOK
    <3> QED BY <1>1, <3>1
  <2>4. Promise!Mixed
    BY <2>1, <2>2, <2>3 DEF Promise!Mixed
  <2> QED BY <2>4 DEF Promise!Next
<1>2. CASE ~ overlapped'
  <2>1. ShowsAskToAdd \/ ShowsAskToDelete \/ ShowsWork \/ ShowsAnswer \/ ShowsCrash \/ ShowsNothing
    BY <1>2, OverlapStays, EveryStepShows DEF IInv
  <2> QED BY <2>1 DEF ShowsAskToAdd, ShowsAskToDelete, ShowsWork, ShowsAnswer, ShowsCrash, ShowsNothing, Promise!Next
<1> QED BY <1>1, <1>2

(* The store implements a Configuration: whatever number of slots, words,   *)
(* arrays and writes a request of add_route.go, remove_route.go,            *)
(* add_node.go or delete_node.go takes, and in whatever order, while        *)
(* requests come one at a time it changes its list at once, leaves the      *)
(* other alone and is answered when both are in the file; a crash gives the *)
(* lists of the file.                                                       *)
THEOREM StoreImplementsConfiguration == Spec => StoreIsConfiguration
<1>1. Init => Promise!Init
  <2> SUFFICES ASSUME Init
               PROVE  Promise!Init
    OBVIOUS
  <2>1. ListsInv
    BY InitLists
  <2>2. Quiet /\ overlapped = FALSE
    BY DEF Init, Quiet, AtWork, Free
  <2>3. StageOf(InForce.pc) = "idle" /\ AskedBy(InForce) = None
    BY <2>2, NoneInForce
  <2>4. /\ Load \in [Lists -> Seq(Entries)] /\ Settled(InForce) = Load
        /\ Keyed(Load["routes"])
    BY <2>1, <2>3 DEF ListsInv, ListsOK
  <2> QED BY <2>2, <2>3, <2>4 DEF Promise!Init, Promise!Configs, Keyed
<1>2. IInv /\ IInv' /\ [Next]_vars => [Promise!Next]_(Promise!configuration)
  BY StepImplements
<1> QED BY <1>1, <1>2, Invariant, PTL DEF Spec, StoreIsConfiguration, Promise!Spec

-----------------------------------------------------------------------------
(* The last table.  Calm: no request has begun to store to the routes whose *)
(* signal routeUpdater has not taken.                                       *)
Unsignalled(p) ==
  \/ actor[p].pc = "saved"
  \/ /\ actor[p].pc \in {"fetched", "stored", "marshalled", "truncated"}
     /\ actor[p].kind = "routes"
Calm == signals = 0 /\ \A p \in Savers : ~ Unsignalled(p)

(* What routeUpdater has read by then is still what the list is made of.   *)
TableOK ==
  /\ reader.pc = "rests" => pushed = None \/ pushed = Contents("routes")
  /\ reader.pc = "reads" =>
       /\ "arr" \notin reader.todo => reader.arr = header["routes"].arr
       /\ "len" \notin reader.todo => reader.len = header["routes"].len
       /\ reader.todo # {} => reader.read = << >>
       /\ \A i \in 1 .. Len(reader.read) : reader.read[i] = Slot(header["routes"].arr, i)
TableInv == Calm => TableOK

(* A step that leaves the routes and routeUpdater alone.                   *)
LEMMA RoutesStay ==
  ASSUME Safe, TableInv, NEW h, h = header["routes"], header'["routes"] = h,
         heap'[h.arr] = heap[h.arr], UNCHANGED updater, Calm' => Calm
  PROVE  TableInv'
<1>1. \A i : Slot(h.arr, i)' = Slot(h.arr, i)
  BY DEF Slot
<1>2. Contents("routes")' = Contents("routes")
  BY <1>1 DEF Contents
<1> HIDE DEF Contents
<1>3. TableOK => TableOK'
  BY <1>1, <1>2 DEF TableOK, updater
<1> QED BY <1>3 DEF TableInv

(* A step of p that begins no store to the routes.                         *)
LEMMA CalmBefore ==
  ASSUME NEW p \in Savers, OthersStay(p), signals' = signals,
         Unsignalled(p) => Unsignalled(p)'
  PROVE  Calm' => Calm
<1>1. ASSUME NEW q \in Savers, Unsignalled(q)
      PROVE  Unsignalled(q)'
  <2>1. CASE q = p
    BY <1>1, <2>1
  <2>2. CASE q # p
    BY <1>1, <2>2 DEF OthersStay, Unsignalled
  <2> QED BY <2>1, <2>2
<1> QED BY <1>1 DEF Calm

LEMMA KeptInPlace ==
  ASSUME Safe, TableInv, NEW p \in Savers, OthersStay(p), UNCHANGED << memory, updater >>,
         Unsignalled(p) => Unsignalled(p)'
  PROVE  TableInv'
<1>1. heap' = heap /\ header' = header /\ signals' = signals
  BY DEF memory, updater
<1>2. Calm' => Calm
  BY <1>1, CalmBefore
<1> QED BY <1>1, <1>2, RoutesStay

LEMMA KeptByRequest ==
  ASSUME Safe, TableInv, NEW p \in Admins, Request(p)
  PROVE  TableInv'
<1>1. /\ p \in Savers /\ OthersStay(p) /\ actor[p].pc = "free"
      /\ UNCHANGED << memory, updater >>
  <2>1. CASE \E k \in Kinds, key \in Keys : Add(p, k, key)
    <3>1. PICK k \in Kinds, key \in Keys : Add(p, k, key)
      BY <2>1
    <3>2. PICK e \in Entries : Arrive(p, k, "add", e, None)
      BY <3>1, AddEffect
    <3>3. p \in Savers /\ OthersStay(p) /\ actor[p].pc = "free"
      BY <3>2, ArriveEffect
    <3> QED BY <3>1, <3>3, AddEffect
  <2>2. CASE \E k \in Kinds : Delete(p, k)
    <3>1. PICK k \in Kinds : Delete(p, k)
      BY <2>2
    <3>2. PICK i \in Nat \ {0}, e \in Entries :
            Arrive(p, k, "delete", e, i) /\ UNCHANGED << memory, updater >>
      BY <3>1, DeleteEffect
    <3>3. p \in Savers /\ OthersStay(p) /\ actor[p].pc = "free"
      BY <3>2, ArriveEffect
    <3> QED BY <3>2, <3>3
  <2> QED BY <2>1, <2>2 DEF Request
<1> QED BY <1>1, KeptInPlace DEF Unsignalled

LEMMA KeptByFetch ==
  ASSUME Safe, TableInv, NEW p \in Admins, FetchToAdd(p) \/ FetchToDelete(p)
  PROVE  TableInv'
<1>1. CASE FetchToAdd(p)
  <2>1. PICK k, h, n, s : k = actor[p].kind /\ h = header[k] /\ n = Len(heap) /\ s = actor'[p].slice
    OBVIOUS
  <2>2. /\ p \in Savers /\ actor[p].pc = "begun" /\ header' = header /\ Unrelated /\ OthersStay(p)
        /\ \A a \in 1 .. n : heap'[a] = heap[a]
    BY <1>1, <2>1, FetchToAddEffect
  <2>3. "routes" \in Lists
    BY DEF Lists
  <2>4. PICK x : x = header["routes"]
    OBVIOUS
  <2>5. heap'[x.arr] = heap[x.arr]
    BY <2>1, <2>2, <2>3, <2>4, SafeParts
  <2>6. Calm' => Calm
    BY <2>2, CalmBefore DEF Unsignalled, Unrelated, updater
  <2> QED BY <2>2, <2>4, <2>5, <2>6, RoutesStay DEF Unrelated
<1>2. CASE FetchToDelete(p)
  <2>1. /\ p \in Savers /\ actor[p].pc = "begun" /\ UNCHANGED memory /\ Unrelated /\ OthersStay(p)
    BY <1>2, FetchToDeleteEffect
  <2> QED BY <2>1, KeptInPlace DEF Unsignalled, Unrelated
<1> QED BY <1>1, <1>2

(* A store to the nodes does not touch the array of the routes.            *)
LEMMA KeptByStores ==
  ASSUME Safe, Sequential, TableInv, NEW p \in Admins, Move(p) \/ Store(p)
  PROVE  TableInv'
<1>1. PICK k, s, b : k = actor[p].kind /\ s = actor[p].slice /\ b = actor[p].before
  OBVIOUS
<1>2. /\ p \in Savers /\ k \in Lists /\ actor[p].pc = "fetched" /\ actor'[p].pc \in {"fetched", "stored"}
      /\ Unrelated /\ OthersStay(p) /\ actor'[p].kind = k
      /\ \A j \in Lists \ {k} : header'[j] = header[j] /\ heap'[header[j].arr] = heap[header[j].arr]
  <2>1. CASE Move(p)
    <3>1. PICK i : i = actor[p].at
      OBVIOUS
    <3>2. /\ p \in Savers /\ actor[p].pc = "fetched" /\ SetSlot(s.arr, i, Slot(s.arr, i + 1))
          /\ header' = header /\ Unrelated /\ OthersStay(p) /\ SameJob(p) /\ actor'[p].pc = "fetched"
      BY <1>1, <2>1, <3>1, MoveEffect
    <3>3. k \in Lists /\ InHand(p, k, s, b)
      BY <1>1, <3>2, SafeParts, SequentialParts DEF HandInv, HandOK, ActorInv, ActorOK, AtWork
    <3>4. ASSUME NEW j \in Lists \ {k}
          PROVE  heap'[header[j].arr] = heap[header[j].arr]
      <4>1. header[j].arr # s.arr
        BY <3>3 DEF InHand
      <4> QED BY <3>2, <4>1 DEF SetSlot
    <3>5. actor'[p].kind = k
      BY <1>1, <3>2 DEF SameJob
    <3> QED BY <3>2, <3>3, <3>4, <3>5
  <2>2. CASE Store(p)
    <3>1. /\ k \in Lists /\ p \in Savers /\ OthersStay(p) /\ SameJob(p) /\ Unrelated
          /\ \A j \in Lists \ {k} : header'[j] = header[j] /\ heap'[header[j].arr] = heap[header[j].arr]
          /\ actor[p].pc = "fetched"
          /\ actor'[p].pc = "fetched" \/ actor'[p].pc = "stored"
      BY <1>1, <2>2, StoreHand
    <3>2. actor'[p].kind = k
      BY <1>1, <3>1 DEF SameJob
    <3> QED BY <3>1, <3>2
  <2> QED BY <2>1, <2>2
<1>3. CASE k = "routes"
  <2>1. Unsignalled(p)'
    BY <1>2, <1>3 DEF Unsignalled
  <2> QED BY <1>2, <2>1 DEF TableInv, Calm
<1>4. CASE k # "routes"
  <2>1. PICK h : h = header["routes"]
    OBVIOUS
  <2>2. "routes" \in Lists \ {k}
    BY <1>4 DEF Lists
  <2>3. header'["routes"] = h /\ heap'[h.arr] = heap[h.arr]
    BY <1>2, <2>1, <2>2
  <2>4. UNCHANGED updater /\ signals' = signals
    BY <1>2 DEF Unrelated, updater
  <2>5. Unsignalled(p) => Unsignalled(p)'
    BY <1>1, <1>2 DEF Unsignalled
  <2>6. Calm' => Calm
    BY <1>2, <2>4, <2>5, CalmBefore
  <2> QED BY <2>1, <2>3, <2>4, <2>6, RoutesStay
<1> QED BY <1>3, <1>4

LEMMA KeptBySave ==
  ASSUME Safe, TableInv, NEW p \in Savers, Save(p)
  PROVE  TableInv'
<1>1. CASE Truncate(p)
  <2>1. /\ OthersStay(p) /\ SameJob(p) /\ actor[p].pc = "marshalled" /\ actor'[p].pc = "truncated"
        /\ UNCHANGED << memory, updater >>
    BY <1>1, TruncateEffect
  <2>2. Unsignalled(p) => Unsignalled(p)'
    BY <2>1 DEF Unsignalled, SameJob
  <2> QED BY <2>1, <2>2, KeptInPlace
<1>2. CASE Put(p)
  <2>1. /\ OthersStay(p) /\ actor[p].pc = "truncated" /\ UNCHANGED << memory, updater >>
        /\ actor'[p] = IF actor[p].kind = "routes" THEN [Free EXCEPT !.pc = "saved"] ELSE Free
    BY <1>2, PutEffect
  <2>2. Unsignalled(p) => Unsignalled(p)'
    BY <2>1 DEF Unsignalled, Free
  <2> QED BY <2>1, <2>2, KeptInPlace
<1> QED BY <1>1, <1>2 DEF Save

LEMMA KeptByMarshal ==
  ASSUME Safe, TableInv, NEW p \in Admins, Marshal(p)
  PROVE  TableInv'
<1>1. /\ p \in Savers /\ OthersStay(p) /\ SameJob(p) /\ actor[p].pc = "stored"
      /\ actor'[p].pc = "marshalled" /\ UNCHANGED memory /\ Unrelated
  BY MarshalEffect
<1>2. Unsignalled(p) => Unsignalled(p)'
  BY <1>1 DEF Unsignalled, SameJob
<1> QED BY <1>1, <1>2, KeptInPlace DEF Unrelated

LEMMA KeptBySignal ==
  ASSUME Safe, NEW p \in Admins, Signal(p)
  PROVE  TableInv'
<1>1. signals \in Nat /\ signals' = signals + 1
  BY SafeParts, SignalEffect DEF UpdaterOK
<1> QED BY <1>1 DEF TableInv, Calm

(* routeUpdater reads what the calm list is made of; the table it has read *)
(* to the end is the list.                                                 *)
LEMMA KeptByUpdater ==
  ASSUME Safe, TableInv, Updater
  PROVE  TableInv'
<1>1. UNCHANGED << memory, actor >>
  BY DEF Updater, UpdaterTake, UpdaterLoad, UpdaterRead, UpdaterPush
<1>2. heap' = heap /\ header' = header /\ actor' = actor
  BY <1>1 DEF memory
<1>3. PICK h : h = header["routes"] /\ h = header'["routes"]
  BY <1>2
<1>4. \A i : Slot(h.arr, i)' = Slot(h.arr, i)
  BY <1>2 DEF Slot
<1>5. "routes" \in Lists
  BY DEF Lists
<1>6. CASE UpdaterTake
  <2>1. reader'.pc = "reads" /\ reader'.todo = {"arr", "len"} /\ reader'.read = << >>
    BY <1>6, TakeEffect
  <2>2. 1 .. Len(<< >>) = {}
    OBVIOUS
  <2> QED BY <2>1, <2>2 DEF TableInv, TableOK
<1>7. ASSUME ~ UpdaterTake, Calm'
      PROVE  Calm
  <2>1. signals' = signals
    BY <1>7 DEF Updater, UpdaterLoad, UpdaterRead, UpdaterPush
  <2> QED BY <1>2, <1>7, <2>1 DEF Calm, Unsignalled
<1>8. ASSUME UpdaterLoad, TableOK
      PROVE  TableOK'
  <2>1. PICK word \in {"arr", "len"} :
          /\ word \in reader.todo
          /\ reader'.todo = reader.todo \ {word}
          /\ reader'.arr = (IF word = "arr" THEN h.arr ELSE reader.arr)
          /\ reader'.len = (IF word = "len" THEN h.len ELSE reader.len)
          /\ reader'.read = reader.read
    BY <1>3, <1>8, LoadEffect
  <2>2. reader.pc = "reads" /\ reader'.pc = "reads"
    BY <1>3, <1>8, LoadEffect
  <2>3. reader.read = << >> /\ 1 .. Len(<< >>) = {}
    BY <1>8, <2>1, <2>2 DEF TableOK
  <2>4. "arr" \notin reader'.todo => reader'.arr = h.arr
    BY <1>3, <1>8, <2>1, <2>2 DEF TableOK
  <2>5. "len" \notin reader'.todo => reader'.len = h.len
    BY <1>3, <1>8, <2>1, <2>2 DEF TableOK
  <2> QED BY <1>3, <2>1, <2>2, <2>3, <2>4, <2>5 DEF TableOK
<1>9. ASSUME UpdaterRead, TableOK
      PROVE  TableOK'
  <2>1. PICK n \in Nat :
          /\ n = Len(reader.read) /\ reader.pc = "reads" /\ reader.todo = {}
          /\ reader'.pc = "reads" /\ reader'.todo = {}
          /\ reader'.arr = reader.arr /\ reader'.len = reader.len
          /\ Len(reader'.read) = n + 1 /\ reader'.read[n + 1] = Slot(reader.arr, n + 1)
          /\ \A i \in 1 .. n : reader'.read[i] = reader.read[i]
    BY <1>9, ReadEffect
  <2>2. /\ reader.arr = h.arr /\ reader.len = h.len
        /\ \A i \in 1 .. n : reader.read[i] = Slot(h.arr, i)
    BY <1>3, <1>9, <2>1 DEF TableOK
  <2>3. \A i \in 1 .. n + 1 : reader'.read[i] = Slot(h.arr, i)
    BY <2>1, <2>2
  <2> QED BY <1>3, <1>4, <2>1, <2>2, <2>3 DEF TableOK
<1>10. ASSUME UpdaterPush, TableOK
       PROVE  TableOK'
  <2>1. PICK t \in Seq(Slots) :
          /\ t = reader.read /\ reader.pc = "reads" /\ reader.todo = {} /\ Len(t) = reader.len
          /\ reader'.pc = "rests" /\ pushed' = t
    BY <1>10, PushEffect
  <2>2. Len(t) = h.len /\ \A i \in 1 .. Len(t) : t[i] = Slot(h.arr, i)
    BY <1>3, <1>10, <2>1 DEF TableOK
  <2>3. PICK list : list = Contents("routes")
    OBVIOUS
  <2>4. /\ list \in Seq(Slots) /\ Len(list) = h.len
        /\ \A i \in 1 .. h.len : list[i] = Slot(h.arr, i)
    BY <1>3, <1>5, <2>3, SafeParts, ContentsAre
  <2>5. t = list
    BY <2>1, <2>2, <2>4, SeqEqual
  <2>6. Contents("routes")' = list
    BY <1>2, <2>3 DEF Contents, Slot
  <2> QED BY <2>1, <2>5, <2>6 DEF TableOK
<1>11. CASE ~ UpdaterTake
  <2>1. TableOK => TableOK'
    BY <1>8, <1>9, <1>10, <1>11 DEF Updater
  <2> QED BY <1>7, <1>11, <2>1 DEF TableInv
<1> QED BY <1>6, <1>11

LEMMA TableKept ==
  ASSUME Safe, Sequential, TableInv, [Next]_vars, ~ overlapped'
  PROVE  TableInv'
<1>1. ASSUME NEW p \in Admins, Change(p)
      PROVE  TableInv'
  <2>1. CASE DeletePanics(p)
    BY <2>1, PanicNeedsTwo
  <2> QED BY <1>1, <2>1, KeptByFetch, KeptByStores, KeptByMarshal DEF Change
<1>2. ASSUME Restart
      PROVE  TableInv'
  <2>1. reader' = Resting /\ pushed' = None
    BY <1>2 DEF Restart
  <2> QED BY <2>1, RestingOK DEF TableInv, TableOK
<1>3. ASSUME NEW key \in Keys, CliAddNode(key)
      PROVE  TableInv'
  BY <1>3 DEF CliAddNode
<1>4. ASSUME UNCHANGED vars
      PROVE  TableInv'
  <2>1. header' = header /\ heap' = heap /\ UNCHANGED updater /\ actor' = actor /\ signals' = signals
    BY <1>4 DEF vars, memory, updater
  <2>2. Calm' => Calm
    BY <2>1 DEF Calm, Unsignalled
  <2> QED BY <2>1, <2>2, RoutesStay
<1> QED BY <1>1, <1>2, <1>3, <1>4, KeptByRequest, KeptBySignal, KeptBySave, KeptByUpdater DEF Next

LEMMA TableInvariant == Spec => [](IInv /\ (~ overlapped => TableInv))
<1>1. Init => IInv /\ (~ overlapped => TableInv)
  <2>1. Init => TableInv
    BY RestingOK DEF Init, TableInv, TableOK
  <2> QED BY <2>1, InitSafe, InitSequential DEF IInv
<1>2. IInv /\ (~ overlapped => TableInv) /\ [Next]_vars
        => IInv' /\ (~ overlapped' => TableInv')
  BY SafeInvariant, OverlapStays, SequentialInvariant, TableKept DEF IInv
<1> QED BY <1>1, <1>2, PTL DEF Spec

(* The last table is the list: routeUpdater reads the routes while requests *)
(* store and may send a table they have just torn, but as long as requests  *)
(* come one at a time and are signalled after their stores                  *)
(* (add_route.go:48, remove_route.go:27), the table it sends after the last *)
(* signal is whole.                                                         *)
THEOREM LastTableWhole == Spec => []LastTableIsWhole
<1>1. IInv /\ (~ overlapped => TableInv) => LastTableIsWhole
  <2> SUFFICES ASSUME TableInv, \A p \in Savers : actor[p].pc = "free", signals = 0,
                      reader = Resting, pushed # None
               PROVE  pushed = Contents("routes")
    BY DEF LastTableIsWhole
  <2>1. Calm
    BY DEF Calm, Unsignalled
  <2> QED BY <2>1, RestingOK DEF TableInv, TableOK
<1> QED BY <1>1, TableInvariant, PTL
=============================================================================
