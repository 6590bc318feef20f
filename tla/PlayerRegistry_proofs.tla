------------------------ MODULE PlayerRegistry_proofs ------------------------
(***************************************************************************)
(* Proofs about PlayerRegistry: type correctness, that the node's list is  *)
(* exact, that every entry of the master's list is explained, and that the *)
(* players who play are listed.                                            *)
(***************************************************************************)
EXTENDS PlayerRegistry, ListFacts, FiniteSetTheorems, FunctionTheorems, TLAPS

-----------------------------------------------------------------------------
(* Counting entries of a list and sessions of a set. *)

(* The number of entries is a number, and zero if there is none.           *)
LEMMA CountType ==
  ASSUME NEW S, NEW list \in Seq(S), NEW r
  PROVE  /\ IsFiniteSet({ i \in DOMAIN list : list[i] = r })
         /\ Count(list, r) \in Nat
         /\ Count(list, r) = 0 <=> \A i \in DOMAIN list : list[i] # r
<1> DEFINE at == { i \in DOMAIN list : list[i] = r }
<1>1. IsFiniteSet(1 .. Len(list)) /\ DOMAIN list = 1 .. Len(list)
  BY ListDomain, FS_Interval
<1>2. IsFiniteSet(at)
  BY <1>1, FS_Subset
<1>3. Cardinality(at) \in Nat /\ (Cardinality(at) = 0 <=> at = {})
  BY <1>2, FS_CardinalityType, FS_EmptySet
<1> QED BY <1>2, <1>3 DEF Count

(* An entry is one more of its kind.                                       *)
LEMMA CountAppend ==
  ASSUME NEW S, NEW list \in Seq(S), NEW e \in S, NEW r
  PROVE  Count(Append(list, e), r) = Count(list, r) + IF e = r THEN 1 ELSE 0
<1> DEFINE at == { i \in DOMAIN list : list[i] = r }
           longer == Append(list, e)
           n == Len(list)
           now == { i \in DOMAIN longer : longer[i] = r }
<1>1. /\ n \in Nat /\ DOMAIN list = 1 .. n /\ DOMAIN longer = 1 .. n + 1
      /\ longer[n + 1] = e /\ \A i \in 1 .. n : longer[i] = list[i]
  BY AppendedList
<1> HIDE DEF n, longer
<1>2. now = IF e = r THEN at \cup {n + 1} ELSE at
  BY <1>1
<1>3. n + 1 \notin at
  BY <1>1
<1>4. IsFiniteSet(at)
  BY CountType
<1>5. Cardinality(now) = Cardinality(at) + IF e = r THEN 1 ELSE 0
  <2> HIDE DEF at, now
  <2>1. Cardinality(at \cup {n + 1}) = Cardinality(at) + 1 /\ Cardinality(at) \in Nat
    BY <1>3, <1>4, FS_AddElement, FS_CardinalityType
  <2> QED BY <1>2, <2>1
<1> QED BY <1>5 DEF Count, longer

(* RemoveFirst cuts out one entry equal to the record, if there is one.    *)
LEMMA RemoveFirstCuts ==
  ASSUME NEW S, NEW list \in Seq(S), NEW r
  PROVE  \/ (\A i \in DOMAIN list : list[i] # r) /\ RemoveFirst(list, r) = list
         \/ \E k \in 1 .. Len(list) :
              /\ list[k] = r
              /\ RemoveFirst(list, r) \in Seq(S) /\ Len(RemoveFirst(list, r)) = Len(list) - 1
              /\ \A i \in 1 .. Len(list) - 1 :
                   RemoveFirst(list, r)[i] = IF i < k THEN list[i] ELSE list[i + 1]
<1> SUFFICES ASSUME ~ (\A i \in DOMAIN list : list[i] # r)
             PROVE  \E k \in 1 .. Len(list) :
                      /\ list[k] = r
                      /\ RemoveFirst(list, r) \in Seq(S)
                      /\ Len(RemoveFirst(list, r)) = Len(list) - 1
                      /\ \A i \in 1 .. Len(list) - 1 :
                           RemoveFirst(list, r)[i] = IF i < k THEN list[i] ELSE list[i + 1]
  BY DEF RemoveFirst
<1> DEFINE First(i) == list[i] = r /\ \A j \in 1 .. i - 1 : list[j] # r
           k == CHOOSE i \in DOMAIN list : First(i)
<1>1. Len(list) \in Nat /\ DOMAIN list = 1 .. Len(list)
  BY ListDomain
<1>2. PICK i \in { i \in DOMAIN list : list[i] = r } : \A j \in { j \in DOMAIN list : list[j] = r } : i <= j
  <2>1. { i \in DOMAIN list : list[i] = r } \in SUBSET Nat
    BY <1>1
  <2> QED BY <2>1, LeastElement
<1>3. i \in DOMAIN list /\ First(i)
  BY <1>1, <1>2
<1>4. k \in DOMAIN list /\ First(k)
  BY <1>3
<1>5. RemoveFirst(list, r) = SubSeq(list, 1, k - 1) \o SubSeq(list, k + 1, Len(list))
  BY DEF RemoveFirst
<1> HIDE DEF k
<1>6. /\ RemoveFirst(list, r) \in Seq(S) /\ Len(RemoveFirst(list, r)) = Len(list) - 1
      /\ \A j \in 1 .. Len(list) - 1 :
           RemoveFirst(list, r)[j] = IF j < k THEN list[j] ELSE list[j + 1]
  <2>1. k \in 1 .. Len(list)
    BY <1>1, <1>4
  <2> DEFINE cut == SubSeq(list, 1, k - 1) \o SubSeq(list, k + 1, Len(list))
  <2>2. /\ cut \in Seq(S) /\ Len(cut) = Len(list) - 1
        /\ \A j \in 1 .. Len(list) - 1 : cut[j] = IF j < k THEN list[j] ELSE list[j + 1]
    BY <2>1, ListWithout
  <2> HIDE DEF cut
  <2>3. RemoveFirst(list, r) = cut
    BY <1>5 DEF cut
  <2> QED BY <2>2, <2>3
<1> QED BY <1>1, <1>4, <1>6

(* It leaves the other entries, and one less of that kind.                 *)
LEMMA CountRemoveFirst ==
  ASSUME NEW S, NEW list \in Seq(S), NEW e, NEW r
  PROVE  /\ RemoveFirst(list, e) \in Seq(S)
         /\ Count(RemoveFirst(list, e), r) =
              IF e = r /\ Count(list, r) # 0 THEN Count(list, r) - 1 ELSE Count(list, r)
<1>1. CASE (\A i \in DOMAIN list : list[i] # e) /\ RemoveFirst(list, e) = list
  BY <1>1, CountType
<1>2. ASSUME NEW k \in 1 .. Len(list), list[k] = e,
             RemoveFirst(list, e) \in Seq(S), Len(RemoveFirst(list, e)) = Len(list) - 1,
             \A i \in 1 .. Len(list) - 1 :
               RemoveFirst(list, e)[i] = IF i < k THEN list[i] ELSE list[i + 1]
      PROVE  Count(RemoveFirst(list, e), r) =
               IF e = r /\ Count(list, r) # 0 THEN Count(list, r) - 1 ELSE Count(list, r)
  <2> DEFINE cut == RemoveFirst(list, e)
             n == Len(list)
             at == { i \in DOMAIN list : list[i] = r }
             now == { i \in DOMAIN cut : cut[i] = r }
             f == [i \in now |-> IF i < k THEN i ELSE i + 1]
  <2>1. n \in Nat /\ DOMAIN list = 1 .. n
    BY ListDomain
  <2>2. Len(cut) = n - 1 /\ DOMAIN cut = 1 .. n - 1
    BY <1>2, ListDomain
  <2>3. k \in 1 .. n /\ \A i \in 1 .. n - 1 : cut[i] = IF i < k THEN list[i] ELSE list[i + 1]
    BY <1>2
  <2> HIDE DEF n, cut
  <2>4. f \in [now -> at \ {k}]
    <3> SUFFICES ASSUME NEW i \in now
                 PROVE  f[i] \in at \ {k}
      OBVIOUS
    <3>1. i \in 1 .. n - 1 /\ cut[i] = r
      BY <2>2
    <3> QED BY <2>1, <2>3, <3>1
  <2>5. ASSUME NEW i \in now, NEW j \in now, f[i] = f[j]
        PROVE  i = j
    <3>1. i \in 1 .. n - 1 /\ j \in 1 .. n - 1
      BY <2>2
    <3>2. f[i] = (IF i < k THEN i ELSE i + 1) /\ f[j] = (IF j < k THEN j ELSE j + 1)
      OBVIOUS
    <3>3. k \in Int /\ i \in Int /\ j \in Int
      BY <2>1, <2>3, <3>1
    <3>4. (IF i < k THEN i ELSE i + 1) = IF j < k THEN j ELSE j + 1
      <4> HIDE DEF f, now
      <4> QED BY <2>5, <3>2
    <3> HIDE DEF f, now, at
    <3> QED BY <3>3, <3>4
  <2>6. ASSUME NEW j \in at \ {k}
        PROVE  \E i \in now : f[i] = j
    <3>1. j \in 1 .. n /\ j # k /\ list[j] = r
      BY <2>1
    <3>2. CASE j < k
      <4>1. j \in 1 .. n - 1 /\ cut[j] = r
        BY <2>1, <2>3, <3>1, <3>2
      <4>2. j \in now
        BY <2>2, <4>1
      <4> QED BY <3>2, <4>2
    <3>3. CASE ~ (j < k)
      <4>1. j - 1 \in 1 .. n - 1 /\ ~ (j - 1 < k) /\ (j - 1) + 1 = j
        BY <2>1, <2>3, <3>1, <3>3
      <4>2. cut[j - 1] = r
        BY <2>3, <3>1, <4>1
      <4>3. j - 1 \in now
        BY <2>2, <4>1, <4>2
      <4> QED BY <4>1, <4>3
    <3> QED BY <3>2, <3>3
  <2>7. f \in Bijection(now, at \ {k})
    <3> HIDE DEF f, now, at
    <3> QED BY <2>4, <2>5, <2>6, Fun_IsBij
  <2>8. IsFiniteSet(now) /\ IsFiniteSet(at)
    BY <1>2, CountType DEF cut
  <2>9. Cardinality(at \ {k}) = Cardinality(now)
    <3> HIDE DEF f, now, at
    <3> QED BY <2>7, <2>8, FS_Bijection DEF ExistsBijection
  <2>10. /\ Cardinality(at \ {k}) = IF k \in at THEN Cardinality(at) - 1 ELSE Cardinality(at)
         /\ Cardinality(at) \in Nat /\ (Cardinality(at) = 0 <=> at = {})
    <3> HIDE DEF at
    <3> QED BY <2>8, FS_RemoveElement, FS_CardinalityType, FS_EmptySet
  <2>11. k \in at <=> e = r
    BY <1>2, <2>1, <2>3
  <2>12. Cardinality(now) = IF e = r /\ Cardinality(at) # 0 THEN Cardinality(at) - 1 ELSE Cardinality(at)
    <3>1. k \in at => at # {}
      OBVIOUS
    <3> HIDE DEF at, now
    <3> QED BY <2>9, <2>10, <2>11, <3>1
  <2> QED BY <2>12 DEF Count, cut
<1> QED BY <1>1, <1>2, RemoveFirstCuts

(* A session more, a session less, and fewer sessions.                     *)
LEMMA HavingMore ==
  ASSUME NEW T, IsFiniteSet(T), NEW s \in Sessions \ T, T \subseteq Sessions, NEW r
  PROVE  /\ Having(T, r) \in Nat
         /\ Having(T \cup {s}, r) = Having(T, r) + IF Record[s] = r THEN 1 ELSE 0
<1> DEFINE of == { t \in T : Record[t] = r }
           now == { t \in T \cup {s} : Record[t] = r }
<1>1. IsFiniteSet(of) /\ s \notin of
  BY FS_Subset
<1>2. now = IF Record[s] = r THEN of \cup {s} ELSE of
  OBVIOUS
<1> HIDE DEF of, now
<1>3. Cardinality(of) \in Nat /\ Cardinality(of \cup {s}) = Cardinality(of) + 1
  BY <1>1, FS_CardinalityType, FS_AddElement
<1>4. Cardinality(now) = Cardinality(of) + IF Record[s] = r THEN 1 ELSE 0
  BY <1>2, <1>3
<1> QED BY <1>3, <1>4 DEF Having, of, now
LEMMA HavingLess ==
  ASSUME NEW T, IsFiniteSet(T), NEW s \in T, NEW r
  PROVE  /\ Having(T, r) \in Nat
         /\ Record[s] = r => Having(T, r) # 0
         /\ Having(T \ {s}, r) = Having(T, r) - IF Record[s] = r THEN 1 ELSE 0
<1> DEFINE of == { t \in T : Record[t] = r }
           now == { t \in T \ {s} : Record[t] = r }
<1>1. IsFiniteSet(of) /\ (Record[s] = r => s \in of)
  BY FS_Subset
<1>2. now = IF Record[s] = r THEN of \ {s} ELSE of
  OBVIOUS
<1> HIDE DEF of, now
<1>3. /\ Cardinality(of) \in Nat /\ (Cardinality(of) = 0 <=> of = {})
      /\ s \in of => Cardinality(of \ {s}) = Cardinality(of) - 1
  BY <1>1, FS_CardinalityType, FS_RemoveElement, FS_EmptySet
<1>4. Cardinality(now) = Cardinality(of) - IF Record[s] = r THEN 1 ELSE 0
  BY <1>1, <1>2, <1>3
<1>5. Record[s] = r => Cardinality(of) # 0
  BY <1>1, <1>3
<1> QED BY <1>3, <1>4, <1>5 DEF Having, of, now
LEMMA HavingFewer ==
  ASSUME NEW T, IsFiniteSet(T), NEW U \in SUBSET T, NEW r
  PROVE  Having(U, r) \in Nat /\ Having(T, r) \in Nat /\ Having(U, r) <= Having(T, r)
<1> DEFINE of == { t \in T : Record[t] = r }
           fewer == { t \in U : Record[t] = r }
<1>1. IsFiniteSet(of) /\ fewer \in SUBSET of
  BY FS_Subset
<1>2. IsFiniteSet(fewer) /\ Cardinality(fewer) <= Cardinality(of)
  <2> HIDE DEF of, fewer
  <2> QED BY <1>1, FS_Subset
<1>3. Cardinality(of) \in Nat /\ Cardinality(fewer) \in Nat
  BY <1>1, <1>2, FS_CardinalityType
<1> QED BY <1>2, <1>3 DEF Having
-----------------------------------------------------------------------------
(* The inductive invariant. *)

(* Only sessions that have begun count, and they are finitely many.        *)
BegunInv == IsFiniteSet({ s \in Sessions : session[s] # "new" })

(* What a session has written so far. *)
SessionInv ==
  \A s \in Sessions :
    /\ session[s] \in {"new", "joined"} => addedOn[s] = NoConn
    /\ session[s] # "gone" => removedOn[s] = NoConn
    /\ addedOn[s] # NoConn => handler[addedOn[s]] # "none"

(* As long as there is no fault the node's first connection is its last,   *)
(* and every packet goes out on it.                                        *)
FaultFree == drops = 0 /\ restarts = 0
LinkInv ==
  /\ link # NoConn => handler[link] # "none"
  /\ FaultFree =>
       /\ link # NoConn => alive[link]
       /\ serving => link # NoConn
       /\ lossy = {}
       /\ \A s \in Sessions :
            /\ session[s] # "new" => serving
            /\ session[s] \in {"playing", "leaving", "gone"} => addedOn[s] = link
            /\ session[s] = "gone" => removedOn[s] = link

(* A packet holds a record, which several sessions may share; from[c] says *)
(* of the packets in flight on c which sessions have written them.         *)
Letters == Sessions \X {"add", "remove"}
Written(letter) == [type |-> letter[2], record |-> Record[letter[1]]]
Matches(from) ==
  /\ from \in [Conns -> Seq(Letters)]
  /\ \A c \in Conns :
       /\ Len(from[c]) = Len(toMaster[c])
       /\ \A i \in 1 .. Len(from[c]) : toMaster[c][i] = Written(from[c][i])

(* A session's two packets are under way once at most, the one that adds   *)
(* before the one that removes, and none overtakes the other.              *)
On(from, c, letter) == \E i \in 1 .. Len(from[c]) : from[c][i] = letter
Addressed(from) ==
  \A c \in Conns : \A i \in 1 .. Len(from[c]) :
    IF from[c][i][2] = "add" THEN addedOn[from[c][i][1]] = c
                             ELSE removedOn[from[c][i][1]] = c
Ordered(from) ==
  \A c \in Conns : \A i, j \in 1 .. Len(from[c]) :
    i < j /\ from[c][i][1] = from[c][j][1] => from[c][i][2] = "add" /\ from[c][j][2] = "remove"
Followed(from) ==
  \A s \in Sessions, c \in Conns :
    addedOn[s] = c /\ removedOn[s] = c /\ c \notin lossy /\ On(from, c, << s, "add" >>)
    => On(from, c, << s, "remove" >>)
InOrder(from) == Addressed(from) /\ Ordered(from) /\ Followed(from)

(* The sessions whose Add the master has, or may have, read and whose      *)
(* Remove it has not read on that connection.                              *)
Removed(from, s) ==
  /\ removedOn[s] = addedOn[s]
  /\ addedOn[s] \notin lossy
  /\ ~ On(from, addedOn[s], << s, "remove" >>)
Arrived(from) ==
  { s \in Sessions : /\ addedOn[s] # NoConn
                     /\ ~ On(from, addedOn[s], << s, "add" >>)
                     /\ ~ Removed(from, s) }
Accounted(from) ==
  \A r \in Records : /\ Count(listed, r) <= Having(Arrived(from), r)
                     /\ FaultFree => Count(listed, r) = Having(Arrived(from), r)

(* A player with a record of his own is listed from when his Add is read.  *)
Listed(r) == \E i \in DOMAIN listed : listed[i] = r
Shown(from) ==
  \A s \in Sessions :
    /\ session[s] = "playing" /\ addedOn[s] # NoConn /\ alive[addedOn[s]]
    /\ \A t \in Sessions \ {s} : Record[t] # Record[s]
    => On(from, addedOn[s], << s, "add" >>) \/ Listed(Record[s])

Told(from) == Matches(from) /\ InOrder(from) /\ Accounted(from) /\ Shown(from)

IInv ==
  /\ TypeOK /\ BegunInv /\ LocalListIsExact /\ SessionInv /\ LinkInv
  /\ \E from \in [Conns -> Seq(Letters)] : Told(from)
-----------------------------------------------------------------------------
(* Type correctness. *)

(* Every step keeps the types.                                             *)
LEMMA TypeStep ==
  ASSUME TypeOK, [Next]_vars
  PROVE  TypeOK'
<1> USE DEF TypeOK, sessionVars, netVars, masterVars, faultVars
<1>1. ASSUME NEW s \in Sessions, Join(s)
      PROVE  TypeOK'
  <2>1. Record[s] \in Records
    BY DEF Records
  <2>2. local' \in Seq(Records)
    BY <1>1, <2>1, AppendedList DEF Join
  <2>3. session' \in [Sessions -> {"new", "joined", "playing", "leaving", "gone"}]
    BY <1>1 DEF Join
  <2>4. /\ UNCHANGED << addedOn, removedOn, link, alive, toMaster, lossy >>
        /\ UNCHANGED << handler, listed, clients, drops, restarts, serving >>
    BY <1>1 DEF Join
  <2> QED BY <2>2, <2>3, <2>4
<1>2. ASSUME NEW s \in Sessions, Announce(s) \/ Farewell(s)
      PROVE  TypeOK'
  <2>1. PICK type \in {"add", "remove"} : Send(type, s)
    BY <1>2 DEF Announce, Farewell
  <2>2. toMaster' \in [Conns -> Seq(Packets)] /\ \A c \in Conns : Len(toMaster'[c]) <= LinkCap
    <3>1. CASE UNCHANGED toMaster
      BY <3>1
    <3>2. CASE link \in Conns /\ Len(toMaster[link]) < LinkCap
               /\ toMaster' = [toMaster EXCEPT
                    ![link] = Append(@, [type |-> type, record |-> Record[s]])]
      <4>1. [type |-> type, record |-> Record[s]] \in Packets
        BY DEF Packets, Records
      <4>2. PICK longer \in Seq(Packets) :
              /\ longer = Append(toMaster[link], [type |-> type, record |-> Record[s]])
              /\ Len(longer) = Len(toMaster[link]) + 1 /\ Len(toMaster[link]) \in Nat
        <5>1. PICK packet \in Packets : packet = [type |-> type, record |-> Record[s]]
          BY <4>1
        <5>2. toMaster[link] \in Seq(Packets)
          BY <3>2
        <5>3. /\ Append(toMaster[link], packet) \in Seq(Packets)
              /\ Len(Append(toMaster[link], packet)) = Len(toMaster[link]) + 1
              /\ Len(toMaster[link]) \in Nat
          BY <5>2, AppendedList
        <5> QED BY <5>1, <5>3
      <4>3. toMaster' = [toMaster EXCEPT ![link] = longer]
        BY <3>2, <4>2
      <4> QED BY <3>2, <4>2, <4>3, BoundsAssumption
    <3> QED BY <2>1, <3>1, <3>2 DEF Send
  <2>3. SentOn \in Conns \cup {NoConn}
    BY DEF SentOn
  <2> QED BY <1>2, <2>2, <2>3, ZenonT(30) DEF Announce, Farewell
<1>3. ASSUME NEW s \in Sessions, Leave(s)
      PROVE  TypeOK'
  <2>1. local' \in Seq(Records)
    BY <1>3, CountRemoveFirst DEF Leave
  <2> QED BY <1>3, <2>1 DEF Leave
<1>4. ASSUME NEW c \in Conns, NodeDial(c)
      PROVE  TypeOK'
  <2>1. serving' \in BOOLEAN /\ alive' \in [Conns -> BOOLEAN]
    BY Zenon, <1>4 DEF NodeDial
  <2> QED BY <1>4, <2>1 DEF NodeDial
<1>5. CASE NodeEOF
  BY <1>5 DEF NodeEOF
<1>6. CASE NodeRestart
  <2>1. serving' \in BOOLEAN /\ alive' \in [Conns -> BOOLEAN]
    BY Zenon, <1>6 DEF NodeRestart
  <2>2. /\ session' \in [Sessions -> {"new", "joined", "playing", "leaving", "gone"}]
        /\ local' \in Seq(Records) /\ link' \in Conns \cup {NoConn} /\ restarts' \in Nat
    BY <1>6 DEF NodeRestart
  <2>3. UNCHANGED << addedOn, removedOn, toMaster, lossy, handler, listed, clients, drops >>
    BY <1>6 DEF NodeRestart
  <2> QED BY <2>1, <2>2, <2>3
<1>7. ASSUME NEW c \in Conns, MasterReceive(c)
      PROVE  TypeOK'
  <2>1. /\ Head(toMaster[c]) \in Packets /\ Tail(toMaster[c]) \in Seq(Packets)
        /\ Len(Tail(toMaster[c])) = Len(toMaster[c]) - 1 /\ Len(toMaster[c]) \in Nat
    BY <1>7, ListTail DEF MasterReceive
  <2>2. Head(toMaster[c]).record \in Records
    BY <2>1 DEF Packets
  <2>3. listed' \in Seq(Records)
    BY <1>7, <2>2, AppendedList, CountRemoveFirst DEF MasterReceive
  <2> QED BY <1>7, <2>1, <2>3, BoundsAssumption DEF MasterReceive
<1>8. ASSUME NEW c \in Conns, MasterEOF(c)
      PROVE  TypeOK'
  BY <1>8 DEF MasterEOF
<1>9. CASE MasterRestart
  <2>1. alive' \in [Conns -> BOOLEAN]
    BY Zenon, <1>9 DEF MasterRestart
  <2> QED BY <1>9, <2>1, BoundsAssumption DEF MasterRestart
<1>10. ASSUME NEW c \in Conns, Drop(c)
       PROVE  TypeOK'
  <2>1. alive' \in [Conns -> BOOLEAN]
    BY Zenon, <1>10 DEF Drop
  <2> QED BY <1>10, <2>1 DEF Drop
<1>11. ASSUME NEW c \in Conns, LoseTail(c)
       PROVE  TypeOK'
  <2>1. PICK front \in Seq(Packets) :
          /\ front = SubSeq(toMaster[c], 1, Len(toMaster[c]) - 1)
          /\ Len(front) = Len(toMaster[c]) - 1 /\ Len(toMaster[c]) \in Nat
    BY <1>11, ListFront DEF LoseTail
  <2>2. toMaster' = [toMaster EXCEPT ![c] = front]
    BY <1>11, <2>1 DEF LoseTail
  <2> QED BY <1>11, <2>1, <2>2, BoundsAssumption DEF LoseTail
<1>12. CASE UNCHANGED vars
  BY <1>12 DEF vars
<1> QED BY <1>1, <1>2, <1>3, <1>4, <1>5, <1>6, <1>7, <1>8, <1>9, <1>10, <1>11, <1>12 DEF Next

-----------------------------------------------------------------------------
(* The node's list. *)

(* What a step does to the sessions and to the node's list.                *)
LEMMA Sessional ==
  ASSUME TypeOK, [Next]_vars
  PROVE  \/ \E s \in Sessions :
              /\ session[s] = "new" /\ session' = [session EXCEPT ![s] = "joined"]
              /\ local' = Append(local, Record[s])
         \/ \E s \in Sessions :
              /\ session[s] = "playing" /\ session' = [session EXCEPT ![s] = "leaving"]
              /\ local' = RemoveFirst(local, Record[s])
         \/ \E s \in Sessions :
              /\ \/ session[s] = "joined" /\ session' = [session EXCEPT ![s] = "playing"]
                 \/ session[s] = "leaving" /\ session' = [session EXCEPT ![s] = "gone"]
              /\ local' = local
         \/ /\ session' = [s \in Sessions |-> IF session[s] = "new" THEN "new" ELSE "gone"]
            /\ local' = << >>
         \/ UNCHANGED << session, local >>
<1> USE DEF sessionVars, vars
<1>1. ASSUME NEW s \in Sessions, Join(s) \/ Announce(s) \/ Leave(s) \/ Farewell(s)
      PROVE  \/ \E t \in Sessions :
                  /\ session[t] = "new" /\ session' = [session EXCEPT ![t] = "joined"]
                  /\ local' = Append(local, Record[t])
             \/ \E t \in Sessions :
                  /\ session[t] = "playing" /\ session' = [session EXCEPT ![t] = "leaving"]
                  /\ local' = RemoveFirst(local, Record[t])
             \/ \E t \in Sessions :
                  /\ \/ session[t] = "joined" /\ session' = [session EXCEPT ![t] = "playing"]
                     \/ session[t] = "leaving" /\ session' = [session EXCEPT ![t] = "gone"]
                  /\ local' = local
  <2>1. CASE Join(s)
    BY <2>1 DEF Join
  <2>2. CASE Announce(s)
    BY <2>2 DEF Announce
  <2>3. CASE Leave(s)
    BY <2>3 DEF Leave
  <2>4. CASE Farewell(s)
    BY <2>4 DEF Farewell
  <2> QED BY <1>1, <2>1, <2>2, <2>3, <2>4
<1>2. ASSUME NEW c \in Conns, NodeDial(c) \/ MasterReceive(c) \/ MasterEOF(c) \/ Drop(c) \/ LoseTail(c)
      PROVE  UNCHANGED << session, local >>
  BY <1>2 DEF NodeDial, MasterReceive, MasterEOF, Drop, LoseTail
<1>3. CASE NodeRestart
  BY <1>3 DEF NodeRestart
<1>4. CASE NodeEOF \/ MasterRestart \/ UNCHANGED vars
  BY <1>4 DEF NodeEOF, MasterRestart
<1>5. \/ \E s \in Sessions : Join(s) \/ Announce(s) \/ Leave(s) \/ Farewell(s)
      \/ \E c \in Conns : NodeDial(c) \/ MasterReceive(c) \/ MasterEOF(c) \/ Drop(c) \/ LoseTail(c)
      \/ NodeRestart
      \/ NodeEOF \/ MasterRestart \/ UNCHANGED vars
  BY DEF Next
<1> QED BY <1>1, <1>2, <1>3, <1>4, <1>5

(* The sessions begun stay finitely many, and the list stays exact: a step *)
(* puts one session and its record in, or takes one session out and one    *)
(* record that equals its own.                                             *)
LEMMA LocalStep ==
  ASSUME TypeOK, BegunInv, LocalListIsExact, [Next]_vars
  PROVE  BegunInv' /\ LocalListIsExact'
<1> DEFINE begun == { s \in Sessions : session[s] # "new" }
<1>0. IsFiniteSet(begun) /\ IsFiniteSet(Here) /\ Here \subseteq Sessions
  <2>1. Here \in SUBSET begun
    BY DEF Here
  <2> QED BY <2>1, FS_Subset DEF BegunInv, Here
<1>1. ASSUME NEW s \in Sessions, session[s] = "new",
             session' = [session EXCEPT ![s] = "joined"], local' = Append(local, Record[s])
      PROVE  BegunInv' /\ LocalListIsExact'
  <2>1. begun' = begun \cup {s} /\ Here' = Here \cup {s} /\ s \notin Here
    BY <1>1 DEF Here, TypeOK
  <2>2. IsFiniteSet(begun')
    <3> HIDE DEF begun
    <3> QED BY <1>0, <2>1, FS_AddElement
  <2>3. ASSUME NEW r \in Records
        PROVE  Count(local', r) = Having(Here', r)
    <3>1. Count(local', r) = Count(local, r) + IF Record[s] = r THEN 1 ELSE 0
      <4>1. local \in Seq(Records) /\ Record[s] \in Records
        BY DEF TypeOK, Records
      <4> QED BY <1>1, <4>1, CountAppend
    <3>2. Having(Here', r) = Having(Here, r) + IF Record[s] = r THEN 1 ELSE 0
      BY <1>0, <2>1, HavingMore
    <3> QED BY <3>1, <3>2 DEF LocalListIsExact
  <2> QED BY <2>2, <2>3 DEF BegunInv, LocalListIsExact
<1>2. ASSUME NEW s \in Sessions, session[s] = "playing",
             session' = [session EXCEPT ![s] = "leaving"], local' = RemoveFirst(local, Record[s])
      PROVE  BegunInv' /\ LocalListIsExact'
  <2>1. begun' = begun /\ Here' = Here \ {s} /\ s \in Here
    BY <1>2 DEF Here, TypeOK
  <2>2. ASSUME NEW r \in Records
        PROVE  Count(local', r) = Having(Here', r)
    <3>1. Count(local', r) =
            IF Record[s] = r /\ Count(local, r) # 0 THEN Count(local, r) - 1 ELSE Count(local, r)
      BY <1>2, CountRemoveFirst DEF TypeOK
    <3>2. /\ Having(Here, r) \in Nat /\ (Record[s] = r => Having(Here, r) # 0)
          /\ Having(Here', r) = Having(Here, r) - IF Record[s] = r THEN 1 ELSE 0
      BY <1>0, <2>1, HavingLess
    <3> QED BY <3>1, <3>2 DEF LocalListIsExact
  <2> QED BY <1>0, <2>1, <2>2 DEF BegunInv, LocalListIsExact
<1>3. ASSUME NEW s \in Sessions, local' = local,
             \/ session[s] = "joined" /\ session' = [session EXCEPT ![s] = "playing"]
             \/ session[s] = "leaving" /\ session' = [session EXCEPT ![s] = "gone"]
      PROVE  BegunInv' /\ LocalListIsExact'
  <2>1. begun' = begun /\ Here' = Here
    BY <1>3 DEF Here, TypeOK
  <2> QED BY <1>0, <1>3, <2>1 DEF BegunInv, LocalListIsExact
<1>4. CASE /\ session' = [s \in Sessions |-> IF session[s] = "new" THEN "new" ELSE "gone"]
           /\ local' = << >>
  <2>1. begun' = begun /\ Here' = {}
    BY <1>4 DEF Here, TypeOK
  <2>2. ASSUME NEW r \in Records
        PROVE  Count(local', r) = Having(Here', r)
    <3>1. { i \in DOMAIN << >> : << >>[i] = r } = {} /\ { s \in {} : Record[s] = r } = {}
      OBVIOUS
    <3> QED BY <1>4, <2>1, <3>1 DEF Count, Having
  <2> QED BY <1>0, <2>1, <2>2 DEF BegunInv, LocalListIsExact
<1>5. CASE UNCHANGED << session, local >>
  BY <1>5 DEF BegunInv, LocalListIsExact, Here
<1> QED BY <1>1, <1>2, <1>3, <1>4, <1>5, Sessional

-----------------------------------------------------------------------------
(* Sessions and connections. *)

(* What a session has written agrees with where it stands.                 *)
LEMMA SessionStep ==
  ASSUME TypeOK, SessionInv, LinkInv, [Next]_vars
  PROVE  SessionInv'
<1> USE DEF SessionInv, TypeOK, sessionVars, netVars, masterVars, faultVars
<1>1. ASSUME NEW s \in Sessions, Join(s)
      PROVE  SessionInv'
  BY <1>1 DEF Join
<1>2. ASSUME NEW s \in Sessions, Announce(s)
      PROVE  SessionInv'
  BY <1>2 DEF Announce, SentOn, LinkInv
<1>3. ASSUME NEW s \in Sessions, Leave(s)
      PROVE  SessionInv'
  BY <1>3 DEF Leave
<1>4. ASSUME NEW s \in Sessions, Farewell(s)
      PROVE  SessionInv'
  BY <1>4 DEF Farewell
<1>5. ASSUME NEW c \in Conns, NodeDial(c)
      PROVE  SessionInv'
  BY <1>5 DEF NodeDial
<1>6. CASE NodeRestart
  BY <1>6 DEF NodeRestart
<1>7. ASSUME NEW c \in Conns, MasterEOF(c)
      PROVE  SessionInv'
  BY <1>7 DEF MasterEOF
<1>8. CASE MasterRestart
  BY <1>8, NamesAssumption DEF MasterRestart
<1>9. CASE UNCHANGED << session, addedOn, removedOn, handler >>
  BY <1>9
<1>10. ASSUME NEW c \in Conns, MasterReceive(c) \/ Drop(c) \/ LoseTail(c)
       PROVE  UNCHANGED << session, addedOn, removedOn, handler >>
  BY <1>10 DEF MasterReceive, Drop, LoseTail
<1>11. CASE NodeEOF \/ UNCHANGED vars
  BY <1>9, <1>11 DEF NodeEOF, vars
<1> QED BY <1>1, <1>2, <1>3, <1>4, <1>5, <1>6, <1>7, <1>8, <1>9, <1>10, <1>11 DEF Next

(* Without a fault a packet in flight is on the node's connection.         *)
LEMMA FlightOnLink ==
  ASSUME TypeOK, SessionInv, LinkInv, FaultFree, NEW from, Matches(from), InOrder(from),
         NEW c \in Conns, toMaster[c] # << >>
  PROVE  c = link
<1>1. Len(from[c]) = Len(toMaster[c]) /\ Len(from[c]) \in Nat \ {0} /\ from[c] \in Seq(Letters)
  <2>1. Len(toMaster[c]) \in Nat /\ Len(toMaster[c]) # 0
    BY ListDomain DEF TypeOK
  <2> QED BY <2>1 DEF Matches
<1>2. 1 \in 1 .. Len(from[c]) /\ from[c][1] \in Letters
  BY <1>1, ListDomain
<1>3. PICK s \in Sessions : from[c][1][1] = s
  BY <1>2 DEF Letters
<1>4. addedOn[s] = c \/ removedOn[s] = c
  BY <1>2, <1>3 DEF InOrder, Addressed
<1>5. c # NoConn
  BY NamesAssumption
<1>6. session[s] \in {"playing", "leaving", "gone"}
  BY <1>4, <1>5 DEF SessionInv, TypeOK
<1>7. addedOn[s] = link /\ (session[s] = "gone" => removedOn[s] = link)
  BY <1>6 DEF LinkInv
<1>8. session[s] # "gone" => removedOn[s] = NoConn
  BY DEF SessionInv
<1> QED BY <1>4, <1>5, <1>7, <1>8

(* Without a fault the first connection stays, and all goes out on it.     *)
LEMMA LinkStep ==
  ASSUME TypeOK, SessionInv, LinkInv, NEW from, Matches(from), InOrder(from), [Next]_vars
  PROVE  LinkInv'
<1> USE DEF LinkInv, FaultFree, TypeOK, sessionVars, netVars, masterVars, faultVars
<1>1. ASSUME NEW s \in Sessions, Join(s)
      PROVE  LinkInv'
  BY <1>1 DEF Join
<1>2. ASSUME NEW s \in Sessions, Announce(s)
      PROVE  LinkInv'
  <2>1. FaultFree => link # NoConn /\ alive[link]
    BY <1>2 DEF Announce
  <2> QED BY <1>2, <2>1 DEF Announce, SentOn
<1>3. ASSUME NEW s \in Sessions, Leave(s)
      PROVE  LinkInv'
  BY <1>3 DEF Leave
<1>4. ASSUME NEW s \in Sessions, Farewell(s)
      PROVE  LinkInv'
  <2>1. FaultFree => link # NoConn /\ alive[link]
    BY <1>4 DEF Farewell
  <2> QED BY <1>4, <2>1 DEF Farewell, SentOn
<1>5. ASSUME NEW c \in Conns, NodeDial(c)
      PROVE  LinkInv'
  <2>1. FaultFree => \A s \in Sessions : session[s] = "new"
    BY <1>5 DEF NodeDial
  <2>2. alive'[c] /\ link' = c
    BY <1>5 DEF NodeDial
  <2>3. handler'[c] # "none"
    BY <1>5 DEF NodeDial
  <2>4. FaultFree' => FaultFree /\ lossy' = {}
    BY <1>5 DEF NodeDial
  <2>5. c # NoConn /\ session' = session
    BY <1>5, NamesAssumption DEF NodeDial
  <2> QED BY <2>1, <2>2, <2>3, <2>4, <2>5
<1>6. CASE NodeEOF
  BY <1>6 DEF NodeEOF
<1>7. CASE NodeRestart
  <2>1. link' = NoConn /\ (drops' # 0 \/ restarts' # 0)
    BY <1>7 DEF NodeRestart
  <2> QED BY <2>1
<1>8. ASSUME NEW c \in Conns, MasterReceive(c)
      PROVE  LinkInv'
  BY <1>8 DEF MasterReceive
<1>9. ASSUME NEW c \in Conns, MasterEOF(c)
      PROVE  LinkInv'
  BY <1>9 DEF MasterEOF
<1>10. CASE MasterRestart
  <2>1. (drops' # 0 \/ restarts' # 0) /\ link' = link
        /\ handler' = [c \in Conns |-> IF handler[c] = "none" THEN "none" ELSE "ended"]
    BY <1>10 DEF MasterRestart
  <2> QED BY <2>1
<1>11. ASSUME NEW c \in Conns, Drop(c)
       PROVE  LinkInv'
  <2>1. (drops' # 0 \/ restarts' # 0) /\ link' = link /\ handler' = handler
    BY <1>11 DEF Drop
  <2> QED BY <2>1
<1>12. ASSUME NEW c \in Conns, LoseTail(c)
       PROVE  LinkInv'
  <2>1. FaultFree => c = link
    BY <1>12, FlightOnLink DEF LoseTail
  <2>2. ~ FaultFree
    BY <1>12, <2>1, NamesAssumption DEF LoseTail
  <2> QED BY <1>12, <2>2 DEF LoseTail
<1>13. CASE UNCHANGED vars
  BY <1>13 DEF vars
<1> QED BY <1>1, <1>2, <1>3, <1>4, <1>5, <1>6, <1>7, <1>8, <1>9, <1>10, <1>11, <1>12, <1>13
        DEF Next

-----------------------------------------------------------------------------
(* The master's list. *)

(* Only finitely many sessions have arrived.                               *)
LEMMA ArrivedFinite ==
  ASSUME BegunInv, SessionInv, NEW from
  PROVE  IsFiniteSet(Arrived(from)) /\ Arrived(from) \subseteq Sessions
<1>1. Arrived(from) \in SUBSET { s \in Sessions : session[s] # "new" }
  BY DEF Arrived, SessionInv
<1> QED BY <1>1, FS_Subset DEF BegunInv

(* The letters on c once one more is written, the first is read, or the    *)
(* last is lost; those on the other connections stay as they are.          *)
OneMore(from, next, c, letter) ==
  /\ Len(from[c]) \in Nat /\ Len(next[c]) = Len(from[c]) + 1
  /\ next[c][Len(from[c]) + 1] = letter
  /\ \A i \in 1 .. Len(from[c]) : next[c][i] = from[c][i]
  /\ \A d \in Conns \ {c} : next[d] = from[d]
FirstGone(from, next, c) ==
  /\ Len(from[c]) \in Nat \ {0} /\ Len(next[c]) = Len(from[c]) - 1
  /\ \A i \in 1 .. Len(from[c]) - 1 : next[c][i] = from[c][i + 1]
  /\ \A d \in Conns \ {c} : next[d] = from[d]
LastGone(from, next, c) ==
  /\ Len(from[c]) \in Nat \ {0} /\ Len(next[c]) = Len(from[c]) - 1
  /\ \A i \in 1 .. Len(from[c]) - 1 : next[c][i] = from[c][i]
  /\ \A d \in Conns \ {c} : next[d] = from[d]

(* A letter is written at the end of those on its connection.              *)
LEMMA LetterWritten ==
  ASSUME TypeOK, NEW from, Matches(from), NEW c \in Conns, NEW letter \in Letters,
         toMaster' \in [Conns -> Seq(Packets)],
         toMaster'[c] = Append(toMaster[c], Written(letter)),
         \A d \in Conns \ {c} : toMaster'[d] = toMaster[d]
  PROVE  \E next \in [Conns -> Seq(Letters)] : Matches(next)' /\ OneMore(from, next, c, letter)
<1> DEFINE next == [from EXCEPT ![c] = Append(from[c], letter)]
           longer == Append(from[c], letter)
<1>1. /\ from \in [Conns -> Seq(Letters)] /\ from[c] \in Seq(Letters)
      /\ toMaster[c] \in Seq(Packets)
  BY DEF Matches, TypeOK
<1>2. /\ longer \in Seq(Letters) /\ Len(from[c]) \in Nat /\ Len(longer) = Len(from[c]) + 1
      /\ longer[Len(from[c]) + 1] = letter
      /\ \A i \in 1 .. Len(from[c]) : longer[i] = from[c][i]
  BY <1>1, AppendedList
<1>3. Written(letter) \in Packets
  BY DEF Letters, Written, Packets, Records
<1>4. /\ Len(toMaster'[c]) = Len(toMaster[c]) + 1
      /\ toMaster'[c][Len(toMaster[c]) + 1] = Written(letter)
      /\ \A i \in 1 .. Len(toMaster[c]) : toMaster'[c][i] = toMaster[c][i]
      /\ \A d \in Conns \ {c} : toMaster'[d] = toMaster[d]
  <2>1. /\ Len(Append(toMaster[c], Written(letter))) = Len(toMaster[c]) + 1
        /\ Append(toMaster[c], Written(letter))[Len(toMaster[c]) + 1] = Written(letter)
        /\ \A i \in 1 .. Len(toMaster[c]) : Append(toMaster[c], Written(letter))[i] = toMaster[c][i]
    BY <1>1, <1>3, AppendedList
  <2> QED BY <2>1
<1>5. next \in [Conns -> Seq(Letters)] /\ next[c] = longer /\ \A d \in Conns \ {c} : next[d] = from[d]
  BY <1>1, <1>2
<1> HIDE DEF longer, next
<1>6. PICK after : after = next
  OBVIOUS
<1>7. Len(from[c]) = Len(toMaster[c])
      /\ \A i \in 1 .. Len(from[c]) : toMaster[c][i] = Written(from[c][i])
  BY DEF Matches
<1>8. /\ Len(after[c]) = Len(toMaster'[c])
      /\ \A i \in 1 .. Len(after[c]) : toMaster'[c][i] = Written(after[c][i])
  BY <1>2, <1>4, <1>5, <1>6, <1>7
<1>9. ASSUME NEW d \in Conns \ {c}
      PROVE  /\ Len(after[d]) = Len(toMaster'[d])
             /\ \A i \in 1 .. Len(after[d]) : toMaster'[d][i] = Written(after[d][i])
  BY <1>4, <1>5, <1>6 DEF Matches
<1>10. Matches(after)'
  <2>1. \A d \in Conns : /\ Len(after[d]) = Len(toMaster'[d])
                         /\ \A i \in 1 .. Len(after[d]) : toMaster'[d][i] = Written(after[d][i])
    <3> SUFFICES ASSUME NEW d \in Conns
                 PROVE  /\ Len(after[d]) = Len(toMaster'[d])
                        /\ \A i \in 1 .. Len(after[d]) : toMaster'[d][i] = Written(after[d][i])
      OBVIOUS
    <3>1. CASE d = c
      BY <1>8, <3>1
    <3>2. CASE d # c
      BY <1>9, <3>2
    <3> QED BY <3>1, <3>2
  <2>2. after \in [Conns -> Seq(Letters)]
    BY <1>5, <1>6
  <2> QED BY <2>1, <2>2 DEF Matches, Written
<1>11. OneMore(from, after, c, letter)
  BY <1>2, <1>5, <1>6 DEF OneMore
<1> QED BY <1>5, <1>6, <1>10, <1>11

(* The first letter of a connection is read.                               *)
LEMMA LetterRead ==
  ASSUME TypeOK, NEW from, Matches(from), NEW c \in Conns, toMaster[c] # << >>,
         toMaster'[c] = Tail(toMaster[c]), \A d \in Conns \ {c} : toMaster'[d] = toMaster[d]
  PROVE  /\ from[c][1] \in Letters /\ Head(toMaster[c]) = Written(from[c][1])
         /\ \E next \in [Conns -> Seq(Letters)] : Matches(next)' /\ FirstGone(from, next, c)
<1> DEFINE shorter == Tail(from[c])
           next == [from EXCEPT ![c] = shorter]
<1>1. /\ from \in [Conns -> Seq(Letters)] /\ from[c] \in Seq(Letters)
      /\ toMaster[c] \in Seq(Packets)
  BY DEF Matches, TypeOK
<1>2. Len(from[c]) = Len(toMaster[c])
      /\ \A i \in 1 .. Len(from[c]) : toMaster[c][i] = Written(from[c][i])
  BY DEF Matches
<1>3. /\ Len(toMaster[c]) \in Nat \ {0} /\ Head(toMaster[c]) = toMaster[c][1]
      /\ Len(Tail(toMaster[c])) = Len(toMaster[c]) - 1
      /\ \A i \in 1 .. Len(toMaster[c]) - 1 : Tail(toMaster[c])[i] = toMaster[c][i + 1]
  BY <1>1, ListTail
<1>4. from[c] # << >>
  BY <1>1, <1>2, <1>3, ListDomain
<1>5. /\ shorter \in Seq(Letters) /\ Len(shorter) = Len(from[c]) - 1 /\ from[c][1] \in Letters
      /\ \A i \in 1 .. Len(from[c]) - 1 : shorter[i] = from[c][i + 1]
  BY <1>1, <1>4, ListTail
<1>6. toMaster'[c] = Tail(toMaster[c]) /\ \A d \in Conns \ {c} : toMaster'[d] = toMaster[d]
  OBVIOUS
<1>7. next \in [Conns -> Seq(Letters)] /\ next[c] = shorter /\ \A d \in Conns \ {c} : next[d] = from[d]
  BY <1>1, <1>5
<1> HIDE DEF shorter, next
<1>8. PICK after : after = next
  OBVIOUS
<1>9. /\ Len(after[c]) = Len(toMaster'[c])
      /\ \A i \in 1 .. Len(after[c]) : toMaster'[c][i] = Written(after[c][i])
  <2>1. Len(after[c]) = Len(from[c]) - 1 /\ Len(toMaster'[c]) = Len(from[c]) - 1
    BY <1>2, <1>3, <1>5, <1>6, <1>7, <1>8
  <2>2. ASSUME NEW i \in 1 .. Len(from[c]) - 1
        PROVE  toMaster'[c][i] = Written(after[c][i])
    <3>1. i + 1 \in 1 .. Len(from[c])
      BY <1>2, <1>3
    <3> QED BY <1>2, <1>3, <1>5, <1>6, <1>7, <1>8, <3>1
  <2> QED BY <2>1, <2>2
<1>10. ASSUME NEW d \in Conns \ {c}
       PROVE  /\ Len(after[d]) = Len(toMaster'[d])
              /\ \A i \in 1 .. Len(after[d]) : toMaster'[d][i] = Written(after[d][i])
  <2>1. after[d] = from[d] /\ toMaster'[d] = toMaster[d]
    BY <1>6, <1>7, <1>8
  <2>2. /\ Len(from[d]) = Len(toMaster[d])
        /\ \A i \in 1 .. Len(from[d]) : toMaster[d][i] = Written(from[d][i])
    BY DEF Matches
  <2> QED BY <2>1, <2>2
<1>11. Matches(after)'
  <2>1. \A d \in Conns : /\ Len(after[d]) = Len(toMaster'[d])
                         /\ \A i \in 1 .. Len(after[d]) : toMaster'[d][i] = Written(after[d][i])
    <3> SUFFICES ASSUME NEW d \in Conns
                 PROVE  /\ Len(after[d]) = Len(toMaster'[d])
                        /\ \A i \in 1 .. Len(after[d]) : toMaster'[d][i] = Written(after[d][i])
      OBVIOUS
    <3>1. CASE d = c
      BY <1>9, <3>1
    <3>2. CASE d # c
      BY <1>10, <3>2
    <3> QED BY <3>1, <3>2
  <2>2. after \in [Conns -> Seq(Letters)]
    BY <1>7, <1>8
  <2> QED BY <2>1, <2>2 DEF Matches, Written
<1>12. Head(toMaster[c]) = Written(from[c][1])
  BY <1>2, <1>3
<1>13. FirstGone(from, after, c)
  BY <1>2, <1>3, <1>5, <1>7, <1>8 DEF FirstGone
<1> QED BY <1>5, <1>7, <1>8, <1>11, <1>12, <1>13

(* The last letter of a connection is lost.                                *)
LEMMA LetterLost ==
  ASSUME TypeOK, NEW from, Matches(from), NEW c \in Conns, toMaster[c] # << >>,
         toMaster'[c] = SubSeq(toMaster[c], 1, Len(toMaster[c]) - 1),
         \A d \in Conns \ {c} : toMaster'[d] = toMaster[d]
  PROVE  \E next \in [Conns -> Seq(Letters)] : Matches(next)' /\ LastGone(from, next, c)
<1> DEFINE shorter == SubSeq(from[c], 1, Len(from[c]) - 1)
           next == [from EXCEPT ![c] = shorter]
<1>1. /\ from \in [Conns -> Seq(Letters)] /\ from[c] \in Seq(Letters)
      /\ toMaster[c] \in Seq(Packets)
  BY DEF Matches, TypeOK
<1>2. Len(from[c]) = Len(toMaster[c])
      /\ \A i \in 1 .. Len(from[c]) : toMaster[c][i] = Written(from[c][i])
  BY DEF Matches
<1>3. /\ toMaster'[c] = SubSeq(toMaster[c], 1, Len(toMaster[c]) - 1)
      /\ \A d \in Conns \ {c} : toMaster'[d] = toMaster[d]
  OBVIOUS
<1>4. /\ Len(toMaster[c]) \in Nat \ {0} /\ Len(toMaster'[c]) = Len(toMaster[c]) - 1
      /\ \A i \in 1 .. Len(toMaster[c]) - 1 : toMaster'[c][i] = toMaster[c][i]
  <2>1. /\ Len(toMaster[c]) \in Nat \ {0}
        /\ Len(SubSeq(toMaster[c], 1, Len(toMaster[c]) - 1)) = Len(toMaster[c]) - 1
        /\ \A i \in 1 .. Len(toMaster[c]) - 1 :
             SubSeq(toMaster[c], 1, Len(toMaster[c]) - 1)[i] = toMaster[c][i]
    BY <1>1, ListFront
  <2> QED BY <1>3, <2>1
<1>5. from[c] # << >>
  BY <1>1, <1>2, <1>4, ListDomain
<1>6. /\ shorter \in Seq(Letters) /\ Len(shorter) = Len(from[c]) - 1
      /\ \A i \in 1 .. Len(from[c]) - 1 : shorter[i] = from[c][i]
  BY <1>1, <1>5, ListFront
<1>7. next \in [Conns -> Seq(Letters)] /\ next[c] = shorter /\ \A d \in Conns \ {c} : next[d] = from[d]
  BY <1>1, <1>6
<1> HIDE DEF shorter, next
<1>8. PICK after : after = next
  OBVIOUS
<1>9. /\ Len(after[c]) = Len(toMaster'[c])
      /\ \A i \in 1 .. Len(after[c]) : toMaster'[c][i] = Written(after[c][i])
  <2>1. Len(after[c]) = Len(from[c]) - 1 /\ Len(toMaster'[c]) = Len(from[c]) - 1
    BY <1>2, <1>4, <1>6, <1>7, <1>8
  <2>2. ASSUME NEW i \in 1 .. Len(from[c]) - 1
        PROVE  toMaster'[c][i] = Written(after[c][i])
    <3>1. i \in 1 .. Len(from[c])
      BY <1>2, <1>4
    <3> QED BY <1>2, <1>4, <1>6, <1>7, <1>8, <3>1
  <2> QED BY <2>1, <2>2
<1>10. ASSUME NEW d \in Conns \ {c}
       PROVE  /\ Len(after[d]) = Len(toMaster'[d])
              /\ \A i \in 1 .. Len(after[d]) : toMaster'[d][i] = Written(after[d][i])
  <2>1. after[d] = from[d] /\ toMaster'[d] = toMaster[d]
    BY <1>3, <1>7, <1>8
  <2>2. /\ Len(from[d]) = Len(toMaster[d])
        /\ \A i \in 1 .. Len(from[d]) : toMaster[d][i] = Written(from[d][i])
    BY DEF Matches
  <2> QED BY <2>1, <2>2
<1>11. Matches(after)'
  <2>1. \A d \in Conns : /\ Len(after[d]) = Len(toMaster'[d])
                         /\ \A i \in 1 .. Len(after[d]) : toMaster'[d][i] = Written(after[d][i])
    <3> SUFFICES ASSUME NEW d \in Conns
                 PROVE  /\ Len(after[d]) = Len(toMaster'[d])
                        /\ \A i \in 1 .. Len(after[d]) : toMaster'[d][i] = Written(after[d][i])
      OBVIOUS
    <3>1. CASE d = c
      BY <1>9, <3>1
    <3>2. CASE d # c
      BY <1>10, <3>2
    <3> QED BY <3>1, <3>2
  <2>2. after \in [Conns -> Seq(Letters)]
    BY <1>7, <1>8
  <2> QED BY <2>1, <2>2 DEF Matches, Written
<1>12. LastGone(from, after, c)
  BY <1>2, <1>4, <1>6, <1>7, <1>8 DEF LastGone
<1> QED BY <1>7, <1>8, <1>11, <1>12

(* A letter written at the end is one more under way.                      *)
LEMMA OnWritten ==
  ASSUME NEW from, NEW next, NEW c, NEW letter, OneMore(from, next, c, letter)
  PROVE  \A d \in Conns : \A l : On(next, d, l) <=> On(from, d, l) \/ (d = c /\ l = letter)
<1> USE DEF OneMore
<1> SUFFICES ASSUME NEW d \in Conns, NEW l
             PROVE  On(next, d, l) <=> On(from, d, l) \/ (d = c /\ l = letter)
  OBVIOUS
<1>1. CASE d = c
  <2>1. ASSUME On(next, c, l)
        PROVE  On(from, c, l) \/ l = letter
    <3>1. PICK i \in 1 .. Len(from[c]) + 1 : next[c][i] = l
      BY <2>1 DEF On
    <3>2. i = Len(from[c]) + 1 \/ i \in 1 .. Len(from[c])
      BY <3>1
    <3> QED BY <3>1, <3>2 DEF On
  <2>2. ASSUME On(from, c, l)
        PROVE  On(next, c, l)
    <3>1. PICK i \in 1 .. Len(from[c]) : from[c][i] = l
      BY <2>2 DEF On
    <3>2. i \in 1 .. Len(next[c]) /\ next[c][i] = l
      BY <3>1
    <3> QED BY <3>2 DEF On
  <2>3. On(next, c, letter)
    <3>1. Len(from[c]) + 1 \in 1 .. Len(next[c])
      OBVIOUS
    <3> QED BY <3>1 DEF On
  <2> QED BY <1>1, <2>1, <2>2, <2>3
<1>2. CASE d # c
  BY <1>2 DEF On
<1> QED BY <1>1, <1>2

(* A session announces itself: it has not arrived yet.                     *)
LEMMA AnnounceTold ==
  ASSUME TypeOK, SessionInv, LinkInv, NEW from, Told(from),
         NEW s \in Sessions, Announce(s), link # NoConn, alive[link], TypeOK'
  PROVE  \E next \in [Conns -> Seq(Letters)] : Told(next)'
<1>1. PICK c \in Conns : c = link
  BY DEF TypeOK
<1>2. PICK letter \in Letters : letter = << s, "add" >>
  BY DEF Letters
<1>3. /\ session[s] = "joined" /\ session' = [session EXCEPT ![s] = "playing"]
      /\ toMaster' = [toMaster EXCEPT ![c] = Append(@, Written(letter))]
      /\ addedOn' = [addedOn EXCEPT ![s] = c]
      /\ UNCHANGED << removedOn, lossy, alive, listed, drops, restarts >>
  BY <1>1, <1>2 DEF Announce, Send, SentOn, Written, masterVars, faultVars
<1>31. Matches(from)
  BY DEF Told
<1>32. /\ toMaster' \in [Conns -> Seq(Packets)]
       /\ toMaster'[c] = Append(toMaster[c], Written(letter))
       /\ \A d \in Conns \ {c} : toMaster'[d] = toMaster[d]
  BY <1>3 DEF TypeOK
<1>40. PICK next \in [Conns -> Seq(Letters)] : Matches(next)' /\ OneMore(from, next, c, letter)
  BY <1>31, <1>32, LetterWritten
<1>4. /\ Matches(next)'
      /\ Len(from[c]) \in Nat /\ Len(next[c]) = Len(from[c]) + 1
      /\ next[c][Len(from[c]) + 1] = letter
      /\ \A i \in 1 .. Len(from[c]) : next[c][i] = from[c][i]
      /\ \A d \in Conns \ {c} : next[d] = from[d]
  BY <1>40 DEF OneMore
<1>5. \A d \in Conns : \A l : On(next, d, l) <=> On(from, d, l) \/ (d = c /\ l = letter)
  BY <1>40, OnWritten
<1>6. addedOn[s] = NoConn /\ removedOn[s] = NoConn /\ c # NoConn
      /\ addedOn'[s] = c /\ \A t \in Sessions \ {s} : addedOn'[t] = addedOn[t]
  BY <1>1, <1>3, NamesAssumption DEF SessionInv, TypeOK
<1>7. \A d \in Conns : d # NoConn
  BY NamesAssumption
<1>8. \A d \in Conns : from[d] \in Seq(Letters)
                       /\ \A i \in 1 .. Len(from[d]) : from[d][i] \in Letters
  BY ListDomain DEF Told, Matches
<1>9. ASSUME NEW d \in Conns, NEW i \in 1 .. Len(from[d])
      PROVE  /\ from[d][i][1] \in Sessions \ {s}
             /\ IF from[d][i][2] = "add" THEN addedOn'[from[d][i][1]] = d
                                         ELSE removedOn[from[d][i][1]] = d
  <2>1. PICK t \in Sessions : t = from[d][i][1]
    BY <1>8 DEF Letters
  <2>2. IF from[d][i][2] = "add" THEN addedOn[t] = d ELSE removedOn[t] = d
    BY <2>1 DEF Told, InOrder, Addressed, Ordered, Followed
  <2>3. t # s
    BY <1>6, <1>7, <2>2
  <2> QED BY <1>6, <2>1, <2>2, <2>3
<1>10. InOrder(next)'
  <2>1. ASSUME NEW d \in Conns, NEW i \in 1 .. Len(next[d])
        PROVE  IF next[d][i][2] = "add" THEN addedOn'[next[d][i][1]] = d
                                        ELSE removedOn'[next[d][i][1]] = d
    <3>1. CASE d = c /\ i = Len(from[c]) + 1
      BY <1>2, <1>4, <1>6, <3>1
    <3>2. CASE ~ (d = c /\ i = Len(from[c]) + 1)
      <4>1. i \in 1 .. Len(from[d]) /\ next[d][i] = from[d][i]
        BY <1>4, <3>2
      <4> QED BY <1>3, <1>9, <4>1
    <3> QED BY <3>1, <3>2
  <2>2. ASSUME NEW d \in Conns, NEW i \in 1 .. Len(next[d]), NEW j \in 1 .. Len(next[d]),
               i < j, next[d][i][1] = next[d][j][1]
        PROVE  next[d][i][2] = "add" /\ next[d][j][2] = "remove"
    <3>1. CASE d = c /\ j = Len(from[c]) + 1
      <4>1. i \in 1 .. Len(from[c]) /\ next[c][i] = from[c][i]
        BY <1>4, <2>2, <3>1
      <4>2. next[c][j][1] = s
        BY <1>2, <1>4, <3>1
      <4> QED BY <1>9, <2>2, <3>1, <4>1, <4>2
    <3>2. CASE ~ (d = c /\ j = Len(from[c]) + 1)
      <4>1. /\ i \in 1 .. Len(from[d]) /\ next[d][i] = from[d][i]
            /\ j \in 1 .. Len(from[d]) /\ next[d][j] = from[d][j]
        BY <1>4, <2>2, <3>2
      <4> QED BY <2>2, <4>1 DEF Told, InOrder, Addressed, Ordered, Followed
    <3> QED BY <3>1, <3>2
  <2>3. ASSUME NEW d \in Conns, NEW t \in Sessions, addedOn'[t] = d, removedOn'[t] = d,
               d \notin lossy', On(next, d, << t, "add" >>)
        PROVE  On(next, d, << t, "remove" >>)
    <3>1. t # s
      BY <1>3, <1>6, <1>7, <2>3
    <3>2. On(from, d, << t, "add" >>) /\ addedOn[t] = d /\ removedOn[t] = d /\ d \notin lossy
      BY <1>2, <1>3, <1>5, <1>6, <2>3, <3>1
    <3> QED BY <1>5, <3>2 DEF Told, InOrder, Addressed, Ordered, Followed
  <2>4. Addressed(next)' /\ Ordered(next)'
    BY <2>1, <2>2 DEF Addressed, Ordered
  <2>5. Followed(next)'
    BY <2>3 DEF Followed, On
  <2> QED BY <2>4, <2>5 DEF InOrder
<1>11. Arrived(next)' = Arrived(from)
  <2>1. ASSUME NEW t \in Sessions \ {s}
        PROVE  t \in Arrived(next)' <=> t \in Arrived(from)
    <3>1. CASE addedOn[t] = NoConn
      BY <1>6, <3>1 DEF Arrived
    <3>2. CASE addedOn[t] # NoConn
      <4>1. addedOn[t] \in Conns /\ addedOn'[t] = addedOn[t]
        BY <1>6, <3>2 DEF TypeOK
      <4>2. On(next, addedOn[t], << t, "add" >>) <=> On(from, addedOn[t], << t, "add" >>)
        BY <1>2, <1>5, <4>1
      <4>3. On(next, addedOn[t], << t, "remove" >>) <=> On(from, addedOn[t], << t, "remove" >>)
        BY <1>2, <1>5, <4>1
      <4>4. Removed(next, t)' <=> Removed(from, t)
        BY <1>3, <4>1, <4>3 DEF Removed, On
      <4> QED BY <3>2, <4>1, <4>2, <4>4 DEF Arrived, On
    <3> QED BY <3>1, <3>2
  <2>2. s \notin Arrived(from)
    BY <1>6 DEF Arrived
  <2>3. s \notin Arrived(next)'
    <3>1. On(next, c, << s, "add" >>)
      BY <1>2, <1>5
    <3> QED BY <1>6, <3>1 DEF Arrived, On
  <2>4. Arrived(next)' \subseteq Sessions /\ Arrived(from) \subseteq Sessions
    BY DEF Arrived
  <2>5. \A t \in Sessions : t \in Arrived(next)' <=> t \in Arrived(from)
    BY <2>1, <2>2, <2>3
  <2> QED BY <2>4, <2>5
<1>12. Accounted(next)'
  BY <1>3, <1>11 DEF Told, Accounted, FaultFree
<1>13. Shown(next)'
  <2> SUFFICES ASSUME NEW t \in Sessions, session'[t] = "playing", addedOn'[t] # NoConn,
                      alive'[addedOn'[t]], \A u \in Sessions \ {t} : Record[u] # Record[t]
               PROVE  On(next, addedOn'[t], << t, "add" >>) \/ Listed(Record[t])'
    BY DEF Shown, On
  <2>1. CASE t = s
    BY <1>2, <1>5, <1>6, <2>1
  <2>2. CASE t # s
    <3>1. session[t] = "playing" /\ addedOn'[t] = addedOn[t] /\ addedOn[t] \in Conns
      BY <1>3, <1>6, <2>2 DEF TypeOK
    <3>2. On(from, addedOn[t], << t, "add" >>) \/ Listed(Record[t])
      BY <1>3, <3>1 DEF Told, Shown
    <3> QED BY <1>3, <1>5, <3>1, <3>2 DEF Listed
  <2> QED BY <2>1, <2>2
<1> QED BY <1>4, <1>10, <1>12, <1>13 DEF Told

(* A session takes its leave: it has not been removed yet.                 *)
LEMMA FarewellTold ==
  ASSUME TypeOK, SessionInv, LinkInv, NEW from, Told(from),
         NEW s \in Sessions, Farewell(s), link # NoConn, alive[link], TypeOK'
  PROVE  \E next \in [Conns -> Seq(Letters)] : Told(next)'
<1>1. PICK c \in Conns : c = link
  BY DEF TypeOK
<1>2. PICK letter \in Letters : letter = << s, "remove" >>
  BY DEF Letters
<1>3. /\ session[s] = "leaving" /\ session' = [session EXCEPT ![s] = "gone"]
      /\ toMaster' = [toMaster EXCEPT ![c] = Append(@, Written(letter))]
      /\ removedOn' = [removedOn EXCEPT ![s] = c]
      /\ UNCHANGED << addedOn, lossy, alive, listed, drops, restarts >>
  BY <1>1, <1>2 DEF Farewell, Send, SentOn, Written, masterVars, faultVars
<1>31. Matches(from)
  BY DEF Told
<1>32. /\ toMaster' \in [Conns -> Seq(Packets)]
       /\ toMaster'[c] = Append(toMaster[c], Written(letter))
       /\ \A d \in Conns \ {c} : toMaster'[d] = toMaster[d]
  BY <1>3 DEF TypeOK
<1>40. PICK next \in [Conns -> Seq(Letters)] : Matches(next)' /\ OneMore(from, next, c, letter)
  BY <1>31, <1>32, LetterWritten
<1>4. /\ Matches(next)'
      /\ Len(from[c]) \in Nat /\ Len(next[c]) = Len(from[c]) + 1
      /\ next[c][Len(from[c]) + 1] = letter
      /\ \A i \in 1 .. Len(from[c]) : next[c][i] = from[c][i]
      /\ \A d \in Conns \ {c} : next[d] = from[d]
  BY <1>40 DEF OneMore
<1>5. \A d \in Conns : \A l : On(next, d, l) <=> On(from, d, l) \/ (d = c /\ l = letter)
  BY <1>40, OnWritten
<1>6. removedOn[s] = NoConn /\ c # NoConn
      /\ removedOn'[s] = c /\ \A t \in Sessions \ {s} : removedOn'[t] = removedOn[t]
  BY <1>1, <1>3, NamesAssumption DEF SessionInv, TypeOK
<1>7. \A d \in Conns : d # NoConn
  BY NamesAssumption
<1>8. \A d \in Conns : from[d] \in Seq(Letters)
                       /\ \A i \in 1 .. Len(from[d]) : from[d][i] \in Letters
  BY ListDomain DEF Told, Matches
<1>9. ASSUME NEW d \in Conns, NEW i \in 1 .. Len(from[d])
      PROVE  /\ from[d][i][1] = s => from[d][i][2] = "add"
             /\ IF from[d][i][2] = "add" THEN addedOn[from[d][i][1]] = d
                                         ELSE removedOn'[from[d][i][1]] = d
  <2>1. PICK t \in Sessions : t = from[d][i][1]
    BY <1>8 DEF Letters
  <2>2. IF from[d][i][2] = "add" THEN addedOn[t] = d ELSE removedOn[t] = d
    BY <2>1 DEF Told, InOrder, Addressed, Ordered, Followed
  <2>3. t = s => from[d][i][2] = "add"
    BY <1>6, <1>7, <2>2
  <2> QED BY <1>6, <2>1, <2>2, <2>3
<1>10. InOrder(next)'
  <2>1. ASSUME NEW d \in Conns, NEW i \in 1 .. Len(next[d])
        PROVE  IF next[d][i][2] = "add" THEN addedOn'[next[d][i][1]] = d
                                        ELSE removedOn'[next[d][i][1]] = d
    <3>1. CASE d = c /\ i = Len(from[c]) + 1
      BY <1>2, <1>4, <1>6, <3>1
    <3>2. CASE ~ (d = c /\ i = Len(from[c]) + 1)
      <4>1. i \in 1 .. Len(from[d]) /\ next[d][i] = from[d][i]
        BY <1>4, <3>2
      <4> QED BY <1>3, <1>9, <4>1
    <3> QED BY <3>1, <3>2
  <2>2. ASSUME NEW d \in Conns, NEW i \in 1 .. Len(next[d]), NEW j \in 1 .. Len(next[d]),
               i < j, next[d][i][1] = next[d][j][1]
        PROVE  next[d][i][2] = "add" /\ next[d][j][2] = "remove"
    <3>1. CASE d = c /\ j = Len(from[c]) + 1
      <4>1. i \in 1 .. Len(from[c]) /\ next[c][i] = from[c][i]
        BY <1>4, <2>2, <3>1
      <4>2. next[c][j] = << s, "remove" >>
        BY <1>2, <1>4, <3>1
      <4> QED BY <1>9, <2>2, <3>1, <4>1, <4>2
    <3>2. CASE ~ (d = c /\ j = Len(from[c]) + 1)
      <4>1. /\ i \in 1 .. Len(from[d]) /\ next[d][i] = from[d][i]
            /\ j \in 1 .. Len(from[d]) /\ next[d][j] = from[d][j]
        BY <1>4, <2>2, <3>2
      <4> QED BY <2>2, <4>1 DEF Told, InOrder, Addressed, Ordered, Followed
    <3> QED BY <3>1, <3>2
  <2>3. ASSUME NEW d \in Conns, NEW t \in Sessions, addedOn'[t] = d, removedOn'[t] = d,
               d \notin lossy', On(next, d, << t, "add" >>)
        PROVE  On(next, d, << t, "remove" >>)
    <3>1. CASE t = s
      BY <1>2, <1>5, <1>6, <2>3, <3>1
    <3>2. CASE t # s
      <4>1. On(from, d, << t, "add" >>) /\ addedOn[t] = d /\ removedOn[t] = d /\ d \notin lossy
        BY <1>2, <1>3, <1>5, <1>6, <2>3, <3>2
      <4> QED BY <1>5, <4>1 DEF Told, InOrder, Addressed, Ordered, Followed
    <3> QED BY <3>1, <3>2
  <2>4. Addressed(next)' /\ Ordered(next)'
    BY <2>1, <2>2 DEF Addressed, Ordered
  <2>5. Followed(next)'
    BY <2>3 DEF Followed, On
  <2> QED BY <2>4, <2>5 DEF InOrder
<1>11. Arrived(next)' = Arrived(from)
  <2>1. ASSUME NEW t \in Sessions, addedOn[t] # NoConn
        PROVE  t \in Arrived(next)' <=> t \in Arrived(from)
    <3>1. addedOn[t] \in Conns /\ addedOn'[t] = addedOn[t] /\ lossy' = lossy
      BY <1>3, <2>1 DEF TypeOK
    <3>2. On(next, addedOn[t], << t, "add" >>) <=> On(from, addedOn[t], << t, "add" >>)
      BY <1>2, <1>5, <3>1
    <3>3. Removed(next, t)' <=> Removed(from, t)
      <4>1. CASE t = s
        <5>1. ~ Removed(from, s)
          BY <1>6, <2>1, <4>1 DEF Removed
        <5>2. addedOn[s] = c => On(next, addedOn[s], << s, "remove" >>)
          BY <1>2, <1>5
        <5>3. ~ Removed(next, s)'
          BY <1>6, <3>1, <4>1, <5>2 DEF Removed, On
        <5> QED BY <4>1, <5>1, <5>3
      <4>2. CASE t # s
        <5>1. On(next, addedOn[t], << t, "remove" >>) <=> On(from, addedOn[t], << t, "remove" >>)
          BY <1>2, <1>5, <3>1, <4>2
        <5> QED BY <1>6, <3>1, <4>2, <5>1 DEF Removed, On
      <4> QED BY <4>1, <4>2
    <3> QED BY <3>1, <3>2, <3>3 DEF Arrived, On
  <2> QED BY <1>3, <2>1 DEF Arrived
<1>12. Accounted(next)'
  BY <1>3, <1>11 DEF Told, Accounted, FaultFree
<1>13. Shown(next)'
  <2> SUFFICES ASSUME NEW t \in Sessions, session'[t] = "playing", addedOn'[t] # NoConn,
                      alive'[addedOn'[t]], \A u \in Sessions \ {t} : Record[u] # Record[t]
               PROVE  On(next, addedOn'[t], << t, "add" >>) \/ Listed(Record[t])'
    BY DEF Shown, On
  <2>1. session[t] = "playing" /\ addedOn[t] \in Conns
    BY <1>3 DEF TypeOK
  <2>2. On(from, addedOn[t], << t, "add" >>) \/ Listed(Record[t])
    BY <1>3, <2>1 DEF Told, Shown
  <2> QED BY <1>3, <1>5, <2>1, <2>2 DEF Listed
<1> QED BY <1>4, <1>10, <1>12, <1>13 DEF Told

(* The letter read is no longer under way, the others still are.           *)
LEMMA OnRead ==
  ASSUME NEW from, NEW next, NEW c \in Conns, FirstGone(from, next, c), Ordered(from)
  PROVE  \A d \in Conns : \A l : On(next, d, l) <=> On(from, d, l) /\ ~ (d = c /\ l = from[c][1])
<1> USE DEF FirstGone
<1> SUFFICES ASSUME NEW d \in Conns, NEW l
             PROVE  On(next, d, l) <=> On(from, d, l) /\ ~ (d = c /\ l = from[c][1])
  OBVIOUS
<1>1. CASE d = c
  <2>1. ASSUME On(next, c, l)
        PROVE  On(from, c, l) /\ l # from[c][1]
    <3>1. PICK i \in 1 .. Len(from[c]) - 1 : next[c][i] = l
      BY <2>1 DEF On
    <3>2. i + 1 \in 1 .. Len(from[c]) /\ 1 \in 1 .. Len(from[c]) /\ 1 < i + 1 /\ from[c][i + 1] = l
      BY <3>1
    <3>3. from[c][1][1] = l[1] => from[c][1][2] = "add" /\ l[2] = "remove"
      BY <3>2 DEF Ordered
    <3> QED BY <3>2, <3>3 DEF On
  <2>2. ASSUME On(from, c, l), l # from[c][1]
        PROVE  On(next, c, l)
    <3>1. PICK i \in 1 .. Len(from[c]) : from[c][i] = l
      BY <2>2 DEF On
    <3>2. i - 1 \in 1 .. Len(from[c]) - 1 /\ (i - 1) + 1 = i
      BY <2>2, <3>1
    <3>3. i - 1 \in 1 .. Len(next[c]) /\ next[c][i - 1] = l
      BY <3>1, <3>2
    <3> QED BY <3>3 DEF On
  <2> QED BY <1>1, <2>1, <2>2
<1>2. CASE d # c
  BY <1>2 DEF On
<1> QED BY <1>1, <1>2

(* Only letters that were under way are still under way after a loss.      *)
LEMMA OnLost ==
  ASSUME NEW from, NEW next, NEW c \in Conns, LastGone(from, next, c)
  PROVE  /\ \A l : On(next, c, l) => On(from, c, l)
         /\ \A d \in Conns \ {c} : \A l : On(next, d, l) <=> On(from, d, l)
<1> USE DEF LastGone
<1>1. ASSUME NEW l, On(next, c, l)
      PROVE  On(from, c, l)
  <2>1. PICK i \in 1 .. Len(from[c]) - 1 : next[c][i] = l
    BY <1>1 DEF On
  <2>2. i \in 1 .. Len(from[c]) /\ from[c][i] = l
    BY <2>1
  <2> QED BY <2>2 DEF On
<1>2. \A d \in Conns \ {c} : \A l : On(next, d, l) <=> On(from, d, l)
  BY DEF On
<1> QED BY <1>1, <1>2

(* Reading the first letter keeps the others in their order.               *)
LEMMA ReadInOrder ==
  ASSUME NEW from, NEW next, NEW c \in Conns, FirstGone(from, next, c), InOrder(from),
         UNCHANGED << addedOn, removedOn, lossy >>
  PROVE  InOrder(next)'
<1>0. Addressed(from) /\ Ordered(from) /\ Followed(from)
  BY DEF InOrder
<1>1. \A d \in Conns : \A l : On(next, d, l) <=> On(from, d, l) /\ ~ (d = c /\ l = from[c][1])
  BY <1>0, OnRead
<1>2. ASSUME NEW d \in Conns, NEW i \in 1 .. Len(next[d])
      PROVE  \E k \in 1 .. Len(from[d]) :
               /\ next[d][i] = from[d][k] /\ k = IF d = c THEN i + 1 ELSE i
  <2>1. CASE d = c
    <3>1. i + 1 \in 1 .. Len(from[c]) /\ next[c][i] = from[c][i + 1]
      BY <2>1 DEF FirstGone
    <3> QED BY <2>1, <3>1
  <2>2. CASE d # c
    BY <2>2 DEF FirstGone
  <2> QED BY <2>1, <2>2
<1>3. Addressed(next)'
  <2> SUFFICES ASSUME NEW d \in Conns, NEW i \in 1 .. Len(next[d])
               PROVE  IF next[d][i][2] = "add" THEN addedOn'[next[d][i][1]] = d
                                               ELSE removedOn'[next[d][i][1]] = d
    BY DEF Addressed
  <2>1. PICK k \in 1 .. Len(from[d]) : next[d][i] = from[d][k]
    BY <1>2
  <2> QED BY <1>0, <2>1 DEF Addressed
<1>4. Ordered(next)'
  <2> SUFFICES ASSUME NEW d \in Conns, NEW i \in 1 .. Len(next[d]), NEW j \in 1 .. Len(next[d]),
                      i < j, next[d][i][1] = next[d][j][1]
               PROVE  next[d][i][2] = "add" /\ next[d][j][2] = "remove"
    BY DEF Ordered
  <2>1. PICK k \in 1 .. Len(from[d]) : next[d][i] = from[d][k] /\ k = IF d = c THEN i + 1 ELSE i
    BY <1>2
  <2>2. PICK m \in 1 .. Len(from[d]) : next[d][j] = from[d][m] /\ m = IF d = c THEN j + 1 ELSE j
    BY <1>2
  <2>3. k < m
    BY <2>1, <2>2
  <2> QED BY <1>0, <2>1, <2>2, <2>3 DEF Ordered
<1>5. Followed(next)'
  <2> SUFFICES ASSUME NEW t \in Sessions, NEW d \in Conns, addedOn[t] = d, removedOn[t] = d,
                      d \notin lossy, On(next, d, << t, "add" >>)
               PROVE  On(next, d, << t, "remove" >>)
    BY DEF Followed, On
  <2>1. On(from, d, << t, "add" >>) /\ On(from, d, << t, "remove" >>)
        /\ ~ (d = c /\ << t, "add" >> = from[c][1])
    BY <1>0, <1>1 DEF Followed
  <2>2. ~ (d = c /\ << t, "remove" >> = from[c][1])
    <3> SUFFICES ASSUME d = c, << t, "remove" >> = from[c][1]
                 PROVE  FALSE
      OBVIOUS
    <3>1. PICK k \in 1 .. Len(from[c]) : from[c][k] = << t, "add" >>
      BY <2>1 DEF On
    <3>2. 1 \in 1 .. Len(from[c]) /\ 1 < k
      BY <2>1, <3>1 DEF FirstGone
    <3>3. from[c][1][2] = "add"
      BY <1>0, <3>1, <3>2 DEF Ordered
    <3> QED BY <3>3
  <2> QED BY <1>1, <2>1, <2>2
<1> QED BY <1>3, <1>4, <1>5 DEF InOrder

(* An Add that is read makes its session one that has arrived; a Remove    *)
(* ends that, if it came on the connection of the Add and nothing was lost *)
(* there.                                                                  *)
LEMMA ReadArrives ==
  ASSUME TypeOK, NEW from, NEW next, NEW c \in Conns, FirstGone(from, next, c), InOrder(from),
         UNCHANGED << addedOn, removedOn, lossy >>,
         NEW s \in Sessions, NEW type \in {"add", "remove"}, from[c][1] = << s, type >>
  PROVE  /\ type = "add" => s \notin Arrived(from) /\ Arrived(next)' = Arrived(from) \cup {s}
         /\ type = "remove" =>
              IF addedOn[s] = c /\ c \notin lossy
              THEN s \in Arrived(from) /\ Arrived(next)' = Arrived(from) \ {s}
              ELSE Arrived(next)' = Arrived(from)
<1>0. Addressed(from) /\ Ordered(from) /\ Followed(from)
  BY DEF InOrder
<1>1. \A d \in Conns : \A l : On(next, d, l) <=> On(from, d, l) /\ ~ (d = c /\ l = << s, type >>)
  BY <1>0, OnRead
<1>2. On(from, c, << s, type >>) /\ ~ On(next, c, << s, type >>) /\ 1 \in 1 .. Len(from[c])
  <2>1. 1 \in 1 .. Len(from[c])
    BY DEF FirstGone
  <2>2. On(from, c, << s, type >>)
    BY <2>1 DEF On
  <2> QED BY <1>1, <2>1, <2>2
<1>3. c # NoConn /\ IF type = "add" THEN addedOn[s] = c ELSE removedOn[s] = c
  BY <1>2, NamesAssumption, <1>0 DEF Addressed
<1>4. \A t \in Sessions :
        t \in Arrived(next)' <=> /\ addedOn[t] # NoConn
                                 /\ ~ On(next, addedOn[t], << t, "add" >>)
                                 /\ ~ (/\ removedOn[t] = addedOn[t] /\ addedOn[t] \notin lossy
                                       /\ ~ On(next, addedOn[t], << t, "remove" >>))
  BY DEF Arrived, Removed, On
<1>5. \A t \in Sessions :
        t \in Arrived(from) <=> /\ addedOn[t] # NoConn
                                /\ ~ On(from, addedOn[t], << t, "add" >>)
                                /\ ~ (/\ removedOn[t] = addedOn[t] /\ addedOn[t] \notin lossy
                                      /\ ~ On(from, addedOn[t], << t, "remove" >>))
  BY DEF Arrived, Removed
<1>6. ASSUME NEW t \in Sessions \ {s}
      PROVE  t \in Arrived(next)' <=> t \in Arrived(from)
  <2>1. CASE addedOn[t] = NoConn
    BY <1>4, <1>5, <2>1
  <2>2. CASE addedOn[t] # NoConn
    <3>1. addedOn[t] \in Conns
      BY <2>2 DEF TypeOK
    <3>2. /\ On(next, addedOn[t], << t, "add" >>) <=> On(from, addedOn[t], << t, "add" >>)
          /\ On(next, addedOn[t], << t, "remove" >>) <=> On(from, addedOn[t], << t, "remove" >>)
      BY <1>1, <3>1
    <3> QED BY <1>4, <1>5, <3>2
  <2> QED BY <2>1, <2>2
<1>7. Arrived(next)' \subseteq Sessions /\ Arrived(from) \subseteq Sessions
  BY DEF Arrived
<1>8. CASE type = "add"
  <2>1. addedOn[s] = c /\ s \notin Arrived(from)
    BY <1>2, <1>3, <1>5, <1>8
  <2>2. removedOn[s] = c /\ c \notin lossy => On(next, c, << s, "remove" >>)
    BY <1>0, <1>1, <1>2, <1>8, <2>1 DEF Followed
  <2>3. s \in Arrived(next)'
    BY <1>2, <1>3, <1>4, <1>8, <2>1, <2>2
  <2>4. \A t \in Sessions : t \in Arrived(next)' <=> t \in Arrived(from) \cup {s}
    BY <1>6, <2>3
  <2>5. Arrived(next)' = Arrived(from) \cup {s}
    BY <1>7, <2>4
  <2> QED BY <1>8, <2>1, <2>5
<1>9. CASE type = "remove" /\ addedOn[s] = c /\ c \notin lossy
  <2>1. ~ On(from, c, << s, "add" >>)
    <3> SUFFICES ASSUME On(from, c, << s, "add" >>)
                 PROVE  FALSE
      OBVIOUS
    <3>1. PICK k \in 1 .. Len(from[c]) : from[c][k] = << s, "add" >>
      BY DEF On
    <3>2. 1 < k
      BY <1>9, <3>1
    <3>3. from[c][1][2] = "add"
      BY <1>0, <1>2, <3>1, <3>2 DEF Ordered
    <3> QED BY <1>9, <3>3
  <2>2. s \in Arrived(from)
    BY <1>2, <1>3, <1>5, <1>9, <2>1
  <2>3. s \notin Arrived(next)'
    BY <1>2, <1>3, <1>4, <1>9
  <2>4. \A t \in Sessions : t \in Arrived(next)' <=> t \in Arrived(from) \ {s}
    BY <1>6, <2>3
  <2>5. Arrived(next)' = Arrived(from) \ {s}
    BY <1>7, <2>4
  <2> QED BY <1>9, <2>2, <2>5
<1>10. CASE type = "remove" /\ ~ (addedOn[s] = c /\ c \notin lossy)
  <2>1. s \in Arrived(next)' <=> s \in Arrived(from)
    <3>1. CASE addedOn[s] = NoConn
      BY <1>4, <1>5, <3>1
    <3>2. CASE addedOn[s] # NoConn
      <4>1. addedOn[s] \in Conns
        BY <3>2 DEF TypeOK
      <4>2. On(next, addedOn[s], << s, "add" >>) <=> On(from, addedOn[s], << s, "add" >>)
        BY <1>1, <1>10, <4>1
      <4>3. removedOn[s] = addedOn[s] => addedOn[s] \in lossy
        BY <1>3, <1>10
      <4> QED BY <1>4, <1>5, <4>2, <4>3
    <3> QED BY <3>1, <3>2
  <2>2. \A t \in Sessions : t \in Arrived(next)' <=> t \in Arrived(from)
    BY <1>6, <2>1
  <2>3. Arrived(next)' = Arrived(from)
    BY <1>7, <2>2
  <2> QED BY <1>10, <2>3
<1> QED BY <1>8, <1>9, <1>10

(* A packet the master reads is told by its letter.                        *)
LEMMA ReadTold ==
  ASSUME TypeOK, BegunInv, SessionInv, LinkInv, NEW from, Told(from),
         NEW c \in Conns, MasterReceive(c)
  PROVE  \E next \in [Conns -> Seq(Letters)] : Told(next)'
<1>1. Matches(from) /\ InOrder(from) /\ Accounted(from) /\ Shown(from)
  BY DEF Told
<1>2. /\ toMaster[c] # << >> /\ toMaster'[c] = Tail(toMaster[c])
      /\ \A d \in Conns \ {c} : toMaster'[d] = toMaster[d]
      /\ listed' = IF Head(toMaster[c]).type = "add"
                   THEN Append(listed, Head(toMaster[c]).record)
                   ELSE RemoveFirst(listed, Head(toMaster[c]).record)
      /\ UNCHANGED << session, link, alive, addedOn, removedOn, lossy, drops, restarts >>
  BY DEF MasterReceive, TypeOK, sessionVars, faultVars
<1>3. /\ from[c][1] \in Letters /\ Head(toMaster[c]) = Written(from[c][1])
      /\ \E next \in [Conns -> Seq(Letters)] : Matches(next)' /\ FirstGone(from, next, c)
  BY <1>1, <1>2, LetterRead
<1>4. PICK next \in [Conns -> Seq(Letters)] : Matches(next)' /\ FirstGone(from, next, c)
  BY <1>3
<1>5. PICK s \in Sessions, type \in {"add", "remove"} : from[c][1] = << s, type >>
  <2>1. from[c][1] \in Sessions \X {"add", "remove"}
    BY <1>3 DEF Letters
  <2>2. /\ from[c][1][1] \in Sessions /\ from[c][1][2] \in {"add", "remove"}
        /\ from[c][1] = << from[c][1][1], from[c][1][2] >>
    BY <2>1
  <2> QED BY <2>2
<1>6. /\ listed \in Seq(Records) /\ Record[s] \in Records
      /\ type = "add" => listed' = Append(listed, Record[s])
      /\ type = "remove" => listed' = RemoveFirst(listed, Record[s])
  BY <1>2, <1>3, <1>5 DEF TypeOK, Records, Written
<1>7. InOrder(next)'
  BY <1>1, <1>2, <1>4, ReadInOrder
<1>8. /\ type = "add" => s \notin Arrived(from) /\ Arrived(next)' = Arrived(from) \cup {s}
      /\ type = "remove" =>
           IF addedOn[s] = c /\ c \notin lossy
           THEN s \in Arrived(from) /\ Arrived(next)' = Arrived(from) \ {s}
           ELSE Arrived(next)' = Arrived(from)
  BY <1>1, <1>2, <1>4, <1>5, ReadArrives
<1>9. IsFiniteSet(Arrived(from)) /\ Arrived(from) \subseteq Sessions
  BY ArrivedFinite
<1>10. Addressed(from) /\ Ordered(from) /\ c # NoConn /\ 1 \in 1 .. Len(from[c])
  BY <1>1, <1>4, NamesAssumption DEF InOrder, FirstGone
<1>11. ASSUME type = "remove"
       PROVE  session[s] = "gone" /\ removedOn[s] = c /\ (FaultFree => addedOn[s] = c /\ lossy = {})
  <2>1. removedOn[s] = c
    BY <1>5, <1>10, <1>11 DEF Addressed
  <2>2. session[s] = "gone"
    BY <1>10, <2>1 DEF SessionInv
  <2> QED BY <2>1, <2>2 DEF LinkInv
<1>12. ASSUME NEW r \in Records
       PROVE  /\ Count(listed', r) <= Having(Arrived(next)', r)
              /\ FaultFree => Count(listed', r) = Having(Arrived(next)', r)
  <2>1. /\ Count(listed, r) \in Nat
        /\ Count(listed, r) <= Having(Arrived(from), r)
        /\ FaultFree => Count(listed, r) = Having(Arrived(from), r)
    BY <1>1, <1>6, <1>12, CountType DEF Accounted
  <2>2. CASE type = "add"
    <3>1. Count(Append(listed, Record[s]), r) = Count(listed, r) + IF Record[s] = r THEN 1 ELSE 0
      BY <1>6, CountAppend
    <3>2. /\ Having(Arrived(from), r) \in Nat
          /\ Having(Arrived(from) \cup {s}, r) = Having(Arrived(from), r) + IF Record[s] = r THEN 1 ELSE 0
      BY <1>8, <1>9, <2>2, HavingMore
    <3>3. listed' = Append(listed, Record[s]) /\ Arrived(next)' = Arrived(from) \cup {s}
      BY <1>6, <1>8, <2>2
    <3> QED BY <2>1, <3>1, <3>2, <3>3
  <2>3. CASE type = "remove"
    <3>1. Count(RemoveFirst(listed, Record[s]), r) =
            IF Record[s] = r /\ Count(listed, r) # 0 THEN Count(listed, r) - 1 ELSE Count(listed, r)
      BY <1>6, CountRemoveFirst
    <3>2. CASE addedOn[s] = c /\ c \notin lossy
      <4>1. /\ Having(Arrived(from), r) \in Nat
            /\ Record[s] = r => Having(Arrived(from), r) # 0
            /\ Having(Arrived(from) \ {s}, r) = Having(Arrived(from), r) - IF Record[s] = r THEN 1 ELSE 0
        BY <1>8, <1>9, <2>3, <3>2, HavingLess
      <4>2. /\ listed' = RemoveFirst(listed, Record[s]) /\ Arrived(next)' = Arrived(from) \ {s}
        BY <1>6, <1>8, <2>3, <3>2
      <4> QED BY <2>1, <3>1, <4>1, <4>2
    <3>3. CASE ~ (addedOn[s] = c /\ c \notin lossy)
      <4>1. ~ FaultFree
        BY <1>11, <2>3, <3>3
      <4>2. listed' = RemoveFirst(listed, Record[s]) /\ Arrived(next)' = Arrived(from)
        BY <1>6, <1>8, <2>3, <3>3
      <4>3. Having(Arrived(from), r) \in Nat
        BY <1>9, HavingFewer
      <4> QED BY <2>1, <3>1, <4>1, <4>2, <4>3
    <3> QED BY <3>2, <3>3
  <2> QED BY <2>2, <2>3
<1>13. Accounted(next)'
  <2>1. \A r \in Records : /\ Count(listed', r) <= Having(Arrived(next)', r)
                           /\ FaultFree => Count(listed', r) = Having(Arrived(next)', r)
    BY <1>12
  <2>2. FaultFree' <=> FaultFree
    BY <1>2 DEF FaultFree
  <2> QED BY <2>1, <2>2 DEF Accounted, Count, Having
<1>14. ASSUME NEW t \in Sessions, session[t] = "playing", addedOn[t] # NoConn, alive[addedOn[t]],
              \A u \in Sessions \ {t} : Record[u] # Record[t]
       PROVE  On(next, addedOn[t], << t, "add" >>) \/ \E i \in DOMAIN listed' : listed'[i] = Record[t]
  <2>1. On(from, addedOn[t], << t, "add" >>) \/ Listed(Record[t])
    BY <1>1, <1>14 DEF Shown
  <2>2. addedOn[t] \in Conns
    BY <1>14 DEF TypeOK
  <2>3. CASE On(from, addedOn[t], << t, "add" >>)
    <3>1. CASE addedOn[t] = c /\ << t, "add" >> = << s, type >>
      <4>1. listed' = Append(listed, Record[t])
        BY <1>6, <3>1
      <4>2. Record[t] \in Records
        BY DEF Records
      <4>3. /\ Len(listed) + 1 \in DOMAIN Append(listed, Record[t])
            /\ Append(listed, Record[t])[Len(listed) + 1] = Record[t]
        BY <1>6, <4>2, AppendedList
      <4> QED BY <4>1, <4>3
    <3>2. CASE ~ (addedOn[t] = c /\ << t, "add" >> = << s, type >>)
      BY <1>4, <1>5, <1>10, <2>2, <2>3, <3>2, OnRead
    <3> QED BY <3>1, <3>2
  <2>4. CASE Listed(Record[t])
    <3>1. \E i \in DOMAIN listed : listed[i] = Record[t]
      BY <2>4 DEF Listed
    <3>2. CASE type = "add"
      <4>1. DOMAIN listed = 1 .. Len(listed) /\ Len(listed) \in Nat
        BY <1>6, ListDomain
      <4>2. /\ DOMAIN Append(listed, Record[s]) = 1 .. Len(listed) + 1
            /\ \A i \in 1 .. Len(listed) : Append(listed, Record[s])[i] = listed[i]
        BY <1>6, AppendedList
      <4> QED BY <1>6, <3>1, <3>2, <4>1, <4>2
    <3>3. CASE type = "remove"
      <4>1. Record[t] # Record[s]
        BY <1>11, <1>14, <3>3
      <4>2. \E i \in DOMAIN RemoveFirst(listed, Record[s]) : RemoveFirst(listed, Record[s])[i] = Record[t]
        <5>1. PICK r : r = Record[t]
          OBVIOUS
        <5>2. PICK e : e = Record[s]
          OBVIOUS
        <5>3. listed \in Seq(Records) /\ r # e /\ \E i \in DOMAIN listed : listed[i] = r
          BY <1>6, <3>1, <4>1, <5>1, <5>2
        <5>4. Count(listed, r) # 0
          BY <5>3, CountType
        <5>5. RemoveFirst(listed, e) \in Seq(Records) /\ Count(RemoveFirst(listed, e), r) # 0
          BY <5>3, <5>4, CountRemoveFirst
        <5>6. \E i \in DOMAIN RemoveFirst(listed, e) : RemoveFirst(listed, e)[i] = r
          BY <5>5, CountType
        <5> QED BY <5>1, <5>2, <5>6
      <4> QED BY <1>6, <3>3, <4>2
    <3> QED BY <3>2, <3>3
  <2> QED BY <2>1, <2>3, <2>4
<1>15. Shown(next)'
  BY <1>2, <1>14 DEF Shown, On, Listed
<1> QED BY <1>4, <1>7, <1>13, <1>15 DEF Told

(* A packet that is lost leaves the connection lossy: from then on it      *)
(* explains entries that have no Remove to come.                           *)
LEMMA LostTold ==
  ASSUME TypeOK, BegunInv, SessionInv, LinkInv, NEW from, Told(from),
         NEW c \in Conns, LoseTail(c)
  PROVE  \E next \in [Conns -> Seq(Letters)] : Told(next)'
<1>1. Matches(from) /\ InOrder(from) /\ Accounted(from) /\ Shown(from)
  BY DEF Told
<1>2. /\ ~ alive[c] /\ toMaster[c] # << >>
      /\ toMaster'[c] = SubSeq(toMaster[c], 1, Len(toMaster[c]) - 1)
      /\ \A d \in Conns \ {c} : toMaster'[d] = toMaster[d]
      /\ lossy' = lossy \cup {c}
      /\ UNCHANGED << session, link, alive, addedOn, removedOn, listed, drops, restarts >>
  BY DEF LoseTail, TypeOK, sessionVars, masterVars, faultVars
<1>3. PICK next \in [Conns -> Seq(Letters)] : Matches(next)' /\ LastGone(from, next, c)
  BY <1>1, <1>2, LetterLost
<1>4. /\ \A l : On(next, c, l) => On(from, c, l)
      /\ \A d \in Conns \ {c} : \A l : On(next, d, l) <=> On(from, d, l)
  BY <1>3, OnLost
<1>5. ~ FaultFree
  <2> SUFFICES ASSUME FaultFree
               PROVE  FALSE
    OBVIOUS
  <2>1. c = link
    BY <1>1, <1>2, FlightOnLink
  <2>2. c # NoConn
    BY NamesAssumption
  <2> QED BY <1>2, <2>1, <2>2 DEF LinkInv
<1>6. Addressed(from) /\ Ordered(from) /\ Followed(from)
  BY <1>1 DEF InOrder
<1>7. ASSUME NEW d \in Conns, NEW i \in 1 .. Len(next[d])
      PROVE  i \in 1 .. Len(from[d]) /\ next[d][i] = from[d][i]
  BY <1>3 DEF LastGone
<1>8. Addressed(next)' /\ Ordered(next)'
  <2>1. Addressed(next)'
    <3> SUFFICES ASSUME NEW d \in Conns, NEW i \in 1 .. Len(next[d])
                 PROVE  IF next[d][i][2] = "add" THEN addedOn[next[d][i][1]] = d
                                                 ELSE removedOn[next[d][i][1]] = d
      BY <1>2 DEF Addressed
    <3> QED BY <1>6, <1>7 DEF Addressed
  <2>2. Ordered(next)'
    <3> SUFFICES ASSUME NEW d \in Conns, NEW i \in 1 .. Len(next[d]), NEW j \in 1 .. Len(next[d]),
                        i < j, next[d][i][1] = next[d][j][1]
                 PROVE  next[d][i][2] = "add" /\ next[d][j][2] = "remove"
      BY DEF Ordered
    <3> QED BY <1>6, <1>7 DEF Ordered
  <2> QED BY <2>1, <2>2
<1>9. Followed(next)'
  <2> SUFFICES ASSUME NEW t \in Sessions, NEW d \in Conns, addedOn[t] = d, removedOn[t] = d,
                      d \notin lossy', On(next, d, << t, "add" >>)
               PROVE  On(next, d, << t, "remove" >>)
    BY <1>2 DEF Followed, On
  <2> QED BY <1>2, <1>4, <1>6 DEF Followed
<1>10. Arrived(from) \subseteq Arrived(next)'
  <2> SUFFICES ASSUME NEW t \in Arrived(from)
               PROVE  t \in Arrived(next)'
    OBVIOUS
  <2>1. /\ t \in Sessions /\ addedOn[t] # NoConn /\ ~ On(from, addedOn[t], << t, "add" >>)
        /\ ~ (/\ removedOn[t] = addedOn[t] /\ addedOn[t] \notin lossy
              /\ ~ On(from, addedOn[t], << t, "remove" >>))
    BY DEF Arrived, Removed
  <2>2. addedOn[t] \in Conns
    BY <2>1 DEF TypeOK
  <2>3. ~ On(next, addedOn[t], << t, "add" >>)
    BY <1>4, <2>1, <2>2
  <2>4. ~ (/\ removedOn[t] = addedOn[t] /\ addedOn[t] \notin lossy'
           /\ ~ On(next, addedOn[t], << t, "remove" >>))
    BY <1>2, <1>4, <2>1, <2>2
  <2> QED BY <1>2, <2>1, <2>3, <2>4 DEF Arrived, Removed, On
<1>11. IsFiniteSet(Arrived(next)')
  <2>1. Arrived(next)' \in SUBSET { s \in Sessions : session[s] # "new" }
    BY <1>2 DEF Arrived, SessionInv
  <2> QED BY <2>1, FS_Subset DEF BegunInv
<1>12. ASSUME NEW r \in Records
       PROVE  Count(listed', r) <= Having(Arrived(next)', r)
  <2>1. Count(listed, r) \in Nat /\ Count(listed, r) <= Having(Arrived(from), r)
    BY <1>1, <1>12, CountType DEF Accounted, TypeOK
  <2>2. PICK more : more = Arrived(next)'
    OBVIOUS
  <2>3. /\ Having(Arrived(from), r) \in Nat /\ Having(more, r) \in Nat
        /\ Having(Arrived(from), r) <= Having(more, r)
    <3>1. IsFiniteSet(more) /\ Arrived(from) \in SUBSET more
      BY <1>10, <1>11, <2>2
    <3> QED BY <3>1, HavingFewer
  <2> QED BY <1>2, <2>1, <2>2, <2>3
<1>13. Accounted(next)'
  <2>1. ~ FaultFree'
    BY <1>2, <1>5 DEF FaultFree
  <2>2. \A r \in Records : Count(listed', r) <= Having(Arrived(next)', r)
    BY <1>12
  <2> QED BY <2>1, <2>2 DEF Accounted, Count, Having
<1>14. Shown(next)'
  <2> SUFFICES ASSUME NEW t \in Sessions, session[t] = "playing", addedOn[t] # NoConn, alive[addedOn[t]],
                      \A u \in Sessions \ {t} : Record[u] # Record[t]
               PROVE  On(next, addedOn[t], << t, "add" >>) \/ Listed(Record[t])
    BY <1>2 DEF Shown, On, Listed
  <2>1. addedOn[t] \in Conns \ {c}
    BY <1>2 DEF TypeOK
  <2> QED BY <1>1, <1>4, <2>1 DEF Shown
<1> QED BY <1>3, <1>8, <1>9, <1>13, <1>14 DEF Told, InOrder

(* A restart of the master forgets the list and whatever is in flight.     *)
LEMMA RestartTold ==
  ASSUME TypeOK, BegunInv, SessionInv, MasterRestart
  PROVE  \E next \in [Conns -> Seq(Letters)] : Told(next)'
<1> DEFINE empty == [c \in Conns |-> << >>]
<1>1. /\ listed' = << >> /\ toMaster' = empty /\ \A c \in Conns : ~ alive'[c]
      /\ (drops' # 0 \/ restarts' # 0)
      /\ UNCHANGED << session, addedOn, removedOn >>
  BY DEF MasterRestart, TypeOK, sessionVars
<1>2. PICK next : next = empty
  OBVIOUS
<1>3. next \in [Conns -> Seq(Letters)] /\ \A c \in Conns : Len(next[c]) = 0
  BY <1>2, ListDomain
<1>4. Matches(next)'
  <2>1. \A c \in Conns : toMaster'[c] = << >> /\ Len(toMaster'[c]) = 0
    BY <1>1, ListDomain
  <2> QED BY <1>3, <2>1 DEF Matches
<1>5. \A c \in Conns : 1 .. Len(next[c]) = {}
  BY <1>3
<1>6. InOrder(next)'
  BY <1>5 DEF InOrder, Addressed, Ordered, Followed, On
<1>7. Accounted(next)'
  <2>1. ~ FaultFree'
    BY <1>1 DEF FaultFree
  <2>2. Arrived(next)' \in SUBSET { s \in Sessions : session[s] # "new" }
    BY <1>1 DEF Arrived, SessionInv
  <2>3. IsFiniteSet(Arrived(next)')
    BY <2>2, FS_Subset DEF BegunInv
  <2>4. PICK all : all = Arrived(next)'
    OBVIOUS
  <2>5. ASSUME NEW r
        PROVE  Count(listed', r) <= Having(all, r)
    <3>1. Having(all, r) \in Nat
      BY <2>3, <2>4, HavingFewer
    <3>2. listed' \in Seq(Records) /\ DOMAIN listed' = {}
      BY <1>1, ListDomain
    <3>3. Count(listed', r) = 0
      BY <3>2, FS_EmptySet DEF Count
    <3> QED BY <3>1, <3>3
  <2> QED BY <2>1, <2>4, <2>5 DEF Accounted, Count, Having
<1>8. Shown(next)'
  <2>1. \A s \in Sessions : addedOn'[s] # NoConn => ~ alive'[addedOn'[s]]
    BY <1>1 DEF TypeOK
  <2> QED BY <2>1 DEF Shown
<1> QED BY <1>3, <1>4, <1>6, <1>7, <1>8 DEF Told

(* The other steps write, read and lose no packet.                         *)
Quiet ==
  /\ UNCHANGED << toMaster, addedOn, removedOn, lossy, listed >>
  /\ drops' \in Nat /\ restarts' \in Nat /\ drops <= drops' /\ restarts <= restarts'
  /\ \A s \in Sessions :
       session'[s] = "playing" /\ addedOn[s] # NoConn /\ alive'[addedOn[s]]
       => session[s] = "playing" /\ alive[addedOn[s]]
LEMMA QuietTold ==
  ASSUME TypeOK, NEW from \in [Conns -> Seq(Letters)], Told(from), Quiet
  PROVE  Told(from)'
<1>1. Matches(from) /\ InOrder(from) /\ Accounted(from) /\ Shown(from)
  BY DEF Told
<1>2. Matches(from)'
  BY <1>1 DEF Matches, Quiet, Written
<1>3. InOrder(from)'
  BY <1>1 DEF InOrder, Addressed, Ordered, Followed, On, Quiet
<1>4. Arrived(from)' = Arrived(from)
  BY DEF Arrived, Removed, On, Quiet
<1>5. FaultFree' => FaultFree
  <2>1. /\ drops \in Nat /\ restarts \in Nat /\ drops' \in Nat /\ restarts' \in Nat
        /\ drops <= drops' /\ restarts <= restarts'
    BY DEF Quiet, TypeOK
  <2> QED BY <2>1 DEF FaultFree
<1>6. Accounted(from)'
  BY <1>1, <1>4, <1>5 DEF Accounted, Quiet, Count, Having
<1>7. Shown(from)'
  BY <1>1 DEF Shown, On, Listed, Quiet
<1> QED BY <1>2, <1>3, <1>6, <1>7 DEF Told

(* A session that writes to no connection changes nothing the master sees. *)
LEMMA SessionQuiet ==
  ASSUME TypeOK, SessionInv, LinkInv, NEW s \in Sessions,
         \/ Join(s) \/ Leave(s)
         \/ Announce(s) /\ SentOn = NoConn
         \/ Farewell(s) /\ SentOn = NoConn
  PROVE  Quiet
<1> USE DEF Quiet, TypeOK, SessionInv, sessionVars, netVars, masterVars, faultVars
<1>1. CASE Join(s)
  BY <1>1 DEF Join
<1>2. CASE Leave(s)
  BY <1>2 DEF Leave
<1>3. CASE Announce(s) /\ SentOn = NoConn
  <2>1. ~ (link # NoConn /\ alive[link])
    BY <1>3, NamesAssumption DEF SentOn
  <2>2. addedOn[s] = NoConn
    BY <1>3 DEF Announce
  <2>3. addedOn' = addedOn /\ toMaster' = toMaster
    BY <1>3, <2>1, <2>2 DEF Announce, Send
  <2> QED BY <1>3, <2>2, <2>3 DEF Announce
<1>4. CASE Farewell(s) /\ SentOn = NoConn
  <2>1. ~ (link # NoConn /\ alive[link])
    BY <1>4, NamesAssumption DEF SentOn
  <2>2. removedOn[s] = NoConn
    BY <1>4 DEF Farewell
  <2>3. removedOn' = removedOn /\ toMaster' = toMaster
    BY <1>4, <2>1, <2>2 DEF Farewell, Send
  <2> QED BY <1>4, <2>3 DEF Farewell
<1> QED BY <1>1, <1>2, <1>3, <1>4

(* Nor does what the connections and the processes do but for those steps. *)
LEMMA OtherQuiet ==
  ASSUME TypeOK, SessionInv,
         \/ \E c \in Conns : NodeDial(c) \/ MasterEOF(c) \/ Drop(c)
         \/ NodeEOF \/ NodeRestart \/ UNCHANGED vars
  PROVE  Quiet
<1> USE DEF Quiet, TypeOK, sessionVars, netVars, masterVars, faultVars
<1>1. ASSUME NEW c \in Conns, NodeDial(c)
      PROVE  Quiet
  <2>1. \A s \in Sessions : addedOn[s] # NoConn => addedOn[s] # c /\ addedOn[s] \in Conns
    BY <1>1 DEF NodeDial, SessionInv
  <2> QED BY <1>1, <2>1 DEF NodeDial
<1>2. ASSUME NEW c \in Conns, MasterEOF(c)
      PROVE  Quiet
  BY <1>2 DEF MasterEOF
<1>3. ASSUME NEW c \in Conns, Drop(c)
      PROVE  Quiet
  BY <1>3 DEF Drop
<1>4. CASE NodeEOF
  BY <1>4 DEF NodeEOF
<1>5. CASE NodeRestart
  BY <1>5 DEF NodeRestart
<1>6. CASE UNCHANGED vars
  BY <1>6 DEF vars
<1> QED BY <1>1, <1>2, <1>3, <1>4, <1>5, <1>6

(* The strengthened invariant, from the initial states on.                 *)
LEMMA InvInit == Init => IInv
<1> SUFFICES ASSUME Init
             PROVE  IInv
  OBVIOUS
<1> USE DEF Init
<1>1. TypeOK
  <2>1. << >> \in Seq(Records) /\ << >> \in Seq(Packets) /\ \A c \in Conns : Len(toMaster[c]) <= LinkCap
    BY BoundsAssumption
  <2> QED BY <2>1 DEF TypeOK
<1>2. BegunInv
  <2>1. { s \in Sessions : session[s] # "new" } = {}
    OBVIOUS
  <2> QED BY <2>1, FS_EmptySet DEF BegunInv
<1>3. local \in Seq(Records) /\ listed \in Seq(Records) /\ DOMAIN local = {} /\ DOMAIN listed = {}
  BY <1>1, ListDomain DEF TypeOK
<1>4. \A r : Count(local, r) = 0 /\ Count(listed, r) = 0
  BY <1>3, FS_EmptySet DEF Count
<1>5. LocalListIsExact
  <2>1. \A r : { s \in Here : Record[s] = r } = {}
    BY DEF Here
  <2> QED BY <1>4, <2>1, FS_EmptySet DEF LocalListIsExact, Having
<1>6. SessionInv /\ LinkInv
  BY DEF SessionInv, LinkInv
<1>7. PICK from : from = [c \in Conns |-> << >>]
  OBVIOUS
<1>8. from \in [Conns -> Seq(Letters)] /\ \A c \in Conns : Len(from[c]) = 0 /\ 1 .. Len(from[c]) = {}
  BY <1>7
<1>9. Matches(from)
  BY <1>8 DEF Matches
<1>10. InOrder(from)
  BY <1>8 DEF InOrder, Addressed, Ordered, Followed, On
<1>11. Accounted(from)
  <2>1. \A r : { s \in Arrived(from) : Record[s] = r } = {}
    BY DEF Arrived
  <2>2. \A r : Having(Arrived(from), r) = 0
    BY <2>1, FS_EmptySet DEF Having
  <2> QED BY <1>4, <2>2 DEF Accounted
<1>12. Shown(from)
  BY DEF Shown
<1> QED BY <1>1, <1>2, <1>5, <1>6, <1>8, <1>9, <1>10, <1>11, <1>12 DEF IInv, Told

(* Every step keeps the letters told.                                      *)
LEMMA ToldStep ==
  ASSUME IInv, TypeOK', [Next]_vars
  PROVE  \E next \in [Conns -> Seq(Letters)] : Told(next)'
<1>1. TypeOK /\ BegunInv /\ SessionInv /\ LinkInv
  BY DEF IInv
<1>2. PICK from \in [Conns -> Seq(Letters)] : Told(from)
  BY DEF IInv
<1>3. CASE Quiet
  BY <1>1, <1>2, <1>3, QuietTold
<1>4. ASSUME NEW s \in Sessions, Join(s) \/ Announce(s) \/ Leave(s) \/ Farewell(s)
      PROVE  \E next \in [Conns -> Seq(Letters)] : Told(next)'
  <2>1. CASE \/ Join(s) \/ Leave(s)
             \/ Announce(s) /\ SentOn = NoConn
             \/ Farewell(s) /\ SentOn = NoConn
    BY <1>1, <1>3, <2>1, SessionQuiet
  <2>2. CASE Announce(s) /\ SentOn # NoConn
    <3>1. link # NoConn /\ alive[link]
      BY <2>2 DEF SentOn
    <3> QED BY <1>1, <1>2, <2>2, <3>1, AnnounceTold
  <2>3. CASE Farewell(s) /\ SentOn # NoConn
    <3>1. link # NoConn /\ alive[link]
      BY <2>3 DEF SentOn
    <3> QED BY <1>1, <1>2, <2>3, <3>1, FarewellTold
  <2> QED BY <1>4, <2>1, <2>2, <2>3
<1>5. ASSUME NEW c \in Conns, MasterReceive(c)
      PROVE  \E next \in [Conns -> Seq(Letters)] : Told(next)'
  BY <1>1, <1>2, <1>5, ReadTold
<1>6. ASSUME NEW c \in Conns, LoseTail(c)
      PROVE  \E next \in [Conns -> Seq(Letters)] : Told(next)'
  BY <1>1, <1>2, <1>6, LostTold
<1>7. CASE MasterRestart
  BY <1>1, <1>7, RestartTold
<1>8. CASE \/ \E c \in Conns : NodeDial(c) \/ MasterEOF(c) \/ Drop(c)
           \/ NodeEOF \/ NodeRestart \/ UNCHANGED vars
  BY <1>1, <1>3, <1>8, OtherQuiet
<1> QED BY <1>4, <1>5, <1>6, <1>7, <1>8 DEF Next

LEMMA InvStep == IInv /\ [Next]_vars => IInv'
<1> SUFFICES ASSUME IInv, [Next]_vars
             PROVE  IInv'
  OBVIOUS
<1>1. TypeOK /\ BegunInv /\ LocalListIsExact /\ SessionInv /\ LinkInv
  BY DEF IInv
<1>2. TypeOK'
  BY <1>1, TypeStep
<1>3. BegunInv' /\ LocalListIsExact'
  BY <1>1, LocalStep
<1>4. SessionInv'
  BY <1>1, SessionStep
<1>5. LinkInv'
  <2>1. PICK from : Matches(from) /\ InOrder(from)
    BY DEF IInv, Told
  <2> QED BY <1>1, <2>1, LinkStep
<1>6. \E next \in [Conns -> Seq(Letters)] : Told(next)'
  BY <1>2, ToldStep
<1> QED BY <1>2, <1>3, <1>4, <1>5, <1>6 DEF IInv

LEMMA InvHolds == Spec => []IInv
BY InvInit, InvStep, PTL DEF Spec
-----------------------------------------------------------------------------
(* What the invariant says. *)

(* An entry is that of a session that has arrived, and such a session is   *)
(* not settled.                                                            *)
LEMMA Explained == IInv => EntriesAreExplained
<1> SUFFICES ASSUME IInv, NEW r \in Records
             PROVE  Count(listed, r) <= Having(Unsettled, r)
  BY DEF EntriesAreExplained
<1>1. PICK from \in [Conns -> Seq(Letters)] : Told(from)
  BY DEF IInv
<1>2. TypeOK /\ BegunInv /\ SessionInv /\ Matches(from)
  BY <1>1 DEF IInv, Told
<1>3. Count(listed, r) \in Nat /\ Count(listed, r) <= Having(Arrived(from), r)
  BY <1>1, <1>2, CountType DEF Told, Accounted, TypeOK
<1>4. Arrived(from) \in SUBSET Unsettled
  <2> SUFFICES ASSUME NEW t \in Arrived(from), Settled(t)
               PROVE  FALSE
    BY DEF Arrived, Unsettled
  <2>1. t \in Sessions /\ addedOn[t] # NoConn /\ ~ Removed(from, t)
    BY DEF Arrived
  <2>2. addedOn[t] \in Conns
    BY <1>2, <2>1 DEF TypeOK
  <2>3. Len(from[addedOn[t]]) = 0
    <3>1. toMaster[addedOn[t]] = << >>
      BY DEF Settled
    <3> QED BY <1>2, <2>2, <3>1 DEF Matches
  <2>4. ~ On(from, addedOn[t], << t, "remove" >>)
    BY <2>3 DEF On
  <2> QED BY <2>1, <2>4 DEF Removed, Settled
<1>5. IsFiniteSet(Unsettled)
  <2>1. Unsettled \in SUBSET { s \in Sessions : session[s] # "new" }
    BY <1>2 DEF Unsettled, SessionInv
  <2> QED BY <1>2, <2>1, FS_Subset DEF BegunInv
<1>6. /\ Having(Arrived(from), r) \in Nat /\ Having(Unsettled, r) \in Nat
      /\ Having(Arrived(from), r) <= Having(Unsettled, r)
  BY <1>4, <1>5, HavingFewer
<1> QED BY <1>3, <1>6

(* A record of its own belongs to one session of a set.                    *)
LEMMA HavingOne ==
  ASSUME NEW T, T \subseteq Sessions, NEW s \in T, \A t \in Sessions \ {s} : Record[t] # Record[s]
  PROVE  Having(T, Record[s]) = 1
<1>1. { t \in T : Record[t] = Record[s] } = {s}
  OBVIOUS
<1> QED BY <1>1, FS_Singleton DEF Having

(* Who plays is listed as often as at the node.                            *)
LEMMA PlayersListed == IInv => PlayingAreListed
<1> SUFFICES ASSUME IInv, NEW s \in Sessions, session[s] = "playing", addedOn[s] # NoConn,
                    alive[addedOn[s]], toMaster[addedOn[s]] = << >>,
                    \/ \A t \in Sessions \ {s} : Record[t] # Record[s]
                    \/ AtRest /\ FaultFree
             PROVE  Count(listed, Record[s]) = Count(local, Record[s])
  <2>1. IInv /\ drops + restarts = 0 => FaultFree
    BY DEF IInv, TypeOK, FaultFree
  <2> QED BY <2>1 DEF PlayingAreListed
<1>1. PICK from \in [Conns -> Seq(Letters)] : Told(from)
  BY DEF IInv
<1>2. /\ TypeOK /\ LocalListIsExact /\ SessionInv /\ LinkInv
      /\ Matches(from) /\ Accounted(from) /\ Shown(from)
  BY <1>1 DEF IInv, Told
<1>3. PICK r \in Records : r = Record[s]
  BY DEF Records
<1>4. addedOn[s] \in Conns
  BY <1>2 DEF TypeOK
<1>5. \A c \in Conns : toMaster[c] = << >> => \A l : ~ On(from, c, l)
  BY <1>2 DEF Matches, On
<1>6. Count(local, r) = Having(Here, r)
  BY <1>2 DEF LocalListIsExact
<1>7. s \in Here /\ Here \subseteq Sessions
  BY DEF Here
<1>8. CASE \A t \in Sessions \ {s} : Record[t] # Record[s]
  <2>1. s \in Arrived(from) /\ Arrived(from) \subseteq Sessions
    <3>1. ~ Removed(from, s)
      BY <1>2 DEF Removed, SessionInv
    <3> QED BY <1>4, <1>5, <3>1 DEF Arrived
  <2>2. Having(Arrived(from), r) = 1 /\ Having(Here, r) = 1
    BY <1>3, <1>7, <1>8, <2>1, HavingOne
  <2>3. \E i \in DOMAIN listed : listed[i] = r
    BY <1>2, <1>3, <1>4, <1>5, <1>8 DEF Shown, Listed
  <2>4. Count(listed, r) \in Nat /\ Count(listed, r) # 0
    BY <1>2, <2>3, CountType, ZenonT(30) DEF TypeOK
  <2>5. Count(listed, r) <= Having(Arrived(from), r)
    BY <1>2 DEF Accounted
  <2> QED BY <1>3, <1>6, <2>2, <2>4, <2>5
<1>9. CASE AtRest /\ FaultFree
  <2>1. \A c \in Conns : \A l : ~ On(from, c, l)
    BY <1>5, <1>9 DEF AtRest
  <2>2. addedOn[s] = link /\ link # NoConn /\ lossy = {}
    BY <1>2, <1>9 DEF LinkInv
  <2>3. ASSUME NEW t \in Sessions
        PROVE  t \in Arrived(from) <=> t \in Here
    <3>1. CASE session[t] = "playing"
      <4>1. addedOn[t] = link /\ removedOn[t] = NoConn
        BY <1>2, <1>9, <3>1 DEF LinkInv, SessionInv
      <4> QED BY <1>4, <2>1, <2>2, <3>1, <4>1 DEF Arrived, Removed, Here
    <3>2. CASE session[t] = "gone"
      <4>1. addedOn[t] = link /\ removedOn[t] = link
        BY <1>2, <1>9, <3>2 DEF LinkInv
      <4> QED BY <1>4, <2>1, <2>2, <3>2, <4>1 DEF Arrived, Removed, Here
    <3>3. CASE session[t] = "new"
      BY <1>2, <3>3 DEF SessionInv, Arrived, Here
    <3> QED BY <1>9, <3>1, <3>2, <3>3 DEF AtRest
  <2>4. Arrived(from) = Here
    BY <1>7, <2>3 DEF Arrived
  <2>5. Count(listed, r) = Having(Arrived(from), r)
    BY <1>2, <1>9 DEF Accounted
  <2> QED BY <1>3, <1>6, <2>4, <2>5
<1> QED BY <1>8, <1>9
-----------------------------------------------------------------------------
(* Every variable keeps its type: for any number of sessions, connections  *)
(* and faults.                                                             *)
THEOREM TypeCorrect == Spec => []TypeOK
BY InvHolds, PTL DEF IInv

(* addPlayer and removePlayer: the node's list is, as a bag, the sessions  *)
(* that are between the two.                                               *)
THEOREM LocalListExact == Spec => []LocalListIsExact
BY InvHolds, PTL DEF IInv

(* The handlers of PlayerAdd and PlayerRemove leave no entry behind whose  *)
(* two packets shared a connection that lost none.                         *)
THEOREM EntriesExplained == Spec => []EntriesAreExplained
BY InvHolds, Explained, PTL

(* A player on a connection that is up and read is listed as often as at   *)
(* the node: through any fault if his record is his own, without fault and *)
(* at rest if others have the same.                                        *)
THEOREM PlayersAreListed == Spec => []PlayingAreListed
BY InvHolds, PlayersListed, PTL
=============================================================================
