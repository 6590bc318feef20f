------------------------- MODULE ProxySession_proofs -------------------------
(***************************************************************************)
(* Theorems about ProxySession: that the two streams are faithful, that    *)
(* the last word arrives and that the players' list holds the sockets of   *)
(* those who play, for any number of sessions, any scripts and sockets of  *)
(* any size; and, last, that the bytes of the packets the handler takes    *)
(* are read as they were written.                                          *)
(***************************************************************************)
EXTENDS SessionFrames, ListFacts, FiniteSetTheorems

-----------------------------------------------------------------------------
(* The two ends and the two ways. *)

LEMMA TwoEnds ==
  /\ Ends = {"client", "server"} /\ Ways = {"up", "down"}
  /\ Src("up") = "client" /\ Dst("up") = "server"
  /\ Src("down") = "server" /\ Dst("down") = "client"
  /\ \A w \in Ways : Src(w) \in Ends /\ Dst(w) \in Ends
<1>1. Other("client") = "server" /\ Other("server") = "client"
  BY DEF Other, Ends
<1> QED BY <1>1 DEF Ends, Ways, Src, Dst

(* What is stored for one end of one session leaves the others alone.      *)
LEMMA StoredAt ==
  ASSUME NEW S, NEW E, NEW T, NEW f \in [S -> [E -> T]], NEW s \in S, NEW e \in E, NEW v \in T
  PROVE  /\ [f EXCEPT ![s][e] = v] \in [S -> [E -> T]]
         /\ [f EXCEPT ![s][e] = v][s][e] = v
         /\ \A d \in E : d # e => [f EXCEPT ![s][e] = v][s][d] = f[s][d]
         /\ \A t \in S : t # s => [f EXCEPT ![s][e] = v][t] = f[t]
  OBVIOUS

LEMMA StoredFor ==
  ASSUME NEW S, NEW T, NEW f \in [S -> T], NEW s \in S, NEW v \in T
  PROVE  /\ [f EXCEPT ![s] = v] \in [S -> T]
         /\ [f EXCEPT ![s] = v][s] = v
         /\ \A t \in S : t # s => [f EXCEPT ![s] = v][t] = f[t]
  OBVIOUS

-----------------------------------------------------------------------------
(* The streams. *)

(* What can travel. *)
UnitsOf(k) ==
  Ranging(ClientStream(k)) \cup Ranging(ServerStream(k))
    \cup {Rewritten(k), Login(k.player, FALSE)}
Units == Screens \cup {NoScreen} \cup UNION { UnitsOf(k) : k \in Scripts }

(* The first packets of a client's stream, which the handler writes anew.  *)
Fixed(k) == IF LogsIn(k) THEN 2 ELSE 1

LEMMA UnitsTravel ==
  /\ Screens \cup {NoScreen} \subseteq Units
  /\ \A k \in Scripts : UnitsOf(k) \subseteq Units
BY DEF Units

LEMMA ScriptsAreTyped ==
  ASSUME NEW k \in Scripts
  PROVE  k.up \in Nat /\ k.down \in Nat
BY CastsAssumption DEF Scripts

(* A function on the first n numbers is a sequence.                        *)
LEMMA FunctionIsList ==
  ASSUME NEW n \in Nat, NEW S, NEW f \in [1 .. n -> S]
  PROVE  f \in Seq(S) /\ Len(f) = n
  OBVIOUS

LEMMA ClientStreams ==
  ASSUME NEW k \in Scripts
  PROVE  /\ ClientStream(k) \in Seq(Units)
         /\ Len(ClientStream(k)) = 2 + k.up
         /\ ClientStream(k)[1] \in {Malformed, Handshake(k.host, k.mark, k.next)}
         /\ (LogsIn(k) => ClientStream(k)[2] \in {Malformed, Login(k.player, TRUE)})
<1> DEFINE packets == << Handshake(k.host, k.mark, k.next),
                         IF LogsIn(k) THEN Login(k.player, TRUE) ELSE Request >>
           first == [i \in 1 .. 2 |-> IF i = k.bad THEN Malformed ELSE packets[i]]
           rest == [i \in 1 .. k.up |-> Data("client", i)]
           all == first \o rest
           U == Ranging(first) \cup Ranging(rest)
<1>1. k.up \in Nat
  BY ScriptsAreTyped
<1>2. first \in Seq(U) /\ Len(first) = 2
  <2>1. \A i \in 1 .. 2 : first[i] \in U
    BY DEF Ranging
  <2>2. first \in [1 .. 2 -> U]
    BY <2>1
  <2> HIDE DEF first, U
  <2> QED BY <2>2, FunctionIsList
<1>3. rest \in Seq(U) /\ Len(rest) = k.up
  <2>1. \A i \in 1 .. k.up : rest[i] \in U
    BY DEF Ranging
  <2>2. rest \in [1 .. k.up -> U]
    BY <2>1
  <2> HIDE DEF rest, U
  <2> QED BY <1>1, <2>2, FunctionIsList
<1>4. /\ packets[1] = Handshake(k.host, k.mark, k.next)
      /\ packets[2] = IF LogsIn(k) THEN Login(k.player, TRUE) ELSE Request
  OBVIOUS
<1>5. /\ first[1] \in {Malformed, packets[1]}
      /\ first[2] \in {Malformed, packets[2]}
  <2> HIDE DEF packets
  <2> QED OBVIOUS
<1>6. ClientStream(k) = all
  BY DEF ClientStream
<1> HIDE DEF packets, first, rest, U
<1>7. /\ all \in Seq(U) /\ Len(all) = 2 + k.up
      /\ all[1] = first[1] /\ all[2] = first[2]
  <2>1. /\ all \in Seq(U) /\ Len(all) = Len(first) + Len(rest)
        /\ \A i \in 1 .. Len(first) + Len(rest) :
             all[i] = IF i <= Len(first) THEN first[i] ELSE rest[i - Len(first)]
    BY <1>2, <1>3, ConcatProperties
  <2> HIDE DEF all
  <2>2. Len(all) = 2 + k.up
    BY <1>2, <1>3, <2>1
  <2>3. 1 \in 1 .. Len(first) + Len(rest) /\ 2 \in 1 .. Len(first) + Len(rest)
    BY <1>1, <1>2, <1>3
  <2>4. all[1] = first[1] /\ all[2] = first[2]
    BY <1>2, <2>1, <2>3
  <2> QED BY <2>1, <2>2, <2>4
<1> HIDE DEF all
<1>9. all \in Seq(Units)
  <2>1. /\ Len(all) \in Nat /\ DOMAIN all = 1 .. Len(all)
        /\ all = [i \in 1 .. Len(all) |-> all[i]]
    BY <1>7, LenProperties
  <2>2. \A i \in 1 .. Len(all) : all[i] \in Ranging(ClientStream(k))
    BY <1>6, <2>1 DEF Ranging
  <2>3. Ranging(ClientStream(k)) \subseteq Units
    BY UnitsTravel DEF UnitsOf
  <2>4. all \in [1 .. Len(all) -> Units]
    BY <2>1, <2>2, <2>3
  <2> QED BY <2>1, <2>4, FunctionIsList
<1>10. LogsIn(k) => packets[2] = Login(k.player, TRUE)
  BY <1>4
<1> QED BY <1>4, <1>5, <1>6, <1>7, <1>9, <1>10
LEMMA ServerStreams ==
  ASSUME NEW k \in Scripts
  PROVE  ServerStream(k) \in Seq(Units) /\ Len(ServerStream(k)) = k.down
<1> DEFINE D == ServerStream(k)
<1>1. k.down \in Nat
  BY ScriptsAreTyped
<1>2. DOMAIN D = 1 .. k.down /\ D = [i \in 1 .. k.down |-> D[i]]
  BY DEF ServerStream
<1> HIDE DEF D
<1>3. \A i \in 1 .. k.down : D[i] \in Ranging(ServerStream(k))
  BY <1>2 DEF Ranging, D
<1>4. Ranging(ServerStream(k)) \subseteq Units
  BY UnitsTravel DEF UnitsOf
<1>5. D \in [1 .. k.down -> Units]
  BY <1>2, <1>3, <1>4
<1>6. D \in Seq(Units) /\ Len(D) = k.down
  BY <1>1, <1>5, FunctionIsList
<1> QED BY <1>6 DEF D

(* What the server is to be sent: nothing without a route.                 *)
Upstream(k) == IF k.host \in DOMAIN Route THEN Forwarded(k) ELSE << >>

LEMMA Upstreams ==
  ASSUME NEW k \in Scripts
  PROVE  /\ Upstream(k) \in Seq(Units)
         /\ Fixed(k) \in {1, 2} /\ (LogsIn(k) => Fixed(k) = 2) /\ (~ LogsIn(k) => Fixed(k) = 1)
         /\ (k.host \in DOMAIN Route =>
              /\ Len(Upstream(k)) = Len(ClientStream(k))
              /\ Upstream(k)[1] = Rewritten(k)
              /\ (LogsIn(k) => Upstream(k)[2] = Login(k.player, FALSE))
              /\ \A i \in 1 .. Len(ClientStream(k)) :
                   i > Fixed(k) => Upstream(k)[i] = ClientStream(k)[i])
<1> DEFINE S == ClientStream(k)
           second == IF LogsIn(k) THEN Login(k.player, FALSE) ELSE S[2]
           once == [S EXCEPT ![1] = Rewritten(k)]
           F == [S EXCEPT ![1] = Rewritten(k), ![2] = IF LogsIn(k) THEN Login(k.player, FALSE) ELSE @]
<1>1. S \in Seq(Units) /\ Len(S) = 2 + k.up /\ k.up \in Nat
  BY ClientStreams, ScriptsAreTyped
<1>2. {Rewritten(k), Login(k.player, FALSE)} \subseteq Units
  BY UnitsTravel DEF UnitsOf
<1> HIDE DEF S
<1>3. 1 \in 1 .. Len(S) /\ 2 \in 1 .. Len(S)
  BY <1>1
<1>4. /\ once \in Seq(Units) /\ Len(once) = Len(S)
      /\ \A i \in 1 .. Len(S) : once[i] = IF i = 1 THEN Rewritten(k) ELSE S[i]
  BY <1>1, <1>2, <1>3, ExceptSeq
<1>5. second \in Units
  BY <1>1, <1>2, <1>3, ElementOfSeq
<1>6. F = [once EXCEPT ![2] = second]
  <2>1. once[2] = S[2]
    BY <1>3, <1>4
  <2>2. F = [once EXCEPT ![2] = IF LogsIn(k) THEN Login(k.player, FALSE) ELSE @]
    OBVIOUS
  <2> HIDE DEF once, F
  <2> QED BY <2>1, <2>2
<1> HIDE DEF once, second
<1>7. /\ F \in Seq(Units) /\ Len(F) = Len(S)
      /\ \A i \in 1 .. Len(S) : F[i] = IF i = 2 THEN second ELSE once[i]
  <2> HIDE DEF F
  <2> QED BY <1>3, <1>4, <1>5, <1>6, ExceptSeq
<1>8. Forwarded(k) = F
  BY DEF Forwarded, S
<1> HIDE DEF F
<1>9. F[1] = Rewritten(k) /\ F[2] = second
  BY <1>3, <1>4, <1>7
<1>10. \A i \in 1 .. Len(S) : i > 2 => F[i] = S[i]
  BY <1>1, <1>4, <1>7
<1>11. Fixed(k) \in {1, 2} /\ (LogsIn(k) => Fixed(k) = 2) /\ (~ LogsIn(k) => Fixed(k) = 1)
  BY DEF Fixed
<1>12. (LogsIn(k) => second = Login(k.player, FALSE)) /\ (~ LogsIn(k) => second = S[2])
  BY DEF second
<1>13. \A i \in 1 .. Len(S) : i > Fixed(k) => F[i] = S[i]
  BY <1>1, <1>9, <1>10, <1>11, <1>12
<1>14. << >> \in Seq(Units)
  BY EmptySeq
<1> QED BY <1>7, <1>8, <1>9, <1>11, <1>12, <1>13, <1>14 DEF Upstream, S

-----------------------------------------------------------------------------
(* What is under way is a piece of a stream. *)

(* The queue carries what follows the first b units of the stream.         *)
Carries(q, stream, b) == \A i \in 1 .. Len(q) : q[i] = stream[b + i]

(* What was heard and what is on its way make a beginning of the stream.   *)
Delivered(heard, queue, stream) ==
  /\ Carries(heard, stream, 0) /\ Carries(queue, stream, Len(heard))
  /\ Len(heard) + Len(queue) <= Len(stream)

LEMMA CarriesNothing ==
  ASSUME NEW S, NEW stream \in Seq(S), NEW b
  PROVE  Carries(<< >>, stream, b) /\ Delivered(<< >>, << >>, stream) /\ Len(<< >>) = 0
<1>1. Len(<< >>) = 0 /\ Len(stream) \in Nat
  BY LenProperties
<1> QED BY <1>1 DEF Carries, Delivered

LEMMA CarriesPrefix ==
  ASSUME NEW S, NEW q \in Seq(S), NEW stream, NEW b, NEW n \in 0 .. Len(q), Carries(q, stream, b)
  PROVE  /\ SubSeq(q, 1, n) \in Seq(S) /\ Len(SubSeq(q, 1, n)) = n
         /\ Carries(SubSeq(q, 1, n), stream, b)
<1>1. Len(q) \in Nat
  BY LenProperties
<1>2. /\ SubSeq(q, 1, n) \in Seq(S) /\ Len(SubSeq(q, 1, n)) = n
      /\ \A i \in 1 .. n : SubSeq(q, 1, n)[i] = q[i]
  BY ListPrefix
<1>3. \A i \in 1 .. n : i \in 1 .. Len(q)
  BY <1>1
<1> QED BY <1>2, <1>3 DEF Carries

LEMMA CarriesRest ==
  ASSUME NEW S, NEW q \in Seq(S), NEW stream, NEW b \in Nat, NEW n \in 0 .. Len(q),
         Carries(q, stream, b)
  PROVE  /\ SubSeq(q, n + 1, Len(q)) \in Seq(S)
         /\ Len(SubSeq(q, n + 1, Len(q))) = Len(q) - n
         /\ Carries(SubSeq(q, n + 1, Len(q)), stream, b + n)
<1>1. Len(q) \in Nat /\ \A i \in 1 .. Len(q) : q[i] \in S
  BY LenProperties
<1> DEFINE rest == SubSeq(q, n + 1, Len(q))
<1>2. /\ rest \in Seq(S)
      /\ Len(rest) = IF n + 1 <= Len(q) THEN Len(q) - (n + 1) + 1 ELSE 0
      /\ \A i \in 1 .. Len(q) - (n + 1) + 1 : rest[i] = q[n + 1 + i - 1]
  <2>1. n + 1 \in Int /\ Len(q) \in Int /\ \A i \in n + 1 .. Len(q) : q[i] \in S
    BY <1>1
  <2> QED BY <2>1, SubSeqProperties
<1> HIDE DEF rest
<1>3. Len(rest) = Len(q) - n /\ \A i \in 1 .. Len(q) - n : rest[i] = q[n + i]
  BY <1>1, <1>2
<1>4. ASSUME NEW i \in 1 .. Len(q) - n PROVE rest[i] = stream[b + n + i]
  <2>1. n + i \in 1 .. Len(q) /\ b + (n + i) = b + n + i
    BY <1>1
  <2>2. q[n + i] = stream[b + (n + i)]
    BY <2>1 DEF Carries
  <2> QED BY <1>3, <2>1, <2>2
<1> QED BY <1>2, <1>3, <1>4 DEF Carries, rest

LEMMA CarriesTail ==
  ASSUME NEW S, NEW q \in Seq(S), NEW stream, NEW b \in Nat, q # << >>, Carries(q, stream, b)
  PROVE  /\ Tail(q) \in Seq(S) /\ Len(q) \in Nat \ {0} /\ Len(Tail(q)) = Len(q) - 1
         /\ Head(q) = stream[b + 1] /\ Head(q) \in S
         /\ Carries(Tail(q), stream, b + 1)
<1>1. /\ Tail(q) \in Seq(S) /\ Len(q) \in Nat \ {0} /\ Len(Tail(q)) = Len(q) - 1
      /\ Head(q) = q[1] /\ q[1] \in S
      /\ \A i \in 1 .. Len(q) - 1 : Tail(q)[i] = q[i + 1]
  BY ListTail
<1>2. 1 \in 1 .. Len(q)
  BY <1>1
<1>3. ASSUME NEW i \in 1 .. Len(q) - 1 PROVE Tail(q)[i] = stream[b + 1 + i]
  <2>1. i + 1 \in 1 .. Len(q) /\ b + (i + 1) = b + 1 + i
    BY <1>1
  <2>2. q[i + 1] = stream[b + (i + 1)]
    BY <2>1 DEF Carries
  <2> QED BY <1>1, <2>1, <2>2
<1> QED BY <1>1, <1>2, <1>3 DEF Carries

LEMMA CarriesMore ==
  ASSUME NEW S, NEW q \in Seq(S), NEW stream, NEW b \in Nat, NEW unit \in S,
         Carries(q, stream, b), unit = stream[b + Len(q) + 1]
  PROVE  /\ Append(q, unit) \in Seq(S) /\ Len(Append(q, unit)) = Len(q) + 1
         /\ Carries(Append(q, unit), stream, b)
<1>1. /\ Append(q, unit) \in Seq(S) /\ Len(q) \in Nat /\ Len(Append(q, unit)) = Len(q) + 1
      /\ Append(q, unit)[Len(q) + 1] = unit
      /\ \A i \in 1 .. Len(q) : Append(q, unit)[i] = q[i]
  BY AppendedList
<1>2. ASSUME NEW i \in 1 .. Len(q) + 1 PROVE Append(q, unit)[i] = stream[b + i]
  <2>1. CASE i \in 1 .. Len(q)
    BY <1>1, <2>1 DEF Carries
  <2>2. CASE i = Len(q) + 1
    <3>1. b + (Len(q) + 1) = b + Len(q) + 1
      BY <1>1
    <3> QED BY <1>1, <2>2, <3>1
  <2> QED BY <1>1, <2>1, <2>2
<1> QED BY <1>1, <1>2 DEF Carries

(* A unit more, the next of the stream, is written.                        *)
LEMMA DeliveredMore ==
  ASSUME NEW S, NEW heard \in Seq(S), NEW queue \in Seq(S), NEW stream \in Seq(S), NEW unit \in S,
         Delivered(heard, queue, stream), Len(heard) + Len(queue) < Len(stream),
         unit = stream[Len(heard) + Len(queue) + 1]
  PROVE  /\ Append(queue, unit) \in Seq(S)
         /\ Delivered(heard, Append(queue, unit), stream)
         /\ Len(heard) + Len(Append(queue, unit)) = Len(heard) + Len(queue) + 1
<1>1. PICK h, q, n \in Nat : h = Len(heard) /\ q = Len(queue) /\ n = Len(stream)
  BY LenProperties
<1>2. /\ Append(queue, unit) \in Seq(S) /\ Len(Append(queue, unit)) = q + 1
      /\ Carries(Append(queue, unit), stream, h)
  BY <1>1, CarriesMore DEF Delivered
<1>3. h + (q + 1) = h + q + 1 /\ (h + q < n => h + (q + 1) <= n)
  OBVIOUS
<1> QED BY <1>1, <1>2, <1>3 DEF Delivered

(* The first unit under way is heard.                                      *)
LEMMA DeliveredHeard ==
  ASSUME NEW S, NEW heard \in Seq(S), NEW queue \in Seq(S), NEW stream \in Seq(S),
         Delivered(heard, queue, stream), queue # << >>
  PROVE  /\ Append(heard, Head(queue)) \in Seq(S) /\ Tail(queue) \in Seq(S)
         /\ Delivered(Append(heard, Head(queue)), Tail(queue), stream)
         /\ Len(Append(heard, Head(queue))) + Len(Tail(queue)) = Len(heard) + Len(queue)
         /\ Len(Tail(queue)) + 1 = Len(queue)
<1>1. PICK h, q, n \in Nat : h = Len(heard) /\ q = Len(queue) /\ n = Len(stream)
  BY LenProperties
<1>2. /\ Tail(queue) \in Seq(S) /\ q # 0 /\ Len(Tail(queue)) = q - 1
      /\ Head(queue) = stream[h + 1] /\ Head(queue) \in S
      /\ Carries(Tail(queue), stream, h + 1)
  BY <1>1, CarriesTail DEF Delivered
<1>3. 0 + h + 1 = h + 1 /\ h + 1 + (q - 1) = h + q /\ (q - 1) + 1 = q
  OBVIOUS
<1>4. /\ Append(heard, Head(queue)) \in Seq(S) /\ Len(Append(heard, Head(queue))) = h + 1
      /\ Carries(Append(heard, Head(queue)), stream, 0)
  <2>1. Head(queue) = stream[0 + Len(heard) + 1] /\ Carries(heard, stream, 0)
    BY <1>1, <1>2, <1>3 DEF Delivered
  <2> QED BY <1>1, <1>2, <2>1, CarriesMore
<1> QED BY <1>1, <1>2, <1>3, <1>4 DEF Delivered

(* The end of what is under way is lost.                                   *)
LEMMA DeliveredCut ==
  ASSUME NEW S, NEW heard \in Seq(S), NEW queue \in Seq(S), NEW stream \in Seq(S),
         Delivered(heard, queue, stream), NEW q \in Prefixes(queue)
  PROVE  /\ q \in Seq(S) /\ Len(q) <= Len(queue) /\ Len(q) \in Nat
         /\ Delivered(heard, q, stream)
<1>1. PICK n \in 0 .. Len(queue) : q = SubSeq(queue, 1, n)
  BY DEF Prefixes
<1>2. /\ q \in Seq(S) /\ Len(q) = n /\ Carries(q, stream, Len(heard))
  BY <1>1, CarriesPrefix DEF Delivered
<1>3. PICK h, l, m \in Nat : h = Len(heard) /\ l = Len(queue) /\ m = Len(stream)
  BY LenProperties
<1>4. n \in Nat /\ n <= l /\ (h + l <= m => h + n <= m)
  BY <1>3
<1> QED BY <1>2, <1>3, <1>4 DEF Delivered

(* What was sent to an end is then a beginning of the stream.              *)
LEMMA DeliveredIsPrefix ==
  ASSUME NEW S, NEW heard \in Seq(S), NEW queue \in Seq(S), NEW stream \in Seq(S),
         Delivered(heard, queue, stream)
  PROVE  /\ heard \o queue \in Seq(S)
         /\ Len(heard \o queue) = Len(heard) + Len(queue)
         /\ heard \o queue = SubSeq(stream, 1, Len(heard) + Len(queue))
         /\ IsPrefixOf(heard \o queue, stream)
<1>1. PICK h, q, m \in Nat : h = Len(heard) /\ q = Len(queue) /\ m = Len(stream)
  BY LenProperties
<1>2. /\ heard \o queue \in Seq(S) /\ Len(heard \o queue) = h + q
      /\ \A i \in 1 .. h + q : (heard \o queue)[i] = IF i <= h THEN heard[i] ELSE queue[i - h]
  BY <1>1, ConcatProperties
<1>3. h + q <= m /\ h + q \in 0 .. m
  BY <1>1 DEF Delivered
<1>4. PICK n \in Nat : n = h + q
  OBVIOUS
<1>5. /\ SubSeq(stream, 1, n) \in Seq(S) /\ Len(SubSeq(stream, 1, n)) = n
      /\ \A i \in 1 .. n : SubSeq(stream, 1, n)[i] = stream[i]
  BY <1>1, <1>3, <1>4, ListPrefix
<1>6. ASSUME NEW i \in 1 .. n PROVE (heard \o queue)[i] = stream[i]
  <2>1. CASE i <= h
    <3>1. i \in 1 .. h /\ 0 + i = i
      BY <1>4, <2>1
    <3> QED BY <1>1, <1>2, <1>4, <2>1, <3>1 DEF Delivered, Carries
  <2>2. CASE ~ (i <= h)
    <3>1. i - h \in 1 .. q /\ h + (i - h) = i
      BY <1>4, <2>2
    <3> QED BY <1>1, <1>2, <1>4, <2>2, <3>1 DEF Delivered, Carries
  <2> QED BY <2>1, <2>2
<1>7. heard \o queue = SubSeq(stream, 1, n)
  BY <1>2, <1>4, <1>5, <1>6, SeqEqual
<1> QED BY <1>1, <1>2, <1>3, <1>4, <1>7 DEF IsPrefixOf

-----------------------------------------------------------------------------
(* Types. *)

Places == {"new", "handshake", "dial", "hello", "login", "enter", "forward",
           "copy", "request", "answer", "leave", "hangup", "end", "ended"}

(* Types, and that only sessions with a script do anything.                *)
ControlTyped ==
  /\ script \in Casts
  /\ pc \in [Sessions -> Places]
  /\ loop \in [Sessions -> [Ways -> {"off", "read", "write", "done"}]]
  /\ screen \in [Sessions -> Screens \cup {NoScreen}]
  /\ list \in Seq(Entries)
  /\ twins \subseteq Sessions /\ kicked \subseteq Sessions
  /\ unread \subseteq Sessions /\ cutOff \subseteq Sessions
  /\ \A s \in Sessions : pc[s] # "new" => s \in DOMAIN script
  /\ \A s \in Sessions, w \in Ways : loop[s][w] # "off" => s \in DOMAIN script
EndsTyped ==
  /\ peer \in [Sessions -> [Ends -> {"none", "open", "gone", "reset"}]]
  /\ sock \in [Sessions -> [Ends -> {"none", "open", "closed"}]]
  /\ inq \in [Sessions -> [Ends -> Seq(Units)]]
  /\ outq \in [Sessions -> [Ends -> Seq(Units)]]
  /\ said \in [Sessions -> [Ends -> Nat]]
  /\ got \in [Sessions -> [Ends -> Seq(Units)]]
  /\ \A s \in Sessions, e \in Ends : peer[s][e] # "none" => s \in DOMAIN script
BufTyped ==
  /\ buf \in [Sessions -> [Ways -> Seq(Units)]]
  /\ \A s \in Sessions, w \in Ways : loop[s][w] = "write" => buf[s][w] # << >>
Typed == ControlTyped /\ EndsTyped /\ BufTyped

LEMMA ScriptsOfCasts ==
  ASSUME ControlTyped
  PROVE  /\ DOMAIN script \subseteq Sessions
         /\ \A s \in DOMAIN script :
              /\ script[s] \in Scripts
              /\ Rewritten(script[s]) \in Units /\ Login(script[s].player, FALSE) \in Units
              /\ \A e \in Ends : Stream(s, e) \in Seq(Units)
              /\ Entry(s) \in Entries
<1>1. DOMAIN script \subseteq Sessions
  BY CastsAssumption DEF ControlTyped
<1>2. ASSUME NEW s \in DOMAIN script PROVE script[s] \in Scripts
  BY DEF ControlTyped, Scripts
<1>3. ASSUME NEW s \in DOMAIN script
      PROVE  Rewritten(script[s]) \in Units /\ Login(script[s].player, FALSE) \in Units
  BY <1>2, UnitsTravel DEF UnitsOf
<1>4. ASSUME NEW s \in DOMAIN script, NEW e \in Ends PROVE Stream(s, e) \in Seq(Units)
  BY <1>2, ClientStreams, ServerStreams DEF Stream
<1>5. ASSUME NEW s \in DOMAIN script PROVE Entry(s) \in Entries
  BY <1>1, <1>2 DEF Entry, Entries, Players
<1> QED BY <1>1, <1>2, <1>3, <1>4, <1>5

-----------------------------------------------------------------------------
(* What the operations on a socket do. *)

(* The value v is stored for end e of session s, nothing else changes.     *)
Puts(after, before, s, e, v) ==
  /\ after[s][e] = v
  /\ \A d \in Ends : d # e => after[s][d] = before[s][d]
  /\ \A t \in Sessions : t # s => after[t] = before[t]

LEMMA TakeEffect ==
  ASSUME Typed, NEW s \in Sessions, NEW e \in Ends, NEW n \in 0 .. Len(inq[s][e]), Take(s, e, n)
  PROVE  /\ inq' \in [Sessions -> [Ends -> Seq(Units)]]
         /\ Puts(inq', inq, s, e, SubSeq(inq[s][e], n + 1, Len(inq[s][e])))
         /\ SubSeq(inq[s][e], n + 1, Len(inq[s][e])) \in Seq(Units)
         /\ Len(inq'[s][e]) = Len(inq[s][e]) - n
         /\ UNCHANGED << peer, sock, outq, said, got >>
<1>1. inq \in [Sessions -> [Ends -> Seq(Units)]] /\ inq[s][e] \in Seq(Units)
  BY DEF Typed, EndsTyped
<1>2. /\ SubSeq(inq[s][e], n + 1, Len(inq[s][e])) \in Seq(Units)
      /\ Len(SubSeq(inq[s][e], n + 1, Len(inq[s][e]))) = Len(inq[s][e]) - n
  <2>1. Carries(inq[s][e], [i \in 1 .. Len(inq[s][e]) |-> inq[s][e][i]], 0)
    BY <1>1, LenProperties DEF Carries
  <2> QED BY <1>1, <2>1, CarriesRest
<1>3. inq' = [inq EXCEPT ![s][e] = SubSeq(inq[s][e], n + 1, Len(inq[s][e]))]
  BY <1>1 DEF Take
<1> QED BY <1>1, <1>2, <1>3, StoredAt DEF Take, Puts

(* What a Write that succeeds does: the unit is on its way, or the reset.   *)
Wrote(s, e, unit) ==
  /\ sock[s][e] = "open" /\ UNCHANGED << sock, inq, said, got >>
  /\ \/ /\ peer[s][e] = "open" /\ Len(outq[s][e]) < Cap
        /\ Puts(outq', outq, s, e, Append(outq[s][e], unit))
        /\ UNCHANGED peer
     \/ /\ peer[s][e] = "gone"
        /\ Puts(peer', peer, s, e, "reset")
        /\ UNCHANGED outq

LEMMA WrittenEffect ==
  ASSUME Typed, NEW s \in Sessions, NEW e \in Ends, NEW unit \in Units, Written(s, e, unit)
  PROVE  /\ Wrote(s, e, unit)
         /\ outq' \in [Sessions -> [Ends -> Seq(Units)]]
         /\ peer' \in [Sessions -> [Ends -> {"none", "open", "gone", "reset"}]]
<1>1. /\ outq \in [Sessions -> [Ends -> Seq(Units)]] /\ outq[s][e] \in Seq(Units)
      /\ peer \in [Sessions -> [Ends -> {"none", "open", "gone", "reset"}]]
  BY DEF Typed, EndsTyped
<1>2. /\ Append(outq[s][e], unit) \in Seq(Units)
      /\ Len(Append(outq[s][e], unit)) = Len(outq[s][e]) + 1
  BY <1>1, AppendedList
<1>3. CASE peer[s][e] = "open"
  <2>1. outq' = [outq EXCEPT ![s][e] = Append(outq[s][e], unit)]
    BY <1>1, <1>3 DEF Written
  <2> QED BY <1>1, <1>2, <1>3, <2>1, StoredAt DEF Written, Wrote, Puts
<1>4. CASE peer[s][e] = "gone"
  <2>1. peer' = [peer EXCEPT ![s][e] = "reset"]
    BY <1>1, <1>4 DEF Written
  <2>2. "reset" \in {"none", "open", "gone", "reset"}
    OBVIOUS
  <2> QED BY <1>1, <1>4, <2>1, <2>2, StoredAt DEF Written, Wrote, Puts
<1> QED BY <1>3, <1>4 DEF Written

LEMMA PrefixEffect ==
  ASSUME NEW S, NEW queue \in Seq(S), NEW q \in Prefixes(queue)
  PROVE  q \in Seq(S) /\ Len(q) \in Nat /\ Len(q) <= Len(queue)
<1>1. PICK n \in 0 .. Len(queue) : q = SubSeq(queue, 1, n)
  BY DEF Prefixes
<1>2. q \in Seq(S) /\ Len(q) = n
  BY <1>1, ListPrefix
<1> QED BY <1>1, <1>2, LenProperties

(* What Close does: nothing a second time.                                 *)
Closed(s, e) ==
  /\ UNCHANGED << peer, said, got >>
  /\ \/ sock[s][e] # "open" /\ UNCHANGED << sock, inq, outq, unread >>
     \/ /\ sock[s][e] = "open"
        /\ Puts(sock', sock, s, e, "closed")
        /\ Puts(inq', inq, s, e, << >>)
        /\ Puts(outq', outq, s, e, outq'[s][e])
        /\ outq'[s][e] \in Prefixes(outq[s][e])
        /\ (inq[s][e] = << >> => outq'[s][e] = outq[s][e])
        /\ unread' = IF e = "client" /\ inq[s][e] # << >> THEN unread \cup {s} ELSE unread

LEMMA CloseEffect ==
  ASSUME Typed, NEW s \in Sessions, NEW e \in Ends, Close(s, e)
  PROVE  /\ Closed(s, e)
         /\ sock' \in [Sessions -> [Ends -> {"none", "open", "closed"}]]
         /\ inq' \in [Sessions -> [Ends -> Seq(Units)]]
         /\ outq' \in [Sessions -> [Ends -> Seq(Units)]]
<1>1. CASE sock[s][e] # "open"
  BY <1>1 DEF Close, Closed, ends, Typed, EndsTyped
<1>2. CASE sock[s][e] = "open"
  <2>1. /\ outq \in [Sessions -> [Ends -> Seq(Units)]] /\ outq[s][e] \in Seq(Units)
        /\ inq \in [Sessions -> [Ends -> Seq(Units)]]
        /\ sock \in [Sessions -> [Ends -> {"none", "open", "closed"}]]
        /\ Len(outq[s][e]) \in Nat
    BY LenProperties DEF Typed, EndsTyped
  <2>2. /\ sock' \in [Sessions -> [Ends -> {"none", "open", "closed"}]]
        /\ Puts(sock', sock, s, e, "closed")
    <3>1. sock' = [sock EXCEPT ![s][e] = "closed"] /\ "closed" \in {"none", "open", "closed"}
      BY <1>2 DEF Close
    <3> QED BY <2>1, <3>1, StoredAt DEF Puts
  <2>3. inq' \in [Sessions -> [Ends -> Seq(Units)]] /\ Puts(inq', inq, s, e, << >>)
    <3>1. inq' = [inq EXCEPT ![s][e] = << >>] /\ << >> \in Seq(Units)
      BY <1>2, EmptySeq DEF Close
    <3> QED BY <2>1, <3>1, StoredAt DEF Puts
  <2>4. /\ UNCHANGED << peer, said, got >>
        /\ unread' = IF e = "client" /\ inq[s][e] # << >> THEN unread \cup {s} ELSE unread
    BY <1>2 DEF Close
  <2>5. PICK q \in Prefixes(outq[s][e]) : /\ outq' = [outq EXCEPT ![s][e] = q]
                                          /\ (inq[s][e] = << >> => q = outq[s][e])
    <3>1. CASE inq[s][e] = << >>
      <4>1. outq' = [outq EXCEPT ![s][e] = outq[s][e]]
        BY <1>2, <2>1, <3>1 DEF Close
      <4>2. Len(outq[s][e]) \in 0 .. Len(outq[s][e])
        BY <2>1
      <4>3. outq[s][e] \in Prefixes(outq[s][e])
        BY <2>1, <4>2, ListPrefix DEF Prefixes
      <4> QED BY <4>1, <4>3
    <3>2. CASE inq[s][e] # << >>
      BY <1>2, <3>2 DEF Close
    <3> QED BY <3>1, <3>2
  <2>6. q \in Seq(Units)
    BY <2>1, PrefixEffect
  <2>7. /\ outq' \in [Sessions -> [Ends -> Seq(Units)]] /\ outq'[s][e] = q
        /\ Puts(outq', outq, s, e, outq'[s][e])
    BY <2>1, <2>5, <2>6, StoredAt DEF Puts
  <2> QED BY <1>2, <2>2, <2>3, <2>4, <2>5, <2>7 DEF Closed
<1> QED BY <1>1, <1>2

LEMMA GotoEffect ==
  ASSUME Typed, NEW s \in Sessions, NEW at \in Places, Goto(s, at)
  PROVE  /\ pc' \in [Sessions -> Places] /\ pc'[s] = at
         /\ \A t \in Sessions : t # s => pc'[t] = pc[t]
BY StoredFor DEF Goto, Typed, ControlTyped

-----------------------------------------------------------------------------
(* What the steps of one session leave alone: the others. *)

Elsewhere(s) ==
  /\ script' = script
  /\ \A t \in Sessions : t # s =>
       /\ pc'[t] = pc[t] /\ loop'[t] = loop[t] /\ buf'[t] = buf[t] /\ screen'[t] = screen[t]
       /\ peer'[t] = peer[t] /\ sock'[t] = sock[t] /\ inq'[t] = inq[t] /\ outq'[t] = outq[t]
       /\ said'[t] = said[t] /\ got'[t] = got[t]
       /\ (t \in unread' <=> t \in unread) /\ (t \in cutOff' <=> t \in cutOff)
       /\ (t \in kicked' <=> t \in kicked)

LEMMA AcceptEffect ==
  ASSUME Typed, NEW s \in Sessions, Accept(s)
  PROVE  /\ Typed' /\ Elsewhere(s)
         /\ pc[s] = "new" /\ pc'[s] = "handshake" /\ s \in DOMAIN script
         /\ Puts(peer', peer, s, "client", "open") /\ Puts(sock', sock, s, "client", "open")
         /\ UNCHANGED << script, loop, buf, screen, inq, outq, said, got, list, history >>
<1>1. UNCHANGED << script, loop, buf, screen, inq, outq, said, got, list, history >>
      /\ s \in DOMAIN script /\ pc[s] = "new"
  BY DEF Accept
<1>2. /\ pc' \in [Sessions -> Places] /\ pc'[s] = "handshake"
      /\ \A t \in Sessions : t # s => pc'[t] = pc[t]
  BY GotoEffect DEF Accept, Places
<1>3. /\ Puts(peer', peer, s, "client", "open")
      /\ peer' \in [Sessions -> [Ends -> {"none", "open", "gone", "reset"}]]
  BY StoredAt, TwoEnds DEF Accept, Typed, EndsTyped, Puts
<1>4. /\ Puts(sock', sock, s, "client", "open")
      /\ sock' \in [Sessions -> [Ends -> {"none", "open", "closed"}]]
  BY StoredAt, TwoEnds DEF Accept, Typed, EndsTyped, Puts
<1>5. Elsewhere(s)
  BY <1>1, <1>2, <1>3, <1>4 DEF Elsewhere, Puts, history
<1>6. Typed'
  <2>1. ControlTyped'
    BY <1>1, <1>2 DEF Typed, ControlTyped, history
  <2>2. EndsTyped' /\ BufTyped'
    BY <1>1, <1>3, <1>4 DEF Typed, EndsTyped, BufTyped, Puts
  <2> QED BY <2>1, <2>2 DEF Typed
<1> QED BY <1>1, <1>2, <1>3, <1>4, <1>5, <1>6

(* The kind of the screen is one the client can show. *)
RightScreen(shown, k) ==
  \/ shown.type = (IF k.next = 1 THEN "status" ELSE "disconnect")
  \/ shown.text = "Network failure"

(* The handler is about to send a screen. *)
Refused(s) ==
  /\ pc'[s] \in {"request", "answer"} /\ screen'[s] \in Screens
  /\ RightScreen(screen'[s], script[s])

LEMMA ScreensAreNotNone == \A shown \in Screens : shown # NoScreen
BY DEF Screens, StatusScreen, DisconnectScreen, NoScreen

LEMMA ScreenEffect ==
  ASSUME Typed, NEW s \in Sessions, FailHandshake(s) \/ \E text \in Texts : Refuse(s, text)
  PROVE  /\ Refused(s)
         /\ pc' \in [Sessions -> Places] /\ screen' \in [Sessions -> Screens \cup {NoScreen}]
         /\ \A t \in Sessions : t # s => pc'[t] = pc[t] /\ screen'[t] = screen[t]
<1>1. PICK at, shown : /\ at \in {"request", "answer"} /\ shown \in Screens
                       /\ RightScreen(shown, script[s])
                       /\ Goto(s, at) /\ screen' = [screen EXCEPT ![s] = shown]
  <2>1. CASE FailHandshake(s)
    <3>1. StatusScreen("Network failure") \in Screens
      BY DEF Screens, Texts
    <3>2. RightScreen(StatusScreen("Network failure"), script[s])
      BY DEF RightScreen, StatusScreen
    <3> QED BY <2>1, <3>1, <3>2 DEF FailHandshake
  <2>2. ASSUME NEW text \in Texts, Refuse(s, text)
        PROVE  \E at, shown : /\ at \in {"request", "answer"} /\ shown \in Screens
                              /\ RightScreen(shown, script[s])
                              /\ Goto(s, at) /\ screen' = [screen EXCEPT ![s] = shown]
    <3>1. StatusScreen(text) \in Screens /\ DisconnectScreen(text) \in Screens
      BY DEF Screens
    <3>2. CASE script[s].next = 1
      <4>1. RightScreen(StatusScreen(text), script[s])
        BY <3>2 DEF RightScreen, StatusScreen
      <4> QED BY <2>2, <3>1, <3>2, <4>1 DEF Refuse
    <3>3. CASE script[s].next # 1
      <4>1. RightScreen(DisconnectScreen(text), script[s])
        BY <3>3 DEF RightScreen, DisconnectScreen
      <4> QED BY <2>2, <3>1, <3>3, <4>1 DEF Refuse
    <3> QED BY <3>2, <3>3
  <2> QED BY <2>1, <2>2
<1>2. at \in Places
  BY <1>1 DEF Places
<1>3. /\ pc' \in [Sessions -> Places] /\ pc'[s] = at
      /\ \A t \in Sessions : t # s => pc'[t] = pc[t]
  BY <1>1, <1>2, GotoEffect
<1>4. /\ screen' \in [Sessions -> Screens \cup {NoScreen}] /\ screen'[s] = shown
      /\ \A t \in Sessions : t # s => screen'[t] = screen[t]
  BY <1>1, StoredFor DEF Typed, ControlTyped
<1> QED BY <1>1, <1>3, <1>4 DEF Refused

LEMMA ReadHandshakeEffect ==
  ASSUME Typed, NEW s \in Sessions, ReadHandshake(s)
  PROVE  /\ Typed' /\ Elsewhere(s)
         /\ pc[s] = "handshake"
         /\ UNCHANGED << script, loop, buf, peer, sock, outq, said, got, list, history >>
         /\ \/ /\ Arrived(s, "client")
               /\ Puts(inq', inq, s, "client",
                       SubSeq(inq[s]["client"], 1 + 1, Len(inq[s]["client"])))
               /\ Len(inq[s]["client"]) \in Nat \ {0}
               /\ \/ Refused(s)
                  \/ pc'[s] = "end" /\ screen'[s] = screen[s]
                  \/ /\ Head(inq[s]["client"]) # Malformed
                     /\ Head(inq[s]["client"]).host \in DOMAIN Route
                     /\ pc'[s] = "dial" /\ screen'[s] = screen[s]
            \/ Over(s, "client") /\ Refused(s) /\ UNCHANGED inq
<1>1. UNCHANGED << script, loop, buf, list, history >> /\ pc[s] = "handshake"
  BY DEF ReadHandshake
<1>2. /\ pc' \in [Sessions -> Places] /\ screen' \in [Sessions -> Screens \cup {NoScreen}]
      /\ \A t \in Sessions : t # s => pc'[t] = pc[t] /\ screen'[t] = screen[t]
      /\ \/ Refused(s)
         \/ /\ pc'[s] = "end" /\ screen'[s] = screen[s] /\ Arrived(s, "client")
         \/ /\ Arrived(s, "client")
            /\ Head(inq[s]["client"]) # Malformed
            /\ Head(inq[s]["client"]).host \in DOMAIN Route
            /\ pc'[s] = "dial" /\ screen'[s] = screen[s]
  <2>1. CASE FailHandshake(s) \/ \E text \in Texts : Refuse(s, text)
    BY <2>1, ScreenEffect
  <2>2. CASE Goto(s, "end") /\ UNCHANGED screen /\ Arrived(s, "client")
    BY <2>2, GotoEffect DEF Places, Typed, ControlTyped
  <2>3. CASE /\ Goto(s, "dial") /\ UNCHANGED screen /\ Arrived(s, "client")
             /\ Head(inq[s]["client"]) # Malformed
             /\ Head(inq[s]["client"]).host \in DOMAIN Route
    BY <2>3, GotoEffect DEF Places, Typed, ControlTyped
  <2>4. "Route not found" \in Texts
    BY DEF Texts
  <2> QED BY <2>1, <2>2, <2>3, <2>4 DEF ReadHandshake
<1>3. /\ inq' \in [Sessions -> [Ends -> Seq(Units)]]
      /\ UNCHANGED << peer, sock, outq, said, got >>
      /\ \A t \in Sessions : t # s => inq'[t] = inq[t]
      /\ \/ /\ Arrived(s, "client")
            /\ Puts(inq', inq, s, "client",
                    SubSeq(inq[s]["client"], 1 + 1, Len(inq[s]["client"])))
            /\ Len(inq[s]["client"]) \in Nat \ {0}
         \/ Over(s, "client") /\ FailHandshake(s) /\ UNCHANGED inq
  <2>1. CASE Arrived(s, "client") /\ Take(s, "client", 1)
    <3>1. "client" \in Ends /\ inq[s]["client"] \in Seq(Units) /\ inq[s]["client"] # << >>
      BY <2>1, TwoEnds DEF Arrived, Typed, EndsTyped
    <3>2. Len(inq[s]["client"]) \in Nat \ {0} /\ 1 \in 0 .. Len(inq[s]["client"])
      BY <3>1, EmptySeq, LenProperties
    <3> QED BY <2>1, <3>1, <3>2, TakeEffect DEF Puts
  <2>2. CASE Over(s, "client") /\ FailHandshake(s) /\ UNCHANGED ends
    BY <2>2 DEF ends, Typed, EndsTyped
  <2> QED BY <2>1, <2>2 DEF ReadHandshake
<1>4. Over(s, "client") /\ FailHandshake(s) => Refused(s)
  BY ScreenEffect
<1>5. Elsewhere(s)
  BY <1>1, <1>2, <1>3 DEF Elsewhere, history
<1>6. Typed'
  <2>1. \A t \in Sessions : pc'[t] # "new" => t \in DOMAIN script
    BY <1>1, <1>2 DEF Typed, ControlTyped
  <2> QED BY <1>1, <1>2, <1>3, <2>1 DEF Typed, ControlTyped, EndsTyped, BufTyped, history
<1>7. CASE Refused(s)
  BY <1>1, <1>3, <1>5, <1>6, <1>7
<1>8. CASE ~ Refused(s)
  BY <1>1, <1>2, <1>3, <1>4, <1>5, <1>6, <1>8
<1> QED BY <1>7, <1>8

LEMMA DialEffect ==
  ASSUME Typed, NEW s \in Sessions, Dial(s)
  PROVE  /\ Typed' /\ Elsewhere(s)
         /\ pc[s] = "dial"
         /\ UNCHANGED << script, loop, buf, inq, outq, said, got, list, history >>
         /\ \/ /\ pc'[s] = "hello" /\ screen'[s] = screen[s]
               /\ Puts(peer', peer, s, "server", "open")
               /\ Puts(sock', sock, s, "server", "open")
            \/ Refused(s) /\ UNCHANGED << peer, sock >>
<1>1. UNCHANGED << script, loop, buf, inq, outq, said, got, list, history >> /\ pc[s] = "dial"
  BY DEF Dial
<1>2. CASE Refuse(s, "Server is offline") /\ UNCHANGED << peer, sock >>
  <2>1. "Server is offline" \in Texts
    BY DEF Texts
  <2>2. /\ Refused(s)
        /\ pc' \in [Sessions -> Places] /\ screen' \in [Sessions -> Screens \cup {NoScreen}]
        /\ \A t \in Sessions : t # s => pc'[t] = pc[t] /\ screen'[t] = screen[t]
    BY <1>2, <2>1, ScreenEffect
  <2>3. Elsewhere(s)
    BY <1>1, <1>2, <2>2 DEF Elsewhere, history
  <2>4. Typed'
    BY <1>1, <1>2, <2>2 DEF Typed, ControlTyped, EndsTyped, BufTyped, history
  <2> QED BY <1>1, <1>2, <2>2, <2>3, <2>4
<1>3. CASE /\ Goto(s, "hello")
           /\ peer' = [peer EXCEPT ![s]["server"] = "open"]
           /\ sock' = [sock EXCEPT ![s]["server"] = "open"]
           /\ UNCHANGED screen
  <2>1. /\ pc' \in [Sessions -> Places] /\ pc'[s] = "hello"
        /\ \A t \in Sessions : t # s => pc'[t] = pc[t]
    BY <1>3, GotoEffect DEF Places
  <2>2. /\ Puts(peer', peer, s, "server", "open")
        /\ peer' \in [Sessions -> [Ends -> {"none", "open", "gone", "reset"}]]
    BY <1>3, StoredAt, TwoEnds DEF Typed, EndsTyped, Puts
  <2>3. /\ Puts(sock', sock, s, "server", "open")
        /\ sock' \in [Sessions -> [Ends -> {"none", "open", "closed"}]]
    BY <1>3, StoredAt, TwoEnds DEF Typed, EndsTyped, Puts
  <2>4. Elsewhere(s)
    BY <1>1, <1>3, <2>1, <2>2, <2>3 DEF Elsewhere, Puts, history
  <2>5. Typed'
    BY <1>1, <1>3, <2>1, <2>2, <2>3
       DEF Typed, ControlTyped, EndsTyped, BufTyped, Puts, history
  <2> QED BY <1>1, <1>3, <2>1, <2>2, <2>3, <2>4, <2>5
<1> QED BY <1>2, <1>3 DEF Dial

(* Both loops begin. *)
Starts(s) ==
  /\ pc'[s] = "copy" /\ \A w \in Ways : loop'[s][w] = "read"

LEMMA StartEffect ==
  ASSUME Typed, NEW s \in Sessions, StartCopying(s)
  PROVE  /\ Starts(s)
         /\ pc' \in [Sessions -> Places]
         /\ loop' \in [Sessions -> [Ways -> {"off", "read", "write", "done"}]]
         /\ \A t \in Sessions : t # s => pc'[t] = pc[t] /\ loop'[t] = loop[t]
<1>1. /\ pc' \in [Sessions -> Places] /\ pc'[s] = "copy"
      /\ \A t \in Sessions : t # s => pc'[t] = pc[t]
  BY GotoEffect DEF StartCopying, Places
<1>2. [w \in Ways |-> "read"] \in [Ways -> {"off", "read", "write", "done"}]
  OBVIOUS
<1>3. /\ loop' \in [Sessions -> [Ways -> {"off", "read", "write", "done"}]]
      /\ loop'[s] = [w \in Ways |-> "read"]
      /\ \A t \in Sessions : t # s => loop'[t] = loop[t]
  BY <1>2, StoredFor DEF StartCopying, Typed, ControlTyped
<1> QED BY <1>1, <1>3 DEF Starts

LEMMA FailedEffect ==
  ASSUME Typed, NEW s \in Sessions, NEW e \in Ends, WriteFails(s, e)
  PROVE  /\ sock[s][e] = "closed" \/ Lost(s, e)
         /\ UNCHANGED << peer, sock, inq, outq, said, got >>
BY DEF WriteFails, ends

(* A Write for session s leaves the ends of the others alone.              *)
LEMMA WroteElsewhere ==
  ASSUME NEW s \in Sessions, NEW e \in Ends, NEW unit, Wrote(s, e, unit)
  PROVE  /\ UNCHANGED << sock, inq, said, got >>
         /\ \A t \in Sessions : t # s => peer'[t] = peer[t] /\ outq'[t] = outq[t]
BY DEF Wrote, Puts

(* Types after a Write.                                                    *)
LEMMA EndsTypedKept ==
  ASSUME Typed, NEW s \in Sessions, NEW e \in Ends, NEW unit \in Units, script' = script,
         \/ Wrote(s, e, unit)
            /\ outq' \in [Sessions -> [Ends -> Seq(Units)]]
            /\ peer' \in [Sessions -> [Ends -> {"none", "open", "gone", "reset"}]]
         \/ UNCHANGED << peer, sock, inq, outq, said, got >>
  PROVE  EndsTyped'
<1>1. CASE UNCHANGED << peer, sock, inq, outq, said, got >>
  BY <1>1 DEF Typed, EndsTyped
<1>2. CASE /\ Wrote(s, e, unit)
           /\ outq' \in [Sessions -> [Ends -> Seq(Units)]]
           /\ peer' \in [Sessions -> [Ends -> {"none", "open", "gone", "reset"}]]
  <2>1. ASSUME NEW t \in Sessions, NEW d \in Ends, peer'[t][d] # "none" PROVE peer[t][d] # "none"
    BY <1>2, <2>1 DEF Wrote, Puts
  <2>2. \A t \in Sessions, d \in Ends : peer'[t][d] # "none" => t \in DOMAIN script'
    BY <2>1 DEF Typed, EndsTyped
  <2> QED BY <1>2, <2>2 DEF Typed, EndsTyped, Wrote
<1> QED BY <1>1, <1>2

LEMMA ForwardHandshakeEffect ==
  ASSUME Typed, NEW s \in Sessions, ForwardHandshake(s)
  PROVE  /\ Typed' /\ Elsewhere(s)
         /\ pc[s] = "hello" /\ s \in DOMAIN script
         /\ UNCHANGED << script, buf, list, history >>
         /\ \/ /\ Wrote(s, "server", Rewritten(script[s]))
               /\ screen'[s] = screen[s]
               /\ \/ LogsIn(script[s]) /\ pc'[s] = "login" /\ loop'[s] = loop[s]
                  \/ ~ LogsIn(script[s]) /\ Starts(s)
            \/ /\ Refused(s) /\ loop'[s] = loop[s]
               /\ UNCHANGED << peer, sock, inq, outq, said, got >>
<1>1. UNCHANGED << script, buf, list, history >> /\ pc[s] = "hello"
  BY DEF ForwardHandshake
<1>2. s \in DOMAIN script /\ Rewritten(script[s]) \in Units
  BY <1>1, ScriptsOfCasts DEF Typed, ControlTyped
<1>3. CASE WriteFails(s, "server") /\ Refuse(s, "Server is offline") /\ UNCHANGED loop
  <2>1. "Server is offline" \in Texts
    BY DEF Texts
  <2>2. /\ Refused(s)
        /\ pc' \in [Sessions -> Places] /\ screen' \in [Sessions -> Screens \cup {NoScreen}]
        /\ \A t \in Sessions : t # s => pc'[t] = pc[t] /\ screen'[t] = screen[t]
    BY <1>3, <2>1, ScreenEffect
  <2>3. UNCHANGED << peer, sock, inq, outq, said, got >>
    BY <1>3 DEF WriteFails, ends
  <2>4. Elsewhere(s)
    BY <1>1, <1>3, <2>2, <2>3 DEF Elsewhere, history
  <2>5. Typed'
    BY <1>1, <1>2, <1>3, <2>2, <2>3 DEF Typed, ControlTyped, EndsTyped, BufTyped, history
  <2> QED BY <1>1, <1>2, <1>3, <2>2, <2>3, <2>4, <2>5
<1>4. CASE /\ Written(s, "server", Rewritten(script[s])) /\ UNCHANGED screen
           /\ IF LogsIn(script[s]) THEN Goto(s, "login") /\ UNCHANGED loop
                                   ELSE StartCopying(s)
  <2>1. "server" \in Ends
    BY TwoEnds
  <2>2. /\ Wrote(s, "server", Rewritten(script[s]))
        /\ outq' \in [Sessions -> [Ends -> Seq(Units)]]
        /\ peer' \in [Sessions -> [Ends -> {"none", "open", "gone", "reset"}]]
    BY <1>2, <1>4, <2>1, WrittenEffect
  <2>3. /\ pc' \in [Sessions -> Places]
        /\ loop' \in [Sessions -> [Ways -> {"off", "read", "write", "done"}]]
        /\ \A t \in Sessions : t # s => pc'[t] = pc[t] /\ loop'[t] = loop[t]
        /\ \/ LogsIn(script[s]) /\ pc'[s] = "login" /\ loop'[s] = loop[s]
           \/ ~ LogsIn(script[s]) /\ Starts(s)
    <3>1. CASE LogsIn(script[s])
      BY <1>4, <3>1, GotoEffect DEF Places, Typed, ControlTyped
    <3>2. CASE ~ LogsIn(script[s])
      BY <1>4, <3>2, StartEffect
    <3> QED BY <3>1, <3>2
  <2>4. UNCHANGED << sock, inq, said, got >>
        /\ \A t \in Sessions : t # s => peer'[t] = peer[t] /\ outq'[t] = outq[t]
    BY <2>1, <2>2, WroteElsewhere
  <2>5. Elsewhere(s)
    BY <1>1, <1>4, <2>3, <2>4 DEF Elsewhere, history
  <2>6. EndsTyped'
    BY <1>1, <1>2, <2>1, <2>2, EndsTypedKept
  <2>7. ControlTyped'
    BY <1>1, <1>2, <1>4, <2>3 DEF Typed, ControlTyped, history
  <2>8. BufTyped'
    <3>1. \A w \in Ways : loop'[s][w] = "write" => loop[s][w] = "write"
      BY <2>3 DEF Starts
    <3>2. ASSUME NEW t \in Sessions, NEW w \in Ways, loop'[t][w] = "write"
          PROVE  loop[t][w] = "write"
      BY <2>3, <3>1, <3>2
    <3>3. buf' = buf
      BY <1>1
    <3> QED BY <3>2, <3>3 DEF Typed, BufTyped
  <2> QED BY <1>1, <1>2, <1>4, <2>2, <2>3, <2>5, <2>6, <2>7, <2>8 DEF Typed
<1> QED BY <1>3, <1>4 DEF ForwardHandshake

(* A Read of one packet.                                                   *)
LEMMA TakeOneEffect ==
  ASSUME Typed, NEW s \in Sessions, Arrived(s, "client"), Take(s, "client", 1)
  PROVE  /\ inq' \in [Sessions -> [Ends -> Seq(Units)]]
         /\ Puts(inq', inq, s, "client",
                 SubSeq(inq[s]["client"], 1 + 1, Len(inq[s]["client"])))
         /\ Len(inq[s]["client"]) \in Nat \ {0}
         /\ UNCHANGED << peer, sock, outq, said, got >>
<1>1. "client" \in Ends /\ inq[s]["client"] \in Seq(Units) /\ inq[s]["client"] # << >>
  BY TwoEnds DEF Arrived, Typed, EndsTyped
<1>2. Len(inq[s]["client"]) \in Nat \ {0} /\ 1 \in 0 .. Len(inq[s]["client"])
  BY <1>1, EmptySeq, LenProperties
<1> QED BY <1>1, <1>2, TakeEffect

LEMMA ReadLoginEffect ==
  ASSUME Typed, NEW s \in Sessions, ReadLogin(s)
  PROVE  /\ Typed' /\ Elsewhere(s)
         /\ pc[s] = "login"
         /\ UNCHANGED << script, loop, buf, screen, peer, sock, outq, said, got, list, history >>
         /\ \/ /\ Arrived(s, "client")
               /\ Puts(inq', inq, s, "client",
                       SubSeq(inq[s]["client"], 1 + 1, Len(inq[s]["client"])))
               /\ Len(inq[s]["client"]) \in Nat \ {0}
               /\ pc'[s] \in {"hangup", "enter"}
            \/ Over(s, "client") /\ pc'[s] = "hangup" /\ UNCHANGED inq
<1>1. UNCHANGED << script, loop, buf, screen, list, history >> /\ pc[s] = "login"
  BY DEF ReadLogin
<1>2. PICK at \in {"hangup", "enter"} : Goto(s, at)
  BY DEF ReadLogin
<1>3. /\ pc' \in [Sessions -> Places] /\ pc'[s] = at
      /\ \A t \in Sessions : t # s => pc'[t] = pc[t]
  BY <1>2, GotoEffect DEF Places
<1>4. /\ UNCHANGED << peer, sock, outq, said, got >>
      /\ inq' \in [Sessions -> [Ends -> Seq(Units)]]
      /\ \A t \in Sessions : t # s => inq'[t] = inq[t]
      /\ \/ /\ Arrived(s, "client")
            /\ Puts(inq', inq, s, "client",
                    SubSeq(inq[s]["client"], 1 + 1, Len(inq[s]["client"])))
            /\ Len(inq[s]["client"]) \in Nat \ {0}
         \/ Over(s, "client") /\ UNCHANGED inq /\ at = "hangup"
  <2>1. CASE Arrived(s, "client") /\ Take(s, "client", 1)
    BY <2>1, TakeOneEffect DEF Puts
  <2>2. CASE Over(s, "client") /\ UNCHANGED ends /\ Goto(s, "hangup")
    <3>1. at = "hangup"
      BY <2>2, <1>3, GotoEffect DEF Places
    <3> QED BY <2>2, <3>1 DEF ends, Typed, EndsTyped
  <2> QED BY <2>1, <2>2 DEF ReadLogin
<1>5. Elsewhere(s)
  BY <1>1, <1>3, <1>4 DEF Elsewhere, history
<1>6. Typed'
  BY <1>1, <1>3, <1>4 DEF Typed, ControlTyped, EndsTyped, BufTyped, history
<1> QED BY <1>1, <1>3, <1>4, <1>5, <1>6

LEMMA AddPlayerEffect ==
  ASSUME Typed, NEW s \in Sessions, AddPlayer(s)
  PROVE  /\ Typed' /\ Elsewhere(s)
         /\ pc[s] = "enter" /\ pc'[s] = "forward" /\ s \in DOMAIN script
         /\ UNCHANGED << script, loop, buf, screen, peer, sock, inq, outq, said, got,
                         unread, cutOff, kicked >>
         /\ list' = Append(list, Entry(s)) /\ Entry(s) \in Entries
<1>1. /\ UNCHANGED << script, loop, buf, screen, ends, unread, cutOff, kicked >>
      /\ pc[s] = "enter" /\ list' = Append(list, Entry(s))
  BY DEF AddPlayer
<1>2. s \in DOMAIN script /\ Entry(s) \in Entries
  BY <1>1, ScriptsOfCasts DEF Typed, ControlTyped
<1>3. /\ pc' \in [Sessions -> Places] /\ pc'[s] = "forward"
      /\ \A t \in Sessions : t # s => pc'[t] = pc[t]
  BY GotoEffect DEF AddPlayer, Places
<1>4. list' \in Seq(Entries)
  BY <1>1, <1>2, AppendedList DEF Typed, ControlTyped
<1>5. twins' \subseteq Sessions
  <2> DEFINE same == { list[i].conn : i \in { j \in DOMAIN list : Equal(list[j], Entry(s)) } }
  <2>1. \A i \in DOMAIN list : list[i] \in Entries
    BY ListDomain DEF Typed, ControlTyped
  <2>2. \A x \in Entries : x.conn \in Sessions
    BY DEF Entries
  <2>3. same \subseteq Sessions
    BY <2>1, <2>2
  <2>4. twins' = twins \cup (IF same = {} THEN {} ELSE same \cup {s})
    BY DEF AddPlayer
  <2> HIDE DEF same
  <2> QED BY <2>3, <2>4 DEF Typed, ControlTyped
<1>6. Elsewhere(s)
  BY <1>1, <1>3 DEF Elsewhere, ends
<1>7. Typed'
  BY <1>1, <1>2, <1>3, <1>4, <1>5 DEF Typed, ControlTyped, EndsTyped, BufTyped, ends
<1> QED BY <1>1, <1>2, <1>3, <1>6, <1>7 DEF ends

LEMMA ForwardLoginEffect ==
  ASSUME Typed, NEW s \in Sessions, ForwardLogin(s)
  PROVE  /\ Typed' /\ Elsewhere(s)
         /\ pc[s] = "forward" /\ s \in DOMAIN script
         /\ UNCHANGED << script, buf, screen, list, history >>
         /\ \/ Wrote(s, "server", Login(script[s].player, FALSE)) /\ Starts(s)
            \/ /\ pc'[s] = "leave" /\ loop'[s] = loop[s]
               /\ UNCHANGED << peer, sock, inq, outq, said, got >>
<1> DEFINE unit == Login(script[s].player, FALSE)
<1>1. UNCHANGED << script, buf, screen, list, history >> /\ pc[s] = "forward"
  BY DEF ForwardLogin
<1>2. s \in DOMAIN script /\ unit \in Units /\ "server" \in Ends
  BY <1>1, ScriptsOfCasts, TwoEnds DEF Typed, ControlTyped
<1>3. CASE Written(s, "server", unit) /\ StartCopying(s)
  <2>1. /\ Wrote(s, "server", unit)
        /\ outq' \in [Sessions -> [Ends -> Seq(Units)]]
        /\ peer' \in [Sessions -> [Ends -> {"none", "open", "gone", "reset"}]]
    BY <1>2, <1>3, WrittenEffect
  <2>2. /\ Starts(s)
        /\ pc' \in [Sessions -> Places]
        /\ loop' \in [Sessions -> [Ways -> {"off", "read", "write", "done"}]]
        /\ \A t \in Sessions : t # s => pc'[t] = pc[t] /\ loop'[t] = loop[t]
    BY <1>3, StartEffect
  <2>3. UNCHANGED << sock, inq, said, got >>
        /\ \A t \in Sessions : t # s => peer'[t] = peer[t] /\ outq'[t] = outq[t]
    BY <1>2, <2>1, WroteElsewhere
  <2>4. Elsewhere(s)
    BY <1>1, <2>2, <2>3 DEF Elsewhere, history
  <2>5. EndsTyped'
    BY <1>1, <1>2, <2>1, EndsTypedKept
  <2>6. ControlTyped'
    BY <1>1, <1>2, <2>2 DEF Typed, ControlTyped, history
  <2>7. BufTyped'
    <3>1. \A w \in Ways : loop'[s][w] = "write" => loop[s][w] = "write"
      BY <2>2 DEF Starts
    <3>2. ASSUME NEW t \in Sessions, NEW w \in Ways, loop'[t][w] = "write"
          PROVE  loop[t][w] = "write"
      BY <2>2, <3>1, <3>2
    <3>3. buf' = buf
      BY <1>1
    <3> QED BY <3>2, <3>3 DEF Typed, BufTyped
  <2> QED BY <1>1, <1>2, <2>1, <2>2, <2>4, <2>5, <2>6, <2>7 DEF Typed
<1>4. CASE WriteFails(s, "server") /\ Goto(s, "leave") /\ UNCHANGED loop
  <2>1. UNCHANGED << peer, sock, inq, outq, said, got >>
    BY <1>4 DEF WriteFails, ends
  <2>2. /\ pc' \in [Sessions -> Places] /\ pc'[s] = "leave"
        /\ \A t \in Sessions : t # s => pc'[t] = pc[t]
    BY <1>4, GotoEffect DEF Places
  <2>3. Elsewhere(s)
    BY <1>1, <1>4, <2>1, <2>2 DEF Elsewhere, history
  <2>4. Typed'
    BY <1>1, <1>2, <1>4, <2>1, <2>2 DEF Typed, ControlTyped, EndsTyped, BufTyped, history
  <2> QED BY <1>1, <1>2, <1>4, <2>1, <2>2, <2>3, <2>4
<1> QED BY <1>3, <1>4 DEF ForwardLogin

LEMMA ReadRequestEffect ==
  ASSUME Typed, NEW s \in Sessions, ReadRequest(s)
  PROVE  /\ Typed' /\ Elsewhere(s)
         /\ pc[s] = "request" /\ pc'[s] = "answer"
         /\ UNCHANGED << script, loop, buf, screen, peer, sock, outq, said, got, list, history >>
         /\ \/ /\ Arrived(s, "client")
               /\ Puts(inq', inq, s, "client",
                       SubSeq(inq[s]["client"], 1 + 1, Len(inq[s]["client"])))
               /\ Len(inq[s]["client"]) \in Nat \ {0}
            \/ UNCHANGED inq
<1>1. UNCHANGED << script, loop, buf, screen, list, history >> /\ pc[s] = "request"
  BY DEF ReadRequest
<1>2. /\ pc' \in [Sessions -> Places] /\ pc'[s] = "answer"
      /\ \A t \in Sessions : t # s => pc'[t] = pc[t]
  BY GotoEffect DEF ReadRequest, Places
<1>3. /\ UNCHANGED << peer, sock, outq, said, got >>
      /\ inq' \in [Sessions -> [Ends -> Seq(Units)]]
      /\ \A t \in Sessions : t # s => inq'[t] = inq[t]
      /\ \/ /\ Arrived(s, "client")
            /\ Puts(inq', inq, s, "client",
                    SubSeq(inq[s]["client"], 1 + 1, Len(inq[s]["client"])))
            /\ Len(inq[s]["client"]) \in Nat \ {0}
         \/ UNCHANGED inq
  <2>1. CASE Arrived(s, "client") /\ Take(s, "client", 1)
    BY <2>1, TakeOneEffect DEF Puts
  <2>2. CASE UNCHANGED ends
    BY <2>2 DEF ends, Typed, EndsTyped
  <2> QED BY <2>1, <2>2 DEF ReadRequest
<1>4. Elsewhere(s)
  BY <1>1, <1>2, <1>3 DEF Elsewhere, history
<1>5. Typed'
  BY <1>1, <1>2, <1>3 DEF Typed, ControlTyped, EndsTyped, BufTyped, history
<1> QED BY <1>1, <1>2, <1>3, <1>4, <1>5

LEMMA WriteScreenEffect ==
  ASSUME Typed, NEW s \in Sessions, WriteScreen(s)
  PROVE  /\ Typed' /\ Elsewhere(s)
         /\ pc[s] = "answer" /\ pc'[s] \in {"hangup", "end"}
         /\ UNCHANGED << script, loop, buf, screen, list, history >>
         /\ \/ Wrote(s, "client", screen[s])
            \/ /\ sock[s]["client"] = "closed" \/ Lost(s, "client")
               /\ UNCHANGED << peer, sock, inq, outq, said, got >>
<1>1. UNCHANGED << script, loop, buf, screen, list, history >> /\ pc[s] = "answer"
  BY DEF WriteScreen
<1>2. /\ pc' \in [Sessions -> Places] /\ pc'[s] \in {"hangup", "end"}
      /\ \A t \in Sessions : t # s => pc'[t] = pc[t]
  <2>1. PICK at \in {"hangup", "end"} : Goto(s, at)
    BY DEF WriteScreen, Unwind
  <2> QED BY <2>1, GotoEffect DEF Places
<1>3. "client" \in Ends /\ screen[s] \in Units
  BY TwoEnds, UnitsTravel DEF Typed, ControlTyped
<1>4. CASE Written(s, "client", screen[s])
  <2>1. /\ Wrote(s, "client", screen[s])
        /\ outq' \in [Sessions -> [Ends -> Seq(Units)]]
        /\ peer' \in [Sessions -> [Ends -> {"none", "open", "gone", "reset"}]]
    BY <1>3, <1>4, WrittenEffect
  <2>2. UNCHANGED << sock, inq, said, got >>
        /\ \A t \in Sessions : t # s => peer'[t] = peer[t] /\ outq'[t] = outq[t]
    BY <1>3, <2>1, WroteElsewhere
  <2>3. Elsewhere(s)
    BY <1>1, <1>2, <2>2 DEF Elsewhere, history
  <2>4. EndsTyped'
    BY <1>1, <1>3, <2>1, EndsTypedKept
  <2>5. ControlTyped' /\ BufTyped'
    BY <1>1, <1>2 DEF Typed, ControlTyped, BufTyped, history
  <2> QED BY <1>1, <1>2, <2>1, <2>3, <2>4, <2>5 DEF Typed
<1>5. CASE WriteFails(s, "client")
  <2>1. /\ sock[s]["client"] = "closed" \/ Lost(s, "client")
        /\ UNCHANGED << peer, sock, inq, outq, said, got >>
    BY <1>5 DEF WriteFails, ends
  <2>2. Elsewhere(s)
    BY <1>1, <1>2, <2>1 DEF Elsewhere, history
  <2>3. Typed'
    BY <1>1, <1>2, <2>1 DEF Typed, ControlTyped, EndsTyped, BufTyped, history
  <2> QED BY <1>1, <1>2, <2>1, <2>2, <2>3
<1> QED BY <1>4, <1>5 DEF WriteScreen

-----------------------------------------------------------------------------
(* The copying. *)

(* As Puts, for the way w of session s. *)
PutsWay(after, before, s, w, v) ==
  /\ after[s][w] = v
  /\ \A x \in Ways : x # w => after[s][x] = before[s][x]
  /\ \A t \in Sessions : t # s => after[t] = before[t]

(* A loop ends, and with the one of the way down the handler goes on.      *)
Finishes(s, w) ==
  /\ PutsWay(loop', loop, s, w, "done")
  /\ (w = "up" => pc'[s] = pc[s])
  /\ (w = "down" => /\ pc'[s] \in {"leave", "hangup", "end"}
                    /\ (pc'[s] = "leave" <=> LogsIn(script[s])))

LEMMA CopyEndsEffect ==
  ASSUME Typed, NEW s \in Sessions, NEW w \in Ways, CopyEnds(s, w)
  PROVE  /\ Finishes(s, w)
         /\ loop' \in [Sessions -> [Ways -> {"off", "read", "write", "done"}]]
         /\ pc' \in [Sessions -> Places]
         /\ \A t \in Sessions : t # s => pc'[t] = pc[t] /\ loop'[t] = loop[t]
<1>1. "done" \in {"off", "read", "write", "done"}
  OBVIOUS
<1>2. /\ loop' \in [Sessions -> [Ways -> {"off", "read", "write", "done"}]]
      /\ PutsWay(loop', loop, s, w, "done")
  BY <1>1, StoredAt DEF CopyEnds, Typed, ControlTyped, PutsWay
<1>3. CASE w = "down"
  <2>1. PICK at \in {"leave", "hangup", "end"} : /\ Goto(s, at)
                                                /\ (at = "leave" <=> LogsIn(script[s]))
    BY <1>3 DEF CopyEnds, Unwind
  <2>2. /\ pc' \in [Sessions -> Places] /\ pc'[s] = at
        /\ \A t \in Sessions : t # s => pc'[t] = pc[t]
    BY <2>1, GotoEffect DEF Places
  <2> QED BY <1>2, <1>3, <2>1, <2>2 DEF Finishes, PutsWay
<1>4. CASE w # "down"
  <2>1. UNCHANGED pc
    BY <1>4 DEF CopyEnds
  <2> QED BY <1>2, <1>4, <2>1 DEF Finishes, PutsWay, Typed, ControlTyped
<1> QED BY <1>3, <1>4

LEMMA CopyReadEffect ==
  ASSUME Typed, NEW s \in Sessions, NEW w \in Ways, CopyRead(s, w)
  PROVE  /\ Typed' /\ Elsewhere(s)
         /\ loop[s][w] = "read"
         /\ UNCHANGED << script, screen, list, peer, sock, outq, said, got, history >>
         /\ \/ /\ sock[s][Src(w)] = "open"
               /\ \E n \in 1 .. Len(inq[s][Src(w)]) :
                    /\ PutsWay(buf', buf, s, w, SubSeq(inq[s][Src(w)], 1, n))
                    /\ Puts(inq', inq, s, Src(w), SubSeq(inq[s][Src(w)], n + 1, Len(inq[s][Src(w)])))
               /\ PutsWay(loop', loop, s, w, "write") /\ pc' = pc
            \/ Over(s, Src(w)) /\ Finishes(s, w) /\ UNCHANGED << inq, buf >>
<1>1. UNCHANGED << script, screen, list, history >> /\ loop[s][w] = "read"
  BY DEF CopyRead
<1>2. Src(w) \in Ends
  BY TwoEnds
<1>3. CASE /\ Arrived(s, Src(w))
           /\ \E n \in 1 .. Len(inq[s][Src(w)]) :
                /\ buf' = [buf EXCEPT ![s][w] = SubSeq(inq[s][Src(w)], 1, n)]
                /\ Take(s, Src(w), n)
           /\ loop' = [loop EXCEPT ![s][w] = "write"]
           /\ UNCHANGED pc
  <2>1. PICK n \in 1 .. Len(inq[s][Src(w)]) :
          /\ buf' = [buf EXCEPT ![s][w] = SubSeq(inq[s][Src(w)], 1, n)]
          /\ Take(s, Src(w), n)
    BY <1>3
  <2>2. inq[s][Src(w)] \in Seq(Units) /\ Len(inq[s][Src(w)]) \in Nat
    BY <1>2, LenProperties DEF Typed, EndsTyped
  <2>3. n \in 0 .. Len(inq[s][Src(w)])
    BY <2>2
  <2>4. /\ inq' \in [Sessions -> [Ends -> Seq(Units)]]
        /\ Puts(inq', inq, s, Src(w), SubSeq(inq[s][Src(w)], n + 1, Len(inq[s][Src(w)])))
        /\ UNCHANGED << peer, sock, outq, said, got >>
    BY <1>2, <2>1, <2>3, TakeEffect
  <2>5. /\ SubSeq(inq[s][Src(w)], 1, n) \in Seq(Units) /\ Len(SubSeq(inq[s][Src(w)], 1, n)) = n
    BY <2>2, <2>3, ListPrefix
  <2>6. SubSeq(inq[s][Src(w)], 1, n) # << >>
    BY <2>2, <2>5, EmptySeq
  <2>7. /\ buf' \in [Sessions -> [Ways -> Seq(Units)]]
        /\ PutsWay(buf', buf, s, w, SubSeq(inq[s][Src(w)], 1, n))
    BY <2>1, <2>5, StoredAt DEF Typed, BufTyped, PutsWay
  <2>8. /\ loop' \in [Sessions -> [Ways -> {"off", "read", "write", "done"}]]
        /\ PutsWay(loop', loop, s, w, "write")
    <3>1. "write" \in {"off", "read", "write", "done"}
      OBVIOUS
    <3> QED BY <1>3, <3>1, StoredAt DEF Typed, ControlTyped, PutsWay
  <2>9. Elsewhere(s)
    BY <1>1, <1>3, <2>4, <2>7, <2>8 DEF Elsewhere, Puts, PutsWay, history
  <2>10. ControlTyped' /\ EndsTyped'
    BY <1>1, <1>3, <2>4, <2>8 DEF Typed, ControlTyped, EndsTyped, history
  <2>11. BufTyped'
    <3>1. ASSUME NEW t \in Sessions, NEW x \in Ways, loop'[t][x] = "write"
          PROVE  buf'[t][x] # << >>
      <4>1. CASE t = s /\ x = w
        BY <2>6, <2>7, <4>1 DEF PutsWay
      <4>2. CASE ~ (t = s /\ x = w)
        <5>1. loop'[t][x] = loop[t][x] /\ buf'[t][x] = buf[t][x]
          BY <2>7, <2>8, <4>2 DEF PutsWay
        <5> QED BY <3>1, <5>1 DEF Typed, BufTyped
      <4> QED BY <4>1, <4>2
    <3> QED BY <2>7, <3>1 DEF BufTyped
  <2> QED BY <1>1, <1>3, <2>4, <2>7, <2>8, <2>9, <2>10, <2>11 DEF Typed, Arrived
<1>4. CASE Over(s, Src(w)) /\ CopyEnds(s, w) /\ UNCHANGED << ends, buf >>
  <2>1. /\ Finishes(s, w)
        /\ loop' \in [Sessions -> [Ways -> {"off", "read", "write", "done"}]]
        /\ pc' \in [Sessions -> Places]
        /\ \A t \in Sessions : t # s => pc'[t] = pc[t] /\ loop'[t] = loop[t]
    BY <1>4, CopyEndsEffect
  <2>2. UNCHANGED << peer, sock, inq, outq, said, got, buf >>
    BY <1>4 DEF ends
  <2>3. Elsewhere(s)
    BY <1>1, <2>1, <2>2 DEF Elsewhere, history
  <2>4. s \in DOMAIN script
    BY <1>1 DEF Typed, ControlTyped
  <2>5. ControlTyped'
    <3>1. \A t \in Sessions : pc'[t] # "new" => t \in DOMAIN script
      BY <2>1, <2>4 DEF Typed, ControlTyped
    <3>2. \A t \in Sessions, x \in Ways : loop'[t][x] # "off" => t \in DOMAIN script
      BY <2>1, <2>4 DEF Typed, ControlTyped
    <3> QED BY <1>1, <2>1, <3>1, <3>2 DEF Typed, ControlTyped, history
  <2>6. EndsTyped' /\ BufTyped'
    <3>1. ASSUME NEW t \in Sessions, NEW x \in Ways, loop'[t][x] = "write"
          PROVE  loop[t][x] = "write"
      BY <2>1, <3>1 DEF Finishes, PutsWay
    <3> QED BY <1>1, <2>2, <3>1 DEF Typed, EndsTyped, BufTyped
  <2> QED BY <1>1, <1>4, <2>1, <2>2, <2>3, <2>5, <2>6 DEF Typed
<1> QED BY <1>3, <1>4 DEF CopyRead

LEMMA CopyWriteEffect ==
  ASSUME Typed, NEW s \in Sessions, NEW w \in Ways, CopyWrite(s, w)
  PROVE  /\ Typed' /\ Elsewhere(s)
         /\ loop[s][w] = "write" /\ buf[s][w] # << >>
         /\ UNCHANGED << script, screen, list, history >>
         /\ \/ /\ Wrote(s, Dst(w), Head(buf[s][w]))
               /\ PutsWay(buf', buf, s, w, Tail(buf[s][w]))
               /\ PutsWay(loop', loop, s, w, IF Len(buf[s][w]) = 1 THEN "read" ELSE "write")
               /\ pc' = pc
            \/ /\ sock[s][Dst(w)] = "closed" \/ Lost(s, Dst(w))
               /\ PutsWay(buf', buf, s, w, << >>) /\ Finishes(s, w)
               /\ UNCHANGED << peer, sock, inq, outq, said, got >>
<1>1. UNCHANGED << script, screen, list, history >> /\ loop[s][w] = "write"
  BY DEF CopyWrite
<1>2. /\ Dst(w) \in Ends /\ buf[s][w] \in Seq(Units) /\ buf[s][w] # << >> /\ s \in DOMAIN script
  BY <1>1, TwoEnds DEF Typed, ControlTyped, BufTyped
<1>3. /\ Head(buf[s][w]) \in Units /\ Tail(buf[s][w]) \in Seq(Units)
      /\ Len(buf[s][w]) \in Nat \ {0} /\ Len(Tail(buf[s][w])) = Len(buf[s][w]) - 1
  BY <1>2, ListTail
<1>4. CASE /\ Written(s, Dst(w), Head(buf[s][w]))
           /\ buf' = [buf EXCEPT ![s][w] = Tail(@)]
           /\ loop' = [loop EXCEPT ![s][w] = IF Len(buf[s][w]) = 1 THEN "read" ELSE "write"]
           /\ UNCHANGED pc
  <2>1. /\ Wrote(s, Dst(w), Head(buf[s][w]))
        /\ outq' \in [Sessions -> [Ends -> Seq(Units)]]
        /\ peer' \in [Sessions -> [Ends -> {"none", "open", "gone", "reset"}]]
    BY <1>2, <1>3, <1>4, WrittenEffect
  <2>2. UNCHANGED << sock, inq, said, got >>
        /\ \A t \in Sessions : t # s => peer'[t] = peer[t] /\ outq'[t] = outq[t]
    BY <1>2, <2>1, WroteElsewhere
  <2>3. /\ buf' \in [Sessions -> [Ways -> Seq(Units)]]
        /\ PutsWay(buf', buf, s, w, Tail(buf[s][w]))
    <3>1. buf' = [buf EXCEPT ![s][w] = Tail(buf[s][w])]
      BY <1>4 DEF Typed, BufTyped
    <3> QED BY <1>3, <3>1, StoredAt DEF Typed, BufTyped, PutsWay
  <2>4. /\ loop' \in [Sessions -> [Ways -> {"off", "read", "write", "done"}]]
        /\ PutsWay(loop', loop, s, w, IF Len(buf[s][w]) = 1 THEN "read" ELSE "write")
    <3> DEFINE next == IF Len(buf[s][w]) = 1 THEN "read" ELSE "write"
    <3>1. next \in {"off", "read", "write", "done"} /\ loop' = [loop EXCEPT ![s][w] = next]
      BY <1>4
    <3> HIDE DEF next
    <3>2. /\ loop' \in [Sessions -> [Ways -> {"off", "read", "write", "done"}]]
          /\ PutsWay(loop', loop, s, w, next)
      BY <3>1, StoredAt DEF Typed, ControlTyped, PutsWay
    <3> QED BY <3>2 DEF next
  <2>5. Elsewhere(s)
    BY <1>1, <1>4, <2>2, <2>3, <2>4 DEF Elsewhere, PutsWay, history
  <2>6. EndsTyped'
    BY <1>1, <1>2, <1>3, <2>1, EndsTypedKept
  <2>7. ControlTyped'
    <3>1. \A t \in Sessions, x \in Ways : loop'[t][x] # "off" => t \in DOMAIN script
      BY <1>2, <2>4 DEF Typed, ControlTyped, PutsWay
    <3> QED BY <1>1, <1>4, <2>4, <3>1 DEF Typed, ControlTyped, history
  <2>8. BufTyped'
    <3>1. loop'[s][w] = "write" => Tail(buf[s][w]) # << >>
      <4>1. loop'[s][w] = "write" => Len(buf[s][w]) # 1
        BY <2>4 DEF PutsWay
      <4>2. Len(buf[s][w]) # 1 => Len(Tail(buf[s][w])) # 0
        BY <1>3
      <4> QED BY <4>1, <4>2, EmptySeq
    <3>2. ASSUME NEW t \in Sessions, NEW x \in Ways, loop'[t][x] = "write"
          PROVE  buf'[t][x] # << >>
      <4>1. CASE t = s /\ x = w
        BY <2>3, <3>1, <3>2, <4>1 DEF PutsWay
      <4>2. CASE ~ (t = s /\ x = w)
        <5>1. loop'[t][x] = loop[t][x] /\ buf'[t][x] = buf[t][x]
          BY <2>3, <2>4, <4>2 DEF PutsWay
        <5> QED BY <3>2, <5>1 DEF Typed, BufTyped
      <4> QED BY <4>1, <4>2
    <3> QED BY <2>3, <3>2 DEF BufTyped
  <2> QED BY <1>1, <1>2, <1>4, <2>1, <2>3, <2>4, <2>5, <2>6, <2>7, <2>8 DEF Typed
<1>5. CASE /\ WriteFails(s, Dst(w))
           /\ buf' = [buf EXCEPT ![s][w] = << >>]
           /\ CopyEnds(s, w)
  <2>1. /\ sock[s][Dst(w)] = "closed" \/ Lost(s, Dst(w))
        /\ UNCHANGED << peer, sock, inq, outq, said, got >>
    BY <1>5 DEF WriteFails, ends
  <2>2. /\ Finishes(s, w)
        /\ loop' \in [Sessions -> [Ways -> {"off", "read", "write", "done"}]]
        /\ pc' \in [Sessions -> Places]
        /\ \A t \in Sessions : t # s => pc'[t] = pc[t] /\ loop'[t] = loop[t]
    BY <1>5, CopyEndsEffect
  <2>3. /\ buf' \in [Sessions -> [Ways -> Seq(Units)]]
        /\ PutsWay(buf', buf, s, w, << >>)
    <3>1. << >> \in Seq(Units)
      BY EmptySeq
    <3> QED BY <1>5, <3>1, StoredAt DEF Typed, BufTyped, PutsWay
  <2>4. Elsewhere(s)
    BY <1>1, <2>1, <2>2, <2>3 DEF Elsewhere, PutsWay, history
  <2>5. ControlTyped'
    <3>1. \A t \in Sessions : pc'[t] # "new" => t \in DOMAIN script
      BY <1>2, <2>2 DEF Typed, ControlTyped
    <3>2. \A t \in Sessions, x \in Ways : loop'[t][x] # "off" => t \in DOMAIN script
      BY <1>2, <2>2 DEF Typed, ControlTyped
    <3> QED BY <1>1, <2>2, <3>1, <3>2 DEF Typed, ControlTyped, history
  <2>6. EndsTyped'
    BY <1>1, <2>1 DEF Typed, EndsTyped
  <2>7. BufTyped'
    <3>1. ASSUME NEW t \in Sessions, NEW x \in Ways, loop'[t][x] = "write"
          PROVE  buf'[t][x] # << >>
      <4>1. ~ (t = s /\ x = w)
        BY <2>2, <3>1 DEF Finishes, PutsWay
      <4>2. loop'[t][x] = loop[t][x] /\ buf'[t][x] = buf[t][x]
        BY <2>2, <2>3, <4>1 DEF Finishes, PutsWay
      <4> QED BY <3>1, <4>2 DEF Typed, BufTyped
    <3> QED BY <2>3, <3>1 DEF BufTyped
  <2> QED BY <1>1, <1>2, <2>1, <2>2, <2>3, <2>4, <2>5, <2>6, <2>7 DEF Typed
<1> QED BY <1>4, <1>5 DEF CopyWrite

-----------------------------------------------------------------------------
(* The deferred calls, and the peers. *)

(* The list after RemovePlayer. *)
Unlisted(s) ==
  \/ (\A i \in DOMAIN list : ~ Equal(list[i], Entry(s))) /\ list' = list
  \/ \E i \in 1 .. Len(list) :
       /\ Equal(list[i], Entry(s))
       /\ list' = SubSeq(list, 1, i - 1) \o SubSeq(list, i + 1, Len(list))

LEMMA RemovePlayerEffect ==
  ASSUME Typed, NEW s \in Sessions, RemovePlayer(s)
  PROVE  /\ Typed' /\ Elsewhere(s)
         /\ pc[s] = "leave" /\ pc'[s] = "hangup" /\ s \in DOMAIN script
         /\ UNCHANGED << script, loop, buf, screen, peer, sock, inq, outq, said, got, history >>
         /\ Unlisted(s)
<1> DEFINE same == { i \in DOMAIN list : Equal(list[i], Entry(s)) }
           i == CHOOSE i \in same : \A j \in same : i <= j
<1>1. UNCHANGED << script, loop, buf, screen, ends, history >> /\ pc[s] = "leave"
  BY DEF RemovePlayer
<1>2. /\ pc' \in [Sessions -> Places] /\ pc'[s] = "hangup"
      /\ \A t \in Sessions : t # s => pc'[t] = pc[t]
  BY GotoEffect DEF RemovePlayer, Places
<1>3. list \in Seq(Entries) /\ Len(list) \in Nat /\ DOMAIN list = 1 .. Len(list)
  BY LenProperties DEF Typed, ControlTyped
<1>4. Unlisted(s) /\ list' \in Seq(Entries)
  <2>1. CASE same = {}
    BY <1>3, <2>1 DEF RemovePlayer, Unlisted
  <2>2. CASE same # {}
    <3>1. same \in SUBSET Nat
      BY <1>3
    <3>2. \E j \in same : \A k \in same : j <= k
      <4> HIDE DEF same
      <4> QED BY <2>2, <3>1, LeastElement
    <3>3. i \in same
      <4> HIDE DEF same
      <4> QED BY <3>2
    <3>4. i \in 1 .. Len(list) /\ Equal(list[i], Entry(s))
      BY <1>3, <3>3
    <3>5. list' = SubSeq(list, 1, i - 1) \o SubSeq(list, i + 1, Len(list))
      BY <2>2 DEF RemovePlayer
    <3> HIDE DEF i
    <3> QED BY <1>3, <3>4, <3>5, ListWithout DEF Unlisted
  <2> QED BY <2>1, <2>2
<1>5. Elsewhere(s)
  BY <1>1, <1>2 DEF Elsewhere, ends, history
<1>6. s \in DOMAIN script
  BY <1>1 DEF Typed, ControlTyped
<1>7. ControlTyped'
  BY <1>1, <1>2, <1>4, <1>6 DEF Typed, ControlTyped, history
<1>8. EndsTyped' /\ BufTyped'
  BY <1>1 DEF Typed, EndsTyped, BufTyped, ends
<1> QED BY <1>1, <1>2, <1>4, <1>5, <1>6, <1>7, <1>8 DEF Typed, ends

(* What a Close of session s leaves alone.                                 *)
LEMMA ClosedElsewhere ==
  ASSUME NEW s \in Sessions, NEW e \in Ends, Closed(s, e)
  PROVE  /\ UNCHANGED << peer, said, got >>
         /\ \A t \in Sessions : t # s =>
              /\ sock'[t] = sock[t] /\ inq'[t] = inq[t] /\ outq'[t] = outq[t]
              /\ (t \in unread' <=> t \in unread)
         /\ unread' \subseteq unread \cup {s}
         /\ (e = "server" => unread' = unread)
<1>1. UNCHANGED << peer, said, got >>
  BY DEF Closed
<1>2. ASSUME NEW t \in Sessions, t # s
      PROVE  sock'[t] = sock[t] /\ inq'[t] = inq[t] /\ outq'[t] = outq[t]
  BY <1>2 DEF Closed, Puts
<1>3. unread' = unread \/ (unread' = unread \cup {s} /\ e = "client")
  BY DEF Closed
<1> QED BY <1>1, <1>2, <1>3

LEMMA CloseServerEffect ==
  ASSUME Typed, NEW s \in Sessions, CloseServer(s)
  PROVE  /\ Typed' /\ Elsewhere(s)
         /\ pc[s] = "hangup" /\ pc'[s] = "end"
         /\ UNCHANGED << script, loop, buf, screen, list, history >>
         /\ Closed(s, "server")
<1>1. UNCHANGED << script, loop, buf, screen, list, twins, cutOff, kicked >> /\ pc[s] = "hangup"
  BY DEF CloseServer
<1>2. /\ pc' \in [Sessions -> Places] /\ pc'[s] = "end"
      /\ \A t \in Sessions : t # s => pc'[t] = pc[t]
  BY GotoEffect DEF CloseServer, Places
<1>3. /\ Closed(s, "server") /\ "server" \in Ends
      /\ sock' \in [Sessions -> [Ends -> {"none", "open", "closed"}]]
      /\ inq' \in [Sessions -> [Ends -> Seq(Units)]]
      /\ outq' \in [Sessions -> [Ends -> Seq(Units)]]
  BY CloseEffect, TwoEnds DEF CloseServer
<1>4. /\ UNCHANGED << peer, said, got, unread >>
      /\ \A t \in Sessions : t # s =>
           sock'[t] = sock[t] /\ inq'[t] = inq[t] /\ outq'[t] = outq[t]
  BY <1>3, ClosedElsewhere
<1>5. Elsewhere(s)
  BY <1>1, <1>2, <1>4 DEF Elsewhere
<1>6. ControlTyped'
  <2>1. s \in DOMAIN script
    BY <1>1 DEF Typed, ControlTyped
  <2> QED BY <1>1, <1>2, <1>4, <2>1 DEF Typed, ControlTyped
<1>7. EndsTyped' /\ BufTyped'
  BY <1>1, <1>3, <1>4 DEF Typed, EndsTyped, BufTyped
<1> QED BY <1>1, <1>2, <1>3, <1>4, <1>5, <1>6, <1>7 DEF Typed, history

LEMMA CloseClientEffect ==
  ASSUME Typed, NEW s \in Sessions, CloseClient(s)
  PROVE  /\ Typed' /\ Elsewhere(s)
         /\ pc[s] = "end" /\ pc'[s] = "ended"
         /\ UNCHANGED << script, loop, buf, screen, list, twins, cutOff, kicked >>
         /\ Closed(s, "client")
<1>1. UNCHANGED << script, loop, buf, screen, list, twins, cutOff, kicked >> /\ pc[s] = "end"
  BY DEF CloseClient
<1>2. /\ pc' \in [Sessions -> Places] /\ pc'[s] = "ended"
      /\ \A t \in Sessions : t # s => pc'[t] = pc[t]
  BY GotoEffect DEF CloseClient, Places
<1>3. /\ Closed(s, "client") /\ "client" \in Ends
      /\ sock' \in [Sessions -> [Ends -> {"none", "open", "closed"}]]
      /\ inq' \in [Sessions -> [Ends -> Seq(Units)]]
      /\ outq' \in [Sessions -> [Ends -> Seq(Units)]]
  BY CloseEffect, TwoEnds DEF CloseClient
<1>4. /\ UNCHANGED << peer, said, got >> /\ unread' \subseteq unread \cup {s}
      /\ \A t \in Sessions : t # s =>
           /\ sock'[t] = sock[t] /\ inq'[t] = inq[t] /\ outq'[t] = outq[t]
           /\ (t \in unread' <=> t \in unread)
  BY <1>3, ClosedElsewhere
<1>5. Elsewhere(s)
  BY <1>1, <1>2, <1>4 DEF Elsewhere
<1>6. ControlTyped'
  <2>1. s \in DOMAIN script
    BY <1>1 DEF Typed, ControlTyped
  <2>2. unread' \subseteq Sessions
    BY <1>4 DEF Typed, ControlTyped
  <2> QED BY <1>1, <1>2, <2>1, <2>2 DEF Typed, ControlTyped
<1>7. EndsTyped' /\ BufTyped'
  BY <1>1, <1>3, <1>4 DEF Typed, EndsTyped, BufTyped
<1> QED BY <1>1, <1>2, <1>3, <1>5, <1>6, <1>7 DEF Typed

(* The socket of session s is closed by DisconnectPlayer. *)
Kick(s) ==
  /\ Typed' /\ Elsewhere(s)
  /\ UNCHANGED << script, pc, loop, buf, screen, list, twins, cutOff >>
  /\ Closed(s, "client") /\ kicked' = kicked \cup {s}

LEMMA DisconnectEffect ==
  ASSUME Typed, NEW p, DisconnectPlayer(p)
  PROVE  \E s \in Sessions : Kick(s)
<1>1. UNCHANGED << script, pc, loop, buf, screen, list, twins, cutOff >>
  BY DEF DisconnectPlayer
<1>2. PICK i \in DOMAIN list :
        Close(list[i].conn, "client") /\ kicked' = kicked \cup {list[i].conn}
  BY DEF DisconnectPlayer
<1>3. list[i] \in Entries
  BY ListDomain DEF Typed, ControlTyped
<1>4. PICK s \in Sessions : s = list[i].conn
  BY <1>3 DEF Entries
<1>5. /\ Closed(s, "client") /\ "client" \in Ends
      /\ sock' \in [Sessions -> [Ends -> {"none", "open", "closed"}]]
      /\ inq' \in [Sessions -> [Ends -> Seq(Units)]]
      /\ outq' \in [Sessions -> [Ends -> Seq(Units)]]
  BY <1>2, <1>4, CloseEffect, TwoEnds
<1>6. /\ UNCHANGED << peer, said, got >> /\ unread' \subseteq unread \cup {s}
      /\ \A t \in Sessions : t # s =>
           /\ sock'[t] = sock[t] /\ inq'[t] = inq[t] /\ outq'[t] = outq[t]
           /\ (t \in unread' <=> t \in unread)
  BY <1>5, ClosedElsewhere
<1>7. Elsewhere(s)
  BY <1>1, <1>2, <1>4, <1>6 DEF Elsewhere
<1>8. ControlTyped'
  <2>1. unread' \subseteq Sessions /\ kicked' \subseteq Sessions
    BY <1>2, <1>4, <1>6 DEF Typed, ControlTyped
  <2> QED BY <1>1, <2>1 DEF Typed, ControlTyped
<1>9. EndsTyped' /\ BufTyped'
  BY <1>1, <1>5, <1>6 DEF Typed, EndsTyped, BufTyped
<1> QED BY <1>1, <1>2, <1>4, <1>5, <1>7, <1>8, <1>9 DEF Kick, Typed

LEMMA SayEffect ==
  ASSUME Typed, NEW s \in Sessions, NEW e \in Ends, Say(s, e)
  PROVE  /\ Typed' /\ Elsewhere(s)
         /\ peer[s][e] = "open" /\ s \in DOMAIN script
         /\ said[s][e] < Len(Stream(s, e)) /\ Puts(said', said, s, e, said[s][e] + 1)
         /\ UNCHANGED << script, pc, loop, buf, screen, peer, sock, got, list, twins, cutOff,
                         kicked >>
         /\ \/ /\ sock[s][e] = "open" /\ Len(inq[s][e]) < Cap
               /\ Puts(inq', inq, s, e, Append(inq[s][e], Stream(s, e)[said[s][e] + 1]))
               /\ Stream(s, e)[said[s][e] + 1] \in Units
               /\ UNCHANGED << outq, unread >>
            \/ /\ sock[s][e] = "closed" /\ UNCHANGED inq
               /\ outq'[s][e] \in Prefixes(outq[s][e]) /\ Puts(outq', outq, s, e, outq'[s][e])
               /\ unread' = IF e = "client" THEN unread \cup {s} ELSE unread
<1> DEFINE unit == Stream(s, e)[said[s][e] + 1]
<1>1. /\ UNCHANGED << script, pc, loop, buf, screen, peer, sock, got, list, twins, cutOff, kicked >>
      /\ peer[s][e] = "open" /\ said[s][e] < Len(Stream(s, e))
  BY DEF Say
<1>2. /\ s \in DOMAIN script /\ Stream(s, e) \in Seq(Units)
      /\ said[s][e] \in Nat /\ inq[s][e] \in Seq(Units) /\ outq[s][e] \in Seq(Units)
  BY <1>1, ScriptsOfCasts DEF Typed, EndsTyped
<1>3. unit \in Units
  <2>1. said[s][e] + 1 \in 1 .. Len(Stream(s, e))
    BY <1>1, <1>2, LenProperties
  <2> QED BY <1>2, <2>1, ElementOfSeq
<1>4. /\ said' \in [Sessions -> [Ends -> Nat]] /\ Puts(said', said, s, e, said[s][e] + 1)
  <2>1. said' = [said EXCEPT ![s][e] = said[s][e] + 1]
    BY DEF Say, Typed, EndsTyped
  <2>2. said[s][e] + 1 \in Nat
    BY <1>2
  <2> QED BY <2>1, <2>2, StoredAt DEF Typed, EndsTyped, Puts
<1> HIDE DEF unit
<1>5. CASE /\ sock[s][e] = "open" /\ Len(inq[s][e]) < Cap
           /\ inq' = [inq EXCEPT ![s][e] = Append(@, unit)]
           /\ UNCHANGED << outq, unread >>
  <2>1. inq' = [inq EXCEPT ![s][e] = Append(inq[s][e], unit)] /\ Append(inq[s][e], unit) \in Seq(Units)
    BY <1>2, <1>3, <1>5, AppendedList DEF Typed, EndsTyped
  <2>2. /\ inq' \in [Sessions -> [Ends -> Seq(Units)]]
        /\ Puts(inq', inq, s, e, Append(inq[s][e], unit))
    BY <2>1, StoredAt DEF Typed, EndsTyped, Puts
  <2>3. Elsewhere(s)
    BY <1>1, <1>4, <1>5, <2>2 DEF Elsewhere, Puts
  <2>4. Typed'
    BY <1>1, <1>4, <1>5, <2>2 DEF Typed, ControlTyped, EndsTyped, BufTyped
  <2> QED BY <1>1, <1>2, <1>3, <1>4, <1>5, <2>2, <2>3, <2>4 DEF unit
<1>6. CASE /\ sock[s][e] = "closed" /\ UNCHANGED inq
           /\ \E q \in Prefixes(outq[s][e]) : outq' = [outq EXCEPT ![s][e] = q]
           /\ unread' = IF e = "client" THEN unread \cup {s} ELSE unread
  <2>1. PICK q \in Prefixes(outq[s][e]) : outq' = [outq EXCEPT ![s][e] = q]
    BY <1>6
  <2>2. q \in Seq(Units)
    BY <1>2, <2>1, PrefixEffect
  <2>3. /\ outq' \in [Sessions -> [Ends -> Seq(Units)]]
        /\ Puts(outq', outq, s, e, outq'[s][e]) /\ outq'[s][e] = q
    BY <2>1, <2>2, StoredAt DEF Typed, EndsTyped, Puts
  <2>4. Elsewhere(s)
    BY <1>1, <1>4, <1>6, <2>3 DEF Elsewhere, Puts
  <2>5. ControlTyped'
    BY <1>1, <1>6 DEF Typed, ControlTyped
  <2>6. EndsTyped' /\ BufTyped'
    BY <1>1, <1>4, <1>6, <2>3 DEF Typed, EndsTyped, BufTyped
  <2> QED BY <1>1, <1>2, <1>4, <1>6, <2>1, <2>3, <2>4, <2>5, <2>6 DEF Typed
<1> QED BY <1>5, <1>6 DEF Say, unit

LEMMA HearEffect ==
  ASSUME Typed, NEW s \in Sessions, NEW e \in Ends, Hear(s, e)
  PROVE  /\ Typed' /\ Elsewhere(s)
         /\ peer[s][e] = "open" /\ outq[s][e] # << >>
         /\ Puts(got', got, s, e, Append(got[s][e], Head(outq[s][e])))
         /\ Puts(outq', outq, s, e, Tail(outq[s][e]))
         /\ UNCHANGED << script, pc, loop, buf, screen, peer, sock, inq, said, list, history >>
<1>1. /\ UNCHANGED << script, pc, loop, buf, screen, peer, sock, inq, said, list, history >>
      /\ peer[s][e] = "open" /\ outq[s][e] # << >>
  BY DEF Hear
<1>2. got[s][e] \in Seq(Units) /\ outq[s][e] \in Seq(Units)
  BY DEF Typed, EndsTyped
<1>3. Head(outq[s][e]) \in Units /\ Tail(outq[s][e]) \in Seq(Units)
  BY <1>1, <1>2, ListTail
<1>4. Append(got[s][e], Head(outq[s][e])) \in Seq(Units)
  BY <1>2, <1>3, AppendedList
<1>5. /\ got' = [got EXCEPT ![s][e] = Append(got[s][e], Head(outq[s][e]))]
      /\ outq' = [outq EXCEPT ![s][e] = Tail(outq[s][e])]
  BY DEF Hear, Typed, EndsTyped
<1>6. /\ got' \in [Sessions -> [Ends -> Seq(Units)]]
      /\ Puts(got', got, s, e, Append(got[s][e], Head(outq[s][e])))
  BY <1>4, <1>5, StoredAt DEF Typed, EndsTyped, Puts
<1>7. /\ outq' \in [Sessions -> [Ends -> Seq(Units)]]
      /\ Puts(outq', outq, s, e, Tail(outq[s][e]))
  BY <1>3, <1>5, StoredAt DEF Typed, EndsTyped, Puts
<1>8. Elsewhere(s)
  BY <1>1, <1>6, <1>7 DEF Elsewhere, Puts, history
<1>9. Typed'
  BY <1>1, <1>6, <1>7 DEF Typed, ControlTyped, EndsTyped, BufTyped, history
<1> QED BY <1>1, <1>6, <1>7, <1>8, <1>9

LEMMA GoEffect ==
  ASSUME Typed, NEW s \in Sessions, NEW e \in Ends, Go(s, e)
  PROVE  /\ Typed' /\ Elsewhere(s)
         /\ peer[s][e] = "open" /\ s \in DOMAIN script
         /\ Puts(peer', peer, s, e, "gone") /\ Puts(outq', outq, s, e, << >>)
         /\ inq'[s][e] \in Prefixes(inq[s][e]) /\ Puts(inq', inq, s, e, inq'[s][e])
         /\ cutOff' = (IF e = "server" /\ inq'[s][e] # inq[s][e] THEN cutOff \cup {s} ELSE cutOff)
         /\ UNCHANGED << script, pc, loop, buf, screen, sock, said, got, list, twins, unread,
                         kicked >>
<1>1. /\ UNCHANGED << script, pc, loop, buf, screen, sock, said, got, list, twins, unread, kicked >>
      /\ peer[s][e] = "open"
  BY DEF Go
<1>2. s \in DOMAIN script /\ inq[s][e] \in Seq(Units)
  BY <1>1 DEF Typed, EndsTyped
<1>3. /\ peer' \in [Sessions -> [Ends -> {"none", "open", "gone", "reset"}]]
      /\ Puts(peer', peer, s, e, "gone")
  <2>1. peer' = [peer EXCEPT ![s][e] = "gone"] /\ "gone" \in {"none", "open", "gone", "reset"}
    BY DEF Go
  <2> QED BY <2>1, StoredAt DEF Typed, EndsTyped, Puts
<1>4. outq' \in [Sessions -> [Ends -> Seq(Units)]] /\ Puts(outq', outq, s, e, << >>)
  <2>1. outq' = [outq EXCEPT ![s][e] = << >>] /\ << >> \in Seq(Units)
    BY EmptySeq DEF Go
  <2> QED BY <2>1, StoredAt DEF Typed, EndsTyped, Puts
<1>5. PICK q \in Prefixes(inq[s][e]) :
        /\ inq' = [inq EXCEPT ![s][e] = q]
        /\ cutOff' = IF e = "server" /\ q # inq[s][e] THEN cutOff \cup {s} ELSE cutOff
  BY DEF Go
<1>6. q \in Seq(Units)
  BY <1>2, <1>5, PrefixEffect
<1>7. /\ inq' \in [Sessions -> [Ends -> Seq(Units)]]
      /\ Puts(inq', inq, s, e, inq'[s][e]) /\ inq'[s][e] = q
  BY <1>5, <1>6, StoredAt DEF Typed, EndsTyped, Puts
<1>8. Elsewhere(s)
  BY <1>1, <1>3, <1>4, <1>5, <1>7 DEF Elsewhere, Puts
<1>9. ControlTyped' /\ BufTyped'
  BY <1>1, <1>5 DEF Typed, ControlTyped, BufTyped
<1>10. EndsTyped'
  <2>1. \A t \in Sessions, d \in Ends : peer'[t][d] # "none" => t \in DOMAIN script
    BY <1>2, <1>3 DEF Typed, EndsTyped, Puts
  <2> QED BY <1>1, <1>3, <1>4, <1>7, <2>1 DEF Typed, EndsTyped
<1> QED BY <1>1, <1>2, <1>3, <1>4, <1>5, <1>7, <1>8, <1>9, <1>10 DEF Typed

-----------------------------------------------------------------------------
(* Every step is one session's. *)

Step(s) ==
  \/ Accept(s) \/ Handler(s) \/ Copier(s) \/ Kick(s)
  \/ \E e \in Ends : Say(s, e) \/ Hear(s, e) \/ Go(s, e)

LEMMA OneSession ==
  ASSUME Typed, Next
  PROVE  Typed' /\ \E s \in Sessions : Step(s) /\ Elsewhere(s)
<1>1. ASSUME NEW s \in Sessions, Accept(s) PROVE Typed' /\ Elsewhere(s)
  BY <1>1, AcceptEffect
<1>2. ASSUME NEW s \in Sessions, Handler(s) PROVE Typed' /\ Elsewhere(s)
  <2>1. "down" \in Ways
    BY DEF Ways
  <2>2. CASE ReadHandshake(s) \/ Dial(s) \/ ForwardHandshake(s) \/ ReadLogin(s)
    BY <2>2, ReadHandshakeEffect, DialEffect, ForwardHandshakeEffect, ReadLoginEffect
  <2>3. CASE AddPlayer(s) \/ ForwardLogin(s) \/ ReadRequest(s) \/ WriteScreen(s)
    BY <2>3, AddPlayerEffect, ForwardLoginEffect, ReadRequestEffect, WriteScreenEffect
  <2>4. CASE CopyRead(s, "down") \/ CopyWrite(s, "down")
    BY <2>1, <2>4, CopyReadEffect, CopyWriteEffect
  <2>5. CASE RemovePlayer(s) \/ CloseServer(s) \/ CloseClient(s)
    BY <2>5, RemovePlayerEffect, CloseServerEffect, CloseClientEffect
  <2> QED BY <1>2, <2>2, <2>3, <2>4, <2>5 DEF Handler
<1>3. ASSUME NEW s \in Sessions, Copier(s) PROVE Typed' /\ Elsewhere(s)
  <2>1. "up" \in Ways
    BY DEF Ways
  <2> QED BY <1>3, <2>1, CopyReadEffect, CopyWriteEffect DEF Copier
<1>4. ASSUME NEW i \in DOMAIN list, DisconnectPlayer(list[i].player)
      PROVE  \E s \in Sessions : Kick(s)
  BY <1>4, DisconnectEffect
<1>5. ASSUME NEW s \in Sessions, Kick(s) PROVE Typed' /\ Elsewhere(s)
  BY <1>5 DEF Kick
<1>6. ASSUME NEW s \in Sessions, NEW e \in Ends, Say(s, e) \/ Hear(s, e) \/ Go(s, e)
      PROVE  Typed' /\ Elsewhere(s)
  BY <1>6, SayEffect, HearEffect, GoEffect
<1> QED BY <1>1, <1>2, <1>3, <1>4, <1>5, <1>6 DEF Next, Step

LEMMA TypedKept ==
  ASSUME Typed, [Next]_vars
  PROVE  Typed'
<1>1. CASE Next
  BY <1>1, OneSession
<1>2. CASE UNCHANGED vars
  BY <1>2 DEF vars, ends, history, Typed, ControlTyped, EndsTyped, BufTyped
<1> QED BY <1>1, <1>2

LEMMA InitTyped == Init => Typed
<1> SUFFICES ASSUME Init PROVE Typed
  OBVIOUS
<1>1. << >> \in Seq(Units) /\ << >> \in Seq(Entries)
  BY EmptySeq
<1>2. ControlTyped
  <2>1. list = << >> /\ twins = {} /\ kicked = {} /\ unread = {} /\ cutOff = {}
    BY DEF Init
  <2>2. pc \in [Sessions -> Places] /\ \A s \in Sessions : pc[s] = "new"
    BY DEF Init, Places
  <2>3. /\ loop \in [Sessions -> [Ways -> {"off", "read", "write", "done"}]]
        /\ \A s \in Sessions, w \in Ways : loop[s][w] = "off"
    BY DEF Init
  <2>4. screen \in [Sessions -> Screens \cup {NoScreen}]
    BY DEF Init
  <2>5. script \in Casts
    BY DEF Init
  <2> QED BY <1>1, <2>1, <2>2, <2>3, <2>4, <2>5 DEF ControlTyped
<1>3. EndsTyped
  BY <1>1 DEF Init, EndsTyped
<1>4. BufTyped
  BY <1>1 DEF Init, BufTyped
<1> QED BY <1>2, <1>3, <1>4 DEF Typed

-----------------------------------------------------------------------------
(* What the place of the handler says about sockets, loops and screen. *)

(* A socket is opened once, by the handler; before that nothing travels.   *)
PhaseInv(s) ==
  /\ (peer[s]["client"] = "none" <=> pc[s] = "new")
  /\ \A e \in Ends : (peer[s][e] = "none" <=> sock[s][e] = "none")
  /\ \A e \in Ends : peer[s][e] = "none" =>
       inq[s][e] = << >> /\ outq[s][e] = << >> /\ got[s][e] = << >> /\ said[s][e] = 0
  /\ (pc[s] \in {"new", "handshake", "dial"} => sock[s]["server"] = "none")
  /\ (pc[s] \in {"hello", "login", "enter", "forward", "copy", "leave"} =>
        sock[s]["server"] = "open")
  /\ (pc[s] \notin {"new", "ended"} /\ s \notin kicked => sock[s]["client"] = "open")

(* The loops begin together, and the handler leaves with the way down.     *)
LoopInv(s) ==
  /\ (loop[s]["down"] \in {"read", "write"} <=> pc[s] = "copy")
  /\ (loop[s]["down"] = "off" <=> loop[s]["up"] = "off")
  /\ (pc[s] \in {"new", "handshake", "dial", "hello", "login", "enter", "forward",
                 "request", "answer"} => loop[s]["down"] = "off")
  /\ \A w \in Ways : buf[s][w] # << >> => loop[s][w] = "write"

(* Whoever gets a screen is not copied for.                                *)
ScreenInv(s) ==
  /\ (pc[s] \in {"request", "answer"} => screen[s] # NoScreen)
  /\ (screen[s] # NoScreen => /\ pc[s] \in {"request", "answer", "hangup", "end", "ended"}
                              /\ loop[s]["down"] = "off"
                              /\ RightScreen(screen[s], script[s]))
  /\ (pc[s] \in {"login", "enter", "forward", "leave"} => LogsIn(script[s]))

Shape(s) == PhaseInv(s) /\ LoopInv(s) /\ ScreenInv(s)

LEMMA PhaseStep ==
  ASSUME Typed, NEW s \in Sessions, Shape(s), Step(s)
  PROVE  PhaseInv(s)'
<1> USE TwoEnds DEF Shape
<1>1. CASE Accept(s)
  BY <1>1, AcceptEffect DEF PhaseInv, Puts, history
<1>2. CASE ReadHandshake(s)
  BY <1>2, ReadHandshakeEffect DEF PhaseInv, Puts, history, Refused, Arrived
<1>3. CASE Dial(s)
  BY <1>3, DialEffect DEF PhaseInv, Puts, history, Refused
<1>4. CASE ForwardHandshake(s)
  BY <1>4, ForwardHandshakeEffect DEF PhaseInv, Puts, history, Refused, Wrote, Starts
<1>5. CASE ReadLogin(s)
  BY <1>5, ReadLoginEffect DEF PhaseInv, Puts, history, Arrived
<1>6. CASE AddPlayer(s)
  BY <1>6, AddPlayerEffect DEF PhaseInv
<1>7. CASE ForwardLogin(s)
  <2>1. /\ pc[s] = "forward" /\ UNCHANGED << kicked, said, got, sock, inq >>
        /\ pc'[s] \in {"copy", "leave"}
    BY <1>7, ForwardLoginEffect DEF history, Wrote, Starts
  <2>2. ASSUME NEW e \in Ends, peer'[s][e] = "none" PROVE peer[s][e] = "none" /\ outq'[s][e] = outq[s][e]
    BY <1>7, <2>2, ForwardLoginEffect DEF PhaseInv, Puts, Wrote
  <2>3. ASSUME NEW e \in Ends, peer[s][e] = "none" PROVE peer'[s][e] = "none"
    BY <1>7, <2>3, ForwardLoginEffect DEF Puts, Wrote
  <2> QED BY <2>1, <2>2, <2>3 DEF PhaseInv
<1>8. CASE ReadRequest(s)
  BY <1>8, ReadRequestEffect DEF PhaseInv, Puts, history, Arrived
<1>9. CASE WriteScreen(s)
  BY <1>9, WriteScreenEffect DEF PhaseInv, Puts, history, Wrote
<1>10. CASE CopyRead(s, "down")
  BY <1>10, CopyReadEffect DEF PhaseInv, LoopInv, Puts, PutsWay, Finishes, history
<1>11. CASE CopyRead(s, "up")
  BY <1>11, CopyReadEffect DEF PhaseInv, Puts, PutsWay, Finishes, history
<1>12. CASE CopyWrite(s, "down")
  BY <1>12, CopyWriteEffect DEF PhaseInv, LoopInv, Puts, PutsWay, Finishes, Wrote, history
<1>13. CASE CopyWrite(s, "up")
  BY <1>13, CopyWriteEffect DEF PhaseInv, Puts, PutsWay, Finishes, Wrote, history
<1>14. CASE RemovePlayer(s)
  BY <1>14, RemovePlayerEffect DEF PhaseInv, history
<1>15. CASE CloseServer(s)
  BY <1>15, CloseServerEffect DEF PhaseInv, Closed, Puts, history
<1>16. CASE CloseClient(s)
  BY <1>16, CloseClientEffect DEF PhaseInv, Closed, Puts, history
<1>17. CASE Kick(s)
  BY <1>17 DEF Kick, PhaseInv, Closed, Puts
<1>18. ASSUME NEW e \in Ends, Say(s, e) PROVE PhaseInv(s)'
  BY <1>18, SayEffect DEF PhaseInv, Puts
<1>19. ASSUME NEW e \in Ends, Hear(s, e) PROVE PhaseInv(s)'
  BY <1>19, HearEffect DEF PhaseInv, Puts, history
<1>20. ASSUME NEW e \in Ends, Go(s, e) PROVE PhaseInv(s)'
  BY <1>20, GoEffect DEF PhaseInv, Puts
<1> QED BY <1>1, <1>2, <1>3, <1>4, <1>5, <1>6, <1>7, <1>8, <1>9, <1>10, <1>11, <1>12, <1>13,
           <1>14, <1>15, <1>16, <1>17, <1>18, <1>19, <1>20 DEF Step, Handler, Copier

LEMMA LoopStep ==
  ASSUME Typed, NEW s \in Sessions, Shape(s), Step(s)
  PROVE  LoopInv(s)'
<1> USE TwoEnds DEF Shape
<1>1. CASE Accept(s)
  BY <1>1, AcceptEffect DEF LoopInv
<1>2. CASE ReadHandshake(s)
  <2>1. UNCHANGED << loop, buf >> /\ pc[s] = "handshake" /\ pc'[s] \in {"request", "answer", "end", "dial"}
    BY <1>2, ReadHandshakeEffect DEF Refused
  <2> QED BY <2>1 DEF LoopInv
<1>3. CASE Dial(s)
  BY <1>3, DialEffect DEF LoopInv, Refused
<1>4. CASE ForwardHandshake(s)
  <2>1. buf' = buf /\ pc[s] = "hello"
    BY <1>4, ForwardHandshakeEffect
  <2>2. \/ pc'[s] \in {"request", "answer", "login"} /\ loop'[s] = loop[s]
        \/ pc'[s] = "copy" /\ \A w \in Ways : loop'[s][w] = "read"
    BY <1>4, ForwardHandshakeEffect DEF Refused, Starts
  <2> QED BY <2>1, <2>2 DEF LoopInv
<1>5. CASE ReadLogin(s)
  <2>1. UNCHANGED << loop, buf >> /\ pc[s] = "login" /\ pc'[s] \in {"hangup", "enter"}
    BY <1>5, ReadLoginEffect
  <2> QED BY <2>1 DEF LoopInv
<1>6. CASE AddPlayer(s)
  BY <1>6, AddPlayerEffect DEF LoopInv
<1>7. CASE ForwardLogin(s)
  <2>1. buf' = buf /\ pc[s] = "forward"
    BY <1>7, ForwardLoginEffect
  <2>2. \/ pc'[s] = "leave" /\ loop'[s] = loop[s]
        \/ pc'[s] = "copy" /\ \A w \in Ways : loop'[s][w] = "read"
    BY <1>7, ForwardLoginEffect DEF Starts
  <2> QED BY <2>1, <2>2 DEF LoopInv
<1>8. CASE ReadRequest(s)
  BY <1>8, ReadRequestEffect DEF LoopInv
<1>9. CASE WriteScreen(s)
  BY <1>9, WriteScreenEffect DEF LoopInv
<1>10. CASE CopyRead(s, "down")
  BY <1>10, CopyReadEffect DEF LoopInv, PutsWay, Finishes
<1>11. CASE CopyRead(s, "up")
  BY <1>11, CopyReadEffect DEF LoopInv, PutsWay, Finishes
<1>12. ASSUME NEW w \in Ways, CopyWrite(s, w) PROVE LoopInv(s)'
  <2>1. Len(buf[s][w]) = 1 => Tail(buf[s][w]) = << >>
    <3>1. buf[s][w] \in Seq(Units) /\ buf[s][w] # << >>
      BY <1>12, CopyWriteEffect DEF Typed, BufTyped
    <3>2. Tail(buf[s][w]) \in Seq(Units) /\ Len(Tail(buf[s][w])) = Len(buf[s][w]) - 1
      BY <3>1, ListTail
    <3>3. Tail(buf[s][w]) # << >> => Len(Tail(buf[s][w])) # 0
      BY <3>2, EmptySeq
    <3> QED BY <3>2, <3>3
  <2>2. /\ loop[s][w] = "write"
        /\ \/ /\ PutsWay(buf', buf, s, w, Tail(buf[s][w]))
              /\ PutsWay(loop', loop, s, w, IF Len(buf[s][w]) = 1 THEN "read" ELSE "write")
              /\ pc' = pc
           \/ PutsWay(buf', buf, s, w, << >>) /\ Finishes(s, w)
    BY <1>12, CopyWriteEffect
  <2>3. CASE w = "down"
    BY <2>1, <2>2, <2>3 DEF LoopInv, PutsWay, Finishes
  <2>4. CASE w = "up"
    BY <2>1, <2>2, <2>4 DEF LoopInv, PutsWay, Finishes
  <2> QED BY <2>3, <2>4
<1>13. "up" \in Ways /\ "down" \in Ways
  OBVIOUS
<1>14. CASE RemovePlayer(s)
  BY <1>14, RemovePlayerEffect DEF LoopInv
<1>15. CASE CloseServer(s)
  BY <1>15, CloseServerEffect DEF LoopInv
<1>16. CASE CloseClient(s)
  BY <1>16, CloseClientEffect DEF LoopInv
<1>17. CASE Kick(s)
  BY <1>17 DEF Kick, LoopInv
<1>18. ASSUME NEW e \in Ends, Say(s, e) \/ Hear(s, e) \/ Go(s, e) PROVE LoopInv(s)'
  <2>1. UNCHANGED << pc, loop, buf >>
    BY <1>18, SayEffect, HearEffect, GoEffect
  <2> QED BY <2>1 DEF LoopInv
<1> QED BY <1>1, <1>2, <1>3, <1>4, <1>5, <1>6, <1>7, <1>8, <1>9, <1>10, <1>11, <1>12, <1>13,
           <1>14, <1>15, <1>16, <1>17, <1>18 DEF Step, Handler, Copier

LEMMA ScreenStep ==
  ASSUME Typed, NEW s \in Sessions, Shape(s), Step(s), Elsewhere(s)
  PROVE  ScreenInv(s)'
<1> USE TwoEnds DEF Shape
<1>1. script' = script
  BY DEF Elsewhere
<1>2. CASE Refused(s) /\ loop'[s] = loop[s] /\ pc[s] \in {"handshake", "dial", "hello"}
  BY <1>1, <1>2, ScreensAreNotNone DEF Refused, ScreenInv, LoopInv
<1>3. CASE /\ screen'[s] = screen[s] /\ screen[s] = NoScreen
           /\ pc'[s] \notin {"request", "answer"}
           /\ (pc'[s] \in {"login", "enter", "forward", "leave"} => LogsIn(script[s]))
  BY <1>1, <1>3 DEF ScreenInv
<1>4. CASE Accept(s)
  BY <1>3, <1>4, AcceptEffect DEF ScreenInv
<1>5. CASE ReadHandshake(s)
  BY <1>2, <1>3, <1>5, ReadHandshakeEffect DEF ScreenInv
<1>6. CASE Dial(s)
  BY <1>2, <1>3, <1>6, DialEffect DEF ScreenInv
<1>7. CASE ForwardHandshake(s)
  BY <1>2, <1>3, <1>7, ForwardHandshakeEffect DEF ScreenInv, Starts
<1>8. CASE ReadLogin(s)
  BY <1>3, <1>8, ReadLoginEffect DEF ScreenInv
<1>9. CASE AddPlayer(s)
  BY <1>3, <1>9, AddPlayerEffect DEF ScreenInv
<1>10. CASE ForwardLogin(s)
  BY <1>3, <1>10, ForwardLoginEffect DEF ScreenInv, Starts
<1>11. CASE ReadRequest(s)
  BY <1>11, ReadRequestEffect DEF ScreenInv
<1>12. CASE WriteScreen(s)
  BY <1>12, WriteScreenEffect DEF ScreenInv
<1>13. ASSUME NEW w \in Ways, CopyRead(s, w) \/ CopyWrite(s, w) PROVE ScreenInv(s)'
  <2>1. /\ UNCHANGED screen /\ loop[s][w] \in {"read", "write"}
        /\ (pc'[s] = pc[s] \/ Finishes(s, w))
    BY <1>13, CopyReadEffect, CopyWriteEffect
  <2>2. screen[s] = NoScreen
    BY <2>1 DEF ScreenInv, LoopInv
  <2>3. CASE pc'[s] = pc[s]
    BY <1>3, <2>1, <2>2, <2>3 DEF ScreenInv
  <2>4. CASE Finishes(s, w) /\ w = "down"
    BY <1>3, <2>1, <2>2, <2>4 DEF Finishes
  <2>5. CASE Finishes(s, w) /\ w = "up"
    BY <2>3, <2>5 DEF Finishes
  <2> QED BY <2>1, <2>3, <2>4, <2>5
<1>14. CASE RemovePlayer(s)
  BY <1>14, RemovePlayerEffect DEF ScreenInv
<1>15. CASE CloseServer(s)
  BY <1>15, CloseServerEffect DEF ScreenInv
<1>16. CASE CloseClient(s)
  BY <1>16, CloseClientEffect DEF ScreenInv
<1>17. CASE Kick(s)
  BY <1>17 DEF Kick, ScreenInv
<1>18. ASSUME NEW e \in Ends, Say(s, e) \/ Hear(s, e) \/ Go(s, e) PROVE ScreenInv(s)'
  <2>1. UNCHANGED << pc, loop, screen >>
    BY <1>18, SayEffect, HearEffect, GoEffect
  <2> QED BY <1>1, <2>1 DEF ScreenInv
<1>19. "up" \in Ways /\ "down" \in Ways
  OBVIOUS
<1> QED BY <1>4, <1>5, <1>6, <1>7, <1>8, <1>9, <1>10, <1>11, <1>12, <1>13, <1>14, <1>15,
           <1>16, <1>17, <1>18, <1>19 DEF Step, Handler, Copier

LEMMA ShapeElsewhere ==
  ASSUME NEW s \in Sessions, NEW t \in Sessions, t # s, Elsewhere(s), Shape(t)
  PROVE  Shape(t)'
<1>1. PhaseInv(t)'
  BY DEF Elsewhere, Shape, PhaseInv
<1>2. LoopInv(t)'
  BY DEF Elsewhere, Shape, LoopInv
<1>3. ScreenInv(t)'
  BY DEF Elsewhere, Shape, ScreenInv
<1> QED BY <1>1, <1>2, <1>3 DEF Shape

Shaped == \A s \in Sessions : Shape(s)

LEMMA InitShaped == Init => Shaped
<1> SUFFICES ASSUME Init, NEW s \in Sessions PROVE Shape(s)
  BY DEF Shaped
<1>1. PhaseInv(s)
  BY DEF Init, PhaseInv, Ends
<1>2. LoopInv(s)
  BY DEF Init, LoopInv, Ways
<1>3. ScreenInv(s)
  BY DEF Init, ScreenInv
<1> QED BY <1>1, <1>2, <1>3 DEF Shape

LEMMA ShapedKept ==
  ASSUME Typed, Shaped, [Next]_vars
  PROVE  Shaped'
<1>1. CASE Next
  <2>1. PICK s \in Sessions : Step(s) /\ Elsewhere(s)
    BY <1>1, OneSession
  <2>2. Shape(s)'
    BY <2>1, PhaseStep, LoopStep, ScreenStep DEF Shape, Shaped
  <2>3. \A t \in Sessions : t # s => Shape(t)'
    BY <2>1, ShapeElsewhere DEF Shaped
  <2> QED BY <2>2, <2>3 DEF Shaped
<1>2. CASE UNCHANGED vars
  <2> SUFFICES ASSUME NEW s \in Sessions PROVE Shape(s)'
    BY DEF Shaped
  <2>1. PhaseInv(s)'
    BY <1>2 DEF vars, ends, history, Shaped, Shape, PhaseInv
  <2>2. LoopInv(s)'
    BY <1>2 DEF vars, ends, history, Shaped, Shape, LoopInv
  <2>3. ScreenInv(s)'
    BY <1>2 DEF vars, ends, history, Shaped, Shape, ScreenInv
  <2> QED BY <2>1, <2>2, <2>3 DEF Shape
<1> QED BY <1>1, <1>2

-----------------------------------------------------------------------------
(* What arrives. *)

(* Of the stream, of which n units were written, the first b were read and *)
(* those of the queue come next.                                           *)
Arrives(q, stream, b, n) ==
  /\ b + Len(q) <= n /\ n <= Len(stream)
  /\ Carries(q, stream, b)

LEMMA ArrivesTaken ==
  ASSUME NEW S, NEW q \in Seq(S), NEW stream \in Seq(S), NEW b \in Nat, NEW n \in Nat,
         Arrives(q, stream, b, n), NEW m \in 0 .. Len(q)
  PROVE  /\ Arrives(SubSeq(q, m + 1, Len(q)), stream, b + m, n) /\ b + m \in Nat
         /\ (b + m) + Len(SubSeq(q, m + 1, Len(q))) = b + Len(q)
<1>1. PICK l, k \in Nat : l = Len(q) /\ k = m
  BY LenProperties
<1>2. /\ SubSeq(q, m + 1, Len(q)) \in Seq(S) /\ Len(SubSeq(q, m + 1, Len(q))) = l - k
      /\ Carries(SubSeq(q, m + 1, Len(q)), stream, b + m)
  BY <1>1, CarriesRest DEF Arrives
<1>3. (b + k) + (l - k) = b + l /\ b + k \in Nat
  OBVIOUS
<1> QED BY <1>1, <1>2, <1>3 DEF Arrives

LEMMA ArrivesMore ==
  ASSUME NEW S, NEW q \in Seq(S), NEW stream \in Seq(S), NEW b \in Nat, NEW n \in Nat,
         Arrives(q, stream, b, n), b + Len(q) = n, n < Len(stream), NEW unit \in S,
         unit = stream[n + 1]
  PROVE  /\ Arrives(Append(q, unit), stream, b, n + 1)
         /\ b + Len(Append(q, unit)) = n + 1
<1>1. PICK l, k \in Nat : l = Len(q) /\ k = Len(stream)
  BY LenProperties
<1>2. /\ Append(q, unit) \in Seq(S) /\ Len(Append(q, unit)) = l + 1
      /\ Carries(Append(q, unit), stream, b)
  BY <1>1, CarriesMore DEF Arrives
<1>3. n + 1 <= k /\ b + (l + 1) = n + 1
  BY <1>1
<1> QED BY <1>1, <1>2, <1>3 DEF Arrives

LEMMA ArrivesCut ==
  ASSUME NEW S, NEW q \in Seq(S), NEW stream \in Seq(S), NEW b \in Nat, NEW n \in Nat,
         Arrives(q, stream, b, n), NEW p \in Prefixes(q)
  PROVE  Arrives(p, stream, b, n)
<1>1. PICK m \in 0 .. Len(q) : p = SubSeq(q, 1, m)
  BY DEF Prefixes
<1>2. Len(p) = m /\ Carries(p, stream, b)
  BY <1>1, CarriesPrefix DEF Arrives
<1>3. PICK l \in Nat : l = Len(q)
  BY LenProperties
<1>4. m \in Nat /\ m <= l /\ (b + l <= n => b + m <= n)
  BY <1>3
<1> QED BY <1>2, <1>3, <1>4 DEF Arrives

LEMMA ArrivesNothing ==
  ASSUME NEW S, NEW stream \in Seq(S), NEW b \in Nat, NEW n \in Nat, b <= n, n <= Len(stream)
  PROVE  Arrives(<< >>, stream, b, n)
<1>1. Len(<< >>) = 0 /\ b + 0 <= n
  OBVIOUS
<1> QED BY <1>1 DEF Arrives, Carries

(* Nothing of what e wrote is lost. *)
Whole(s, e) ==
  /\ sock[s][e] = "open"
  /\ peer[s][e] = "open" \/ (e = "server" /\ s \notin cutOff)

(* The node has read the first b units of what e wrote. *)
Queue(s, e, b) ==
  /\ Arrives(inq[s][e], Stream(s, e), b, said[s][e])
  /\ (Whole(s, e) => b + Len(inq[s][e]) = said[s][e])

LEMMA QueueTypes ==
  ASSUME Typed, NEW s \in DOMAIN script, NEW e \in Ends
  PROVE  /\ s \in Sessions /\ Stream(s, e) \in Seq(Units) /\ inq[s][e] \in Seq(Units)
         /\ said[s][e] \in Nat /\ outq[s][e] \in Seq(Units) /\ got[s][e] \in Seq(Units)
         /\ Len(inq[s][e]) \in Nat /\ Len(outq[s][e]) \in Nat /\ Len(got[s][e]) \in Nat
         /\ Len(Stream(s, e)) \in Nat
<1>1. s \in Sessions /\ Stream(s, e) \in Seq(Units)
  BY ScriptsOfCasts DEF Typed
<1>2. /\ inq[s][e] \in Seq(Units) /\ outq[s][e] \in Seq(Units) /\ got[s][e] \in Seq(Units)
      /\ said[s][e] \in Nat
  BY <1>1 DEF Typed, EndsTyped
<1> QED BY <1>1, <1>2, LenProperties

LEMMA QueueKept ==
  ASSUME Typed, NEW s \in DOMAIN script, NEW e \in Ends, NEW b \in Nat, Queue(s, e, b),
         script' = script, inq'[s][e] = inq[s][e], said'[s][e] = said[s][e],
         Whole(s, e)' => Whole(s, e)
  PROVE  Queue(s, e, b)'
<1>1. Stream(s, e)' = Stream(s, e)
  BY DEF Stream
<1>2. Arrives(inq[s][e], Stream(s, e), b, said[s][e])'
  BY <1>1 DEF Queue
<1> QED BY <1>2 DEF Queue

LEMMA QueueTaken ==
  ASSUME Typed, NEW s \in DOMAIN script, NEW e \in Ends, NEW b \in Nat, Queue(s, e, b),
         NEW m \in 0 .. Len(inq[s][e]),
         inq'[s][e] = SubSeq(inq[s][e], m + 1, Len(inq[s][e])),
         UNCHANGED << script, said, sock, peer, cutOff >>
  PROVE  Queue(s, e, b + m)' /\ b + m \in Nat
<1>1. Stream(s, e)' = Stream(s, e) /\ (Whole(s, e)' <=> Whole(s, e)) /\ said'[s][e] = said[s][e]
  BY DEF Stream, Whole
<1> DEFINE q == inq[s][e]  rest == SubSeq(q, m + 1, Len(q))
           stream == Stream(s, e)  n == said[s][e]
<1>2. q \in Seq(Units) /\ stream \in Seq(Units) /\ n \in Nat /\ Arrives(q, stream, b, n)
  BY QueueTypes DEF Queue
<1>3. /\ Arrives(rest, stream, b + m, n) /\ b + m \in Nat
      /\ (b + m) + Len(rest) = b + Len(q)
  <2> HIDE DEF q, stream, n
  <2>1. m \in 0 .. Len(q)
    BY DEF q
  <2> QED BY <1>2, <2>1, ArrivesTaken
<1>4. Arrives(inq[s][e], Stream(s, e), b + m, said[s][e])'
  BY <1>1, <1>3
<1>5. Whole(s, e)' => (b + m) + Len(inq'[s][e]) = said'[s][e]
  BY <1>1, <1>3 DEF Queue
<1> QED BY <1>3, <1>4, <1>5 DEF Queue

LEMMA QueueSaid ==
  ASSUME Typed, NEW s \in DOMAIN script, NEW e \in Ends, NEW b \in Nat, Queue(s, e, b), Say(s, e)
  PROVE  Queue(s, e, b)'
<1> DEFINE q == inq[s][e]  stream == Stream(s, e)  n == said[s][e]  unit == stream[n + 1]
<1>1. /\ q \in Seq(Units) /\ stream \in Seq(Units) /\ n \in Nat /\ Arrives(q, stream, b, n)
      /\ s \in Sessions
  BY QueueTypes DEF Queue
<1>2. /\ peer[s][e] = "open" /\ n < Len(stream) /\ said'[s][e] = n + 1
      /\ UNCHANGED << script, peer, sock, cutOff >>
      /\ \/ sock[s][e] = "open" /\ inq'[s][e] = Append(q, unit) /\ unit \in Units
         \/ sock[s][e] = "closed" /\ inq'[s][e] = q
  BY <1>1, SayEffect DEF Puts
<1>3. stream' = stream /\ (Whole(s, e)' <=> Whole(s, e))
  BY <1>2 DEF Stream, Whole
<1>4. CASE sock[s][e] = "open" /\ inq'[s][e] = Append(q, unit) /\ unit \in Units
  <2>1. b + Len(q) = n
    BY <1>2, <1>4 DEF Queue, Whole
  <2>2. /\ Arrives(Append(q, unit), stream, b, n + 1)
        /\ b + Len(Append(q, unit)) = n + 1
    <3> HIDE DEF q, stream, n
    <3> QED BY <1>1, <1>2, <1>4, <2>1, ArrivesMore
  <2> QED BY <1>2, <1>3, <1>4, <2>2 DEF Queue
<1>5. CASE sock[s][e] = "closed" /\ inq'[s][e] = q
  <2>1. ~ Whole(s, e)'
    BY <1>2, <1>5 DEF Whole
  <2>2. PICK l, k \in Nat : l = Len(q) /\ k = Len(stream)
    BY <1>1, LenProperties
  <2>3. n + 1 <= k /\ (b + l <= n => b + l <= n + 1)
    <3> HIDE DEF q, stream, n
    <3> QED BY <1>1, <1>2, <2>2
  <2>4. Arrives(q, stream, b, n + 1)
    BY <1>1, <2>2, <2>3 DEF Arrives
  <2> QED BY <1>2, <1>3, <1>5, <2>1, <2>4 DEF Queue
<1> QED BY <1>2, <1>4, <1>5

LEMMA QueueLeft ==
  ASSUME Typed, NEW s \in DOMAIN script, NEW e \in Ends, NEW b \in Nat, Queue(s, e, b), Go(s, e)
  PROVE  Queue(s, e, b)'
<1> DEFINE q == inq[s][e]  stream == Stream(s, e)  n == said[s][e]
<1>1. /\ q \in Seq(Units) /\ stream \in Seq(Units) /\ n \in Nat /\ Arrives(q, stream, b, n)
      /\ s \in Sessions
  BY QueueTypes DEF Queue
<1>2. /\ peer'[s][e] = "gone" /\ inq'[s][e] \in Prefixes(q) /\ peer[s][e] = "open"
      /\ UNCHANGED << script, said, sock >>
      /\ cutOff' = (IF e = "server" /\ inq'[s][e] # q THEN cutOff \cup {s} ELSE cutOff)
  BY <1>1, GoEffect DEF Puts
<1>3. stream' = stream /\ said'[s][e] = n
  BY <1>2 DEF Stream
<1>4. Arrives(inq'[s][e], stream, b, n)
  <2> HIDE DEF q, stream, n
  <2> QED BY <1>1, <1>2, ArrivesCut
<1>5. ASSUME Whole(s, e)' PROVE b + Len(inq'[s][e]) = n
  <2>1. e = "server" /\ s \notin cutOff'
    BY <1>2, <1>5 DEF Whole
  <2>2. inq'[s][e] = q /\ Whole(s, e)
    BY <1>2, <1>5, <2>1 DEF Whole
  <2> QED BY <2>2 DEF Queue
<1> QED BY <1>3, <1>4, <1>5 DEF Queue

LEMMA QueueClosed ==
  ASSUME Typed, NEW s \in DOMAIN script, NEW e \in Ends, NEW b \in Nat, Queue(s, e, b),
         Closed(s, e), UNCHANGED << script, cutOff >>
  PROVE  Queue(s, e, b)'
<1>1. CASE sock[s][e] # "open"
  BY <1>1, QueueKept DEF Closed, Whole
<1>2. CASE sock[s][e] = "open"
  <2>1. inq'[s][e] = << >> /\ sock'[s][e] = "closed" /\ said'[s][e] = said[s][e]
    BY <1>2 DEF Closed, Puts
  <2>2. Stream(s, e)' = Stream(s, e) /\ ~ Whole(s, e)'
    BY <2>1 DEF Stream, Whole
  <2>3. /\ Stream(s, e) \in Seq(Units) /\ said[s][e] \in Nat /\ Len(inq[s][e]) \in Nat
        /\ said[s][e] <= Len(Stream(s, e)) /\ b + Len(inq[s][e]) <= said[s][e]
    BY QueueTypes DEF Queue, Arrives
  <2>4. b <= said[s][e]
    BY <2>3
  <2>5. Arrives(<< >>, Stream(s, e), b, said[s][e])
    BY <2>3, <2>4, ArrivesNothing
  <2> QED BY <2>1, <2>2, <2>5 DEF Queue
<1> QED BY <1>1, <1>2

(* What a step of another kind does to end e, if anything: a Write, which  *)
(* neither opens the socket nor brings the peer back.                      *)
LEMMA QueueAside ==
  ASSUME Typed, NEW s \in DOMAIN script, NEW e \in Ends, NEW b \in Nat, Queue(s, e, b),
         UNCHANGED << script, cutOff >>,
         inq'[s][e] = inq[s][e], said'[s][e] = said[s][e],
         sock'[s][e] = "open" => sock[s][e] = "open",
         peer'[s][e] = "open" => peer[s][e] = "open"
  PROVE  Queue(s, e, b)'
BY QueueKept DEF Whole
-----------------------------------------------------------------------------
(* A socket holds no more than it can. *)

RoomInv(s) == \A e \in Ends : Len(inq[s][e]) <= Cap /\ Len(outq[s][e]) <= Cap

LEMMA RoomWritten ==
  ASSUME Typed, NEW s \in Sessions, RoomInv(s), NEW e \in Ends, NEW unit \in Units,
         Wrote(s, e, unit)
  PROVE  RoomInv(s)'
<1> SUFFICES ASSUME NEW d \in Ends PROVE Len(inq'[s][d]) <= Cap /\ Len(outq'[s][d]) <= Cap
  BY DEF RoomInv
<1>1. CASE outq'[s][d] = outq[s][d]
  BY <1>1 DEF Wrote, RoomInv
<1>2. CASE d = e /\ Len(outq[s][e]) < Cap /\ outq'[s][e] = Append(outq[s][e], unit)
  <2>1. outq[s][e] \in Seq(Units)
    BY DEF Typed, EndsTyped
  <2>2. Len(outq'[s][e]) = Len(outq[s][e]) + 1 /\ Len(outq[s][e]) \in Nat
    BY <1>2, <2>1, AppendedList
  <2> QED BY <1>2, <2>2, CapAssumption DEF Wrote, RoomInv
<1> QED BY <1>1, <1>2 DEF Wrote, Puts

LEMMA RoomTaken ==
  ASSUME Typed, NEW s \in Sessions, RoomInv(s), NEW e \in Ends, NEW n \in 0 .. Len(inq[s][e]),
         Puts(inq', inq, s, e, SubSeq(inq[s][e], n + 1, Len(inq[s][e]))), outq' = outq
  PROVE  RoomInv(s)'
<1> DEFINE q == inq[s][e]  rest == SubSeq(q, n + 1, Len(q))
<1>1. q \in Seq(Units) /\ Len(q) \in Nat
  BY LenProperties DEF Typed, EndsTyped
<1>2. Carries(q, [i \in 1 .. Len(q) |-> q[i]], 0)
  <2> HIDE DEF q
  <2> QED BY <1>1 DEF Carries
<1>3. Len(rest) = Len(q) - n
  <2>1. n \in 0 .. Len(q)
    OBVIOUS
  <2> HIDE DEF q
  <2> QED BY <1>1, <1>2, <2>1, CarriesRest
<1>4. Len(rest) <= Len(q)
  <2> HIDE DEF q, rest
  <2>1. n \in Nat
    BY <1>1
  <2> QED BY <1>1, <1>3, <2>1
<1>5. Len(q) <= Cap
  BY DEF RoomInv
<1>6. Len(rest) <= Cap
  <2>1. Len(rest) \in Int
    <3> HIDE DEF q, rest
    <3> QED BY <1>1, <1>3
  <2> HIDE DEF q, rest
  <2> QED BY <1>1, <1>4, <1>5, <2>1, CapAssumption
<1> QED BY <1>6 DEF RoomInv, Puts

(* Closed and left: what is under way, both ways, is cut.                  *)
LEMMA RoomCut ==
  ASSUME Typed, NEW s \in Sessions, RoomInv(s), NEW e \in Ends,
         inq'[s][e] \in Prefixes(inq[s][e]), outq'[s][e] \in Prefixes(outq[s][e]),
         \A d \in Ends : d # e => inq'[s][d] = inq[s][d] /\ outq'[s][d] = outq[s][d]
  PROVE  RoomInv(s)'
<1>1. /\ inq[s][e] \in Seq(Units) /\ outq[s][e] \in Seq(Units)
      /\ Len(inq[s][e]) \in Nat /\ Len(outq[s][e]) \in Nat
  BY LenProperties DEF Typed, EndsTyped
<1>2. /\ Len(inq'[s][e]) \in Nat /\ Len(inq'[s][e]) <= Len(inq[s][e])
      /\ Len(outq'[s][e]) \in Nat /\ Len(outq'[s][e]) <= Len(outq[s][e])
  BY <1>1, PrefixEffect
<1>3. Len(inq'[s][e]) <= Cap /\ Len(outq'[s][e]) <= Cap
  BY <1>1, <1>2, CapAssumption DEF RoomInv
<1> QED BY <1>3 DEF RoomInv

LEMMA Cuts ==
  ASSUME NEW S, NEW q \in Seq(S)
  PROVE  << >> \in Prefixes(q) /\ q \in Prefixes(q)
<1>1. Len(q) \in Nat /\ SubSeq(q, 1, Len(q)) = q /\ SubSeq(q, 1, 0) = << >>
  <2>1. Len(q) \in Nat /\ 0 \in 0 .. Len(q) /\ Len(q) \in 0 .. Len(q)
    BY LenProperties
  <2>2. SubSeq(q, 1, 0) \in Seq(S) /\ Len(SubSeq(q, 1, 0)) = 0
    BY <2>1, ListPrefix
  <2>3. SubSeq(q, 1, Len(q)) = q
    BY <2>1, ListPrefix
  <2> QED BY <2>1, <2>2, <2>3, ListDomain
<1>2. 0 \in 0 .. Len(q) /\ Len(q) \in 0 .. Len(q)
  BY <1>1
<1> QED BY <1>1, <1>2 DEF Prefixes

LEMMA RoomClosed ==
  ASSUME Typed, NEW s \in Sessions, RoomInv(s), NEW e \in Ends, Closed(s, e)
  PROVE  RoomInv(s)'
<1>1. CASE sock[s][e] # "open"
  BY <1>1 DEF Closed, RoomInv
<1>2. CASE sock[s][e] = "open"
  <2>1. inq[s][e] \in Seq(Units)
    BY DEF Typed, EndsTyped
  <2>2. /\ inq'[s][e] = << >> /\ outq'[s][e] \in Prefixes(outq[s][e])
        /\ \A d \in Ends : d # e => inq'[s][d] = inq[s][d] /\ outq'[s][d] = outq[s][d]
    BY <1>2 DEF Closed, Puts
  <2>3. inq'[s][e] \in Prefixes(inq[s][e])
    BY <2>1, <2>2, Cuts
  <2> QED BY <2>2, <2>3, RoomCut
<1> QED BY <1>1, <1>2

LEMMA RoomStep ==
  ASSUME Typed, NEW s \in Sessions, RoomInv(s), Step(s)
  PROVE  RoomInv(s)'
<1>1. CASE UNCHANGED << inq, outq >>
  BY <1>1 DEF RoomInv
<1>2. CASE Len(inq[s]["client"]) \in Nat \ {0} /\ outq' = outq
           /\ Puts(inq', inq, s, "client", SubSeq(inq[s]["client"], 1 + 1, Len(inq[s]["client"])))
  <2>1. 1 \in 0 .. Len(inq[s]["client"])
    BY <1>2
  <2> QED BY <1>2, <2>1, RoomTaken, TwoEnds
<1>3. CASE Accept(s) \/ AddPlayer(s) \/ Dial(s) \/ RemovePlayer(s)
  BY <1>1, <1>3, AcceptEffect, AddPlayerEffect, DialEffect, RemovePlayerEffect
<1>4. CASE ReadHandshake(s) \/ ReadLogin(s) \/ ReadRequest(s)
  BY <1>1, <1>2, <1>4, ReadHandshakeEffect, ReadLoginEffect, ReadRequestEffect
<1>5. CASE ForwardHandshake(s) \/ ForwardLogin(s) \/ WriteScreen(s)
  <2>1. s \in DOMAIN script
    BY <1>5, ForwardHandshakeEffect, ForwardLoginEffect, WriteScreenEffect DEF Typed, ControlTyped
  <2>2. /\ Rewritten(script[s]) \in Units /\ Login(script[s].player, FALSE) \in Units
        /\ screen[s] \in Units
    BY <2>1, ScriptsOfCasts, UnitsTravel DEF Typed, ControlTyped
  <2> QED BY <1>1, <1>5, <2>2, RoomWritten, TwoEnds, ForwardHandshakeEffect, ForwardLoginEffect,
             WriteScreenEffect
<1>6. ASSUME NEW w \in Ways, CopyRead(s, w) PROVE RoomInv(s)'
  <2>1. CASE UNCHANGED inq
    BY <1>1, <1>6, <2>1, CopyReadEffect
  <2>2. ASSUME NEW n \in 1 .. Len(inq[s][Src(w)]),
               Puts(inq', inq, s, Src(w), SubSeq(inq[s][Src(w)], n + 1, Len(inq[s][Src(w)])))
        PROVE  RoomInv(s)'
    <3>1. outq' = outq /\ Src(w) \in Ends
      BY <1>6, CopyReadEffect, TwoEnds
    <3>2. inq[s][Src(w)] \in Seq(Units)
      BY <3>1 DEF Typed, EndsTyped
    <3>3. n \in 0 .. Len(inq[s][Src(w)])
      BY <3>2, LenProperties
    <3> QED BY <2>2, <3>1, <3>3, RoomTaken
  <2> QED BY <1>6, <2>1, <2>2, CopyReadEffect
<1>7. ASSUME NEW w \in Ways, CopyWrite(s, w) PROVE RoomInv(s)'
  <2>1. buf[s][w] \in Seq(Units) /\ buf[s][w] # << >>
    BY <1>7, CopyWriteEffect DEF Typed, BufTyped
  <2>2. Head(buf[s][w]) \in Units /\ Dst(w) \in Ends
    BY <2>1, ListTail, TwoEnds
  <2> QED BY <1>1, <1>7, <2>2, RoomWritten, CopyWriteEffect
<1>8. CASE CloseServer(s) \/ CloseClient(s) \/ Kick(s)
  BY <1>8, RoomClosed, CloseServerEffect, CloseClientEffect, TwoEnds DEF Kick
<1>9. ASSUME NEW e \in Ends, Say(s, e) PROVE RoomInv(s)'
  <2>1. /\ inq[s][e] \in Seq(Units) /\ outq[s][e] \in Seq(Units)
    BY DEF Typed, EndsTyped
  <2>2. CASE /\ Len(inq[s][e]) < Cap /\ UNCHANGED outq
             /\ Stream(s, e)[said[s][e] + 1] \in Units
             /\ Puts(inq', inq, s, e, Append(inq[s][e], Stream(s, e)[said[s][e] + 1]))
    <3>1. Len(inq'[s][e]) = Len(inq[s][e]) + 1 /\ Len(inq[s][e]) \in Nat
      BY <2>1, <2>2, AppendedList DEF Puts
    <3>2. Len(inq'[s][e]) <= Cap
      BY <2>2, <3>1, CapAssumption
    <3> QED BY <2>2, <3>2 DEF RoomInv, Puts
  <2>3. CASE UNCHANGED inq /\ Puts(outq', outq, s, e, outq'[s][e])
             /\ outq'[s][e] \in Prefixes(outq[s][e])
    <3>1. inq'[s][e] \in Prefixes(inq[s][e])
      BY <2>1, <2>3, Cuts
    <3> QED BY <2>3, <3>1, RoomCut DEF Puts
  <2> QED BY <1>9, <2>2, <2>3, SayEffect
<1>10. ASSUME NEW e \in Ends, Hear(s, e) PROVE RoomInv(s)'
  <2>1. /\ outq[s][e] \in Seq(Units) /\ outq[s][e] # << >> /\ inq' = inq
        /\ Puts(outq', outq, s, e, Tail(outq[s][e]))
    BY <1>10, HearEffect DEF Typed, EndsTyped
  <2>2. Len(outq'[s][e]) = Len(outq[s][e]) - 1 /\ Len(outq[s][e]) \in Nat
    BY <2>1, ListTail DEF Puts
  <2>3. Len(outq'[s][e]) <= Cap
    BY <2>2, CapAssumption DEF RoomInv
  <2> QED BY <2>1, <2>3 DEF RoomInv, Puts
<1>11. ASSUME NEW e \in Ends, Go(s, e) PROVE RoomInv(s)'
  <2>1. /\ outq[s][e] \in Seq(Units) /\ Puts(outq', outq, s, e, << >>)
        /\ inq'[s][e] \in Prefixes(inq[s][e]) /\ Puts(inq', inq, s, e, inq'[s][e])
    BY <1>11, GoEffect DEF Typed, EndsTyped
  <2>2. outq'[s][e] \in Prefixes(outq[s][e])
    BY <2>1, Cuts DEF Puts
  <2> QED BY <2>1, <2>2, RoomCut DEF Puts
<1>12. "up" \in Ways /\ "down" \in Ways
  BY TwoEnds
<1> QED BY <1>3, <1>4, <1>5, <1>6, <1>7, <1>8, <1>9, <1>10, <1>11, <1>12 DEF Step, Handler, Copier
-----------------------------------------------------------------------------
(* What an end was sent. *)

(* What is written to e still can arrive.                                  *)
Live(s, e) == sock[s][e] = "open" /\ peer[s][e] = "open"
SentTo(s, e) == Len(got[s][e]) + Len(outq[s][e])

LEMMA SentIsNumber ==
  ASSUME Typed, NEW s \in DOMAIN script, NEW e \in Ends
  PROVE  SentTo(s, e) \in Nat /\ SentTo(s, e) <= SentTo(s, e)
<1>1. PICK g, q \in Nat : g = Len(got[s][e]) /\ q = Len(outq[s][e])
  BY QueueTypes
<1>2. g + q \in Nat /\ g + q <= g + q
  OBVIOUS
<1> QED BY <1>1, <1>2 DEF SentTo

LEMMA WroteDelivered ==
  ASSUME Typed, NEW s \in DOMAIN script, NEW e \in Ends, NEW unit \in Units,
         NEW stream \in Seq(Units), Delivered(got[s][e], outq[s][e], stream),
         Wrote(s, e, unit),
         peer[s][e] = "open" => SentTo(s, e) < Len(stream) /\ unit = stream[SentTo(s, e) + 1]
  PROVE  /\ Delivered(got'[s][e], outq'[s][e], stream)
         /\ \/ Live(s, e) /\ Live(s, e)' /\ SentTo(s, e)' = SentTo(s, e) + 1
            \/ ~ Live(s, e) /\ ~ Live(s, e)' /\ SentTo(s, e)' = SentTo(s, e)
<1>1. s \in Sessions /\ outq[s][e] \in Seq(Units) /\ got[s][e] \in Seq(Units)
  BY QueueTypes
<1>2. got' = got /\ sock' = sock
  BY DEF Wrote
<1>3. CASE peer[s][e] = "open" /\ outq'[s][e] = Append(outq[s][e], unit) /\ peer' = peer
  <2>1. /\ Delivered(got[s][e], Append(outq[s][e], unit), stream)
        /\ Len(got[s][e]) + Len(Append(outq[s][e], unit)) = Len(got[s][e]) + Len(outq[s][e]) + 1
    <3>1. /\ Len(got[s][e]) + Len(outq[s][e]) < Len(stream)
          /\ unit = stream[Len(got[s][e]) + Len(outq[s][e]) + 1]
      BY <1>3 DEF SentTo
    <3> DEFINE h == got[s][e]  q == outq[s][e]
    <3>2. /\ h \in Seq(Units) /\ q \in Seq(Units) /\ Delivered(h, q, stream)
          /\ Len(h) + Len(q) < Len(stream) /\ unit = stream[Len(h) + Len(q) + 1]
      BY <1>1, <3>1
    <3> HIDE DEF h, q
    <3>3. /\ Delivered(h, Append(q, unit), stream)
          /\ Len(h) + Len(Append(q, unit)) = Len(h) + Len(q) + 1
      BY <3>2, DeliveredMore
    <3> QED BY <3>3 DEF h, q
  <2>2. Live(s, e) /\ Live(s, e)'
    BY <1>2, <1>3 DEF Wrote, Live
  <2> QED BY <1>2, <1>3, <2>1, <2>2 DEF SentTo
<1>4. CASE peer[s][e] = "gone" /\ peer'[s][e] = "reset" /\ outq' = outq
  BY <1>2, <1>4 DEF Live, SentTo
<1> QED BY <1>3, <1>4 DEF Wrote, Puts

LEMMA ClosedDelivered ==
  ASSUME Typed, NEW s \in DOMAIN script, NEW e \in Ends, NEW stream \in Seq(Units),
         Delivered(got[s][e], outq[s][e], stream), Closed(s, e)
  PROVE  /\ Delivered(got'[s][e], outq'[s][e], stream)
         /\ ~ Live(s, e)' \/ (Live(s, e) <=> Live(s, e)')
         /\ (inq[s][e] = << >> \/ sock[s][e] # "open") => SentTo(s, e)' = SentTo(s, e)
         /\ SentTo(s, e)' <= SentTo(s, e)
<1>1. /\ s \in Sessions /\ outq[s][e] \in Seq(Units) /\ got[s][e] \in Seq(Units)
      /\ Len(got[s][e]) \in Nat /\ Len(outq[s][e]) \in Nat
  BY QueueTypes
<1>2. CASE sock[s][e] # "open"
  <2>1. got' = got /\ outq' = outq /\ sock' = sock /\ peer' = peer
    BY <1>2 DEF Closed
  <2>2. SentTo(s, e)' = SentTo(s, e)
    BY <2>1 DEF SentTo
  <2>3. SentTo(s, e)' <= SentTo(s, e)
    BY <2>2, SentIsNumber
  <2>4. Live(s, e) <=> Live(s, e)'
    BY <2>1 DEF Live
  <2> QED BY <2>1, <2>2, <2>3, <2>4
<1>3. CASE sock[s][e] = "open"
  <2>1. /\ got' = got /\ sock'[s][e] = "closed" /\ outq'[s][e] \in Prefixes(outq[s][e])
        /\ (inq[s][e] = << >> => outq'[s][e] = outq[s][e])
    BY <1>3 DEF Closed, Puts
  <2>2. /\ Delivered(got[s][e], outq'[s][e], stream)
        /\ Len(outq'[s][e]) \in Nat /\ Len(outq'[s][e]) <= Len(outq[s][e])
    BY <1>1, <2>1, DeliveredCut
  <2>3. SentTo(s, e)' <= SentTo(s, e)
    <3>1. PICK g, m, n \in Nat : g = Len(got[s][e]) /\ m = Len(outq'[s][e]) /\ n = Len(outq[s][e])
      BY <1>1, <2>2
    <3>2. m <= n => g + m <= g + n
      OBVIOUS
    <3> QED BY <2>1, <2>2, <3>1, <3>2 DEF SentTo
  <2> QED BY <1>3, <2>1, <2>2, <2>3 DEF Live, SentTo
<1> QED BY <1>2, <1>3

(* Nothing is heard but what was sent, and what a peer does itself.        *)
LEMMA HeardDelivered ==
  ASSUME Typed, NEW s \in DOMAIN script, NEW e \in Ends, NEW stream \in Seq(Units),
         Delivered(got[s][e], outq[s][e], stream), Hear(s, e)
  PROVE  Delivered(got'[s][e], outq'[s][e], stream) /\ SentTo(s, e)' = SentTo(s, e)
<1>1. /\ s \in Sessions /\ outq[s][e] \in Seq(Units) /\ got[s][e] \in Seq(Units)
  BY QueueTypes
<1>2. /\ got'[s][e] = Append(got[s][e], Head(outq[s][e])) /\ outq'[s][e] = Tail(outq[s][e])
      /\ outq[s][e] # << >>
  BY <1>1, HearEffect DEF Puts
<1> DEFINE h == got[s][e]  q == outq[s][e]
<1>3. h \in Seq(Units) /\ q \in Seq(Units) /\ Delivered(h, q, stream) /\ q # << >>
  BY <1>1, <1>2
<1> HIDE DEF h, q
<1>4. /\ Delivered(Append(h, Head(q)), Tail(q), stream)
      /\ Len(Append(h, Head(q))) + Len(Tail(q)) = Len(h) + Len(q)
  BY <1>3, DeliveredHeard
<1> QED BY <1>2, <1>4 DEF SentTo, h, q

LEMMA LeftDelivered ==
  ASSUME Typed, NEW s \in DOMAIN script, NEW e \in Ends, NEW stream \in Seq(Units),
         Delivered(got[s][e], outq[s][e], stream), Go(s, e)
  PROVE  /\ Delivered(got'[s][e], outq'[s][e], stream)
         /\ ~ Live(s, e)' /\ SentTo(s, e)' <= SentTo(s, e)
<1>1. /\ s \in Sessions /\ outq[s][e] \in Seq(Units) /\ got[s][e] \in Seq(Units)
      /\ Len(got[s][e]) \in Nat /\ Len(outq[s][e]) \in Nat
  BY QueueTypes
<1>2. got' = got /\ outq'[s][e] = << >> /\ peer'[s][e] = "gone"
  BY <1>1, GoEffect DEF Puts
<1>3. /\ << >> \in Prefixes(outq[s][e]) /\ Len(<< >>) = 0
  BY <1>1, Cuts
<1>4. Delivered(got[s][e], << >>, stream)
  BY <1>1, <1>3, DeliveredCut
<1>5. PICK g, q \in Nat : g = Len(got[s][e]) /\ q = Len(outq[s][e])
  BY <1>1
<1>6. g + 0 <= g + q
  OBVIOUS
<1> QED BY <1>2, <1>3, <1>4, <1>5, <1>6 DEF Live, SentTo

LEMMA SaidDelivered ==
  ASSUME Typed, NEW s \in DOMAIN script, NEW e \in Ends, NEW stream \in Seq(Units),
         Delivered(got[s][e], outq[s][e], stream), Say(s, e)
  PROVE  /\ Delivered(got'[s][e], outq'[s][e], stream)
         /\ (Live(s, e)' <=> Live(s, e)) /\ SentTo(s, e)' <= SentTo(s, e)
         /\ (sock[s][e] = "open" => SentTo(s, e)' = SentTo(s, e))
<1>1. /\ s \in Sessions /\ outq[s][e] \in Seq(Units) /\ got[s][e] \in Seq(Units)
      /\ Len(got[s][e]) \in Nat /\ Len(outq[s][e]) \in Nat
  BY QueueTypes
<1>2. /\ got' = got /\ UNCHANGED << sock, peer >>
      /\ \/ sock[s][e] = "open" /\ outq' = outq
         \/ sock[s][e] = "closed" /\ outq'[s][e] \in Prefixes(outq[s][e])
  BY <1>1, SayEffect
<1>3. CASE sock[s][e] = "open" /\ outq' = outq
  <2>1. SentTo(s, e)' = SentTo(s, e)
    BY <1>2, <1>3 DEF SentTo
  <2>2. SentTo(s, e)' <= SentTo(s, e)
    BY <2>1, SentIsNumber
  <2>3. Live(s, e) <=> Live(s, e)'
    BY <1>2 DEF Live
  <2> QED BY <1>2, <1>3, <2>1, <2>2, <2>3
<1>4. CASE sock[s][e] = "closed" /\ outq'[s][e] \in Prefixes(outq[s][e])
  <2>1. /\ Delivered(got[s][e], outq'[s][e], stream)
        /\ Len(outq'[s][e]) \in Nat /\ Len(outq'[s][e]) <= Len(outq[s][e])
    BY <1>1, <1>4, DeliveredCut
  <2>2. PICK g, m, n \in Nat : g = Len(got[s][e]) /\ m = Len(outq'[s][e]) /\ n = Len(outq[s][e])
    BY <1>1, <2>1
  <2>3. m <= n => g + m <= g + n
    OBVIOUS
  <2> QED BY <1>2, <1>4, <2>1, <2>2, <2>3 DEF Live, SentTo
<1> QED BY <1>2, <1>3, <1>4
-----------------------------------------------------------------------------
(* The way up. *)

(* What the server was sent begins the stream that is meant for it.        *)
UpOut(s) ==
  /\ Delivered(got[s]["server"], outq[s]["server"], Upstream(script[s]))
  /\ (pc[s] \in {"dial", "hello"} => script[s].host \in DOMAIN Route)
  /\ (pc[s] = "hello" => SentTo(s, "server") = 0)
  /\ (Live(s, "server") /\ pc[s] \in {"login", "enter", "forward"} => SentTo(s, "server") = 1)

(* The loop has what follows, and so far the node has read.                *)
UpLoop(s, b) ==
  loop[s]["up"] \in {"read", "write"} /\ Live(s, "server") =>
    /\ Fixed(script[s]) <= SentTo(s, "server")
    /\ b = SentTo(s, "server") + Len(buf[s]["up"])
    /\ Carries(buf[s]["up"], Upstream(script[s]), SentTo(s, "server"))
UpFrom(s, b) ==
  /\ Queue(s, "client", b)
  /\ (pc[s] \in {"new", "handshake"} => b = 0)
  /\ (pc[s] \in {"dial", "hello", "login"} => b = 1)
  /\ (pc[s] \in {"enter", "forward"} => b = 2)
  /\ UpLoop(s, b)

UpInv(s) == UpOut(s) /\ \E b \in Nat : UpFrom(s, b)

(* The handler does not go on reading or forwarding packets.               *)
Elsewise == {"copy", "request", "answer", "leave", "hangup", "end", "ended"}

(* Steps that send the server nothing.                                     *)
LEMMA UpAside ==
  ASSUME Typed, NEW s \in DOMAIN script, UpOut(s), NEW b \in Nat, UpFrom(s, b),
         script' = script, Queue(s, "client", b)',
         Delivered(got'[s]["server"], outq'[s]["server"], Upstream(script[s])),
         Live(s, "server")' => Live(s, "server") /\ SentTo(s, "server")' = SentTo(s, "server"),
         pc'[s] = "hello" => SentTo(s, "server")' = SentTo(s, "server"),
         \/ pc'[s] = pc[s] \/ pc'[s] \in Elsewise
         \/ pc[s] = "new" /\ pc'[s] = "handshake"
         \/ pc[s] = "enter" /\ pc'[s] = "forward",
         \/ loop'[s]["up"] = loop[s]["up"] /\ buf'[s]["up"] = buf[s]["up"]
         \/ loop'[s]["up"] = "done"
  PROVE  UpOut(s)' /\ UpFrom(s, b)'
<1>1. UpOut(s)'
  <2>1. Upstream(script[s])' = Upstream(script[s])
    OBVIOUS
  <2> QED BY <2>1 DEF UpOut, Elsewise
<1>2. UpLoop(s, b)'
  BY DEF UpFrom, UpLoop
<1> QED BY <1>1, <1>2 DEF UpFrom, Elsewise

LEMMA UpQuits ==
  ASSUME NEW s \in DOMAIN script, UpOut(s), NEW b \in Nat, Queue(s, "client", b)',
         script' = script, UNCHANGED << got, outq >>,
         pc'[s] \in Elsewise, loop'[s]["up"] \notin {"read", "write"}
  PROVE  UpOut(s)' /\ UpFrom(s, b)'
<1>1. UpOut(s)'
  BY DEF UpOut, Elsewise
<1>2. UpLoop(s, b)'
  BY DEF UpLoop
<1> QED BY <1>1, <1>2 DEF UpFrom, Elsewise

(* The first unit the client wrote, and the next.                          *)
LEMMA FirstUnit ==
  ASSUME Typed, NEW s \in DOMAIN script, NEW b \in Nat, Queue(s, "client", b),
         Len(inq[s]["client"]) \in Nat \ {0}
  PROVE  Head(inq[s]["client"]) = ClientStream(script[s])[b + 1]
<1> DEFINE q == inq[s]["client"]
<1>1. q \in Seq(Units) /\ Carries(q, ClientStream(script[s]), b) /\ Len(q) \in Nat \ {0}
  BY QueueTypes, TwoEnds DEF Queue, Arrives, Stream
<1> HIDE DEF q
<1>2. q # << >>
  BY <1>1
<1>3. Head(q) = ClientStream(script[s])[b + 1]
  BY <1>1, <1>2, CarriesTail
<1> QED BY <1>3 DEF q

LEMMA UpTaken ==
  ASSUME Typed, NEW s \in DOMAIN script, NEW b \in Nat, Queue(s, "client", b),
         Len(inq[s]["client"]) \in Nat \ {0},
         Puts(inq', inq, s, "client", SubSeq(inq[s]["client"], 1 + 1, Len(inq[s]["client"]))),
         UNCHANGED << script, said, sock, peer, cutOff >>
  PROVE  Queue(s, "client", b + 1)' /\ b + 1 \in Nat
<1>1. "client" \in Ends /\ 1 \in 0 .. Len(inq[s]["client"])
  BY TwoEnds
<1>2. inq'[s]["client"] = SubSeq(inq[s]["client"], 1 + 1, Len(inq[s]["client"]))
  BY DEF Puts
<1> QED BY <1>1, <1>2, QueueTaken
LEMMA UpTypes ==
  ASSUME Typed, NEW s \in DOMAIN script
  PROVE  /\ s \in Sessions /\ script[s] \in Scripts
         /\ Upstream(script[s]) \in Seq(Units) /\ ClientStream(script[s]) \in Seq(Units)
         /\ Len(Upstream(script[s])) \in Nat /\ Len(ClientStream(script[s])) \in Nat
         /\ 2 <= Len(ClientStream(script[s]))
         /\ "client" \in Ends /\ "server" \in Ends /\ "up" \in Ways
         /\ Stream(s, "client") = ClientStream(script[s])
         /\ Rewritten(script[s]) \in Units /\ Login(script[s].player, FALSE) \in Units
<1>1. s \in Sessions /\ script[s] \in Scripts
  BY ScriptsOfCasts DEF Typed
<1>2. /\ Upstream(script[s]) \in Seq(Units) /\ ClientStream(script[s]) \in Seq(Units)
  BY <1>1, Upstreams, ClientStreams
<1>3. 2 <= Len(ClientStream(script[s]))
  <2>1. PICK n \in Nat : n = script[s].up
    BY <1>1, ScriptsAreTyped
  <2>2. 2 <= 2 + n
    OBVIOUS
  <2> QED BY <1>1, <2>1, <2>2, ClientStreams
<1> QED BY <1>1, <1>2, <1>3, TwoEnds, LenProperties, ScriptsOfCasts DEF Stream, Typed

(* Without a route nothing is sent, so what was sent shows there is one.   *)
LEMMA SentIsRouted ==
  ASSUME Typed, NEW s \in DOMAIN script, UpOut(s), SentTo(s, "server") # 0
  PROVE  script[s].host \in DOMAIN Route
<1>1. CASE script[s].host \notin DOMAIN Route
  <2>1. Len(Upstream(script[s])) = 0
    BY <1>1 DEF Upstream
  <2>2. SentTo(s, "server") <= Len(Upstream(script[s]))
    BY DEF UpOut, Delivered, SentTo
  <2>3. SentTo(s, "server") \in Nat
    BY SentIsNumber, TwoEnds
  <2> QED BY <2>1, <2>2, <2>3
<1> QED BY <1>1

LEMMA UpHandshake ==
  ASSUME Typed, NEW s \in DOMAIN script, LoopInv(s), UpOut(s), NEW b \in Nat, UpFrom(s, b),
         ReadHandshake(s)
  PROVE  UpInv(s)'
<1>1. /\ UNCHANGED << script, loop, buf, peer, sock, outq, said, got, cutOff >>
      /\ pc[s] = "handshake" /\ s \in Sessions /\ b = 0
      /\ loop[s]["up"] \notin {"read", "write"}
  BY UpTypes, ReadHandshakeEffect DEF history, UpFrom, LoopInv
<1>2. Queue(s, "client", b)
  BY DEF UpFrom
<1>3. CASE Over(s, "client") /\ Refused(s) /\ UNCHANGED inq
  <2>1. Queue(s, "client", b)'
    BY <1>1, <1>2, <1>3, QueueKept, TwoEnds DEF Whole
  <2>2. UpOut(s)' /\ UpFrom(s, b)'
    BY <1>1, <1>3, <2>1, UpQuits DEF Refused, Elsewise
  <2> QED BY <2>2 DEF UpInv
<1>4. CASE /\ Puts(inq', inq, s, "client",
                   SubSeq(inq[s]["client"], 1 + 1, Len(inq[s]["client"])))
           /\ Len(inq[s]["client"]) \in Nat \ {0}
  <2>1. Queue(s, "client", b + 1)' /\ b + 1 \in Nat
    BY <1>1, <1>2, <1>4, UpTaken
  <2>2. CASE Refused(s) \/ pc'[s] = "end"
    <3>1. UpOut(s)' /\ UpFrom(s, b + 1)'
      BY <1>1, <2>1, <2>2, UpQuits DEF Refused, Elsewise
    <3> QED BY <2>1, <3>1 DEF UpInv
  <2>3. CASE /\ Head(inq[s]["client"]) # Malformed
             /\ Head(inq[s]["client"]).host \in DOMAIN Route /\ pc'[s] = "dial"
    <3>1. Head(inq[s]["client"]) = ClientStream(script[s])[b + 1] /\ b + 1 = 1
      BY <1>1, <1>2, <1>4, FirstUnit
    <3>2. Head(inq[s]["client"]) = Handshake(script[s].host, script[s].mark, script[s].next)
      BY <2>3, <3>1, UpTypes, ClientStreams
    <3>3. script[s].host \in DOMAIN Route
      BY <2>3, <3>2 DEF Handshake
    <3>4. UpOut(s)'
      BY <1>1, <2>3, <3>3 DEF UpOut
    <3>5. UpFrom(s, b + 1)'
      BY <1>1, <2>1, <2>3, <3>1 DEF UpFrom, UpLoop
    <3> QED BY <2>1, <3>4, <3>5 DEF UpInv
  <2> QED BY <1>1, <1>4, <2>2, <2>3, ReadHandshakeEffect DEF Over, Arrived
<1> QED BY <1>1, <1>3, <1>4, ReadHandshakeEffect

LEMMA UpDial ==
  ASSUME Typed, NEW s \in DOMAIN script, PhaseInv(s), LoopInv(s), UpOut(s), NEW b \in Nat,
         UpFrom(s, b), Dial(s)
  PROVE  UpInv(s)'
<1>1. /\ UNCHANGED << script, loop, buf, inq, outq, said, got, cutOff >>
      /\ pc[s] = "dial" /\ s \in Sessions
      /\ loop[s]["up"] \notin {"read", "write"} /\ Queue(s, "client", b)
  BY UpTypes, DialEffect DEF history, UpFrom, LoopInv
<1>2. Queue(s, "client", b)'
  <2>1. peer'[s]["client"] = peer[s]["client"] /\ sock'[s]["client"] = sock[s]["client"]
    BY <1>1, DialEffect, TwoEnds DEF Puts
  <2> QED BY <1>1, <2>1, QueueKept, TwoEnds DEF Whole
<1>3. CASE Refused(s)
  <2>1. UpOut(s)' /\ UpFrom(s, b)'
    BY <1>1, <1>2, <1>3, UpQuits DEF Refused, Elsewise
  <2> QED BY <2>1 DEF UpInv
<1>4. CASE pc'[s] = "hello"
  <2>1. got[s]["server"] = << >> /\ outq[s]["server"] = << >>
    BY <1>1, TwoEnds DEF PhaseInv
  <2>2. SentTo(s, "server")' = 0
    BY <1>1, <2>1 DEF SentTo
  <2>3. UpOut(s)' /\ UpFrom(s, b)'
    BY <1>1, <1>2, <1>4, <2>2 DEF UpOut, UpFrom, UpLoop
  <2> QED BY <2>3 DEF UpInv
<1> QED BY <1>1, <1>3, <1>4, DialEffect

LEMMA UpLogin ==
  ASSUME Typed, NEW s \in DOMAIN script, LoopInv(s), UpOut(s), NEW b \in Nat, UpFrom(s, b),
         ReadLogin(s)
  PROVE  UpInv(s)'
<1>1. /\ UNCHANGED << script, loop, buf, peer, sock, outq, said, got, cutOff >>
      /\ pc[s] = "login" /\ s \in Sessions /\ b = 1
      /\ loop[s]["up"] \notin {"read", "write"}
  BY UpTypes, ReadLoginEffect DEF history, UpFrom, LoopInv
<1>2. Queue(s, "client", b)
  BY DEF UpFrom
<1>3. CASE pc'[s] = "hangup" /\ UNCHANGED inq
  <2>1. Queue(s, "client", b)'
    BY <1>1, <1>2, <1>3, QueueKept, TwoEnds DEF Whole
  <2>2. UpOut(s)' /\ UpFrom(s, b)'
    BY <1>1, <1>3, <2>1, UpQuits DEF Elsewise
  <2> QED BY <2>2 DEF UpInv
<1>4. CASE /\ Puts(inq', inq, s, "client",
                   SubSeq(inq[s]["client"], 1 + 1, Len(inq[s]["client"])))
           /\ Len(inq[s]["client"]) \in Nat \ {0} /\ pc'[s] \in {"hangup", "enter"}
  <2>1. Queue(s, "client", b + 1)' /\ b + 1 \in Nat /\ b + 1 = 2
    BY <1>1, <1>2, <1>4, UpTaken
  <2>2. CASE pc'[s] = "hangup"
    <3>1. UpOut(s)' /\ UpFrom(s, b + 1)'
      BY <1>1, <2>1, <2>2, UpQuits DEF Elsewise
    <3> QED BY <2>1, <3>1 DEF UpInv
  <2>3. CASE pc'[s] = "enter"
    <3>1. UpOut(s)'
      BY <1>1, <2>3 DEF UpOut, Live, SentTo
    <3>2. UpFrom(s, b + 1)'
      BY <1>1, <2>1, <2>3 DEF UpFrom, UpLoop
    <3> QED BY <2>1, <3>1, <3>2 DEF UpInv
  <2> QED BY <1>4, <2>2, <2>3
<1> QED BY <1>1, <1>3, <1>4, ReadLoginEffect
(* A Write to the server reads nothing from the client.                    *)
LEMMA UpQueueKept ==
  ASSUME Typed, NEW s \in DOMAIN script, NEW b \in Nat, Queue(s, "client", b), script' = script,
         UNCHANGED << inq, said, sock >>, peer'[s]["client"] = peer[s]["client"]
  PROVE  Queue(s, "client", b)'
BY QueueKept, TwoEnds DEF Whole

LEMMA EmptyBuffer ==
  ASSUME Typed, NEW s \in Sessions, NEW w \in Ways, LoopInv(s), loop[s][w] # "write"
  PROVE  buf[s][w] = << >> /\ Len(buf[s][w]) = 0
<1>1. buf[s][w] = << >>
  BY DEF LoopInv
<1> QED BY <1>1

LEMMA UpHello ==
  ASSUME Typed, NEW s \in DOMAIN script, LoopInv(s), UpOut(s), NEW b \in Nat, UpFrom(s, b),
         ForwardHandshake(s)
  PROVE  UpInv(s)'
<1> DEFINE F == Upstream(script[s])  unit == Rewritten(script[s])
<1>1. /\ UNCHANGED << script, buf, cutOff >> /\ pc[s] = "hello" /\ s \in Sessions /\ b = 1
      /\ loop[s]["up"] \notin {"read", "write"} /\ Queue(s, "client", b)
      /\ script[s].host \in DOMAIN Route /\ SentTo(s, "server") = 0
  BY UpTypes, ForwardHandshakeEffect DEF history, UpFrom, UpOut, LoopInv
<1>2. CASE /\ Refused(s) /\ loop'[s] = loop[s]
           /\ UNCHANGED << peer, sock, inq, outq, said, got >>
  <2>1. Queue(s, "client", b)'
    BY <1>1, <1>2, UpQueueKept
  <2>2. UpOut(s)' /\ UpFrom(s, b)'
    BY <1>1, <1>2, <2>1, UpQuits DEF Refused, Elsewise
  <2> QED BY <2>2 DEF UpInv
<1>3. CASE /\ Wrote(s, "server", unit)
           /\ \/ LogsIn(script[s]) /\ pc'[s] = "login" /\ loop'[s] = loop[s]
              \/ ~ LogsIn(script[s]) /\ Starts(s)
  <2>1. peer'[s]["client"] = peer[s]["client"] /\ UNCHANGED << sock, inq, said, got >>
    BY <1>1, <1>3, TwoEnds DEF Wrote, Puts
  <2>2. Queue(s, "client", b)'
    BY <1>1, <2>1, UpQueueKept
  <2>3. SentTo(s, "server") < Len(F) /\ unit = F[SentTo(s, "server") + 1]
    <3>1. Len(F) = Len(ClientStream(script[s])) /\ F[1] = unit
      BY <1>1, UpTypes, Upstreams
    <3>2. 2 <= Len(F) /\ Len(F) \in Nat
      BY <3>1, UpTypes
    <3>3. 0 < Len(F) /\ 0 + 1 = 1
      BY <3>2
    <3> QED BY <1>1, <3>1, <3>3
  <2>4. /\ Delivered(got'[s]["server"], outq'[s]["server"], F)
        /\ \/ Live(s, "server")' /\ SentTo(s, "server")' = SentTo(s, "server") + 1
           \/ ~ Live(s, "server")'
    <3>1. /\ F \in Seq(Units) /\ unit \in Units /\ "server" \in Ends
          /\ Delivered(got[s]["server"], outq[s]["server"], F)
      BY UpTypes DEF UpOut
    <3> HIDE DEF F, unit
    <3> QED BY <1>3, <2>3, <3>1, WroteDelivered
  <2>5. Live(s, "server")' => SentTo(s, "server")' = 1
    BY <1>1, <2>4
  <2>6. UpOut(s)'
    BY <1>1, <1>3, <2>4, <2>5 DEF UpOut, Starts
  <2>7. UpLoop(s, b)'
    <3>1. CASE loop'[s] = loop[s]
      BY <1>1, <3>1 DEF UpLoop
    <3>2. CASE ~ LogsIn(script[s]) /\ Starts(s)
      <4>1. buf'[s]["up"] = << >> /\ Len(buf'[s]["up"]) = 0
        BY <1>1, EmptyBuffer, TwoEnds
      <4>2. Carries(buf'[s]["up"], Upstream(script'[s]), SentTo(s, "server")')
        BY <4>1 DEF Carries
      <4>3. Fixed(script'[s]) = 1
        BY <1>1, <3>2 DEF Fixed
      <4> QED BY <1>1, <2>5, <4>1, <4>2, <4>3 DEF UpLoop
    <3> QED BY <1>3, <3>1, <3>2
  <2>8. UpFrom(s, b)'
    BY <1>1, <1>3, <2>2, <2>7 DEF UpFrom, Starts
  <2> QED BY <2>6, <2>8 DEF UpInv
<1> QED BY <1>1, <1>2, <1>3, ForwardHandshakeEffect

LEMMA UpForward ==
  ASSUME Typed, NEW s \in DOMAIN script, LoopInv(s), ScreenInv(s), UpOut(s), NEW b \in Nat,
         UpFrom(s, b), ForwardLogin(s)
  PROVE  UpInv(s)'
<1> DEFINE F == Upstream(script[s])  unit == Login(script[s].player, FALSE)
<1>1. /\ UNCHANGED << script, buf, cutOff >> /\ pc[s] = "forward" /\ s \in Sessions /\ b = 2
      /\ loop[s]["up"] \notin {"read", "write"} /\ Queue(s, "client", b)
      /\ LogsIn(script[s])
  BY UpTypes, ForwardLoginEffect DEF history, UpFrom, LoopInv, ScreenInv
<1>2. CASE /\ pc'[s] = "leave" /\ loop'[s] = loop[s]
           /\ UNCHANGED << peer, sock, inq, outq, said, got >>
  <2>1. Queue(s, "client", b)'
    BY <1>1, <1>2, UpQueueKept
  <2>2. UpOut(s)' /\ UpFrom(s, b)'
    BY <1>1, <1>2, <2>1, UpQuits DEF Elsewise
  <2> QED BY <2>2 DEF UpInv
<1>3. CASE Wrote(s, "server", unit) /\ Starts(s)
  <2>1. peer'[s]["client"] = peer[s]["client"] /\ UNCHANGED << sock, inq, said, got >>
    BY <1>1, <1>3, TwoEnds DEF Wrote, Puts
  <2>2. Queue(s, "client", b)'
    BY <1>1, <2>1, UpQueueKept
  <2>3. ASSUME peer[s]["server"] = "open"
        PROVE  SentTo(s, "server") = 1 /\ SentTo(s, "server") < Len(F)
               /\ unit = F[SentTo(s, "server") + 1]
    <3>1. SentTo(s, "server") = 1
      BY <1>1, <1>3, <2>3 DEF Wrote, Live, UpOut
    <3>2. script[s].host \in DOMAIN Route
      BY <3>1, SentIsRouted
    <3>3. Len(F) = Len(ClientStream(script[s])) /\ F[2] = unit
      BY <1>1, <3>2, UpTypes, Upstreams
    <3>4. 2 <= Len(F) /\ Len(F) \in Nat
      BY <3>3, UpTypes
    <3>5. 1 < Len(F) /\ 1 + 1 = 2
      BY <3>4
    <3> QED BY <3>1, <3>3, <3>5
  <2>4. /\ Delivered(got'[s]["server"], outq'[s]["server"], F)
        /\ \/ Live(s, "server") /\ Live(s, "server")'
              /\ SentTo(s, "server")' = SentTo(s, "server") + 1
           \/ ~ Live(s, "server")'
    <3>1. /\ F \in Seq(Units) /\ unit \in Units /\ "server" \in Ends
          /\ Delivered(got[s]["server"], outq[s]["server"], F)
      BY UpTypes DEF UpOut
    <3> HIDE DEF F, unit
    <3> QED BY <1>3, <2>3, <3>1, WroteDelivered
  <2>5. Live(s, "server")' => SentTo(s, "server")' = 2
    <3>1. peer[s]["server"] = "open" => SentTo(s, "server") = 1
      BY <2>3
    <3>2. Live(s, "server")' => SentTo(s, "server") = 1 /\ SentTo(s, "server")' = 1 + 1
      BY <2>4, <3>1 DEF Live
    <3> QED BY <3>2
  <2>6. UpOut(s)'
    BY <1>1, <1>3, <2>4 DEF UpOut, Starts
  <2>7. UpLoop(s, b)'
    <3>1. buf'[s]["up"] = << >> /\ Len(buf'[s]["up"]) = 0
      BY <1>1, EmptyBuffer, TwoEnds
    <3>2. Carries(buf'[s]["up"], Upstream(script'[s]), SentTo(s, "server")')
      BY <3>1 DEF Carries
    <3>3. Fixed(script'[s]) = 2
      BY <1>1 DEF Fixed
    <3> QED BY <1>1, <2>5, <3>1, <3>2, <3>3 DEF UpLoop
  <2>8. UpFrom(s, b)'
    BY <1>1, <1>3, <2>2, <2>7 DEF UpFrom, Starts
  <2> QED BY <2>6, <2>8 DEF UpInv
<1> QED BY <1>1, <1>2, <1>3, ForwardLoginEffect
LEMMA UpCopyRead ==
  ASSUME Typed, NEW s \in DOMAIN script, LoopInv(s), UpOut(s), NEW b \in Nat, UpFrom(s, b),
         CopyRead(s, "up")
  PROVE  UpInv(s)'
<1> DEFINE F == Upstream(script[s])  S == ClientStream(script[s])  q == inq[s]["client"]
           n == SentTo(s, "server")
<1>1. /\ UNCHANGED << script, peer, sock, outq, said, got, cutOff >>
      /\ loop[s]["up"] = "read" /\ s \in Sessions /\ Queue(s, "client", b)
      /\ "up" \in Ways
  BY UpTypes, CopyReadEffect DEF history, UpFrom
<1>2. buf[s]["up"] = << >> /\ Len(buf[s]["up"]) = 0
  BY <1>1, EmptyBuffer, TwoEnds
<1>3. CASE Finishes(s, "up") /\ UNCHANGED << inq, buf >>
  <2>1. Queue(s, "client", b)'
    BY <1>1, <1>3, UpQueueKept
  <2>2. UpOut(s)' /\ UpFrom(s, b)'
    <3>1. Delivered(got'[s]["server"], outq'[s]["server"], F)
      BY <1>1 DEF UpOut
    <3>2. SentTo(s, "server")' = SentTo(s, "server") /\ (Live(s, "server")' <=> Live(s, "server"))
      BY <1>1 DEF SentTo, Live
    <3>3. pc'[s] = pc[s] /\ loop'[s]["up"] = "done"
      BY <1>3 DEF Finishes, PutsWay
    <3> QED BY <1>1, <2>1, <3>1, <3>2, <3>3, UpAside
  <2> QED BY <2>2 DEF UpInv
<1>4. ASSUME NEW m \in 1 .. Len(q),
             PutsWay(buf', buf, s, "up", SubSeq(q, 1, m)),
             Puts(inq', inq, s, "client", SubSeq(q, m + 1, Len(q))),
             PutsWay(loop', loop, s, "up", "write"), pc' = pc
      PROVE  UpInv(s)'
  <2>1. /\ q \in Seq(Units) /\ Len(q) \in Nat /\ m \in 0 .. Len(q) /\ m \in Nat
        /\ S \in Seq(Units) /\ F \in Seq(Units)
        /\ Arrives(q, S, b, said[s]["client"]) /\ said[s]["client"] \in Nat
    <3>1. q \in Seq(Units) /\ Len(q) \in Nat /\ said[s]["client"] \in Nat
      BY QueueTypes, UpTypes
    <3>2. m \in 0 .. Len(q) /\ m \in Nat
      BY <3>1
    <3> QED BY <1>1, <3>1, <3>2, UpTypes DEF Queue
  <2>2. Queue(s, "client", b + m)' /\ b + m \in Nat
    BY <1>1, <1>4, <2>1, QueueTaken, UpTypes DEF Puts
  <2>3. buf'[s]["up"] = SubSeq(q, 1, m) /\ Len(SubSeq(q, 1, m)) = m
        /\ Carries(SubSeq(q, 1, m), S, b)
    <3>1. Len(SubSeq(q, 1, m)) = m /\ Carries(SubSeq(q, 1, m), S, b)
      <4> HIDE DEF q, S
      <4> QED BY <2>1, CarriesPrefix DEF Arrives
    <3> QED BY <1>4, <3>1 DEF PutsWay
  <2>4. ASSUME Live(s, "server")
        PROVE  /\ Fixed(script[s]) <= n /\ n \in Nat /\ b = n
               /\ Carries(SubSeq(q, 1, m), F, n)
    <3>1. Fixed(script[s]) <= n /\ b = n + 0 /\ n \in Nat
      BY <1>1, <1>2, <2>4, SentIsNumber, TwoEnds DEF UpFrom, UpLoop
    <3>2. Fixed(script[s]) \in {1, 2}
      BY UpTypes, Upstreams
    <3>3. b = n /\ n # 0
      BY <3>1, <3>2
    <3>4. script[s].host \in DOMAIN Route
      BY <3>3, SentIsRouted
    <3>5. \A i \in 1 .. Len(S) : i > Fixed(script[s]) => F[i] = S[i]
      BY <3>4, UpTypes, Upstreams
    <3>6. b + Len(q) <= Len(S) /\ Len(S) \in Nat
      <4>1. b + Len(q) <= said[s]["client"] /\ said[s]["client"] <= Len(S) /\ Len(S) \in Nat
        BY <2>1, UpTypes DEF Arrives
      <4> HIDE DEF q, S
      <4> QED BY <2>1, <4>1
    <3>7. ASSUME NEW i \in 1 .. m PROVE SubSeq(q, 1, m)[i] = F[n + i]
      <4>1. n + i \in 1 .. Len(S) /\ n + i > Fixed(script[s])
        <5> HIDE DEF q, S, n
        <5> QED BY <2>1, <3>1, <3>2, <3>3, <3>6
      <4>2. F[n + i] = S[n + i]
        <5> HIDE DEF F, S, n
        <5> QED BY <3>5, <4>1
      <4>3. SubSeq(q, 1, m)[i] = S[b + i]
        BY <2>3 DEF Carries
      <4> QED BY <3>3, <4>2, <4>3
    <3> HIDE DEF F, n
    <3> QED BY <2>3, <3>1, <3>3, <3>7 DEF Carries
  <2>5. UpOut(s)'
    BY <1>1, <1>4 DEF UpOut, Live, SentTo
  <2>6. UpLoop(s, b + m)'
    <3>1. (Live(s, "server")' <=> Live(s, "server")) /\ SentTo(s, "server")' = n
      BY <1>1 DEF Live, SentTo
    <3> HIDE DEF n
    <3> QED BY <1>1, <2>3, <2>4, <3>1 DEF UpLoop
  <2>7. UpFrom(s, b + m)'
    <3>1. pc[s] \notin {"new", "handshake", "dial", "hello", "login", "enter", "forward"}
      BY <1>1 DEF LoopInv
    <3> QED BY <1>4, <2>2, <2>6, <3>1 DEF UpFrom
  <2> QED BY <2>2, <2>5, <2>7 DEF UpInv
<1> QED BY <1>1, <1>3, <1>4, CopyReadEffect, TwoEnds

LEMMA UpCopyWrite ==
  ASSUME Typed, NEW s \in DOMAIN script, LoopInv(s), UpOut(s), NEW b \in Nat, UpFrom(s, b),
         CopyWrite(s, "up")
  PROVE  UpInv(s)'
<1> DEFINE F == Upstream(script[s])  q == buf[s]["up"]  n == SentTo(s, "server")
<1>1. /\ UNCHANGED << script, cutOff >>
      /\ loop[s]["up"] = "write" /\ s \in Sessions /\ Queue(s, "client", b)
      /\ "up" \in Ways /\ q \in Seq(Units) /\ q # << >> /\ n \in Nat /\ F \in Seq(Units)
      /\ "server" \in Ends /\ Dst("up") = "server"
  <2>1. s \in Sessions /\ "up" \in Ways /\ F \in Seq(Units) /\ n \in Nat
    BY UpTypes, SentIsNumber
  <2> QED BY <2>1, CopyWriteEffect, TwoEnds DEF history, UpFrom, Typed, BufTyped
<1>2. CASE /\ PutsWay(buf', buf, s, "up", << >>) /\ Finishes(s, "up")
           /\ UNCHANGED << peer, sock, inq, outq, said, got >>
  <2>1. Queue(s, "client", b)'
    BY <1>1, <1>2, UpQueueKept
  <2>2. UpOut(s)' /\ UpFrom(s, b)'
    <3>1. Delivered(got'[s]["server"], outq'[s]["server"], F)
      BY <1>2 DEF UpOut
    <3>2. SentTo(s, "server")' = SentTo(s, "server") /\ (Live(s, "server")' <=> Live(s, "server"))
      BY <1>2 DEF SentTo, Live
    <3>3. pc'[s] = pc[s] /\ loop'[s]["up"] = "done"
      BY <1>2 DEF Finishes, PutsWay
    <3> QED BY <1>1, <2>1, <3>1, <3>2, <3>3, UpAside
  <2> QED BY <2>2 DEF UpInv
<1>3. CASE /\ Wrote(s, "server", Head(q)) /\ PutsWay(buf', buf, s, "up", Tail(q))
           /\ PutsWay(loop', loop, s, "up", IF Len(q) = 1 THEN "read" ELSE "write")
           /\ pc' = pc
  <2>1. peer'[s]["client"] = peer[s]["client"] /\ UNCHANGED << sock, inq, said, got >>
    BY <1>1, <1>3, TwoEnds DEF Wrote, Puts
  <2>2. Queue(s, "client", b)'
    BY <1>1, <2>1, UpQueueKept
  <2>3. Head(q) \in Units /\ Tail(q) \in Seq(Units) /\ Len(q) \in Nat \ {0}
        /\ Len(Tail(q)) = Len(q) - 1
    <3> HIDE DEF q
    <3> QED BY <1>1, ListTail
  <2>4. ASSUME Live(s, "server")
        PROVE  /\ Fixed(script[s]) <= n /\ b = n + Len(q)
               /\ Head(q) = F[n + 1] /\ Carries(Tail(q), F, n + 1) /\ n < Len(F)
    <3>1. Fixed(script[s]) <= n /\ b = n + Len(q) /\ Carries(q, F, n)
      BY <1>1, <2>4 DEF UpFrom, UpLoop
    <3>2. Fixed(script[s]) \in {1, 2}
      BY UpTypes, Upstreams
    <3>3. n # 0
      <4> HIDE DEF n
      <4> QED BY <1>1, <3>1, <3>2
    <3>4. Len(F) = Len(ClientStream(script[s])) /\ Len(F) \in Nat
      BY <3>3, SentIsRouted, UpTypes, Upstreams
    <3>5. b <= Len(ClientStream(script[s]))
      <4>1. PICK l, c, d \in Nat : /\ l = Len(inq[s]["client"]) /\ c = said[s]["client"]
                                   /\ d = Len(ClientStream(script[s]))
        BY QueueTypes, UpTypes
      <4>2. b + l <= c /\ c <= d
        BY <1>1, <4>1, UpTypes DEF Queue, Arrives
      <4>3. b <= d
        BY <4>2
      <4> QED BY <4>1, <4>3
    <3>6. n < Len(F)
      <4> HIDE DEF n, F, q
      <4> QED BY <1>1, <2>3, <3>1, <3>4, <3>5
    <3>7. Head(q) = F[n + 1] /\ Carries(Tail(q), F, n + 1)
      <4> HIDE DEF n, F, q
      <4> QED BY <1>1, <3>1, CarriesTail
    <3> QED BY <3>1, <3>6, <3>7
  <2>5. peer[s]["server"] = "open" => n < Len(F) /\ Head(q) = F[n + 1]
    BY <1>3, <2>4 DEF Wrote, Live
  <2>6. /\ Delivered(got'[s]["server"], outq'[s]["server"], F)
        /\ \/ Live(s, "server") /\ Live(s, "server")' /\ SentTo(s, "server")' = n + 1
           \/ ~ Live(s, "server")'
    <3>1. /\ Delivered(got[s]["server"], outq[s]["server"], F)
      BY DEF UpOut
    <3> HIDE DEF F, q
    <3> QED BY <1>1, <1>3, <2>3, <2>5, <3>1, WroteDelivered
  <2>7. pc[s] \notin {"new", "handshake", "dial", "hello", "login", "enter", "forward"}
    BY <1>1 DEF LoopInv
  <2>8. UpOut(s)'
    BY <1>1, <1>3, <2>6, <2>7 DEF UpOut
  <2>9. UpLoop(s, b)'
    <3>1. buf'[s]["up"] = Tail(q)
      BY <1>3 DEF PutsWay
    <3>2. ASSUME Live(s, "server"), SentTo(s, "server")' = n + 1
          PROVE  /\ Fixed(script[s]) <= n + 1 /\ b = (n + 1) + Len(Tail(q))
                 /\ Carries(Tail(q), F, n + 1)
      <4>1. Fixed(script[s]) \in {1, 2}
        BY UpTypes, Upstreams
      <4> HIDE DEF n, F, q
      <4> QED BY <1>1, <2>3, <2>4, <3>2, <4>1
    <3> QED BY <1>1, <2>6, <3>1, <3>2 DEF UpLoop
  <2>10. UpFrom(s, b)'
    BY <1>3, <2>2, <2>7, <2>9 DEF UpFrom
  <2> QED BY <2>8, <2>10 DEF UpInv
<1> QED BY <1>1, <1>2, <1>3, CopyWriteEffect
(* Steps that have nothing to do with the server's end.                    *)
LEMMA UpOther ==
  ASSUME Typed, NEW s \in DOMAIN script, UpOut(s), NEW b \in Nat, UpFrom(s, b),
         script' = script, Queue(s, "client", b)',
         got'[s]["server"] = got[s]["server"], outq'[s]["server"] = outq[s]["server"],
         sock'[s]["server"] = sock[s]["server"], peer'[s]["server"] = peer[s]["server"],
         \/ pc'[s] = pc[s] \/ pc'[s] \in Elsewise
         \/ pc[s] = "new" /\ pc'[s] = "handshake"
         \/ pc[s] = "enter" /\ pc'[s] = "forward",
         loop'[s]["up"] = loop[s]["up"] /\ buf'[s]["up"] = buf[s]["up"]
  PROVE  UpInv(s)'
<1>1. Delivered(got'[s]["server"], outq'[s]["server"], Upstream(script[s]))
  BY DEF UpOut
<1>2. SentTo(s, "server")' = SentTo(s, "server") /\ (Live(s, "server")' <=> Live(s, "server"))
  BY DEF SentTo, Live
<1>3. UpOut(s)' /\ UpFrom(s, b)'
  BY <1>1, <1>2, UpAside
<1> QED BY <1>3 DEF UpInv

LEMMA UpAccept ==
  ASSUME Typed, NEW s \in DOMAIN script, PhaseInv(s), UpOut(s), NEW b \in Nat, UpFrom(s, b),
         Accept(s)
  PROVE  UpInv(s)'
<1>1. /\ UNCHANGED << script, loop, buf, inq, outq, said, got >> /\ s \in Sessions
      /\ pc[s] = "new" /\ pc'[s] = "handshake" /\ Queue(s, "client", b) /\ b = 0
      /\ sock'[s]["server"] = sock[s]["server"] /\ peer'[s]["server"] = peer[s]["server"]
  BY UpTypes, TwoEnds, AcceptEffect DEF Puts, UpFrom
<1>2. inq[s]["client"] = << >> /\ said[s]["client"] = 0
  BY <1>1, TwoEnds DEF PhaseInv
<1>3. Arrives(inq'[s]["client"], Stream(s, "client")', b, said'[s]["client"])
  <2>1. Stream(s, "client")' = Stream(s, "client")
    BY <1>1 DEF Stream
  <2> QED BY <1>1, <2>1 DEF Queue
<1>4. b + Len(inq'[s]["client"]) = said'[s]["client"]
  BY <1>1, <1>2
<1>5. Queue(s, "client", b)'
  BY <1>3, <1>4 DEF Queue
<1> QED BY <1>1, <1>5, UpOther

LEMMA UpRequest ==
  ASSUME Typed, NEW s \in DOMAIN script, LoopInv(s), UpOut(s), NEW b \in Nat, UpFrom(s, b),
         ReadRequest(s)
  PROVE  UpInv(s)'
<1>1. /\ UNCHANGED << script, loop, buf, peer, sock, outq, said, got, cutOff >>
      /\ pc[s] = "request" /\ pc'[s] = "answer" /\ s \in Sessions
      /\ loop[s]["up"] \notin {"read", "write"} /\ Queue(s, "client", b)
  BY UpTypes, ReadRequestEffect DEF history, UpFrom, LoopInv
<1>2. \E c \in Nat : Queue(s, "client", c)'
  BY <1>1, UpTaken, UpQueueKept, ReadRequestEffect
<1>3. PICK c \in Nat : Queue(s, "client", c)'
  BY <1>2
<1>4. UpOut(s)' /\ UpFrom(s, c)'
  BY <1>1, <1>3, UpQuits DEF Elsewise
<1> QED BY <1>4 DEF UpInv

LEMMA UpScreen ==
  ASSUME Typed, NEW s \in DOMAIN script, UpOut(s), NEW b \in Nat, UpFrom(s, b),
         NEW unit, UNCHANGED << script, cutOff >>,
         \/ Wrote(s, "client", unit)
         \/ UNCHANGED << peer, sock, inq, outq, said, got >>,
         \/ pc'[s] = pc[s] \/ pc'[s] \in Elsewise,
         loop'[s]["up"] = loop[s]["up"] /\ buf'[s]["up"] = buf[s]["up"]
  PROVE  UpInv(s)'
<1>1. /\ sock' = sock /\ inq' = inq /\ said' = said /\ got' = got
      /\ outq'[s]["server"] = outq[s]["server"] /\ peer'[s]["server"] = peer[s]["server"]
      /\ (peer'[s]["client"] = "open" => peer[s]["client"] = "open")
  BY TwoEnds DEF Wrote, Puts
<1>2. Queue(s, "client", b) /\ "client" \in Ends
  BY TwoEnds DEF UpFrom
<1>3. Queue(s, "client", b)'
  BY <1>1, <1>2, QueueAside
<1> QED BY <1>1, <1>3, UpOther

LEMMA UpClosed ==
  ASSUME Typed, NEW s \in DOMAIN script, UpOut(s), NEW b \in Nat, UpFrom(s, b),
         Closed(s, "client"), UNCHANGED << script, loop, buf, cutOff >>,
         pc'[s] = pc[s] \/ pc'[s] \in Elsewise
  PROVE  UpInv(s)'
<1>1. Queue(s, "client", b) /\ "client" \in Ends
  BY TwoEnds DEF UpFrom
<1>2. Queue(s, "client", b)'
  BY <1>1, QueueClosed
<1>3. /\ got' = got /\ peer' = peer
      /\ outq'[s]["server"] = outq[s]["server"] /\ sock'[s]["server"] = sock[s]["server"]
  BY TwoEnds DEF Closed, Puts
<1> QED BY <1>2, <1>3, UpOther

LEMMA UpHangup ==
  ASSUME Typed, NEW s \in DOMAIN script, UpOut(s), NEW b \in Nat, UpFrom(s, b), CloseServer(s)
  PROVE  UpInv(s)'
<1>1. /\ UNCHANGED << script, loop, buf, cutOff >> /\ pc'[s] = "end" /\ Closed(s, "server")
      /\ s \in Sessions /\ Queue(s, "client", b)
  BY UpTypes, CloseServerEffect DEF history, UpFrom
<1>2. /\ UNCHANGED << peer, said >> /\ inq'[s]["client"] = inq[s]["client"]
      /\ sock'[s]["client"] = sock[s]["client"]
  BY <1>1, TwoEnds DEF Closed, Puts
<1>3. Queue(s, "client", b)'
  BY <1>1, <1>2, QueueKept, TwoEnds DEF Whole
<1>4. /\ Delivered(got'[s]["server"], outq'[s]["server"], Upstream(script[s]))
      /\ ~ Live(s, "server")' \/ (Live(s, "server") <=> Live(s, "server")')
      /\ (sock[s]["server"] # "open" => SentTo(s, "server")' = SentTo(s, "server"))
  BY <1>1, UpTypes, ClosedDelivered DEF UpOut
<1>5. Live(s, "server")' => Live(s, "server") /\ SentTo(s, "server")' = SentTo(s, "server")
  <2>1. Live(s, "server")' => sock[s]["server"] # "open"
    BY <1>1 DEF Closed, Puts, Live
  <2>2. ~ Live(s, "server")'
    BY <1>4, <2>1 DEF Live
  <2> QED BY <2>2
<1>6. UpOut(s)' /\ UpFrom(s, b)'
  BY <1>1, <1>3, <1>4, <1>5, UpAside DEF Elsewise
<1> QED BY <1>6 DEF UpInv
LEMMA UpPeers ==
  ASSUME Typed, NEW s \in DOMAIN script, PhaseInv(s), UpOut(s), NEW b \in Nat, UpFrom(s, b),
         NEW e \in Ends, Say(s, e) \/ Hear(s, e) \/ Go(s, e)
  PROVE  UpInv(s)'
<1>1. /\ UNCHANGED << script, pc, loop, buf, sock >> /\ s \in Sessions /\ Queue(s, "client", b)
      /\ "client" \in Ends /\ "server" \in Ends
  BY UpTypes, SayEffect, HearEffect, GoEffect DEF UpFrom
<1>2. Queue(s, "client", b)'
  <2>1. CASE e = "client"
    <3>1. Hear(s, e) => UNCHANGED << inq, said, peer, cutOff >>
      BY <1>1, HearEffect DEF history
    <3>2. CASE Hear(s, e)
      BY <1>1, <3>1, <3>2, QueueKept DEF Whole
    <3> QED BY <1>1, <2>1, <3>2, QueueSaid, QueueLeft
  <2>2. CASE e # "client"
    <3>1. /\ inq'[s]["client"] = inq[s]["client"] /\ said'[s]["client"] = said[s]["client"]
          /\ peer'[s]["client"] = peer[s]["client"]
      BY <1>1, <2>2, SayEffect, HearEffect, GoEffect DEF Puts
    <3> QED BY <1>1, <3>1, QueueKept DEF Whole
  <2> QED BY <2>1, <2>2
<1>3. CASE e # "server"
  <2>1. /\ got'[s]["server"] = got[s]["server"] /\ outq'[s]["server"] = outq[s]["server"]
        /\ peer'[s]["server"] = peer[s]["server"]
    BY <1>1, <1>3, SayEffect, HearEffect, GoEffect DEF Puts
  <2> QED BY <1>1, <1>2, <2>1, UpOther
<1>4. CASE e = "server"
  <2> DEFINE F == Upstream(script[s])
  <2>1. F \in Seq(Units) /\ Delivered(got[s]["server"], outq[s]["server"], F)
    BY UpTypes DEF UpOut
  <2>2. Delivered(got'[s]["server"], outq'[s]["server"], F)
    <3> HIDE DEF F
    <3> QED BY <1>1, <1>4, <2>1, SaidDelivered, HeardDelivered, LeftDelivered
  <2>3. Live(s, "server")' => Live(s, "server") /\ SentTo(s, "server")' = SentTo(s, "server")
    <3>1. CASE Say(s, e)
      <4>1. Live(s, "server")' <=> Live(s, "server")
        BY <1>1, <1>4, <2>1, <3>1, SaidDelivered
      <4>2. sock[s]["server"] = "open" => SentTo(s, "server")' = SentTo(s, "server")
        BY <1>1, <1>4, <2>1, <3>1, SaidDelivered
      <4> QED BY <4>1, <4>2 DEF Live
    <3>2. CASE Hear(s, e)
      <4>1. SentTo(s, "server")' = SentTo(s, "server")
        BY <1>1, <1>4, <2>1, <3>2, HeardDelivered
      <4>2. Live(s, "server")' <=> Live(s, "server")
        BY <1>1, <3>2, HearEffect DEF Live
      <4> QED BY <4>1, <4>2
    <3>3. CASE Go(s, e)
      BY <1>1, <1>4, <2>1, <3>3, LeftDelivered
    <3> QED BY <3>1, <3>2, <3>3
  <2>4. pc'[s] = "hello" => SentTo(s, "server")' = SentTo(s, "server")
    <3> SUFFICES ASSUME pc[s] = "hello" PROVE SentTo(s, "server")' = SentTo(s, "server")
      BY <1>1
    <3>1. sock[s]["server"] = "open" /\ SentTo(s, "server") = 0
      BY DEF PhaseInv, UpOut
    <3>2. CASE Say(s, e)
      BY <1>1, <1>4, <2>1, <3>1, <3>2, SaidDelivered
    <3>3. CASE Hear(s, e)
      BY <1>1, <1>4, <2>1, <3>3, HeardDelivered
    <3>4. CASE Go(s, e)
      <4>1. SentTo(s, "server")' <= SentTo(s, "server")
        BY <1>1, <1>4, <2>1, <3>4, LeftDelivered
      <4>2. SentTo(s, "server")' \in Nat
        <5>1. Typed' /\ script' = script
          BY <1>1, <3>4, GoEffect
        <5>2. PICK g, q \in Nat : g = Len(got'[s]["server"]) /\ q = Len(outq'[s]["server"])
          <6>1. got'[s]["server"] \in Seq(Units) /\ outq'[s]["server"] \in Seq(Units)
            BY <1>1, <5>1 DEF Typed, EndsTyped
          <6> QED BY <6>1, LenProperties
        <5>3. g + q \in Nat
          OBVIOUS
        <5> QED BY <5>2, <5>3 DEF SentTo
      <4> QED BY <3>1, <4>1, <4>2
    <3> QED BY <3>2, <3>3, <3>4
  <2>5. UpOut(s)' /\ UpFrom(s, b)'
    BY <1>1, <1>2, <2>2, <2>3, <2>4, UpAside
  <2> QED BY <2>5 DEF UpInv
<1> QED BY <1>3, <1>4

LEMMA UpStep ==
  ASSUME Typed, NEW s \in DOMAIN script, Shape(s), UpInv(s), Step(s)
  PROVE  UpInv(s)'
<1>1. PICK b \in Nat : UpFrom(s, b)
  BY DEF UpInv
<1>2. /\ UpOut(s) /\ PhaseInv(s) /\ LoopInv(s) /\ ScreenInv(s) /\ s \in Sessions
      /\ "up" \in Ways /\ "down" \in Ways /\ Src("down") = "server" /\ Dst("down") = "client"
      /\ Queue(s, "client", b)
  BY <1>1, UpTypes, TwoEnds DEF UpInv, UpFrom, Shape
<1>3. CASE Accept(s) \/ ReadHandshake(s) \/ Dial(s) \/ ForwardHandshake(s) \/ ReadLogin(s)
  BY <1>1, <1>2, <1>3, UpAccept, UpHandshake, UpDial, UpHello, UpLogin
<1>4. CASE ForwardLogin(s) \/ ReadRequest(s) \/ CopyRead(s, "up") \/ CopyWrite(s, "up")
  BY <1>1, <1>2, <1>4, UpForward, UpRequest, UpCopyRead, UpCopyWrite
<1>5. CASE AddPlayer(s)
  <2>1. /\ UNCHANGED << script, loop, buf, peer, sock, inq, outq, said, got, cutOff >>
        /\ pc[s] = "enter" /\ pc'[s] = "forward"
    BY <1>2, <1>5, AddPlayerEffect
  <2>2. Queue(s, "client", b)'
    BY <1>2, <2>1, UpQueueKept
  <2> QED BY <1>1, <1>2, <2>1, <2>2, UpOther
<1>6. CASE WriteScreen(s)
  <2>1. /\ UNCHANGED << script, cutOff, loop, buf >> /\ pc'[s] \in Elsewise
        /\ Wrote(s, "client", screen[s]) \/ UNCHANGED << peer, sock, inq, outq, said, got >>
    BY <1>2, <1>6, WriteScreenEffect DEF history, Elsewise
  <2> QED BY <1>1, <1>2, <2>1, UpScreen
<1>7. CASE CopyRead(s, "down")
  <2>1. /\ UNCHANGED << script, peer, sock, outq, said, got, cutOff >>
        /\ loop'[s]["up"] = loop[s]["up"] /\ buf'[s]["up"] = buf[s]["up"]
        /\ inq'[s]["client"] = inq[s]["client"]
        /\ pc'[s] = pc[s] \/ pc'[s] \in Elsewise
    BY <1>2, <1>7, CopyReadEffect, TwoEnds DEF history, PutsWay, Puts, Finishes, Elsewise
  <2>2. Queue(s, "client", b)'
    BY <1>2, <2>1, QueueKept, TwoEnds DEF Whole
  <2> QED BY <1>1, <1>2, <2>1, <2>2, UpOther
<1>8. CASE CopyWrite(s, "down")
  <2>1. /\ UNCHANGED << script, cutOff >>
        /\ loop'[s]["up"] = loop[s]["up"] /\ buf'[s]["up"] = buf[s]["up"]
        /\ pc'[s] = pc[s] \/ pc'[s] \in Elsewise
        /\ \/ Wrote(s, "client", Head(buf[s]["down"]))
           \/ UNCHANGED << peer, sock, inq, outq, said, got >>
    BY <1>2, <1>8, CopyWriteEffect, TwoEnds DEF history, PutsWay, Finishes, Elsewise
  <2> QED BY <1>1, <1>2, <2>1, UpScreen
<1>9. CASE RemovePlayer(s)
  <2>1. /\ UNCHANGED << script, loop, buf, peer, sock, inq, outq, said, got, cutOff >>
        /\ pc'[s] \in Elsewise
    BY <1>2, <1>9, RemovePlayerEffect DEF history, Elsewise
  <2>2. Queue(s, "client", b)'
    BY <1>2, <2>1, UpQueueKept
  <2> QED BY <1>1, <1>2, <2>1, <2>2, UpOther
<1>10. CASE CloseServer(s)
  BY <1>1, <1>2, <1>10, UpHangup
<1>11. CASE CloseClient(s) \/ Kick(s)
  <2>1. /\ Closed(s, "client") /\ UNCHANGED << script, loop, buf, cutOff >>
        /\ pc'[s] = pc[s] \/ pc'[s] \in Elsewise
    BY <1>2, <1>11, CloseClientEffect DEF Kick, Elsewise
  <2> QED BY <1>1, <1>2, <2>1, UpClosed
<1>12. ASSUME NEW e \in Ends, Say(s, e) \/ Hear(s, e) \/ Go(s, e) PROVE UpInv(s)'
  BY <1>1, <1>2, <1>12, UpPeers
<1> QED BY <1>3, <1>4, <1>5, <1>6, <1>7, <1>8, <1>9, <1>10, <1>11, <1>12
        DEF Step, Handler, Copier
-----------------------------------------------------------------------------
(* The way down. *)

(* The handler is done but for closing the sockets.                        *)
Late == {"hangup", "end", "ended"}

(* Before the copying the client is sent the screen or nothing, and then   *)
(* what begins the server's data; a client that is still there at the end  *)
(* was sent the whole of either.                                           *)
Shown(s) ==
  loop[s]["down"] = "off" =>
    /\ (pc[s] \notin Late => SentTo(s, "client") = 0)
    /\ Delivered(got[s]["client"], outq[s]["client"], << screen[s] >>)
    /\ (screen[s] = NoScreen => SentTo(s, "client") = 0)
    /\ (screen[s] # NoScreen /\ pc[s] \in Late /\ Stays(s) => SentTo(s, "client") = 1)
Copied(s) ==
  /\ (loop[s]["down"] # "off" =>
        Delivered(got[s]["client"], outq[s]["client"], ServerStream(script[s])))
  /\ (loop[s]["down"] = "done" /\ Stays(s) /\ s \notin cutOff =>
        SentTo(s, "client") = said[s]["server"] /\ Lost(s, "server"))

(* The loop has what follows, and so far the node has read.                *)
DownLoop(s, b) ==
  loop[s]["down"] \in {"read", "write"} /\ Live(s, "client") =>
    /\ b = SentTo(s, "client") + Len(buf[s]["down"])
    /\ Carries(buf[s]["down"], ServerStream(script[s]), SentTo(s, "client"))
DownFrom(s, b) ==
  /\ Queue(s, "server", b)
  /\ (loop[s]["down"] = "off" => b = 0)
  /\ DownLoop(s, b)

DownInv(s) == Shown(s) /\ Copied(s) /\ \E b \in Nat : DownFrom(s, b)

LEMMA DownTypes ==
  ASSUME Typed, NEW s \in DOMAIN script
  PROVE  /\ s \in Sessions /\ script[s] \in Scripts
         /\ ServerStream(script[s]) \in Seq(Units) /\ Len(ServerStream(script[s])) \in Nat
         /\ screen[s] \in Units /\ << screen[s] >> \in Seq(Units) /\ Len(<< screen[s] >>) = 1
         /\ "client" \in Ends /\ "server" \in Ends /\ "down" \in Ways
         /\ Stream(s, "server") = ServerStream(script[s])
         /\ got[s]["client"] \in Seq(Units) /\ outq[s]["client"] \in Seq(Units)
         /\ SentTo(s, "client") \in Nat
<1>1. s \in Sessions /\ script[s] \in Scripts
  BY ScriptsOfCasts DEF Typed
<1>2. ServerStream(script[s]) \in Seq(Units)
  BY <1>1, ServerStreams
<1>3. screen[s] \in Units
  BY <1>1, UnitsTravel DEF Typed, ControlTyped
<1>4. << screen[s] >> \in Seq(Units) /\ Len(<< screen[s] >>) = 1
  BY <1>3
<1> QED BY <1>1, <1>2, <1>3, <1>4, TwoEnds, LenProperties, QueueTypes, SentIsNumber DEF Stream

(* Steps that send the client nothing.                                     *)
LEMMA DownAside ==
  ASSUME Typed, NEW s \in DOMAIN script, Shown(s), Copied(s), NEW b \in Nat, DownFrom(s, b),
         script' = script, screen'[s] = screen[s], Queue(s, "server", b)',
         \A stream \in Seq(Units) :
           Delivered(got[s]["client"], outq[s]["client"], stream)
             => Delivered(got'[s]["client"], outq'[s]["client"], stream),
         SentTo(s, "client") = 0 => SentTo(s, "client")' = 0,
         Stays(s)' => Stays(s) /\ SentTo(s, "client")' = SentTo(s, "client"),
         Live(s, "client")' => Live(s, "client") /\ SentTo(s, "client")' = SentTo(s, "client"),
         Lost(s, "server") => Lost(s, "server")' /\ said'[s]["server"] = said[s]["server"],
         s \in cutOff => s \in cutOff',
         pc'[s] \in Late => pc[s] \in Late \/ screen[s] = NoScreen,
         pc'[s] \notin Late => pc[s] \notin Late,
         loop'[s]["down"] = loop[s]["down"], buf'[s]["down"] = buf[s]["down"]
  PROVE  DownInv(s)'
<1>1. Shown(s)'
  <2>1. Delivered(got[s]["client"], outq[s]["client"], << screen[s] >>)
          => Delivered(got'[s]["client"], outq'[s]["client"], << screen[s] >>)
    BY DownTypes
  <2> QED BY <2>1 DEF Shown
<1>2. Copied(s)'
  <2>1. Delivered(got[s]["client"], outq[s]["client"], ServerStream(script[s]))
          => Delivered(got'[s]["client"], outq'[s]["client"], ServerStream(script[s]))
    BY DownTypes
  <2> QED BY <2>1 DEF Copied
<1>3. DownFrom(s, b)'
  <2>1. DownLoop(s, b)'
    BY DEF DownFrom, DownLoop
  <2> QED BY <2>1 DEF DownFrom
<1> QED BY <1>1, <1>2, <1>3 DEF DownInv

(* Steps that have nothing to do with what the client is sent.             *)
LEMMA DownOther ==
  ASSUME Typed, NEW s \in DOMAIN script, Shown(s), Copied(s), NEW b \in Nat, DownFrom(s, b),
         script' = script, screen'[s] = screen[s], Queue(s, "server", b)',
         got'[s]["client"] = got[s]["client"], outq'[s]["client"] = outq[s]["client"],
         sock'[s]["client"] = sock[s]["client"], peer'[s]["client"] = peer[s]["client"],
         kicked \subseteq kicked', unread \subseteq unread',
         Lost(s, "server") => Lost(s, "server")' /\ said'[s]["server"] = said[s]["server"],
         s \in cutOff => s \in cutOff',
         pc'[s] \in Late => pc[s] \in Late \/ screen[s] = NoScreen,
         pc'[s] \notin Late => pc[s] \notin Late,
         loop'[s]["down"] = loop[s]["down"], buf'[s]["down"] = buf[s]["down"]
  PROVE  DownInv(s)'
<1>1. SentTo(s, "client")' = SentTo(s, "client") /\ (Live(s, "client")' <=> Live(s, "client"))
  BY DEF SentTo, Live
<1>2. Stays(s)' => Stays(s)
  BY DEF Stays
<1> QED BY <1>1, <1>2, DownAside

(* Where a handler was before it left has to do with no screen.            *)
LEMMA Unshown ==
  ASSUME NEW s, ScreenInv(s), pc[s] \notin {"request", "answer", "hangup", "end", "ended"}
  PROVE  screen[s] = NoScreen
BY DEF ScreenInv

(* To whom nothing was sent, anything may be.                              *)
LEMMA NothingSent ==
  ASSUME Typed, NEW s \in DOMAIN script, NEW e \in Ends, SentTo(s, e) = 0
  PROVE  /\ got[s][e] = << >> /\ outq[s][e] = << >>
         /\ \A stream \in Seq(Units) : Delivered(got[s][e], outq[s][e], stream)
<1>1. PICK g, q \in Nat : g = Len(got[s][e]) /\ q = Len(outq[s][e])
  BY QueueTypes
<1>2. g + q = 0
  BY <1>1 DEF SentTo
<1>3. g = 0 /\ q = 0
  BY <1>2
<1>4. got[s][e] = << >> /\ outq[s][e] = << >>
  <2>1. got[s][e] \in Seq(Units) /\ outq[s][e] \in Seq(Units)
    BY QueueTypes
  <2> QED BY <1>1, <1>3, <2>1, EmptySeq
<1> QED BY <1>4, CarriesNothing

LEMMA DownRefused ==
  ASSUME Typed, Typed', NEW s \in DOMAIN script, script' = script,
         loop'[s]["down"] = "off", SentTo(s, "client") = 0,
         got'[s]["client"] = got[s]["client"], outq'[s]["client"] = outq[s]["client"],
         pc'[s] \notin Late, Queue(s, "server", 0)',
         screen'[s] = NoScreen \/ screen'[s] \in Screens
  PROVE  DownInv(s)'
<1>1. got[s]["client"] = << >> /\ outq[s]["client"] = << >>
  BY NothingSent, DownTypes
<1>2. SentTo(s, "client")' = 0
  BY DEF SentTo
<1>3. Delivered(got[s]["client"], outq[s]["client"], << screen'[s] >>)
  <2>1. screen'[s] \in Units
    BY UnitsTravel
  <2>2. << screen'[s] >> \in Seq(Units)
    BY <2>1
  <2> QED BY <1>1, <2>2, CarriesNothing
<1>4. Shown(s)' /\ Copied(s)'
  BY <1>2, <1>3 DEF Shown, Copied
<1>5. DownFrom(s, 0)'
  BY DEF DownFrom, DownLoop
<1> QED BY <1>4, <1>5 DEF DownInv

LEMMA DownAccept ==
  ASSUME Typed, Typed', NEW s \in DOMAIN script, LoopInv(s), Shown(s), NEW b \in Nat,
         DownFrom(s, b), Accept(s)
  PROVE  DownInv(s)'
<1>1. /\ UNCHANGED << script, loop, screen, inq, outq, said, got, cutOff >>
      /\ pc[s] = "new" /\ pc'[s] = "handshake" /\ s \in Sessions
      /\ sock'[s]["server"] = sock[s]["server"] /\ peer'[s]["server"] = peer[s]["server"]
  BY DownTypes, AcceptEffect DEF Puts, history
<1>2. loop[s]["down"] = "off" /\ b = 0 /\ Queue(s, "server", b)
  BY <1>1 DEF LoopInv, DownFrom
<1>3. Queue(s, "server", 0)'
  BY <1>1, <1>2, QueueKept, DownTypes DEF Whole
<1>4. SentTo(s, "client") = 0
  BY <1>1, <1>2 DEF Shown, Late
<1>5. screen'[s] = NoScreen \/ screen'[s] \in Screens
  BY <1>1 DEF Typed, ControlTyped
<1> QED BY <1>1, <1>2, <1>3, <1>4, <1>5, DownRefused DEF Late

LEMMA DownHandshake ==
  ASSUME Typed, Typed', NEW s \in DOMAIN script, LoopInv(s), ScreenInv(s), Shown(s), Copied(s),
         NEW b \in Nat, DownFrom(s, b), ReadHandshake(s)
  PROVE  DownInv(s)'
<1>1. /\ UNCHANGED << script, loop, buf, peer, sock, outq, said, got, list, history >>
      /\ pc[s] = "handshake" /\ s \in Sessions
      /\ inq'[s]["server"] = inq[s]["server"]
      /\ \/ Refused(s)
         \/ pc'[s] \in {"end", "dial"} /\ screen'[s] = screen[s]
  BY DownTypes, ReadHandshakeEffect DEF Puts
<1>2. loop[s]["down"] = "off" /\ b = 0 /\ Queue(s, "server", b)
  BY <1>1 DEF LoopInv, DownFrom
<1>3. Queue(s, "server", b)'
  BY <1>1, <1>2, QueueKept, DownTypes DEF Whole, history
<1>4. CASE Refused(s)
  <2>1. SentTo(s, "client") = 0
    BY <1>1, <1>2 DEF Shown, Late
  <2> QED BY <1>1, <1>2, <1>3, <1>4, <2>1, DownRefused DEF Refused, Late
<1>5. CASE pc'[s] \in {"end", "dial"} /\ screen'[s] = screen[s]
  <2>1. screen[s] = NoScreen
    BY <1>1, Unshown
  <2>2. (Lost(s, "server") => Lost(s, "server")')
    BY <1>1 DEF Lost
  <2> QED BY <1>1, <1>3, <1>5, <2>1, <2>2, DownOther DEF Late, history
<1> QED BY <1>1, <1>4, <1>5

LEMMA DownDial ==
  ASSUME Typed, Typed', NEW s \in DOMAIN script, PhaseInv(s), LoopInv(s), ScreenInv(s), Shown(s),
         NEW b \in Nat, DownFrom(s, b), Dial(s)
  PROVE  DownInv(s)'
<1>1. /\ UNCHANGED << script, loop, buf, inq, outq, said, got, history >>
      /\ pc[s] = "dial" /\ s \in Sessions
  BY DownTypes, DialEffect
<1>2. loop[s]["down"] = "off" /\ b = 0 /\ Queue(s, "server", 0) /\ screen[s] = NoScreen
  BY <1>1, Unshown DEF LoopInv, DownFrom
<1>3. inq[s]["server"] = << >> /\ said[s]["server"] = 0
  BY <1>1, DownTypes DEF PhaseInv
<1>4. Queue(s, "server", 0)'
  <2>1. Stream(s, "server")' = Stream(s, "server")
    BY <1>1 DEF Stream
  <2>2. Arrives(inq'[s]["server"], Stream(s, "server")', 0, said'[s]["server"])
    BY <1>1, <1>2, <2>1 DEF Queue
  <2>3. 0 + Len(inq'[s]["server"]) = said'[s]["server"]
    BY <1>1, <1>3
  <2> QED BY <2>2, <2>3 DEF Queue
<1>5. SentTo(s, "client") = 0
  BY <1>1, <1>2 DEF Shown, Late
<1>6. pc'[s] \notin Late /\ (screen'[s] = NoScreen \/ screen'[s] \in Screens)
  BY <1>1, <1>2, DialEffect DEF Refused, Late
<1> QED BY <1>1, <1>2, <1>4, <1>5, <1>6, DownRefused

(* The copying begins. *)
LEMMA DownStarts ==
  ASSUME Typed, Typed', NEW s \in DOMAIN script, LoopInv(s), SentTo(s, "client") = 0,
         loop[s]["down"] = "off", Starts(s), UNCHANGED << script, buf >>,
         got'[s]["client"] = got[s]["client"], outq'[s]["client"] = outq[s]["client"],
         Queue(s, "server", 0)'
  PROVE  DownInv(s)'
<1>1. /\ got[s]["client"] = << >> /\ outq[s]["client"] = << >>
      /\ Delivered(got[s]["client"], outq[s]["client"], ServerStream(script[s]))
  BY NothingSent, DownTypes
<1>2. SentTo(s, "client")' = 0
  BY DEF SentTo
<1>3. loop'[s]["down"] = "read"
  BY DownTypes DEF Starts
<1>4. Shown(s)' /\ Copied(s)'
  BY <1>1, <1>3 DEF Shown, Copied
<1>5. buf'[s]["down"] = << >> /\ Len(buf'[s]["down"]) = 0
  BY EmptyBuffer, DownTypes
<1>6. Carries(buf'[s]["down"], ServerStream(script'[s]), 0)
  BY <1>5 DEF Carries
<1>7. 0 = 0 + Len(buf'[s]["down"])
  BY <1>5
<1>8. DownLoop(s, 0)'
  BY <1>2, <1>6, <1>7 DEF DownLoop
<1>9. DownFrom(s, 0)'
  BY <1>3, <1>8 DEF DownFrom
<1> QED BY <1>4, <1>9 DEF DownInv

(* What is written to the server takes nothing from it.                    *)
LEMMA DownQueueKept ==
  ASSUME Typed, NEW s \in DOMAIN script, NEW b \in Nat, Queue(s, "server", b),
         UNCHANGED << script, cutOff >>,
         (\E unit : Wrote(s, "server", unit)) \/ UNCHANGED << peer, sock, inq, outq, said, got >>
  PROVE  /\ Queue(s, "server", b)'
         /\ outq'[s]["client"] = outq[s]["client"] /\ got' = got /\ sock' = sock
         /\ peer'[s]["client"] = peer[s]["client"] /\ said' = said
         /\ (Lost(s, "server") => Lost(s, "server")')
<1>1. /\ sock' = sock /\ inq' = inq /\ said' = said /\ got' = got
      /\ outq'[s]["client"] = outq[s]["client"] /\ peer'[s]["client"] = peer[s]["client"]
      /\ (peer'[s]["server"] = "open" => peer[s]["server"] = "open")
      /\ (Lost(s, "server") => Lost(s, "server")')
  BY TwoEnds DEF Wrote, Puts, Lost
<1>2. Queue(s, "server", b)'
  BY <1>1, QueueAside, DownTypes
<1> QED BY <1>1, <1>2

LEMMA DownForward ==
  ASSUME Typed, Typed', NEW s \in DOMAIN script, LoopInv(s), ScreenInv(s), Shown(s), Copied(s),
         NEW b \in Nat, DownFrom(s, b), ForwardHandshake(s) \/ ForwardLogin(s)
  PROVE  DownInv(s)'
<1>1. /\ UNCHANGED << script, buf, history >> /\ pc[s] \in {"hello", "forward"} /\ s \in Sessions
      /\ (\E unit : Wrote(s, "server", unit)) \/ UNCHANGED << peer, sock, inq, outq, said, got >>
      /\ \/ Starts(s)
         \/ Refused(s) /\ loop'[s] = loop[s]
         \/ pc'[s] \in {"login", "leave"} /\ loop'[s] = loop[s] /\ screen'[s] = screen[s]
  BY DownTypes, ForwardHandshakeEffect, ForwardLoginEffect
<1>2. /\ loop[s]["down"] = "off" /\ b = 0 /\ Queue(s, "server", b)
      /\ screen[s] = NoScreen /\ SentTo(s, "client") = 0
  BY <1>1, Unshown DEF LoopInv, DownFrom, Shown, Late
<1>3. /\ Queue(s, "server", b)'
      /\ outq'[s]["client"] = outq[s]["client"] /\ got' = got /\ sock' = sock
      /\ peer'[s]["client"] = peer[s]["client"] /\ said' = said
      /\ (Lost(s, "server") => Lost(s, "server")')
  BY <1>1, <1>2, DownQueueKept DEF history
<1>4. CASE Starts(s)
  BY <1>1, <1>2, <1>3, <1>4, DownStarts
<1>5. CASE Refused(s) /\ loop'[s] = loop[s]
  BY <1>1, <1>2, <1>3, <1>5, DownRefused DEF Refused, Late
<1>6. CASE pc'[s] \in {"login", "leave"} /\ loop'[s] = loop[s] /\ screen'[s] = screen[s]
  BY <1>1, <1>2, <1>3, <1>6, DownOther DEF Late, history
<1> QED BY <1>1, <1>4, <1>5, <1>6

LEMMA DownAnswer ==
  ASSUME Typed, NEW s \in DOMAIN script, PhaseInv(s), LoopInv(s), ScreenInv(s), Shown(s),
         NEW b \in Nat, DownFrom(s, b), WriteScreen(s)
  PROVE  DownInv(s)'
<1> DEFINE stream == << screen[s] >>  unit == screen[s]
<1>1. /\ UNCHANGED << script, loop, screen, history >> /\ pc[s] = "answer" /\ s \in Sessions
      /\ pc'[s] \in Late
      /\ \/ Wrote(s, "client", unit)
         \/ /\ sock[s]["client"] = "closed" \/ Lost(s, "client")
            /\ UNCHANGED << peer, sock, inq, outq, said, got >>
  BY DownTypes, WriteScreenEffect DEF Late
<1>2. /\ loop[s]["down"] = "off" /\ b = 0 /\ Queue(s, "server", b)
      /\ screen[s] # NoScreen /\ SentTo(s, "client") = 0
      /\ Delivered(got[s]["client"], outq[s]["client"], stream)
  BY <1>1 DEF LoopInv, DownFrom, ScreenInv, Shown, Late
<1>3. /\ stream \in Seq(Units) /\ unit \in Units /\ "client" \in Ends
      /\ Len(stream) = 1 /\ stream[1] = unit
  BY DownTypes
<1>4. /\ Delivered(got'[s]["client"], outq'[s]["client"], stream)
      /\ (Stays(s)' => SentTo(s, "client")' = 1)
  <2>1. CASE Wrote(s, "client", unit)
    <3>1. SentTo(s, "client") < Len(stream) /\ unit = stream[SentTo(s, "client") + 1]
      <4>1. 0 < 1 /\ 0 + 1 = 1
        OBVIOUS
      <4> QED BY <1>2, <1>3, <4>1
    <3>2. /\ Delivered(got'[s]["client"], outq'[s]["client"], stream)
          /\ \/ SentTo(s, "client")' = SentTo(s, "client") + 1
             \/ ~ Live(s, "client")'
      <4> HIDE DEF stream, unit
      <4> QED BY <1>2, <1>3, <2>1, <3>1, WroteDelivered
    <3>3. Stays(s)' => Live(s, "client")'
      BY <2>1 DEF Wrote, Stays, Live
    <3>4. 0 + 1 = 1
      OBVIOUS
    <3> QED BY <1>2, <3>2, <3>3, <3>4
  <2>2. CASE /\ sock[s]["client"] = "closed" \/ Lost(s, "client")
             /\ UNCHANGED << peer, sock, inq, outq, said, got >>
    <3>1. Stays(s)' => peer[s]["client"] = "open" /\ s \notin kicked
      BY <1>1, <2>2 DEF Stays, history
    <3>2. ~ Stays(s)'
      BY <1>1, <2>2, <3>1 DEF PhaseInv, Lost
    <3> QED BY <1>2, <2>2, <3>2
  <2> QED BY <1>1, <2>1, <2>2
<1>5. Queue(s, "server", b)'
  <2>1. /\ sock' = sock /\ inq'[s]["server"] = inq[s]["server"] /\ said' = said
        /\ peer'[s]["server"] = peer[s]["server"]
    BY <1>1, DownTypes DEF Wrote, Puts
  <2> QED BY <1>1, <1>2, <2>1, QueueKept, DownTypes DEF Whole, history
<1>6. Shown(s)' /\ Copied(s)'
  BY <1>1, <1>2, <1>4 DEF Shown, Copied
<1>7. DownFrom(s, b)'
  BY <1>1, <1>2, <1>5 DEF DownFrom, DownLoop
<1> QED BY <1>6, <1>7 DEF DownInv
LEMMA DownCopyRead ==
  ASSUME Typed, NEW s \in DOMAIN script, PhaseInv(s), LoopInv(s), Shown(s), Copied(s),
         NEW b \in Nat, DownFrom(s, b), CopyRead(s, "down")
  PROVE  DownInv(s)'
<1> DEFINE D == ServerStream(script[s])  q == inq[s]["server"]  n == SentTo(s, "client")
<1>1. /\ UNCHANGED << script, peer, sock, outq, said, got, history >>
      /\ loop[s]["down"] = "read" /\ s \in Sessions /\ Queue(s, "server", b)
      /\ "down" \in Ways /\ Src("down") = "server" /\ pc[s] = "copy"
      /\ sock[s]["server"] = "open"
  BY DownTypes, TwoEnds, CopyReadEffect DEF DownFrom, LoopInv, PhaseInv
<1>2. buf[s]["down"] = << >> /\ Len(buf[s]["down"]) = 0
  BY <1>1, EmptyBuffer
<1>3. /\ SentTo(s, "client")' = n /\ n \in Nat /\ n + 0 = n
      /\ (Live(s, "client")' <=> Live(s, "client"))
      /\ Delivered(got'[s]["client"], outq'[s]["client"], D)
  <2>1. n \in Nat
    BY DownTypes
  <2>2. n + 0 = n
    <3> HIDE DEF n
    <3> QED BY <2>1
  <2> QED BY <1>1, <2>1, <2>2 DEF SentTo, Live, Copied
<1>4. Live(s, "client") => b = n
  <2>1. Live(s, "client") => b = n + 0
    BY <1>1, <1>2 DEF DownFrom, DownLoop
  <2> HIDE DEF n
  <2> QED BY <1>3, <2>1
<1>5. CASE Over(s, "server") /\ Finishes(s, "down") /\ UNCHANGED << inq, buf >>
  <2>1. loop'[s]["down"] = "done"
    BY <1>5 DEF Finishes, PutsWay
  <2>2. Queue(s, "server", b)'
    BY <1>1, <1>5, QueueKept, DownTypes DEF Whole, history
  <2>3. q = << >> /\ Lost(s, "server")
    BY <1>1, <1>5 DEF Over
  <2>4. ASSUME Stays(s), s \notin cutOff PROVE n = said[s]["server"]
    <3>1. Live(s, "client")
      BY <1>1, <2>4 DEF PhaseInv, Stays, Live
    <3>2. b + Len(q) = said[s]["server"]
      BY <1>1, <2>4 DEF Queue, Whole
    <3>3. b + 0 = b
      OBVIOUS
    <3> QED BY <1>4, <2>3, <3>1, <3>2, <3>3
  <2>5. (Stays(s)' => Stays(s)) /\ (Lost(s, "server") => Lost(s, "server")')
    BY <1>1 DEF Stays, Lost, history
  <2>6. Shown(s)' /\ Copied(s)'
    <3> HIDE DEF n, D
    <3> QED BY <1>1, <1>3, <2>1, <2>3, <2>4, <2>5 DEF Shown, Copied, history, D
  <2>7. DownFrom(s, b)'
    BY <2>1, <2>2 DEF DownFrom, DownLoop
  <2> QED BY <2>6, <2>7 DEF DownInv
<1>6. ASSUME NEW m \in 1 .. Len(q),
             PutsWay(buf', buf, s, "down", SubSeq(q, 1, m)),
             Puts(inq', inq, s, "server", SubSeq(q, m + 1, Len(q))),
             PutsWay(loop', loop, s, "down", "write"), pc' = pc
      PROVE  DownInv(s)'
  <2>1. /\ q \in Seq(Units) /\ Len(q) \in Nat /\ m \in 0 .. Len(q) /\ m \in Nat
        /\ D \in Seq(Units) /\ Arrives(q, D, b, said[s]["server"])
    <3>1. q \in Seq(Units) /\ Len(q) \in Nat
      BY QueueTypes, DownTypes
    <3>2. m \in 0 .. Len(q) /\ m \in Nat
      BY <3>1
    <3> QED BY <1>1, <3>1, <3>2, DownTypes DEF Queue
  <2>2. Queue(s, "server", b + m)' /\ b + m \in Nat
    BY <1>1, <1>6, <2>1, QueueTaken, DownTypes DEF Puts, history
  <2>3. /\ buf'[s]["down"] = SubSeq(q, 1, m) /\ Len(SubSeq(q, 1, m)) = m
        /\ Carries(SubSeq(q, 1, m), D, b) /\ loop'[s]["down"] = "write"
    <3>1. Len(SubSeq(q, 1, m)) = m /\ Carries(SubSeq(q, 1, m), D, b)
      <4> HIDE DEF q, D
      <4> QED BY <2>1, CarriesPrefix DEF Arrives
    <3> QED BY <1>6, <3>1 DEF PutsWay
  <2>4. Shown(s)' /\ Copied(s)'
    BY <1>1, <1>3, <2>3 DEF Shown, Copied
  <2>5. DownLoop(s, b + m)'
    <3> HIDE DEF n
    <3> QED BY <1>1, <1>3, <1>4, <2>3 DEF DownLoop
  <2>6. DownFrom(s, b + m)'
    BY <2>2, <2>3, <2>5 DEF DownFrom
  <2> QED BY <2>2, <2>4, <2>6 DEF DownInv
<1> QED BY <1>1, <1>5, <1>6, CopyReadEffect

LEMMA DownCopyWrite ==
  ASSUME Typed, NEW s \in DOMAIN script, PhaseInv(s), LoopInv(s), Shown(s), Copied(s),
         NEW b \in Nat, DownFrom(s, b), CopyWrite(s, "down")
  PROVE  DownInv(s)'
<1> DEFINE D == ServerStream(script[s])  q == buf[s]["down"]  n == SentTo(s, "client")
<1>1. /\ UNCHANGED << script, history >>
      /\ loop[s]["down"] = "write" /\ s \in Sessions /\ Queue(s, "server", b)
      /\ "down" \in Ways /\ Dst("down") = "client" /\ pc[s] = "copy"
      /\ q \in Seq(Units) /\ q # << >> /\ n \in Nat /\ D \in Seq(Units) /\ "client" \in Ends
      /\ Delivered(got[s]["client"], outq[s]["client"], D)
  <2>1. s \in Sessions /\ "down" \in Ways /\ D \in Seq(Units) /\ n \in Nat /\ "client" \in Ends
    BY DownTypes
  <2> QED BY <2>1, CopyWriteEffect, TwoEnds DEF DownFrom, LoopInv, Copied, Typed, BufTyped
<1>2. CASE /\ sock[s]["client"] = "closed" \/ Lost(s, "client")
           /\ PutsWay(buf', buf, s, "down", << >>) /\ Finishes(s, "down")
           /\ UNCHANGED << peer, sock, inq, outq, said, got >>
  <2>1. loop'[s]["down"] = "done"
    BY <1>2 DEF Finishes, PutsWay
  <2>2. Queue(s, "server", b)'
    BY <1>1, <1>2, QueueKept, DownTypes DEF Whole, history
  <2>3. ~ Stays(s)'
    <3>1. Stays(s)' => Stays(s)
      BY <1>1, <1>2 DEF Stays, history
    <3>2. ~ Stays(s)
      BY <1>1, <1>2 DEF Stays, PhaseInv, Lost
    <3> QED BY <3>1, <3>2
  <2>4. Shown(s)' /\ Copied(s)'
    BY <1>1, <1>2, <2>1, <2>3 DEF Shown, Copied
  <2>5. DownFrom(s, b)'
    BY <2>1, <2>2 DEF DownFrom, DownLoop
  <2> QED BY <2>4, <2>5 DEF DownInv
<1>3. CASE /\ Wrote(s, "client", Head(q)) /\ PutsWay(buf', buf, s, "down", Tail(q))
           /\ PutsWay(loop', loop, s, "down", IF Len(q) = 1 THEN "read" ELSE "write")
           /\ pc' = pc
  <2>1. Queue(s, "server", b)'
    <3>1. /\ sock' = sock /\ inq' = inq /\ said' = said
          /\ peer'[s]["server"] = peer[s]["server"]
      BY <1>1, <1>3, DownTypes DEF Wrote, Puts
    <3> QED BY <1>1, <3>1, QueueKept, DownTypes DEF Whole, history
  <2>2. /\ Head(q) \in Units /\ Tail(q) \in Seq(Units) /\ Len(q) \in Nat \ {0}
        /\ Len(Tail(q)) = Len(q) - 1
    <3> HIDE DEF q
    <3> QED BY <1>1, ListTail
  <2>3. ASSUME Live(s, "client")
        PROVE  /\ b = n + Len(q) /\ Head(q) = D[n + 1] /\ Carries(Tail(q), D, n + 1)
               /\ n < Len(D)
    <3>1. b = n + Len(q) /\ Carries(q, D, n)
      BY <1>1, <2>3 DEF DownFrom, DownLoop
    <3>2. b <= Len(D) /\ Len(D) \in Nat
      <4>1. PICK l, c, d \in Nat : /\ l = Len(inq[s]["server"]) /\ c = said[s]["server"]
                                   /\ d = Len(D)
        BY QueueTypes, DownTypes
      <4>2. b + l <= c /\ c <= d
        BY <1>1, <4>1, DownTypes DEF Queue, Arrives
      <4>3. b <= d
        BY <4>2
      <4> QED BY <4>1, <4>3
    <3>3. n < Len(D)
      <4> HIDE DEF n, D, q
      <4> QED BY <1>1, <2>2, <3>1, <3>2
    <3>4. Head(q) = D[n + 1] /\ Carries(Tail(q), D, n + 1)
      <4> HIDE DEF n, D, q
      <4> QED BY <1>1, <3>1, CarriesTail
    <3> QED BY <3>1, <3>3, <3>4
  <2>4. peer[s]["client"] = "open" => n < Len(D) /\ Head(q) = D[n + 1]
    BY <1>3, <2>3 DEF Wrote, Live
  <2>5. /\ Delivered(got'[s]["client"], outq'[s]["client"], D)
        /\ \/ Live(s, "client") /\ Live(s, "client")' /\ SentTo(s, "client")' = n + 1
           \/ ~ Live(s, "client")'
    <3> HIDE DEF D, q
    <3> QED BY <1>1, <1>3, <2>2, <2>4, WroteDelivered
  <2>6. loop'[s]["down"] \in {"read", "write"}
    BY <1>3 DEF PutsWay
  <2>7. Shown(s)' /\ Copied(s)'
    BY <1>1, <2>5, <2>6 DEF Shown, Copied
  <2>8. DownLoop(s, b)'
    <3>1. buf'[s]["down"] = Tail(q)
      BY <1>3 DEF PutsWay
    <3>2. ASSUME Live(s, "client") PROVE b = (n + 1) + Len(Tail(q)) /\ Carries(Tail(q), D, n + 1)
      <4> HIDE DEF n, D, q
      <4> QED BY <1>1, <2>2, <2>3, <3>2
    <3> QED BY <1>1, <2>5, <3>1, <3>2 DEF DownLoop
  <2>9. DownFrom(s, b)'
    BY <2>1, <2>6, <2>8 DEF DownFrom
  <2> QED BY <2>7, <2>9 DEF DownInv
<1> QED BY <1>1, <1>2, <1>3, CopyWriteEffect
LEMMA NoMoreThanNothing ==
  ASSUME Typed', NEW s \in Sessions, NEW e \in Ends, SentTo(s, e)' <= SentTo(s, e)
  PROVE  SentTo(s, e) = 0 => SentTo(s, e)' = 0
<1>1. got'[s][e] \in Seq(Units) /\ outq'[s][e] \in Seq(Units)
  BY DEF Typed, EndsTyped
<1>2. PICK g, q \in Nat : g = Len(got'[s][e]) /\ q = Len(outq'[s][e])
  BY <1>1, LenProperties
<1>3. g + q \in Nat
  OBVIOUS
<1>4. SentTo(s, e)' \in Nat
  BY <1>2, <1>3 DEF SentTo
<1> QED BY <1>4

(* The client's socket is closed, by the handler or by DisconnectPlayer.   *)
LEMMA DownClosed ==
  ASSUME Typed, Typed', NEW s \in DOMAIN script, Shown(s), Copied(s), NEW b \in Nat,
         DownFrom(s, b), Closed(s, "client"), UNCHANGED << script, loop, buf, screen, cutOff >>,
         \/ pc'[s] = pc[s] /\ kicked' = kicked \cup {s}
         \/ pc[s] = "end" /\ pc'[s] = "ended" /\ kicked' = kicked
  PROVE  DownInv(s)'
<1> DEFINE n == SentTo(s, "client")
<1>1. /\ s \in Sessions /\ "client" \in Ends /\ "server" \in Ends /\ Queue(s, "server", b)
      /\ \A stream \in Seq(Units) :
           Delivered(got[s]["client"], outq[s]["client"], stream)
             => /\ Delivered(got'[s]["client"], outq'[s]["client"], stream)
                /\ ~ Live(s, "client")' \/ (Live(s, "client") <=> Live(s, "client")')
                /\ ((inq[s]["client"] = << >> \/ sock[s]["client"] # "open")
                      => SentTo(s, "client")' = n)
                /\ SentTo(s, "client")' <= n
  BY DownTypes, ClosedDelivered DEF DownFrom
<1>2. \E stream \in Seq(Units) : Delivered(got[s]["client"], outq[s]["client"], stream)
  BY DownTypes DEF Shown, Copied
<1>3. /\ \A stream \in Seq(Units) :
           Delivered(got[s]["client"], outq[s]["client"], stream)
             => Delivered(got'[s]["client"], outq'[s]["client"], stream)
      /\ ~ Live(s, "client")' \/ (Live(s, "client") <=> Live(s, "client")')
      /\ ((inq[s]["client"] = << >> \/ sock[s]["client"] # "open")
            => SentTo(s, "client")' = n)
      /\ SentTo(s, "client")' <= n
  <2> HIDE DEF n
  <2> QED BY <1>1, <1>2
<1>4. n = 0 => SentTo(s, "client")' = 0
  BY <1>1, <1>3, NoMoreThanNothing
<1>5. /\ peer' = peer /\ said' = said /\ inq'[s]["server"] = inq[s]["server"]
      /\ sock'[s]["server"] = sock[s]["server"]
      /\ (Live(s, "client")' => sock[s]["client"] # "open")
  BY <1>1 DEF Closed, Puts, Live
<1>6. Live(s, "client")' => Live(s, "client") /\ SentTo(s, "client")' = n
  BY <1>3, <1>5
<1>7. Stays(s)' => Stays(s) /\ SentTo(s, "client")' = n
  <2>1. CASE sock[s]["client"] # "open"
    BY <1>3, <2>1 DEF Closed, Stays
  <2>2. CASE sock[s]["client"] = "open"
    <3>1. unread' = (IF inq[s]["client"] # << >> THEN unread \cup {s} ELSE unread)
      BY <2>2 DEF Closed
    <3> QED BY <1>3, <1>5, <2>2, <3>1 DEF Stays
  <2> QED BY <2>1, <2>2
<1>8. Queue(s, "server", b)'
  BY <1>1, <1>5, QueueKept DEF Whole
<1>9. Lost(s, "server") => Lost(s, "server")' /\ said'[s]["server"] = said[s]["server"]
  BY <1>5 DEF Lost
<1>10. /\ (pc'[s] \in Late => pc[s] \in Late \/ screen[s] = NoScreen)
       /\ (pc'[s] \notin Late => pc[s] \notin Late)
  BY DEF Late
<1> QED BY <1>3, <1>4, <1>6, <1>7, <1>8, <1>9, <1>10, DownAside

LEMMA DownHangup ==
  ASSUME Typed, NEW s \in DOMAIN script, Shown(s), Copied(s), NEW b \in Nat,
         DownFrom(s, b), CloseServer(s)
  PROVE  DownInv(s)'
<1>1. /\ UNCHANGED << script, loop, buf, screen, history >> /\ Closed(s, "server")
      /\ pc[s] = "hangup" /\ pc'[s] = "end" /\ s \in Sessions /\ Queue(s, "server", b)
  BY DownTypes, CloseServerEffect DEF DownFrom
<1>2. Queue(s, "server", b)'
  BY <1>1, QueueClosed, DownTypes DEF history
<1>3. /\ got' = got /\ peer' = peer /\ said' = said
      /\ outq'[s]["client"] = outq[s]["client"] /\ sock'[s]["client"] = sock[s]["client"]
      /\ (Lost(s, "server") => Lost(s, "server")')
  BY <1>1, DownTypes DEF Closed, Puts, Lost
<1> QED BY <1>1, <1>2, <1>3, DownOther DEF Late, history

LEMMA DownPeers ==
  ASSUME Typed, Typed', NEW s \in DOMAIN script, Shown(s), Copied(s), NEW b \in Nat,
         DownFrom(s, b), NEW e \in Ends, Say(s, e) \/ Hear(s, e) \/ Go(s, e)
  PROVE  DownInv(s)'
<1> DEFINE n == SentTo(s, "client")
<1>1. /\ UNCHANGED << script, pc, loop, buf, screen, sock, kicked >> /\ s \in Sessions
      /\ Queue(s, "server", b) /\ "client" \in Ends /\ "server" \in Ends
      /\ peer[s][e] = "open"
  BY DownTypes, SayEffect, HearEffect, GoEffect DEF DownFrom, history
<1>2. Queue(s, "server", b)'
  <2>1. CASE e = "server"
    <3>1. CASE Hear(s, e)
      BY <1>1, <3>1, HearEffect, QueueKept DEF Whole, history
    <3> QED BY <1>1, <2>1, <3>1, QueueSaid, QueueLeft
  <2>2. CASE e = "client"
    <3>1. /\ inq'[s]["server"] = inq[s]["server"] /\ said'[s]["server"] = said[s]["server"]
          /\ peer'[s]["server"] = peer[s]["server"] /\ cutOff' = cutOff
      BY <1>1, <2>2, SayEffect, HearEffect, GoEffect DEF Puts, history
    <3> QED BY <1>1, <3>1, QueueKept DEF Whole
  <2> QED BY <2>1, <2>2, TwoEnds
<1>3. /\ unread \subseteq unread' /\ cutOff \subseteq cutOff'
  BY <1>1, SayEffect, HearEffect, GoEffect DEF history
<1>4. Lost(s, "server") => Lost(s, "server")' /\ said'[s]["server"] = said[s]["server"]
  BY <1>1, SayEffect, HearEffect, GoEffect DEF Lost, Puts
<1>5. /\ (pc'[s] \in Late => pc[s] \in Late \/ screen[s] = NoScreen)
      /\ (pc'[s] \notin Late => pc[s] \notin Late)
  BY <1>1
<1>6. CASE e # "client"
  <2>1. /\ got'[s]["client"] = got[s]["client"] /\ outq'[s]["client"] = outq[s]["client"]
        /\ peer'[s]["client"] = peer[s]["client"]
    BY <1>1, <1>6, SayEffect, HearEffect, GoEffect DEF Puts
  <2> QED BY <1>1, <1>2, <1>3, <1>4, <1>5, <2>1, DownOther
<1>7. CASE e = "client"
  <2>1. \A stream \in Seq(Units) :
          Delivered(got[s]["client"], outq[s]["client"], stream)
            => Delivered(got'[s]["client"], outq'[s]["client"], stream)
    BY <1>1, <1>7, SaidDelivered, HeardDelivered, LeftDelivered
  <2>2. PICK stream \in Seq(Units) : Delivered(got[s]["client"], outq[s]["client"], stream)
    BY DownTypes DEF Shown, Copied
  <2>3. n \in Nat
    BY DownTypes
  <2>4. CASE Say(s, e)
    <3>1. /\ (Live(s, "client")' <=> Live(s, "client")) /\ SentTo(s, "client")' <= n
          /\ (sock[s]["client"] = "open" => SentTo(s, "client")' = n)
      BY <1>1, <1>7, <2>2, <2>4, SaidDelivered
    <3>2. n = 0 => SentTo(s, "client")' = 0
      BY <1>1, <3>1, NoMoreThanNothing
    <3>3. Stays(s)' => Stays(s) /\ SentTo(s, "client")' = n
      <4>1. Stays(s)' => Stays(s)
        BY <1>1, <1>3, <1>7 DEF Stays
      <4>2. sock[s]["client"] # "open" => s \in unread'
        BY <1>1, <1>7, <2>4, SayEffect
      <4> QED BY <3>1, <4>1, <4>2 DEF Stays
    <3>4. Live(s, "client")' => Live(s, "client") /\ SentTo(s, "client")' = n
      BY <3>1 DEF Live
    <3> QED BY <1>1, <1>2, <1>3, <1>4, <1>5, <2>1, <3>2, <3>3, <3>4, DownAside
  <2>5. CASE Hear(s, e)
    <3>1. SentTo(s, "client")' = n /\ peer' = peer
      BY <1>1, <1>7, <2>2, <2>5, HeardDelivered, HearEffect
    <3>2. (Live(s, "client")' <=> Live(s, "client")) /\ (Stays(s)' => Stays(s))
      BY <1>1, <1>3, <3>1 DEF Live, Stays
    <3> QED BY <1>1, <1>2, <1>3, <1>4, <1>5, <2>1, <3>1, <3>2, DownAside
  <2>6. CASE Go(s, e)
    <3>1. ~ Live(s, "client")' /\ SentTo(s, "client")' <= n /\ peer'[s]["client"] = "gone"
      BY <1>1, <1>7, <2>2, <2>6, LeftDelivered, GoEffect DEF Puts
    <3>2. n = 0 => SentTo(s, "client")' = 0
      BY <1>1, <3>1, NoMoreThanNothing
    <3>3. ~ Stays(s)'
      BY <3>1 DEF Stays
    <3> QED BY <1>1, <1>2, <1>3, <1>4, <1>5, <2>1, <3>1, <3>2, <3>3, DownAside
  <2> QED BY <2>4, <2>5, <2>6
<1> QED BY <1>6, <1>7

LEMMA DownStep ==
  ASSUME Typed, Typed', NEW s \in DOMAIN script, Shape(s), DownInv(s), Step(s)
  PROVE  DownInv(s)'
<1>1. PICK b \in Nat : DownFrom(s, b)
  BY DEF DownInv
<1>2. /\ Shown(s) /\ Copied(s) /\ PhaseInv(s) /\ LoopInv(s) /\ ScreenInv(s) /\ s \in Sessions
      /\ "up" \in Ways /\ "down" \in Ways /\ Src("up") = "client" /\ Dst("up") = "server"
      /\ Queue(s, "server", b)
  BY <1>1, DownTypes, TwoEnds DEF DownInv, DownFrom, Shape
<1>3. CASE Accept(s) \/ ReadHandshake(s) \/ Dial(s) \/ ForwardHandshake(s) \/ ForwardLogin(s)
  BY <1>1, <1>2, <1>3, DownAccept, DownHandshake, DownDial, DownForward
<1>4. CASE WriteScreen(s) \/ CopyRead(s, "down") \/ CopyWrite(s, "down") \/ CloseServer(s)
  BY <1>1, <1>2, <1>4, DownAnswer, DownCopyRead, DownCopyWrite, DownHangup
<1>5. CASE ReadLogin(s) \/ ReadRequest(s) \/ AddPlayer(s) \/ RemovePlayer(s)
  <2>1. /\ UNCHANGED << script, screen, loop, buf, peer, sock, outq, said, got, unread, cutOff,
                        kicked >>
        /\ inq'[s]["server"] = inq[s]["server"]
    BY <1>2, <1>5, DownTypes, ReadLoginEffect, ReadRequestEffect, AddPlayerEffect,
       RemovePlayerEffect DEF history, Puts
  <2>2. /\ (pc'[s] \in Late => pc[s] \in Late \/ screen[s] = NoScreen)
        /\ (pc'[s] \notin Late => pc[s] \notin Late)
    BY <1>2, <1>5, ReadLoginEffect, ReadRequestEffect, AddPlayerEffect, RemovePlayerEffect,
       Unshown DEF Late
  <2>3. Queue(s, "server", b)'
    BY <1>2, <2>1, QueueKept, DownTypes DEF Whole
  <2>4. Lost(s, "server") => Lost(s, "server")'
    BY <2>1 DEF Lost
  <2> QED BY <1>1, <1>2, <2>1, <2>2, <2>3, <2>4, DownOther
<1>6. CASE CopyRead(s, "up")
  <2>1. /\ UNCHANGED << script, screen, peer, sock, outq, said, got, unread, cutOff, kicked >>
        /\ inq'[s]["server"] = inq[s]["server"] /\ pc'[s] = pc[s]
        /\ loop'[s]["down"] = loop[s]["down"] /\ buf'[s]["down"] = buf[s]["down"]
    BY <1>2, <1>6, CopyReadEffect, TwoEnds DEF history, Puts, PutsWay, Finishes
  <2>2. Queue(s, "server", b)'
    BY <1>2, <2>1, QueueKept, DownTypes DEF Whole
  <2>3. Lost(s, "server") => Lost(s, "server")'
    BY <2>1 DEF Lost
  <2> QED BY <1>1, <1>2, <2>1, <2>2, <2>3, DownOther
<1>7. CASE CopyWrite(s, "up")
  <2>1. /\ UNCHANGED << script, screen, unread, cutOff, kicked >> /\ pc'[s] = pc[s]
        /\ loop'[s]["down"] = loop[s]["down"] /\ buf'[s]["down"] = buf[s]["down"]
        /\ (\E unit : Wrote(s, "server", unit)) \/ UNCHANGED << peer, sock, inq, outq, said, got >>
    BY <1>2, <1>7, CopyWriteEffect, TwoEnds DEF history, PutsWay, Finishes
  <2>2. /\ Queue(s, "server", b)'
        /\ outq'[s]["client"] = outq[s]["client"] /\ got' = got /\ sock' = sock
        /\ peer'[s]["client"] = peer[s]["client"] /\ said' = said
        /\ (Lost(s, "server") => Lost(s, "server")')
    BY <1>2, <2>1, DownQueueKept
  <2> QED BY <1>1, <1>2, <2>1, <2>2, DownOther
<1>8. CASE CloseClient(s) \/ Kick(s)
  <2>1. /\ Closed(s, "client") /\ UNCHANGED << script, loop, buf, screen, cutOff >>
        /\ \/ pc'[s] = pc[s] /\ kicked' = kicked \cup {s}
           \/ pc[s] = "end" /\ pc'[s] = "ended" /\ kicked' = kicked
    BY <1>2, <1>8, CloseClientEffect DEF Kick
  <2> QED BY <1>1, <1>2, <2>1, DownClosed
<1>9. ASSUME NEW e \in Ends, Say(s, e) \/ Hear(s, e) \/ Go(s, e) PROVE DownInv(s)'
  BY <1>1, <1>2, <1>9, DownPeers
<1> QED BY <1>3, <1>4, <1>5, <1>6, <1>7, <1>8, <1>9 DEF Step, Handler, Copier
-----------------------------------------------------------------------------
(* The inductive invariant of the ends. *)

Session(s) == Shape(s) /\ RoomInv(s) /\ (s \in DOMAIN script => UpInv(s) /\ DownInv(s))
EndsInv == Typed /\ \A s \in Sessions : Session(s)

(* What is the same for a session before and after.                        *)
Same(t) ==
  /\ script' = script
  /\ pc'[t] = pc[t] /\ loop'[t] = loop[t] /\ buf'[t] = buf[t] /\ screen'[t] = screen[t]
  /\ peer'[t] = peer[t] /\ sock'[t] = sock[t] /\ inq'[t] = inq[t] /\ outq'[t] = outq[t]
  /\ said'[t] = said[t] /\ got'[t] = got[t]
  /\ (t \in unread' <=> t \in unread) /\ (t \in cutOff' <=> t \in cutOff)
  /\ (t \in kicked' <=> t \in kicked)

LEMMA SessionSame ==
  ASSUME NEW t \in Sessions, Same(t), Session(t)
  PROVE  Session(t)'
<1>1. PhaseInv(t)' /\ LoopInv(t)' /\ ScreenInv(t)'
  <2>1. PhaseInv(t)'
    BY DEF Session, Same, Shape, PhaseInv
  <2>2. LoopInv(t)'
    BY DEF Session, Same, Shape, LoopInv
  <2>3. ScreenInv(t)'
    BY DEF Session, Same, Shape, ScreenInv
  <2> QED BY <2>1, <2>2, <2>3
<1>2. RoomInv(t)'
  BY DEF Session, Same, RoomInv
<1>3. ASSUME NEW e, NEW b, Queue(t, e, b) PROVE Queue(t, e, b)'
  <2>1. (Whole(t, e)' <=> Whole(t, e)) /\ Stream(t, e)' = Stream(t, e)
    BY DEF Same, Whole, Stream
  <2> QED BY <1>3, <2>1 DEF Same, Queue
<1>4. ASSUME NEW e PROVE SentTo(t, e)' = SentTo(t, e) /\ (Live(t, e)' <=> Live(t, e))
  BY DEF Same, SentTo, Live
<1>5. (Stays(t)' <=> Stays(t)) /\ (Lost(t, "server")' <=> Lost(t, "server"))
  BY DEF Same, Stays, Lost
<1>6. ASSUME t \in DOMAIN script PROVE UpInv(t)'
  <2>1. UpOut(t)'
    BY <1>4, <1>6 DEF Session, UpInv, UpOut, Same
  <2>2. PICK b \in Nat : UpFrom(t, b)
    BY <1>6 DEF Session, UpInv
  <2>3. UpLoop(t, b)'
    BY <1>4, <2>2 DEF UpFrom, UpLoop, Same
  <2>4. UpFrom(t, b)'
    BY <1>3, <2>2, <2>3 DEF UpFrom, Same
  <2> QED BY <2>1, <2>4 DEF UpInv
<1>7. ASSUME t \in DOMAIN script PROVE DownInv(t)'
  <2>1. Shown(t)'
    BY <1>4, <1>5, <1>7 DEF Session, DownInv, Shown, Same
  <2>2. Copied(t)'
    BY <1>4, <1>5, <1>7 DEF Session, DownInv, Copied, Same
  <2>3. PICK b \in Nat : DownFrom(t, b)
    BY <1>7 DEF Session, DownInv
  <2>4. DownLoop(t, b)'
    BY <1>4, <2>3 DEF DownFrom, DownLoop, Same
  <2>5. DownFrom(t, b)'
    BY <1>3, <2>3, <2>4 DEF DownFrom, Same
  <2> QED BY <2>1, <2>2, <2>5 DEF DownInv
<1> QED BY <1>1, <1>2, <1>6, <1>7 DEF Session, Shape, Same

LEMMA EndsKept ==
  ASSUME EndsInv, [Next]_vars
  PROVE  EndsInv'
<1>1. Typed /\ Typed'
  BY TypedKept DEF EndsInv
<1>2. CASE Next
  <2>1. PICK s \in Sessions : Step(s) /\ Elsewhere(s)
    BY <1>1, <1>2, OneSession
  <2>2. ASSUME NEW t \in Sessions, t # s PROVE Session(t)'
    <3>1. Same(t)
      BY <2>1, <2>2 DEF Elsewhere, Same
    <3> QED BY <3>1, SessionSame DEF EndsInv
  <2>3. Session(s)'
    <3>1. Shape(s) /\ RoomInv(s) /\ script' = script
      BY <2>1 DEF EndsInv, Session, Elsewhere
    <3>2. Shape(s)'
      BY <1>1, <2>1, <3>1, PhaseStep, LoopStep, ScreenStep DEF Shape
    <3>3. RoomInv(s)'
      BY <1>1, <2>1, <3>1, RoomStep
    <3>4. ASSUME s \in DOMAIN script PROVE UpInv(s)' /\ DownInv(s)'
      BY <1>1, <2>1, <3>1, <3>4, UpStep, DownStep DEF EndsInv, Session
    <3> QED BY <3>1, <3>2, <3>3, <3>4 DEF Session
  <2> QED BY <1>1, <2>2, <2>3 DEF EndsInv
<1>3. CASE UNCHANGED vars
  <2>1. ASSUME NEW t \in Sessions PROVE Session(t)'
    <3>1. Same(t)
      BY <1>3 DEF vars, ends, history, Same
    <3> QED BY <3>1, SessionSame DEF EndsInv
  <2> QED BY <1>1, <2>1 DEF EndsInv
<1> QED BY <1>2, <1>3

LEMMA InitEnds == Init => EndsInv
<1> SUFFICES ASSUME Init, NEW s \in Sessions PROVE Session(s)
  BY InitTyped DEF EndsInv
<1>1. Typed
  BY InitTyped
<1>2. /\ pc[s] = "new" /\ loop[s] = [w \in Ways |-> "off"] /\ screen[s] = NoScreen
      /\ \A e \in Ends : /\ peer[s][e] = "none" /\ sock[s][e] = "none" /\ said[s][e] = 0
                         /\ inq[s][e] = << >> /\ outq[s][e] = << >> /\ got[s][e] = << >>
  BY DEF Init
<1>3. loop[s]["up"] = "off" /\ loop[s]["down"] = "off"
  BY <1>2, TwoEnds
<1>4. Shape(s)
  BY InitShaped DEF Shaped
<1>5. RoomInv(s)
  <2>1. Len(<< >>) = 0 /\ 0 <= Cap
    BY CapAssumption
  <2> QED BY <1>2, <2>1 DEF RoomInv
<1>6. ASSUME NEW e \in Ends PROVE SentTo(s, e) = 0 /\ ~ Live(s, e)
  <2>1. Len(<< >>) = 0 /\ 0 + 0 = 0
    OBVIOUS
  <2> QED BY <1>2, <2>1 DEF SentTo, Live
<1>7. ASSUME s \in DOMAIN script, NEW e \in Ends PROVE Queue(s, e, 0)
  <2>1. Stream(s, e) \in Seq(Units) /\ Len(Stream(s, e)) \in Nat
    BY <1>1, <1>7, QueueTypes
  <2>2. Arrives(<< >>, Stream(s, e), 0, 0)
    <3>1. 0 <= Len(Stream(s, e)) /\ 0 <= 0
      BY <2>1
    <3> QED BY <2>1, <3>1, ArrivesNothing
  <2>3. 0 + Len(<< >>) = 0
    OBVIOUS
  <2> QED BY <1>2, <2>2, <2>3 DEF Queue
<1>8. ASSUME s \in DOMAIN script PROVE UpInv(s)
  <2>1. Delivered(<< >>, << >>, Upstream(script[s]))
    BY <1>1, <1>8, UpTypes, CarriesNothing
  <2>2. UpOut(s)
    BY <1>2, <2>1, TwoEnds DEF UpOut
  <2>3. UpFrom(s, 0)
    BY <1>2, <1>3, <1>7, <1>8, TwoEnds DEF UpFrom, UpLoop
  <2> QED BY <2>2, <2>3 DEF UpInv
<1>9. ASSUME s \in DOMAIN script PROVE DownInv(s)
  <2>1. Delivered(<< >>, << >>, << screen[s] >>)
    <3>1. << screen[s] >> \in Seq(Units)
      BY <1>1, <1>9, DownTypes
    <3> QED BY <3>1, CarriesNothing
  <2>2. Shown(s) /\ Copied(s)
    BY <1>2, <1>3, <1>6, <2>1, TwoEnds DEF Shown, Copied
  <2>3. DownFrom(s, 0)
    BY <1>3, <1>7, <1>9, TwoEnds DEF DownFrom, DownLoop
  <2> QED BY <2>2, <2>3 DEF DownInv
<1> QED BY <1>4, <1>5, <1>8, <1>9 DEF Session
(* The invariant of the ends holds throughout. *)
LEMMA EndsAlways == Spec => []EndsInv
<1>1. Init => EndsInv
  BY InitEnds
<1>2. EndsInv /\ [Next]_vars => EndsInv'
  BY EndsKept
<1> QED BY <1>1, <1>2, PTL DEF Spec

-----------------------------------------------------------------------------
(* What follows for the streams. *)

LEMMA EndsAreTypes == EndsInv => TypeOK
<1> SUFFICES ASSUME EndsInv PROVE TypeOK
  OBVIOUS
<1>1. Typed
  BY DEF EndsInv
<1>2. /\ script \in Casts
      /\ pc \in [Sessions -> {"new", "handshake", "dial", "hello", "login", "enter", "forward",
                              "copy", "request", "answer", "leave", "hangup", "end", "ended"}]
      /\ loop \in [Sessions -> [Ways -> {"off", "read", "write", "done"}]]
      /\ screen \in [Sessions -> Screens \cup {NoScreen}]
  BY <1>1 DEF Typed, ControlTyped, Places
<1>3. /\ peer \in [Sessions -> [Ends -> {"none", "open", "gone", "reset"}]]
      /\ sock \in [Sessions -> [Ends -> {"none", "open", "closed"}]]
  BY <1>1 DEF Typed, EndsTyped
<1>4. ASSUME NEW s \in DOMAIN script, NEW e \in Ends
      PROVE  /\ Len(inq[s][e]) <= Cap /\ Len(outq[s][e]) <= Cap
             /\ Ranging(inq[s][e]) \subseteq Ranging(Stream(s, e))
             /\ said[s][e] \in 0 .. Len(Stream(s, e))
  <2> DEFINE q == inq[s][e]  stream == Stream(s, e)  n == said[s][e]
  <2>1. /\ q \in Seq(Units) /\ stream \in Seq(Units) /\ n \in Nat /\ s \in Sessions
        /\ Len(q) \in Nat /\ Len(stream) \in Nat
    BY <1>1, QueueTypes
  <2>2. UpInv(s) /\ DownInv(s) /\ RoomInv(s)
    BY <2>1 DEF EndsInv, Session
  <2>3. PICK b \in Nat : Queue(s, e, b)
    BY <2>2, TwoEnds DEF UpInv, UpFrom, DownInv, DownFrom
  <2>4. Arrives(q, stream, b, n)
    BY <2>3 DEF Queue
  <2>5. b + Len(q) <= n /\ n <= Len(stream)
    BY <2>4 DEF Arrives
  <2>6. ASSUME NEW i \in DOMAIN q PROVE q[i] \in Ranging(stream)
    <3>1. i \in 1 .. Len(q)
      BY <2>1, LenProperties
    <3>2. q[i] = stream[b + i]
      BY <2>4, <3>1 DEF Arrives, Carries
    <3>3. b + i \in 1 .. Len(stream)
      <4> HIDE DEF q, stream, n
      <4> QED BY <2>1, <2>5, <3>1
    <3>4. b + i \in DOMAIN stream
      BY <2>1, <3>3, LenProperties
    <3> QED BY <3>2, <3>4 DEF Ranging
  <2>7. Ranging(q) \subseteq Ranging(stream)
    BY <2>6 DEF Ranging
  <2>8. n \in 0 .. Len(stream)
    <3> HIDE DEF q, stream, n
    <3> QED BY <2>1, <2>5
  <2> QED BY <2>2, <2>7, <2>8 DEF RoomInv
<1>5. ASSUME NEW s \in Sessions, NEW w \in Ways
      PROVE  (loop[s][w] = "write") = (buf[s][w] # << >>)
  <2>1. loop[s][w] = "write" => buf[s][w] # << >>
    BY <1>1 DEF Typed, BufTyped
  <2>2. buf[s][w] # << >> => loop[s][w] = "write"
    BY DEF EndsInv, Session, Shape, LoopInv
  <2> QED BY <2>1, <2>2
<1>6. /\ list \in Seq(Entries)
      /\ twins \subseteq Sessions /\ kicked \subseteq Sessions
      /\ unread \subseteq Sessions /\ cutOff \subseteq Sessions
  BY <1>1 DEF Typed, ControlTyped
<1> QED BY <1>2, <1>3, <1>4, <1>5, <1>6 DEF TypeOK

LEMMA EndsServe == EndsInv => ServerStreamIsFaithful
<1> SUFFICES ASSUME EndsInv, NEW s \in DOMAIN script, Sent(s, "server") # << >>
             PROVE  /\ script[s].host \in DOMAIN Route
                    /\ IsPrefixOf(Sent(s, "server"), Forwarded(script[s]))
  BY DEF ServerStreamIsFaithful
<1> DEFINE g == got[s]["server"]  q == outq[s]["server"]  F == Upstream(script[s])
<1>1. Typed
  BY DEF EndsInv
<1>2. g \in Seq(Units) /\ q \in Seq(Units) /\ F \in Seq(Units) /\ s \in Sessions
      /\ Len(g) \in Nat /\ Len(q) \in Nat
  BY <1>1, UpTypes, QueueTypes
<1>3. UpOut(s) /\ Delivered(g, q, F)
  BY <1>2 DEF EndsInv, Session, UpInv, UpOut
<1>4. /\ g \o q \in Seq(Units) /\ Len(g \o q) = Len(g) + Len(q) /\ IsPrefixOf(g \o q, F)
  <2> HIDE DEF g, q, F
  <2> QED BY <1>2, <1>3, DeliveredIsPrefix
<1>5. SentTo(s, "server") # 0
  <2>1. Len(g \o q) # 0
    <3>1. g \o q # << >>
      BY DEF Sent
    <3> HIDE DEF g, q
    <3> QED BY <1>4, <3>1, ListDomain
  <2> QED BY <1>4, <2>1 DEF SentTo
<1>6. script[s].host \in DOMAIN Route
  BY <1>1, <1>3, <1>5, SentIsRouted
<1> QED BY <1>4, <1>6 DEF Upstream, Sent

LEMMA SentToClient ==
  ASSUME Typed, NEW s \in DOMAIN script, NEW stream \in Seq(Units),
         Delivered(got[s]["client"], outq[s]["client"], stream)
  PROVE  /\ Sent(s, "client") = SubSeq(stream, 1, SentTo(s, "client"))
         /\ IsPrefixOf(Sent(s, "client"), stream) /\ SentTo(s, "client") <= Len(stream)
<1> DEFINE g == got[s]["client"]  q == outq[s]["client"]
<1>1. g \in Seq(Units) /\ q \in Seq(Units)
  BY DownTypes
<1>2. /\ g \o q = SubSeq(stream, 1, Len(g) + Len(q)) /\ IsPrefixOf(g \o q, stream)
      /\ Len(g) + Len(q) <= Len(stream)
  <2>1. Delivered(g, q, stream)
    OBVIOUS
  <2> HIDE DEF g, q
  <2>2. Len(g) + Len(q) <= Len(stream)
    BY <2>1 DEF Delivered
  <2> QED BY <1>1, <2>1, <2>2, DeliveredIsPrefix
<1> QED BY <1>2 DEF Sent, SentTo

(* The screen is all that was sent, if anything was.                       *)
LEMMA OneScreen ==
  ASSUME Typed, NEW s \in DOMAIN script, SentTo(s, "client") = 1,
         Delivered(got[s]["client"], outq[s]["client"], << screen[s] >>)
  PROVE  Sent(s, "client") = << screen[s] >>
<1> DEFINE one == << screen[s] >>
<1>1. one \in Seq(Units) /\ Len(one) = 1
  BY DownTypes
<1>2. Sent(s, "client") = SubSeq(one, 1, 1)
  BY <1>1, SentToClient
<1>3. SubSeq(one, 1, 1) = one
  <2> HIDE DEF one
  <2>1. 1 \in 0 .. Len(one)
    BY <1>1
  <2> QED BY <1>1, <2>1, ListPrefix
<1> QED BY <1>2, <1>3

LEMMA EndsShow == EndsInv => ClientStreamIsFaithful
<1> SUFFICES ASSUME EndsInv, NEW s \in DOMAIN script
             PROVE  \/ IsPrefixOf(Sent(s, "client"), ServerStream(script[s]))
                    \/ /\ Sent(s, "client") = << screen[s] >>
                       /\ RightScreen(screen[s], script[s])
  BY DEF ClientStreamIsFaithful, RightScreen
<1>1. Typed /\ s \in Sessions
  BY DownTypes DEF EndsInv
<1>2. DownInv(s) /\ Shape(s) /\ ServerStream(script[s]) \in Seq(Units)
  BY <1>1, DownTypes DEF EndsInv, Session
<1>3. CASE loop[s]["down"] # "off"
  BY <1>1, <1>2, <1>3, SentToClient DEF DownInv, Copied
<1>4. CASE loop[s]["down"] = "off"
  <2>1. /\ Delivered(got[s]["client"], outq[s]["client"], << screen[s] >>)
        /\ << screen[s] >> \in Seq(Units) /\ Len(<< screen[s] >>) = 1
        /\ SentTo(s, "client") \in Nat
    BY <1>1, <1>2, <1>4, DownTypes DEF DownInv, Shown
  <2>2. SentTo(s, "client") <= 1
    BY <1>1, <2>1, SentToClient
  <2>3. CASE SentTo(s, "client") = 0
    <3>1. Delivered(got[s]["client"], outq[s]["client"], ServerStream(script[s]))
      BY <1>1, <1>2, <2>3, NothingSent, DownTypes
    <3> QED BY <1>1, <1>2, <3>1, SentToClient
  <2>4. CASE SentTo(s, "client") = 1
    <3>1. Sent(s, "client") = << screen[s] >>
      BY <1>1, <2>1, <2>4, OneScreen
    <3>2. screen[s] # NoScreen
      BY <1>2, <1>4, <2>4 DEF DownInv, Shown
    <3>3. RightScreen(screen[s], script[s])
      BY <1>2, <3>2 DEF Shape, ScreenInv
    <3> QED BY <3>1, <3>3
  <2> QED BY <2>1, <2>2, <2>3, <2>4
<1> QED BY <1>3, <1>4

LEMMA EndsFinish == EndsInv => TheLastWordArrives
<1> SUFFICES ASSUME EndsInv, NEW s \in DOMAIN script, pc[s] = "ended", Stays(s)
             PROVE  /\ screen[s] # NoScreen => Sent(s, "client") = << screen[s] >>
                    /\ loop[s]["down"] = "done" /\ s \notin cutOff =>
                         Sent(s, "client") = SubSeq(ServerStream(script[s]), 1, said[s]["server"])
  BY DEF TheLastWordArrives
<1>1. Typed /\ s \in Sessions
  BY DownTypes DEF EndsInv
<1>2. DownInv(s) /\ Shape(s) /\ ServerStream(script[s]) \in Seq(Units)
  BY <1>1, DownTypes DEF EndsInv, Session
<1>3. ASSUME screen[s] # NoScreen PROVE Sent(s, "client") = << screen[s] >>
  <2>1. loop[s]["down"] = "off"
    BY <1>2, <1>3 DEF Shape, ScreenInv
  <2>2. /\ SentTo(s, "client") = 1
        /\ Delivered(got[s]["client"], outq[s]["client"], << screen[s] >>)
    BY <1>2, <1>3, <2>1 DEF DownInv, Shown, Late
  <2> QED BY <1>1, <2>2, OneScreen
<1>4. ASSUME loop[s]["down"] = "done", s \notin cutOff
      PROVE  Sent(s, "client") = SubSeq(ServerStream(script[s]), 1, said[s]["server"])
  <2>1. /\ Delivered(got[s]["client"], outq[s]["client"], ServerStream(script[s]))
        /\ SentTo(s, "client") = said[s]["server"]
    BY <1>2, <1>4 DEF DownInv, Copied
  <2> QED BY <1>1, <1>2, <2>1, SentToClient
<1> QED BY <1>3, <1>4

-----------------------------------------------------------------------------
(* The players' list. *)

In == { s \in DOMAIN script : Entered(s) }

(* Entries are those of sessions; equal ones are of twins; and who is no   *)
(* twin has an entry as long as it is on.                                  *)
Listed ==
  /\ \A i \in 1 .. Len(list) : list[i].conn \in DOMAIN script /\ list[i] = Entry(list[i].conn)
  /\ \A i, j \in 1 .. Len(list) : i # j /\ Equal(list[i], list[j]) => list[i].conn \in twins
  /\ \A s \in DOMAIN script :
       s \notin twins => (Entered(s) <=> \E i \in 1 .. Len(list) : list[i].conn = s)

(* As many entries are equal as sessions with such an entry are on.        *)
Seats(seat) ==
  /\ \A u \in In : seat[u] \in 1 .. Len(list) /\ Equal(list[seat[u]], Entry(u))
  /\ \A u, v \in In : seat[u] = seat[v] => u = v
Seated == \E seat : Seats(seat)

LEMMA ListSame ==
  ASSUME UNCHANGED << script, list, twins >>, Listed, Seated,
         \A u \in DOMAIN script : Entered(u)' <=> Entered(u)
  PROVE  Listed' /\ Seated'
<1>1. In' = In
  BY DEF In
<1>2. \A u : Entry(u)' = Entry(u)
  BY DEF Entry
<1>3. Listed'
  BY <1>2 DEF Listed, Equal
<1>4. PICK seat : Seats(seat)
  BY DEF Seated
<1>5. Seats(seat)'
  BY <1>1, <1>2, <1>4 DEF Seats, Equal
<1> QED BY <1>3, <1>5 DEF Seated

(* Who enters, and who leaves. *)
LEMMA EnteredKept ==
  ASSUME Typed, NEW s \in Sessions, ScreenInv(s), LoopInv(s), Step(s), ~ AddPlayer(s), ~ RemovePlayer(s)
  PROVE  UNCHANGED << list, twins >> /\ (Entered(s)' <=> Entered(s))
<1> USE TwoEnds DEF Entered
<1>1. CASE Accept(s)
  BY <1>1, AcceptEffect DEF history
<1>2. CASE ReadHandshake(s)
  BY <1>2, ReadHandshakeEffect DEF history, Refused
<1>3. CASE Dial(s)
  BY <1>3, DialEffect DEF history, Refused
<1>4. CASE ForwardHandshake(s)
  BY <1>4, ForwardHandshakeEffect DEF history, Refused, Starts
<1>5. CASE ReadLogin(s)
  BY <1>5, ReadLoginEffect DEF history
<1>6. CASE ForwardLogin(s)
  BY <1>6, ForwardLoginEffect DEF history, Starts
<1>7. CASE ReadRequest(s)
  BY <1>7, ReadRequestEffect DEF history
<1>8. CASE WriteScreen(s)
  BY <1>8, WriteScreenEffect DEF history
<1>9. ASSUME NEW w \in Ways, CopyRead(s, w) \/ CopyWrite(s, w)
      PROVE  UNCHANGED << list, twins >> /\ (Entered(s)' <=> Entered(s))
  <2>1. /\ UNCHANGED << script, list, twins >> /\ loop[s][w] \in {"read", "write"}
        /\ pc'[s] = pc[s] \/ Finishes(s, w)
    BY <1>9, CopyReadEffect, CopyWriteEffect DEF history
  <2>2. CASE pc'[s] = pc[s]
    BY <2>1, <2>2
  <2>3. CASE Finishes(s, w) /\ w = "down"
    BY <2>1, <2>3 DEF Finishes, LoopInv
  <2>4. CASE Finishes(s, w) /\ w = "up"
    BY <2>1, <2>4 DEF Finishes
  <2> QED BY <2>1, <2>2, <2>3, <2>4
<1>10. CASE CloseServer(s)
  BY <1>10, CloseServerEffect DEF history
<1>11. CASE CloseClient(s)
  BY <1>11, CloseClientEffect
<1>12. CASE Kick(s)
  BY <1>12 DEF Kick
<1>13. ASSUME NEW e \in Ends, Say(s, e) \/ Hear(s, e) \/ Go(s, e)
       PROVE  UNCHANGED << list, twins >> /\ (Entered(s)' <=> Entered(s))
  <2>1. UNCHANGED << script, pc, list, twins >>
    BY <1>13, SayEffect, HearEffect, GoEffect DEF history
  <2> QED BY <2>1
<1>14. "up" \in Ways /\ "down" \in Ways
  OBVIOUS
<1> QED BY <1>1, <1>2, <1>3, <1>4, <1>5, <1>6, <1>7, <1>8, <1>9, <1>10, <1>11, <1>12, <1>13,
           <1>14 DEF Step, Handler, Copier

LEMMA ListAdded ==
  ASSUME Typed, NEW s \in Sessions, ScreenInv(s), Elsewhere(s), AddPlayer(s), Listed, Seated
  PROVE  Listed' /\ Seated'
<1> DEFINE n == Len(list)
<1>1. /\ pc[s] = "enter" /\ pc'[s] = "forward" /\ s \in DOMAIN script
      /\ list' = Append(list, Entry(s)) /\ Entry(s) \in Entries /\ script' = script
  BY AddPlayerEffect
<1>2. /\ n \in Nat /\ Len(list') = n + 1 /\ list'[n + 1] = Entry(s)
      /\ \A i \in 1 .. n : list'[i] = list[i]
      /\ DOMAIN list = 1 .. n
  BY <1>1, AppendedList DEF Typed, ControlTyped
<1>3. /\ ~ Entered(s) /\ Entered(s)'
      /\ \A u \in DOMAIN script : u # s => (Entered(u)' <=> Entered(u))
  <2>1. LogsIn(script[s])
    BY <1>1 DEF ScreenInv
  <2>2. \A u \in DOMAIN script : u # s => pc'[u] = pc[u]
    BY ScriptsOfCasts DEF Elsewhere, Typed
  <2> QED BY <1>1, <2>1, <2>2 DEF Entered
<1>4. \A u : Entry(u)' = Entry(u)
  BY <1>1 DEF Entry
<1>5. /\ twins \subseteq twins'
      /\ \A i \in 1 .. n : Equal(list[i], Entry(s)) => list[i].conn \in twins' /\ s \in twins'
  <2> DEFINE same == { list[i].conn : i \in { j \in DOMAIN list : Equal(list[j], Entry(s)) } }
  <2>1. twins' = twins \cup (IF same = {} THEN {} ELSE same \cup {s})
    BY DEF AddPlayer
  <2>2. \A i \in 1 .. n : Equal(list[i], Entry(s)) => list[i].conn \in same
    BY <1>2
  <2> HIDE DEF same
  <2> QED BY <2>1, <2>2
<1>6. \A i \in 1 .. n + 1 : i \in 1 .. n \/ i = n + 1
  BY <1>2
<1>7. \A i \in 1 .. n : i \in 1 .. n + 1 /\ i # n + 1
  BY <1>2
<1>8. n + 1 \in 1 .. n + 1
  BY <1>2
<1> HIDE DEF n
<1>9. Entry(s).conn = s
  BY DEF Entry
<1>10. Listed'
  <2>1. \A i \in 1 .. n + 1 : /\ list'[i].conn \in DOMAIN script
                              /\ list'[i] = Entry(list'[i].conn)
    BY <1>1, <1>2, <1>6, <1>9 DEF Listed, n
  <2>2. ASSUME NEW i \in 1 .. n + 1, NEW j \in 1 .. n + 1, i # j, Equal(list'[i], list'[j])
        PROVE  list'[i].conn \in twins'
    <3>1. CASE i \in 1 .. n /\ j \in 1 .. n
      BY <1>2, <1>5, <2>2, <3>1 DEF Listed, n
    <3>2. CASE i = n + 1 /\ j \in 1 .. n
      <4>1. Equal(list[j], Entry(s))
        BY <1>2, <2>2, <3>2 DEF Equal
      <4> QED BY <1>2, <1>5, <1>9, <3>2, <4>1
    <3>3. CASE i \in 1 .. n /\ j = n + 1
      BY <1>2, <1>5, <2>2, <3>3
    <3> QED BY <1>6, <2>2, <3>1, <3>2, <3>3
  <2>3. ASSUME NEW u \in DOMAIN script, u \notin twins'
        PROVE  Entered(u)' <=> \E i \in 1 .. n + 1 : list'[i].conn = u
    <3>1. CASE u = s
      BY <1>2, <1>3, <1>8, <1>9, <3>1
    <3>2. CASE u # s
      <4>1. Entered(u) <=> \E i \in 1 .. n : list[i].conn = u
        BY <1>5, <2>3 DEF Listed, n
      <4>2. (\E i \in 1 .. n + 1 : list'[i].conn = u) <=> \E i \in 1 .. n : list[i].conn = u
        BY <1>2, <1>6, <1>7, <1>9, <3>2
      <4> QED BY <1>3, <3>2, <4>1, <4>2
    <3> QED BY <3>1, <3>2
  <2> QED BY <1>1, <1>2, <1>4, <2>1, <2>2, <2>3 DEF Listed
<1>11. Seated'
  <2>1. PICK seat : Seats(seat)
    BY DEF Seated
  <2>2. In' = In \cup {s} /\ s \notin In
    BY <1>1, <1>3 DEF In
  <2> DEFINE later == [u \in In \cup {s} |-> IF u = s THEN n + 1 ELSE seat[u]]
  <2>7. later[s] = n + 1 /\ \A u \in In : u # s /\ later[u] = seat[u]
    BY <2>2
  <2> HIDE DEF later
  <2>8. PICK next : next = later
    OBVIOUS
  <2>3. next[s] = n + 1 /\ \A u \in In : u # s /\ next[u] = seat[u] /\ seat[u] \in 1 .. n
    BY <2>1, <2>7, <2>8 DEF Seats, n
  <2>4. \A u \in In' : next[u] \in 1 .. n + 1 /\ Equal(list'[next[u]], Entry(u))
    BY <1>2, <1>7, <1>8, <2>1, <2>2, <2>3 DEF Seats, Equal
  <2>5. \A u, v \in In' : next[u] = next[v] => u = v
    BY <1>7, <2>1, <2>2, <2>3 DEF Seats
  <2>6. Seats(next)'
    <3>1. \A u \in In' : Equal(list[next[u]], Entry(u))'
      BY <1>4, <2>4 DEF Equal
    <3>2. \A u \in In' : next[u] \in 1 .. Len(list')
      BY <1>2, <2>4
    <3> QED BY <2>5, <3>1, <3>2 DEF Seats
  <2> QED BY <2>6 DEF Seated
<1> QED BY <1>10, <1>11

(* Where a list is cut at k, every other place has a new one.              *)
Shifts(dn, long, short, k) ==
  /\ \A p \in 1 .. Len(long) : p # k =>
       dn[p] \in 1 .. Len(short) /\ short[dn[p]] = long[p]
  /\ \A p, q \in 1 .. Len(long) : p # k /\ q # k /\ dn[p] = dn[q] => p = q
  /\ \A i \in 1 .. Len(short) : \E p \in 1 .. Len(long) : p # k /\ dn[p] = i

LEMMA PlacesWithout ==
  ASSUME NEW S, NEW long \in Seq(S), NEW k \in 1 .. Len(long), NEW short,
         short = SubSeq(long, 1, k - 1) \o SubSeq(long, k + 1, Len(long))
  PROVE  \E dn : Shifts(dn, long, short, k)
<1>1. PICK n \in Nat : n = Len(long) /\ k \in 1 .. n
  BY LenProperties
<1>2. /\ Len(short) = n - 1
      /\ \A i \in 1 .. n - 1 : short[i] = IF i < k THEN long[i] ELSE long[i + 1]
  BY <1>1, ListWithout
<1> DEFINE places == [p \in 1 .. n |-> IF p < k THEN p ELSE p - 1]
<1>3. \A p \in 1 .. n : places[p] = IF p < k THEN p ELSE p - 1
  OBVIOUS
<1> HIDE DEF places
<1>4. ASSUME NEW p \in 1 .. n, p # k
      PROVE  places[p] \in 1 .. n - 1 /\ short[places[p]] = long[p]
  <2>1. CASE p < k
    <3>1. places[p] = p /\ p \in 1 .. n - 1
      BY <1>1, <1>3, <2>1
    <3> QED BY <1>2, <2>1, <3>1
  <2>2. CASE ~ (p < k)
    <3>1. places[p] = p - 1 /\ p - 1 \in 1 .. n - 1 /\ ~ (p - 1 < k) /\ p - 1 + 1 = p
      BY <1>1, <1>3, <1>4, <2>2
    <3> QED BY <1>2, <3>1
  <2> QED BY <2>1, <2>2
<1>5. ASSUME NEW p \in 1 .. n, NEW q \in 1 .. n, p # k, q # k, places[p] = places[q]
      PROVE  p = q
  BY <1>1, <1>3, <1>5
<1>6. ASSUME NEW i \in 1 .. n - 1
      PROVE  \E p \in 1 .. n : p # k /\ places[p] = i
  <2>1. CASE i < k
    <3>1. i \in 1 .. n /\ i # k /\ places[i] = i
      BY <1>1, <1>3, <2>1
    <3> QED BY <3>1
  <2>2. CASE ~ (i < k)
    <3>1. i + 1 \in 1 .. n /\ i + 1 # k /\ ~ (i + 1 < k) /\ i + 1 - 1 = i
      BY <1>1, <2>2
    <3>2. places[i + 1] = i
      BY <1>3, <3>1
    <3> QED BY <3>1, <3>2
  <2> QED BY <2>1, <2>2
<1> WITNESS places
<1> QED BY <1>1, <1>2, <1>4, <1>5, <1>6 DEF Shifts

LEMMA ListRemoved ==
  ASSUME Typed, NEW s \in Sessions, ScreenInv(s), Elsewhere(s), RemovePlayer(s), Listed, Seated
  PROVE  Listed' /\ Seated'
<1> USE DEF Equal
<1>1. /\ pc[s] = "leave" /\ pc'[s] = "hangup" /\ s \in DOMAIN script
      /\ script' = script /\ twins' = twins /\ Unlisted(s)
  BY RemovePlayerEffect DEF history
<1>2. /\ Entered(s) /\ ~ Entered(s)' /\ s \in In
      /\ \A u \in DOMAIN script : u # s => (Entered(u)' <=> Entered(u))
  <2>1. LogsIn(script[s])
    BY <1>1 DEF ScreenInv
  <2>2. \A u \in DOMAIN script : u # s => pc'[u] = pc[u]
    BY ScriptsOfCasts DEF Elsewhere, Typed
  <2> QED BY <1>1, <2>1, <2>2 DEF Entered, In
<1>3. \A u : Entry(u)' = Entry(u) /\ Entry(u).conn = u
  BY <1>1 DEF Entry
<1>4. In' = In \ {s}
  BY <1>1, <1>2 DEF In
<1>5. list \in Seq(Entries) /\ DOMAIN list = 1 .. Len(list)
  BY ListDomain DEF Typed, ControlTyped
<1>6. PICK seat : Seats(seat)
  BY DEF Seated
<1>7. PICK k \in 1 .. Len(list) :
        /\ Equal(list[k], Entry(s))
        /\ list' = SubSeq(list, 1, k - 1) \o SubSeq(list, k + 1, Len(list))
  <2>1. seat[s] \in DOMAIN list /\ Equal(list[seat[s]], Entry(s))
    BY <1>2, <1>5, <1>6 DEF Seats
  <2> QED BY <1>1, <2>1 DEF Unlisted
<1>8. PICK dn :
        /\ \A p \in 1 .. Len(list) : p # k =>
             dn[p] \in 1 .. Len(list') /\ list'[dn[p]] = list[p]
        /\ \A p, q \in 1 .. Len(list) : p # k /\ q # k /\ dn[p] = dn[q] => p = q
        /\ \A i \in 1 .. Len(list') : \E p \in 1 .. Len(list) : p # k /\ dn[p] = i
  <2>1. \E dn : Shifts(dn, list, list', k)
    BY <1>5, <1>7, PlacesWithout
  <2> QED BY <2>1 DEF Shifts
<1>9. Listed'
  <2>1. ASSUME NEW i \in 1 .. Len(list')
        PROVE  list'[i].conn \in DOMAIN script /\ list'[i] = Entry(list'[i].conn)
    <3>1. PICK p \in 1 .. Len(list) : p # k /\ dn[p] = i
      BY <1>8, <2>1
    <3>2. list'[i] = list[p]
      BY <1>8, <3>1
    <3>3. list[p].conn \in DOMAIN script /\ list[p] = Entry(list[p].conn)
      BY DEF Listed
    <3> QED BY <3>2, <3>3
  <2>2. ASSUME NEW i \in 1 .. Len(list'), NEW j \in 1 .. Len(list'), i # j,
               Equal(list'[i], list'[j])
        PROVE  list'[i].conn \in twins
    <3>1. PICK p \in 1 .. Len(list) : p # k /\ dn[p] = i
      BY <1>8
    <3>2. PICK q \in 1 .. Len(list) : q # k /\ dn[q] = j
      BY <1>8
    <3>3. p # q /\ list'[i] = list[p] /\ list'[j] = list[q]
      BY <1>8, <2>2, <3>1, <3>2
    <3> QED BY <2>2, <3>3 DEF Listed
  <2>3. ASSUME NEW u \in DOMAIN script, u \notin twins
        PROVE  Entered(u)' <=> \E i \in 1 .. Len(list') : list'[i].conn = u
    <3>1. CASE u = s
      <4>1. ASSUME NEW i \in 1 .. Len(list'), list'[i].conn = s PROVE FALSE
        <5>1. PICK p \in 1 .. Len(list) : p # k /\ dn[p] = i
          BY <1>8
        <5>2. list[p].conn = s /\ list[p] = Entry(s)
          BY <1>8, <4>1, <5>1 DEF Listed
        <5>3. Equal(list[p], list[k])
          BY <1>7, <5>2
        <5> QED BY <2>3, <3>1, <5>1, <5>2, <5>3 DEF Listed
      <4> QED BY <1>2, <3>1, <4>1
    <3>2. CASE u # s
      <4>1. ASSUME Entered(u) PROVE \E i \in 1 .. Len(list') : list'[i].conn = u
        <5>1. PICK p \in 1 .. Len(list) : list[p].conn = u
          BY <2>3, <4>1 DEF Listed
        <5>2. CASE p # k
          BY <1>8, <5>1, <5>2
        <5>3. CASE p = k
          <6>1. u \in In /\ list[k] = Entry(u)
            BY <4>1, <5>1, <5>3 DEF In, Listed
          <6>2. /\ seat[u] \in 1 .. Len(list) /\ seat[s] \in 1 .. Len(list) /\ seat[u] # seat[s]
                /\ Equal(list[seat[u]], Entry(u)) /\ Equal(list[seat[s]], Entry(s))
            BY <1>2, <1>6, <3>2, <6>1 DEF Seats
          <6>3. PICK q \in 1 .. Len(list) : q # k /\ Equal(list[k], list[q])
            BY <1>7, <6>1, <6>2
          <6> QED BY <2>3, <5>1, <5>3, <6>3 DEF Listed
        <5> QED BY <5>2, <5>3
      <4>2. ASSUME NEW i \in 1 .. Len(list'), list'[i].conn = u PROVE Entered(u)
        <5>1. PICK p \in 1 .. Len(list) : p # k /\ dn[p] = i
          BY <1>8
        <5>2. list[p].conn = u
          BY <1>8, <4>2, <5>1
        <5> QED BY <2>3, <5>2 DEF Listed
      <4> QED BY <1>2, <3>2, <4>1, <4>2
    <3> QED BY <3>1, <3>2
  <2> QED BY <1>1, <1>3, <2>1, <2>2, <2>3 DEF Listed
<1>10. Seated'
  <2> DEFINE place(u) == IF seat[u] = k THEN seat[s] ELSE seat[u]
             later == [u \in In \ {s} |-> dn[place(u)]]
  <2>1. ASSUME NEW u \in In \ {s}
        PROVE  place(u) \in 1 .. Len(list) /\ place(u) # k /\ Equal(list[place(u)], Entry(u))
    <3>1. /\ seat[u] \in 1 .. Len(list) /\ Equal(list[seat[u]], Entry(u)) /\ seat[u] # seat[s]
          /\ seat[s] \in 1 .. Len(list) /\ Equal(list[seat[s]], Entry(s))
      BY <1>2, <1>6 DEF Seats
    <3> QED BY <1>7, <3>1
  <2>2. ASSUME NEW u \in In \ {s}, NEW v \in In \ {s}, place(u) = place(v)
        PROVE  u = v
    BY <1>2, <1>6, <2>2 DEF Seats
  <2>3. \A u \in In \ {s} : later[u] = dn[place(u)]
    OBVIOUS
  <2> HIDE DEF later, place
  <2>4. PICK next : next = later
    OBVIOUS
  <2>5. \A u \in In' : next[u] \in 1 .. Len(list') /\ Equal(list'[next[u]], Entry(u))
    BY <1>4, <1>8, <2>1, <2>3, <2>4
  <2>6. \A u, v \in In' : next[u] = next[v] => u = v
    BY <1>4, <1>8, <2>1, <2>2, <2>3, <2>4
  <2>7. \A u \in In' : Equal(list[next[u]], Entry(u))'
    BY <1>3, <2>5
  <2> QED BY <2>5, <2>6, <2>7 DEF Seated, Seats
<1> QED BY <1>9, <1>10

(* The inductive invariant of the list. *)
ListInv == EndsInv /\ Listed /\ Seated

LEMMA ListKept ==
  ASSUME ListInv, [Next]_vars
  PROVE  ListInv'
<1>1. EndsInv /\ EndsInv' /\ Typed
  BY EndsKept DEF ListInv, EndsInv
<1>2. CASE Next
  <2>1. PICK s \in Sessions : Step(s) /\ Elsewhere(s)
    BY <1>1, <1>2, OneSession
  <2>2. ScreenInv(s) /\ LoopInv(s)
    BY <1>1 DEF EndsInv, Session, Shape
  <2>3. CASE AddPlayer(s)
    BY <1>1, <2>1, <2>2, <2>3, ListAdded DEF ListInv
  <2>4. CASE RemovePlayer(s)
    BY <1>1, <2>1, <2>2, <2>4, ListRemoved DEF ListInv
  <2>5. CASE ~ AddPlayer(s) /\ ~ RemovePlayer(s)
    <3>1. UNCHANGED << list, twins >> /\ (Entered(s)' <=> Entered(s))
      BY <1>1, <2>1, <2>2, <2>5, EnteredKept
    <3>2. \A u \in DOMAIN script : u # s => (Entered(u)' <=> Entered(u))
      <4>1. \A u \in DOMAIN script : u # s => pc'[u] = pc[u]
        BY <1>1, <2>1, ScriptsOfCasts DEF Elsewhere, Typed
      <4> QED BY <2>1, <4>1 DEF Elsewhere, Entered
    <3>3. \A u \in DOMAIN script : Entered(u)' <=> Entered(u)
      BY <3>1, <3>2
    <3> QED BY <1>1, <2>1, <3>1, <3>3, ListSame DEF ListInv, Elsewhere
  <2> QED BY <2>3, <2>4, <2>5
<1>3. CASE UNCHANGED vars
  <2>1. UNCHANGED << script, pc, list, twins >>
    BY <1>3 DEF vars, history
  <2>2. \A u \in DOMAIN script : Entered(u)' <=> Entered(u)
    BY <2>1 DEF Entered
  <2> QED BY <1>1, <2>1, <2>2, ListSame DEF ListInv
<1> QED BY <1>2, <1>3

LEMMA InitListed == Init => ListInv
<1> SUFFICES ASSUME Init PROVE Listed /\ Seated
  BY InitEnds DEF ListInv
<1>1. Len(list) = 0 /\ \A s \in DOMAIN script : ~ Entered(s)
  <2>1. script \in Casts /\ list = << >> /\ \A s \in Sessions : pc[s] = "new"
    BY DEF Init
  <2>2. \A s \in DOMAIN script : s \in Sessions
    BY <2>1, CastsAssumption
  <2> QED BY <2>1, <2>2 DEF Entered
<1>2. Listed
  BY <1>1 DEF Listed
<1>3. In = {}
  BY <1>1 DEF In
<1>4. Seats(list)
  BY <1>3 DEF Seats
<1> QED BY <1>2, <1>4 DEF Seated

LEMMA ListAlways == Spec => []ListInv
<1>1. Init => ListInv
  BY InitListed
<1>2. ListInv /\ [Next]_vars => ListInv'
  BY ListKept
<1> QED BY <1>1, <1>2, PTL DEF Spec

LEMMA ListHolds == ListInv => EntriesHoldTheirSockets
<1> SUFFICES ASSUME ListInv, NEW s \in DOMAIN script, s \notin twins
             PROVE  Cardinality({ i \in DOMAIN list : list[i].conn = s }) =
                      (IF Entered(s) THEN 1 ELSE 0)
  BY DEF EntriesHoldTheirSockets
<1> DEFINE own == { i \in DOMAIN list : list[i].conn = s }
<1>1. DOMAIN list = 1 .. Len(list)
  BY ListDomain DEF ListInv, EndsInv, Typed, ControlTyped
<1>2. \A i, j \in own : i = j
  <2>1. ASSUME NEW i \in own, NEW j \in own, i # j PROVE FALSE
    <3>1. list[i] = Entry(s) /\ list[j] = Entry(s) /\ list[i].conn = s
      BY <1>1 DEF ListInv, Listed
    <3> QED BY <1>1, <2>1, <3>1 DEF ListInv, Listed, Equal
  <2> QED BY <2>1
<1>3. Entered(s) <=> own # {}
  BY <1>1 DEF ListInv, Listed
<1>4. CASE own = {}
  BY <1>3, <1>4, FS_EmptySet
<1>5. CASE own # {}
  <2>1. PICK i \in own : TRUE
    BY <1>5
  <2>2. own = {i}
    BY <1>2, <2>1
  <2> HIDE DEF own
  <2>3. Cardinality(own) = 1
    BY <2>2, FS_Singleton
  <2> QED BY <1>3, <1>5, <2>3 DEF own
<1> QED BY <1>4, <1>5

-----------------------------------------------------------------------------
(* Every variable keeps its type, and a socket holds no more than Cap units *)
(* in either direction, for any number of sessions.                        *)
THEOREM TypeCorrect == Spec => []TypeOK
BY EndsAlways, EndsAreTypes, PTL

(* The server of a session is sent the handshake for its own host, the     *)
(* login written anew and what the client wrote after it, in order, none   *)
(* twice: handleMinecraftConnection and the loop that copies up.           *)
THEOREM ServersAreServed == Spec => []ServerStreamIsFaithful
BY EndsAlways, EndsServe, PTL

(* The client is sent a beginning of the server's data, or one screen of   *)
(* the kind it asked for, never both: the loop that copies down, and       *)
(* sendErrorScreen.                                                        *)
THEOREM ClientsAreServed == Spec => []ClientStreamIsFaithful
BY EndsAlways, EndsShow, PTL

(* A client that is there when its session has ended was sent the screen,  *)
(* or all that the server said: closing the two sockets loses neither,     *)
(* unless the client wrote what nobody read or was disconnected.           *)
THEOREM LastWordArrives == Spec => []TheLastWordArrives
BY EndsAlways, EndsFinish, PTL

(* A session that is on has one entry, with its own socket, and one that   *)
(* is not has none, whoever else came and left and in whatever order:      *)
(* utils.AddPlayer and RemovePlayer, which tell no two players of one name *)
(* and second apart.                                                       *)
THEOREM SocketsAreHeld == Spec => []EntriesHoldTheirSockets
BY ListAlways, ListHolds, PTL

-----------------------------------------------------------------------------
(* The bytes of its packets. *)

(* The recursive functions of Frames satisfy their equations.              *)
LEMMA PowerIs == Powers(Power, Base, MaxLen)
<1> DEFINE F(P) == P = [n \in 0 .. MaxLen |-> IF n = 0 THEN 1 ELSE Base * P[n - 1]]
<1>1. Base \in Nat /\ MaxLen \in Nat
  BY WidthAssumption
<1>2. \E P : F(P)
  BY <1>1, PowersExist
<1>3. Power = CHOOSE P : F(P)
  BY DEF Power
<1>4. F(Power)
  BY <1>2, <1>3, Zenon
<1> QED BY <1>1, <1>4, PowersAre

LEMMA DigitsAre == Numerals(Digits, Modulus - 1, Base)
<1> DEFINE F(D) == D = [u \in 0 .. Modulus - 1 |->
                          IF u < Base THEN << Byte(u, FALSE) >>
                          ELSE << Byte(u % Base, TRUE) >> \o D[u \div Base]]
<1>1. Modulus - 1 \in Nat /\ Base \in Nat /\ Base > 1
  <2>1. Power[MaxLen - 1] \in Nat \ {0}
    <3>1. MaxLen - 1 \in 0 .. MaxLen /\ MaxLen \in Nat /\ Base \in Nat /\ Base > 1
      BY WidthAssumption
    <3> QED BY <3>1, PowerIs, PowersGrow
  <2> QED BY <2>1, WidthAssumption
<1>2. PICK D : Numerals(D, Modulus - 1, Base)
  BY <1>1, NumeralsExist
<1>3. F(D)
  BY <1>2, Zenon DEF Numerals, Byte
<1>4. Digits = CHOOSE E : F(E)
  BY DEF Digits
<1>5. F(Digits)
  BY <1>3, <1>4, Zenon
<1> QED BY <1>5, Zenon DEF Numerals, Byte

(* The facts about the width that follow. *)
LEMMA Widths ==
  /\ Base \in Nat /\ Base > 3 /\ MaxLen \in Nat \ {0} /\ Modulus \in Nat \ {0}
  /\ Powers(Power, Base, MaxLen) /\ Numerals(Digits, Modulus - 1, Base)
  /\ \A i \in 0 .. MaxLen : Power[i] \in Nat \ {0}
  /\ \A i, j \in 0 .. MaxLen : i < j => Power[i] < Power[j]
  /\ Power[1] = Base /\ 2 * Power[MaxLen - 1] <= Modulus /\ Modulus < Power[MaxLen]
  /\ Modulus \div 2 \in Nat /\ Modulus = 2 * (Modulus \div 2) /\ Bytes = Digit(Base)
<1>1. Base \in Nat /\ Base > 3 /\ MaxLen \in Nat \ {0} /\ Modulus \in Nat
      /\ 2 * Power[MaxLen - 1] <= Modulus /\ Modulus < Power[MaxLen] /\ Modulus % 2 = 0
  BY WidthAssumption
<1>2. /\ \A i \in 0 .. MaxLen : Power[i] \in Nat \ {0}
      /\ \A i, j \in 0 .. MaxLen : i < j => Power[i] < Power[j]
  <2>1. Base > 1 /\ MaxLen \in Nat
    BY <1>1
  <2> QED BY <1>1, <2>1, PowerIs, PowersGrow
<1>3. Power[MaxLen - 1] \in Nat \ {0} /\ Modulus # 0
  <2>1. MaxLen - 1 \in 0 .. MaxLen
    BY <1>1
  <2>2. Power[MaxLen - 1] \in Nat \ {0}
    BY <1>2, <2>1
  <2> QED BY <1>1, <2>2
<1>4. Power[1] = Base
  <2>1. 1 \in 1 .. MaxLen /\ 1 - 1 = 0 /\ Base * 1 = Base
    BY <1>1
  <2>2. Power[0] = 1 /\ \A i \in 1 .. MaxLen : Power[i] = Base * Power[i - 1]
    BY PowerIs DEF Powers
  <2> QED BY <2>1, <2>2
<1>5. Modulus \div 2 \in Nat /\ Modulus = 2 * (Modulus \div 2)
  BY <1>1
<1>6. Bytes = Digit(Base)
  BY DEF Bytes, Digit
<1> QED BY <1>1, <1>2, <1>3, <1>4, <1>5, <1>6, PowerIs, DigitsAre

(* Whatever follows, a reader takes from a VarInt the number it was made   *)
(* from and not one byte of what follows.                                  *)
LEMMA VarIntBack ==
  ASSUME NEW v \in Int, NEW tail \in Seq(Bytes)
  PROVE  /\ WriteVarInt(v) \in Seq(Bytes)
         /\ Len(WriteVarInt(v)) \in 1 .. MaxLen
         /\ v % Modulus < Power[Len(WriteVarInt(v))]
         /\ Len(WriteVarInt(v)) > 1 => Power[Len(WriteVarInt(v)) - 1] <= v % Modulus
         /\ WriteVarInt(v) \o tail \in Seq(Bytes)
         /\ ReadVarInt(WriteVarInt(v) \o tail) = Taken(ToSigned(v % Modulus), tail)
<1>1. PICK u, d : u = v % Modulus /\ d = WriteVarInt(v) /\ d = Digits[u]
  BY DEF WriteVarInt
<1>2. u \in 0 .. Modulus - 1 /\ tail \in Seq(Digit(Base))
  BY <1>1, Widths
<1>3. PICK n : ReadsAs(d, u, n, Base, MaxLen, Power, Modulus, tail)
  <2>1. /\ Base \in Nat /\ Base > 1 /\ MaxLen \in Nat \ {0}
        /\ Powers(Power, Base, MaxLen) /\ Modulus \in Nat \ {0}
        /\ Modulus < Power[MaxLen] /\ Numerals(Digits, Modulus - 1, Base)
    BY Widths
  <2>2. \E n : ReadsAs(Digits[u], u, n, Base, MaxLen, Power, Modulus, tail)
    BY <1>2, <2>1, NumeralReads
  <2> QED BY <1>1, <2>2
<1>4. /\ d \in Seq(Bytes) /\ Len(d) = n /\ n \in 1 .. MaxLen
      /\ u < Power[n] /\ (n > 1 => Power[n - 1] <= u)
      /\ d \o tail \in Seq(Bytes) /\ LastDigits(d \o tail, MaxLen + 1) = {n}
      /\ SubSeq(d \o tail, n + 1, Len(d \o tail)) = tail
      /\ (CHOOSE V : Sums(V, d \o tail, n, Power, Modulus))[n] = u
  BY <1>3, Widths DEF ReadsAs
<1>5. Accumulated(d \o tail, n) = u
  BY <1>4 DEF Accumulated, Sums
<1>6. ReadVarInt(d \o tail) = Taken(ToSigned(u), tail)
  <2> DEFINE Final == LastDigits(d \o tail, MaxLen + 1)
             m == CHOOSE i \in Final : TRUE
  <2>1. ReadVarInt(d \o tail) =
          IF Final = {} THEN Failed
          ELSE Taken(ToSigned(Accumulated(d \o tail, m)), SubSeq(d \o tail, m + 1, Len(d \o tail)))
    BY Zenon DEF ReadVarInt, LastDigits
  <2>2. Final = {n}
    BY <1>4
  <2> HIDE DEF Final
  <2>3. m = n /\ Final # {}
    BY <2>2
  <2> QED BY <1>4, <1>5, <2>1, <2>3
<1> QED BY <1>1, <1>4, <1>6

(* The bits of a VarInt are those of the number, for every int32.          *)
LEMMA SignedBack ==
  /\ \A v \in Ints : ToSigned(v % Modulus) = v
  /\ \A u \in 0 .. Modulus - 1 :
       ToSigned(u) \in Ints /\ Unsigned(ToSigned(u)) = u
<1>1. PICK h, m : h = Modulus \div 2 /\ m = Modulus
  OBVIOUS
<1>2. h \in Nat /\ m \in Nat /\ m = 2 * h /\ m # 0
  BY <1>1, Widths
<1>3. ASSUME NEW v \in Ints PROVE ToSigned(v % Modulus) = v
  <2>1. v \in Int /\ -h <= v /\ v <= h - 1
    BY <1>1, <1>2 DEF Ints
  <2>2. CASE v >= 0
    <3>1. v % m = v
      BY <1>2, <2>1, <2>2
    <3> QED BY <1>1, <1>2, <2>1, <2>2, <3>1 DEF ToSigned
  <2>3. CASE v < 0
    <3>1. v % m = v + m
      <4>1. (v + m) % m = v + m
        BY <1>2, <2>1, <2>3
      <4>2. (v + m) % m = v % m
        BY <1>2, <2>1
      <4> QED BY <4>1, <4>2
    <3> QED BY <1>1, <1>2, <2>1, <2>3, <3>1 DEF ToSigned
  <2> QED BY <2>1, <2>2, <2>3
<1>4. ASSUME NEW u \in 0 .. Modulus - 1
      PROVE  ToSigned(u) \in Ints /\ Unsigned(ToSigned(u)) = u
  <2>1. u \in Nat /\ u < m
    BY <1>1, <1>2
  <2>2. CASE u >= h
    <3>1. ToSigned(u) = u - m
      BY <1>1, <2>2 DEF ToSigned
    <3>2. (u - m) % m = u
      <4>1. (u - m) % m = u % m
        BY <1>2, <2>1
      <4>2. u % m = u
        BY <1>2, <2>1
      <4> QED BY <4>1, <4>2
    <3> QED BY <1>1, <1>2, <2>1, <2>2, <3>1, <3>2 DEF Ints, Unsigned
  <2>3. CASE u < h
    <3>1. ToSigned(u) = u
      BY <1>1, <1>2, <2>1, <2>3 DEF ToSigned
    <3>2. u % m = u
      BY <1>2, <2>1
    <3> QED BY <1>1, <1>2, <2>1, <2>3, <3>1, <3>2 DEF Ints, Unsigned
  <2> QED BY <1>2, <2>1, <2>2, <2>3
<1> QED BY <1>3, <1>4

(* What comes first is read, what comes behind it is left.                 *)
LEMMA ReadFullBack ==
  ASSUME NEW s \in Seq(Bytes), NEW t \in Seq(Bytes)
  PROVE  ReadFull(s \o t, Len(s)) = Taken(s, t)
<1>1. PICK r, k : r = s \o t /\ k = Len(s)
  OBVIOUS
<1>2. /\ Len(r) = k + Len(t) /\ k \in Nat /\ Len(t) \in Nat
      /\ SubSeq(r, 1, k) = s /\ SubSeq(r, k + 1, Len(r)) = t
  <2>1. Parts(Bytes, s, t)
    BY ListParts
  <2> QED BY <1>1, <2>1 DEF Parts
<1>3. ReadFull(r, k) = IF Len(r) < k THEN Failed
                      ELSE Taken(SubSeq(r, 1, k), SubSeq(r, k + 1, Len(r)))
  BY DEF ReadFull
<1>4. ~ (Len(r) < k)
  BY <1>2
<1> QED BY <1>1, <1>2, <1>3, <1>4

(* What a reader returns that has read x and has left r. *)
Has(result, x, r) == result.ok /\ result.value = x /\ result.rest = r

LEMMA TakenIs ==
  ASSUME NEW x, NEW r
  PROVE  Has(Taken(x, r), x, r)
BY DEF Has, Taken

(* Two VarInts of different lengths never stand for the same number, so    *)
(* varInt.Len counts the bytes that are written.                           *)
LEMMA VarIntLenIs ==
  ASSUME NEW v \in Ints
  PROVE  Len(WriteVarInt(v)) = VarIntLen(v)
<1>1. PICK n, u, m, h : n = Len(WriteVarInt(v)) /\ u = v % Modulus /\ m = Modulus
                        /\ h = Modulus \div 2
  OBVIOUS
<1>2. h \in Nat /\ m \in Nat /\ m = 2 * h /\ m # 0 /\ v \in Int /\ -h <= v /\ v <= h - 1
  BY <1>1, Widths DEF Ints
<1>3. << >> \in Seq(Bytes)
  OBVIOUS
<1>4. n \in 1 .. MaxLen /\ u < Power[n] /\ (n > 1 => Power[n - 1] <= u)
  BY <1>1, <1>2, <1>3, VarIntBack
<1>5. /\ MaxLen \in Nat \ {0} /\ Base \in Nat /\ Base > 3 /\ Power[1] = Base
      /\ \A i \in 0 .. MaxLen : Power[i] \in Nat
      /\ \A i, j \in 0 .. MaxLen : i < j => Power[i] < Power[j]
      /\ 2 * Power[MaxLen - 1] <= m
  BY <1>1, Widths
<1>6. u \in Nat /\ \A i, j \in 0 .. MaxLen : i <= j => Power[i] <= Power[j]
  <2>1. u \in Nat
    BY <1>1, <1>2
  <2>2. ASSUME NEW i \in 0 .. MaxLen, NEW j \in 0 .. MaxLen, i <= j
        PROVE  Power[i] <= Power[j]
    <3>1. i = j \/ i < j
      BY <1>5, <2>2
    <3>2. Power[i] \in Nat /\ Power[j] \in Nat
      BY <1>5
    <3> QED BY <1>5, <3>1, <3>2
  <2> QED BY <2>1, <2>2
<1>7. CASE v < 0
  <2>1. u = v + m
    <3>1. (v + m) % m = v + m
      BY <1>2, <1>7
    <3>2. (v + m) % m = v % m
      BY <1>2
    <3> QED BY <1>1, <3>1, <3>2
  <2>2. Power[MaxLen - 1] <= u
    <3>1. MaxLen - 1 \in 0 .. MaxLen
      BY <1>5
    <3>2. Power[MaxLen - 1] \in Nat
      BY <1>5, <3>1
    <3> QED BY <1>2, <1>5, <2>1, <3>2
  <2>3. ASSUME n # MaxLen PROVE FALSE
    <3>1. n \in 0 .. MaxLen /\ MaxLen - 1 \in 0 .. MaxLen /\ n <= MaxLen - 1
      BY <1>4, <1>5, <2>3
    <3>2. Power[n] <= Power[MaxLen - 1] /\ Power[n] \in Nat /\ Power[MaxLen - 1] \in Nat
      BY <1>5, <1>6, <3>1
    <3> QED BY <1>4, <1>6, <2>2, <3>2
  <2> QED BY <1>1, <1>7, <2>3 DEF VarIntLen
<1>8. CASE v >= 0
  <2>1. u = v
    <3>1. v % m = v
      BY <1>2, <1>8
    <3> QED BY <1>1, <3>1
  <2>2. CASE v < Base
    <3>1. ASSUME n # 1 PROVE FALSE
      <4>1. n - 1 \in 0 .. MaxLen /\ 1 \in 0 .. MaxLen /\ 1 <= n - 1 /\ n > 1
        BY <1>4, <1>5, <3>1
      <4>2. Power[1] <= Power[n - 1] /\ Power[n - 1] \in Nat
        BY <1>5, <1>6, <4>1
      <4> QED BY <1>2, <1>4, <1>5, <2>1, <2>2, <4>1, <4>2
    <3> QED BY <1>1, <1>2, <1>8, <2>2, <3>1 DEF VarIntLen
  <2>3. CASE ~ (v < Base)
    <3> DEFINE Fits(k) == v < Power[k] /\ v >= Power[k - 1]
    <3>1. n \in 2 .. MaxLen /\ Fits(n)
      <4>1. n # 1
        BY <1>4, <1>5, <2>1, <2>3
      <4>2. n > 1 /\ n \in 2 .. MaxLen /\ n \in 0 .. MaxLen /\ n - 1 \in 0 .. MaxLen
        BY <1>4, <1>5, <4>1
      <4>3. Power[n] \in Nat /\ Power[n - 1] \in Nat
        BY <1>5, <4>2
      <4> QED BY <1>2, <1>4, <2>1, <4>2, <4>3
    <3>2. ASSUME NEW k \in 2 .. MaxLen, Fits(k) PROVE k = n
      <4>1. /\ k \in 0 .. MaxLen /\ k - 1 \in 0 .. MaxLen
            /\ n \in 0 .. MaxLen /\ n - 1 \in 0 .. MaxLen
        BY <1>5, <3>1
      <4>2. /\ Power[k] \in Nat /\ Power[k - 1] \in Nat
            /\ Power[n] \in Nat /\ Power[n - 1] \in Nat
        BY <1>5, <4>1
      <4>3. CASE k < n
        <5>1. k <= n - 1
          BY <4>1, <4>3
        <5>2. Power[k] <= Power[n - 1]
          BY <1>6, <4>1, <5>1
        <5> QED BY <1>2, <3>1, <3>2, <4>2, <5>2
      <4>4. CASE n < k
        <5>1. n <= k - 1
          BY <4>1, <4>4
        <5>2. Power[n] <= Power[k - 1]
          BY <1>6, <4>1, <5>1
        <5> QED BY <1>2, <3>1, <3>2, <4>2, <5>2
      <4> QED BY <4>1, <4>3, <4>4
    <3>3. VarIntLen(v) = CHOOSE k \in 2 .. MaxLen : Fits(k)
      BY <1>2, <1>8, <2>3 DEF VarIntLen
    <3> HIDE DEF Fits
    <3>4. (CHOOSE k \in 2 .. MaxLen : Fits(k)) = n
      BY <3>1, <3>2
    <3> QED BY <1>1, <3>3, <3>4
  <2> QED BY <2>2, <2>3
<1> QED BY <1>2, <1>7, <1>8

(* An int32 that was written is read, and what follows it is left.         *)
LEMMA IntBack ==
  ASSUME NEW v \in Ints, NEW tail \in Seq(Bytes)
  PROVE  /\ WriteVarInt(v) \in Seq(Bytes) /\ WriteVarInt(v) \o tail \in Seq(Bytes)
         /\ Len(WriteVarInt(v)) \in 1 .. MaxLen
         /\ ReadVarInt(WriteVarInt(v) \o tail) = Taken(v, tail)
<1>1. v \in Int
  BY Widths DEF Ints
<1>2. ToSigned(v % Modulus) = v
  BY SignedBack
<1> QED BY <1>1, <1>2, VarIntBack

(* A string that was written is read.                                      *)
LEMMA StringBack ==
  ASSUME NEW s \in Seq(Bytes), Len(s) < Modulus \div 2, NEW tail \in Seq(Bytes)
  PROVE  /\ WriteString(s) \in Seq(Bytes)
         /\ Len(WriteString(s)) \in Nat /\ Len(WriteString(s)) <= MaxLen + Len(s)
         /\ ReadString(WriteString(s) \o tail) = Taken(s, tail)
<1>1. PICK w : w = WriteVarInt(Len(s))
  OBVIOUS
<1>2. Len(s) \in Ints /\ Len(s) \in Nat
  <2>1. Len(s) \in Nat /\ Modulus \div 2 \in Nat
    BY ListDomain, Widths
  <2> QED BY <2>1 DEF Ints
<1>3. s \o tail \in Seq(Bytes)
  <2>1. Parts(Bytes, s, tail)
    BY ListParts
  <2> QED BY <2>1 DEF Parts
<1>4. /\ w \in Seq(Bytes) /\ Len(w) \in 1 .. MaxLen
      /\ ReadVarInt(w \o (s \o tail)) = Taken(Len(s), s \o tail)
  BY <1>1, <1>2, <1>3, IntBack
<1>5. w \o s \in Seq(Bytes) /\ Len(w \o s) = Len(w) + Len(s) /\ WriteString(s) = w \o s
  <2>1. Parts(Bytes, w, s)
    BY <1>4, ListParts
  <2> QED BY <1>1, <2>1 DEF Parts, WriteString
<1>6. WriteString(s) \o tail = w \o (s \o tail)
  <2>1. EitherOrder(w, s, tail)
    BY <1>4, ListOfThree
  <2> QED BY <1>5, <2>1 DEF EitherOrder
<1>7. ReadString(WriteString(s) \o tail) = ReadFull(s \o tail, Len(s))
  <2>1. PICK x : x = ReadVarInt(WriteString(s) \o tail)
    OBVIOUS
  <2>2. x.ok /\ x.value = Len(s) /\ x.rest = s \o tail
    <3>1. x = Taken(Len(s), s \o tail)
      BY <1>4, <1>6, <2>1
    <3>9. Has(x, Len(s), s \o tail)
      BY <3>1, TakenIs, Zenon
    <3> QED BY <3>9 DEF Has
  <2>3. ~ (Len(s) < 0)
    BY <1>2
  <2> QED BY <2>1, <2>2, <2>3 DEF ReadString
<1>8. Len(w) \in Nat /\ Len(w) <= MaxLen
  BY <1>4
<1>9. Len(WriteString(s)) \in Nat /\ Len(WriteString(s)) <= MaxLen + Len(s)
  BY <1>2, <1>5, <1>8, Widths
<1>10. ReadString(WriteString(s) \o tail) = Taken(s, tail)
  BY <1>7, ReadFullBack, Zenon
<1> QED BY <1>5, <1>9, <1>10

(* A packet with the id 0 that was written is read.                        *)
LEMMA FrameBack ==
  ASSUME NEW body \in Seq(Bytes), Len(body) + 1 < Modulus \div 2, NEW tail \in Seq(Bytes)
  PROVE  ReadFrame(WriteFrame(0, body) \o tail) = Taken(body, tail)
<1>1. PICK k, w, i : k = Len(body) + 1 /\ w = WriteVarInt(k) /\ i = WriteVarInt(0)
  OBVIOUS
<1>2. k \in Ints /\ 0 \in Ints /\ k \in Nat /\ k >= 1 /\ k - 1 = Len(body)
  <2>1. Len(body) \in Nat /\ Modulus \div 2 \in Nat
    BY ListDomain, Widths
  <2> QED BY <1>1, <2>1 DEF Ints
<1>3. body \o tail \in Seq(Bytes)
  <2>1. Parts(Bytes, body, tail)
    BY ListParts
  <2> QED BY <2>1 DEF Parts
<1>4. /\ i \in Seq(Bytes) /\ i \o (body \o tail) \in Seq(Bytes)
      /\ ReadVarInt(i \o (body \o tail)) = Taken(0, body \o tail)
  BY <1>1, <1>2, <1>3, IntBack
<1>5. /\ w \in Seq(Bytes)
      /\ ReadVarInt(w \o (i \o (body \o tail))) = Taken(k, i \o (body \o tail))
  BY <1>1, <1>2, <1>4, IntBack
<1>6. VarIntLen(0) = 1
  BY Widths DEF VarIntLen
<1>7. WriteFrame(0, body) = (w \o i) \o body
  <2>1. VarIntLen(0) + Len(body) = k
    BY <1>1, <1>2, <1>6
  <2> QED BY <1>1, <2>1 DEF WriteFrame
<1>8. WriteFrame(0, body) \o tail = w \o (i \o (body \o tail))
  <2>1. w \o i \in Seq(Bytes)
    <3>1. Parts(Bytes, w, i)
      BY <1>4, <1>5, ListParts
    <3> QED BY <3>1 DEF Parts
  <2>2. ((w \o i) \o body) \o tail = (w \o i) \o (body \o tail)
    <3>1. EitherOrder(w \o i, body, tail)
      BY <2>1, ListOfThree
    <3> QED BY <3>1 DEF EitherOrder
  <2>3. (w \o i) \o (body \o tail) = w \o (i \o (body \o tail))
    <3>1. EitherOrder(w, i, body \o tail)
      BY <1>3, <1>4, <1>5, ListOfThree
    <3> QED BY <3>1 DEF EitherOrder
  <2> QED BY <1>7, <2>2, <2>3
<1>9. PICK r : r = WriteFrame(0, body) \o tail
  OBVIOUS
<1>10. PICK x, y : x = ReadVarInt(r) /\ y = ReadVarInt(x.rest)
  OBVIOUS
<1>11. x.ok /\ x.value = k /\ x.rest = i \o (body \o tail)
  <2>1. x = Taken(k, i \o (body \o tail))
    BY <1>5, <1>8, <1>9, <1>10
  <2>9. Has(x, k, i \o (body \o tail))
    BY <2>1, TakenIs, Zenon
  <2> QED BY <2>9 DEF Has
<1>12. y.ok /\ y.rest = body \o tail
  <2>1. y = Taken(0, body \o tail)
    BY <1>4, <1>10, <1>11
  <2>9. Has(y, 0, body \o tail)
    BY <2>1, TakenIs, Zenon
  <2> QED BY <2>9 DEF Has
<1>13. ReadFrame(r) = ReadFull(body \o tail, Len(body))
  <2>1. ~ (k < 1)
    BY <1>2
  <2> QED BY <1>2, <1>10, <1>11, <1>12, <2>1, Zenon DEF ReadFrame
<1> QED BY <1>9, <1>13, ReadFullBack

(* The strings and tails the checks go through are strings of bytes.       *)
LEMMA StringsAre ==
  /\ \A s \in Strings : s \in Seq(Bytes) /\ Len(s) \in 0 .. MaxString
  /\ \A tail \in Tails : tail \in Seq(Bytes)
<1>1. ASSUME NEW s \in Strings PROVE s \in Seq(Bytes) /\ Len(s) \in 0 .. MaxString
  <2>1. PICK n \in 0 .. MaxString, b \in Bytes : s = [i \in 1 .. n |-> b]
    BY DEF Strings
  <2>2. n \in Nat
    BY LengthAssumption
  <2> QED BY <2>1, <2>2
<1>2. \A tail \in Tails : tail \in Seq(Bytes)
  <2>1. ASSUME NEW b \in Bytes PROVE << b >> \in Seq(Bytes)
    OBVIOUS
  <2>2. << >> \in Seq(Bytes)
    OBVIOUS
  <2> QED BY <2>1, <2>2 DEF Tails
<1> QED BY <1>1, <1>2

(* A handshake that was written is read, whatever the version, the bytes   *)
(* of host name and port and the next state; HandshakePacket has taken no  *)
(* byte of what follows.                                                   *)
THEOREM HandshakeBack ==
  ASSUME NEW version \in Ints, NEW host \in Seq(Bytes), NEW port \in Seq(Bytes),
         Len(port) = 2, NEW next \in Ints,
         3 * MaxLen + Len(host) + 3 < Modulus \div 2, NEW tail \in Seq(Bytes)
  PROVE  LET h == [version |-> version, host |-> host, port |-> port, next |-> next]
         IN  ReadHandshakeFrom(WriteHandshake(h) \o tail) = Taken(h, tail)
<1>1. PICK V, S, N : V = WriteVarInt(version) /\ S = WriteString(host)
                     /\ N = WriteVarInt(next)
  OBVIOUS
<1>2. Len(host) \in Nat /\ MaxLen \in Nat /\ Modulus \div 2 \in Nat
  BY ListDomain, Widths
<1>3. Len(host) < Modulus \div 2
  BY <1>2
<1>4. << >> \in Seq(Bytes)
  OBVIOUS
<1>5. N \in Seq(Bytes) /\ Len(N) \in 1 .. MaxLen /\ ReadVarInt(N) = Taken(next, << >>)
  <2>1. N \in Seq(Bytes) /\ Len(N) \in 1 .. MaxLen /\ ReadVarInt(N \o << >>) = Taken(next, << >>)
    BY <1>1, <1>4, IntBack
  <2>2. N \o << >> = N
    BY <2>1, ConcatEmptySeq
  <2> QED BY <2>1, <2>2
<1>6. PICK pn : pn = port \o N
  OBVIOUS
<1>7. pn \in Seq(Bytes) /\ Len(pn) = 2 + Len(N) /\ ReadFull(pn, 2) = Taken(port, N)
  <2>1. ReadFull(port \o N, Len(port)) = Taken(port, N)
    BY <1>5, ReadFullBack
  <2>2. port \o N \in Seq(Bytes) /\ Len(port \o N) = Len(port) + Len(N)
    <3>1. Parts(Bytes, port, N)
      BY <1>5, ListParts
    <3> QED BY <3>1 DEF Parts
  <2> QED BY <1>6, <2>1, <2>2
<1>8. PICK spn : spn = S \o pn
  OBVIOUS
<1>9. /\ S \in Seq(Bytes) /\ Len(S) \in Nat /\ Len(S) <= MaxLen + Len(host)
      /\ spn \in Seq(Bytes) /\ Len(spn) = Len(S) + Len(pn)
      /\ ReadString(spn) = Taken(host, pn)
  <2>1. /\ S \in Seq(Bytes) /\ Len(S) \in Nat /\ Len(S) <= MaxLen + Len(host)
        /\ ReadString(S \o pn) = Taken(host, pn)
    BY <1>1, <1>3, <1>7, StringBack
  <2>2. S \o pn \in Seq(Bytes) /\ Len(S \o pn) = Len(S) + Len(pn)
    <3>1. Parts(Bytes, S, pn)
      BY <1>7, <2>1, ListParts
    <3> QED BY <3>1 DEF Parts
  <2> QED BY <1>8, <2>1, <2>2
<1>10. /\ V \in Seq(Bytes) /\ Len(V) \in 1 .. MaxLen
       /\ ReadVarInt(V \o spn) = Taken(version, spn)
  BY <1>1, <1>9, IntBack
<1>11. PICK body : body = ((V \o S) \o port) \o N
  OBVIOUS
<1>12. body = V \o spn
  <2>1. V \o S \in Seq(Bytes)
    <3>1. Parts(Bytes, V, S)
      BY <1>9, <1>10, ListParts
    <3> QED BY <3>1 DEF Parts
  <2>2. EitherOrder(V \o S, port, N)
    BY <1>5, <2>1, ListOfThree
  <2>3. EitherOrder(V, S, pn)
    BY <1>7, <1>9, <1>10, ListOfThree
  <2> QED BY <1>6, <1>8, <1>11, <2>2, <2>3 DEF EitherOrder
<1>13. body \in Seq(Bytes) /\ Len(body) + 1 < Modulus \div 2
  <2>1. body \in Seq(Bytes) /\ Len(body) = Len(V) + Len(spn)
    <3>1. V \o spn \in Seq(Bytes) /\ Len(V \o spn) = Len(V) + Len(spn)
      <4>1. Parts(Bytes, V, spn)
        BY <1>9, <1>10, ListParts
      <4> QED BY <4>1 DEF Parts
    <3> QED BY <1>12, <3>1
  <2>2. Len(V) \in Nat /\ Len(V) <= MaxLen /\ Len(N) \in Nat /\ Len(N) <= MaxLen
    BY <1>5, <1>10
  <2>3. Len(S) \in Nat /\ Len(S) <= MaxLen + Len(host) /\ Len(spn) = Len(S) + (2 + Len(N))
    BY <1>7, <1>9
  <2>4. 3 * MaxLen + Len(host) + 3 < Modulus \div 2
    OBVIOUS
  <2> QED BY <1>2, <2>1, <2>2, <2>3, <2>4
<1> DEFINE h == [version |-> version, host |-> host, port |-> port, next |-> next]
<1>14. WriteHandshake(h) = WriteFrame(0, body)
  BY <1>1, <1>11 DEF WriteHandshake
<1>15. PICK r : r = WriteHandshake(h) \o tail
  OBVIOUS
<1>16. PICK f, v, t, p, x : f = ReadFrame(r) /\ v = ReadVarInt(f.value)
         /\ t = ReadString(v.rest) /\ p = ReadFull(t.rest, 2) /\ x = ReadVarInt(p.rest)
  OBVIOUS
<1>17. f.ok /\ f.value = body /\ f.rest = tail
  <2>1. f = Taken(body, tail)
    BY <1>13, <1>14, <1>15, <1>16, FrameBack
  <2>9. Has(f, body, tail)
    BY <2>1, TakenIs, Zenon
  <2> QED BY <2>9 DEF Has
<1>18. v.ok /\ v.value = version /\ v.rest = spn
  <2>1. v = Taken(version, spn)
    BY <1>10, <1>12, <1>16, <1>17
  <2>9. Has(v, version, spn)
    BY <2>1, TakenIs, Zenon
  <2> QED BY <2>9 DEF Has
<1>19. t.ok /\ t.value = host /\ t.rest = pn
  <2>1. t = Taken(host, pn)
    BY <1>9, <1>16, <1>18
  <2>9. Has(t, host, pn)
    BY <2>1, TakenIs, Zenon
  <2> QED BY <2>9 DEF Has
<1>20. p.ok /\ p.value = port /\ p.rest = N
  <2>1. p = Taken(port, N)
    BY <1>7, <1>16, <1>19
  <2>9. Has(p, port, N)
    BY <2>1, TakenIs, Zenon
  <2> QED BY <2>9 DEF Has
<1>21. x.ok /\ x.value = next
  <2>1. x = Taken(next, << >>)
    BY <1>5, <1>16, <1>20
  <2>9. Has(x, next, << >>)
    BY <2>1, TakenIs, Zenon
  <2> QED BY <2>9 DEF Has
<1>22. ReadHandshakeFrom(r) =
         Taken([version |-> v.value, host |-> t.value, port |-> p.value, next |-> x.value],
               f.rest)
  BY <1>16, <1>17, <1>18, <1>19, <1>20, <1>21, Zenon DEF ReadHandshakeFrom
<1>23. ReadHandshakeFrom(r) = Taken(h, tail)
  BY <1>17, <1>18, <1>19, <1>20, <1>21, <1>22, Zenon
<1> QED BY <1>15, <1>23

(* A login that was written is read, whatever the bytes of name and UUID;  *)
(* LoginPacket has taken no byte of what follows.                          *)
THEOREM LoginBack ==
  ASSUME NEW name \in Seq(Bytes), NEW uuid \in [1 .. UuidLen -> Bytes],
         MaxLen + Len(name) + UuidLen + 1 < Modulus \div 2, NEW tail \in Seq(Bytes)
  PROVE  LET l == [name |-> name, uuid |-> uuid]
         IN  ReadLoginFrom(WriteLogin(l) \o tail) = Taken(l, tail)
<1>1. PICK S : S = WriteString(name)
  OBVIOUS
<1>2. /\ Len(name) \in Nat /\ MaxLen \in Nat /\ Modulus \div 2 \in Nat
      /\ UuidLen \in Nat \ {0}
  BY ListDomain, Widths, WidthAssumption
<1>3. uuid \in Seq(Bytes) /\ Len(uuid) = UuidLen
  BY <1>2
<1>4. /\ S \in Seq(Bytes) /\ Len(S) \in Nat /\ Len(S) <= MaxLen + Len(name)
      /\ ReadString(S \o uuid) = Taken(name, uuid)
  <2>1. Len(name) < Modulus \div 2
    BY <1>2
  <2> QED BY <1>1, <1>3, <2>1, StringBack
<1>5. PICK body : body = S \o uuid
  OBVIOUS
<1>6. body \in Seq(Bytes) /\ Len(body) + 1 < Modulus \div 2
  <2>1. body \in Seq(Bytes) /\ Len(body) = Len(S) + Len(uuid)
    <3>1. S \in Seq(Bytes) /\ uuid \in Seq(Bytes)
      BY <1>3, <1>4
    <3>2. S \o uuid \in Seq(Bytes) /\ Len(S \o uuid) = Len(S) + Len(uuid)
      <4>1. Parts(Bytes, S, uuid)
        BY <3>1, ListParts
      <4> QED BY <4>1 DEF Parts
    <3> QED BY <1>5, <3>2
  <2> QED BY <1>2, <1>3, <1>4, <2>1
<1> DEFINE l == [name |-> name, uuid |-> uuid]
<1>7. WriteLogin(l) = WriteFrame(0, body)
  BY <1>1, <1>5 DEF WriteLogin
<1>8. PICK r : r = WriteLogin(l) \o tail
  OBVIOUS
<1>9. PICK f, n : f = ReadFrame(r) /\ n = ReadString(f.value)
  OBVIOUS
<1>10. f.ok /\ f.value = body /\ f.rest = tail
  <2>1. f = Taken(body, tail)
    BY <1>6, <1>7, <1>8, <1>9, FrameBack
  <2>9. Has(f, body, tail)
    BY <2>1, TakenIs, Zenon
  <2> QED BY <2>9 DEF Has
<1>11. n.ok /\ n.value = name /\ n.rest = uuid
  <2>1. n = Taken(name, uuid)
    BY <1>4, <1>5, <1>9, <1>10
  <2>9. Has(n, name, uuid)
    BY <2>1, TakenIs, Zenon
  <2> QED BY <2>9 DEF Has
<1>12. uuid # << >>
  BY <1>2, <1>3
<1> DEFINE filled == [i \in 1 .. UuidLen |->
                        IF i <= Len(n.rest) THEN n.rest[i] ELSE Byte(0, FALSE)]
<1>13. filled = uuid
  <2>1. ASSUME NEW i \in 1 .. UuidLen PROVE filled[i] = uuid[i]
    <3>1. i <= Len(uuid)
      BY <1>2, <1>3
    <3> QED BY <1>11, <3>1
  <2>2. filled = [i \in 1 .. UuidLen |-> filled[i]]
    OBVIOUS
  <2>3. uuid = [i \in 1 .. UuidLen |-> uuid[i]]
    OBVIOUS
  <2> HIDE DEF filled
  <2> QED BY <2>1, <2>2, <2>3
<1>14. ReadLoginFrom(r) = Taken([name |-> n.value, uuid |-> filled], f.rest)
  BY <1>9, <1>10, <1>11, <1>12, Zenon DEF ReadLoginFrom
<1> HIDE DEF filled
<1>15. ReadLoginFrom(r) = Taken(l, tail)
  BY <1>10, <1>11, <1>13, <1>14, Zenon
<1> QED BY <1>1, <1>8, <1>15

(* What the session's reader is said to do, for all of them.               *)
LEMMA PacketsReadBack == VarIntsReadBack /\ HandshakesReadBack /\ LoginsReadBack
<1>1. VarIntsReadBack
  BY StringsAre, IntBack, VarIntLenIs DEF VarIntsReadBack
<1>2. /\ MaxLen \in Nat \ {0} /\ UuidLen \in Nat \ {0} /\ MaxString \in Nat
      /\ Modulus \div 2 \in Nat
      /\ 3 * MaxLen + UuidLen + MaxString + 3 < Modulus \div 2
  BY Widths, WidthAssumption, LengthAssumption
<1>3. HandshakesReadBack
  <2>1. SUFFICES ASSUME NEW s \in Strings, NEW tail \in Tails,
                        NEW version \in {-1, Base}, NEW next \in 1 .. 3
                 PROVE  LET h == [version |-> version, host |-> s, next |-> next,
                                  port |-> << Byte(1, TRUE), Byte(0, FALSE) >>]
                        IN  ReadHandshakeFrom(WriteHandshake(h) \o tail) = Taken(h, tail)
    BY DEF HandshakesReadBack
  <2>2. PICK port : port = << Byte(1, TRUE), Byte(0, FALSE) >>
    OBVIOUS
  <2>3. Byte(1, TRUE) \in Bytes /\ Byte(0, FALSE) \in Bytes
    BY Widths DEF Byte, Bytes
  <2>4. port \in Seq(Bytes) /\ Len(port) = 2
    <3>1. ASSUME NEW x \in Bytes, NEW y \in Bytes
          PROVE  << x, y >> \in Seq(Bytes) /\ Len(<< x, y >>) = 2
      OBVIOUS
    <3> QED BY <2>2, <2>3, <3>1
  <2>5. version \in Ints /\ next \in Ints
    <3>1. /\ Base \in Nat /\ Power[1] = Base /\ Modulus \in Nat
          /\ \A i, j \in 0 .. MaxLen : i < j => Power[i] < Power[j]
          /\ \A i \in 0 .. MaxLen : Power[i] \in Nat
          /\ 2 * Power[MaxLen - 1] <= Modulus /\ Modulus = 2 * (Modulus \div 2)
      BY Widths
    <3>2. MaxLen > 2 /\ MaxLen \in Nat
      BY WidthAssumption
    <3>3. 1 \in 0 .. MaxLen /\ MaxLen - 1 \in 0 .. MaxLen /\ 1 < MaxLen - 1
      BY <3>2
    <3>4. Power[1] < Power[MaxLen - 1] /\ Power[MaxLen - 1] \in Nat
      BY <3>1, <3>3
    <3>5. Base < Modulus \div 2 /\ 3 < Modulus \div 2
      BY <1>2, <3>1, <3>4
    <3> QED BY <1>2, <3>1, <3>5 DEF Ints
  <2>6. s \in Seq(Bytes) /\ Len(s) \in 0 .. MaxString /\ tail \in Seq(Bytes)
    BY StringsAre
  <2>7. 3 * MaxLen + Len(s) + 3 < Modulus \div 2
    BY <1>2, <2>6
  <2>8. PICK h : h = [version |-> version, host |-> s, port |-> port, next |-> next]
    OBVIOUS
  <2>9. ReadHandshakeFrom(WriteHandshake(h) \o tail) = Taken(h, tail)
    BY <2>4, <2>5, <2>6, <2>7, <2>8, HandshakeBack
  <2>10. h = [version |-> version, host |-> s, next |-> next, port |-> port]
    BY <2>8
  <2> QED BY <2>2, <2>9, <2>10
<1>4. LoginsReadBack
  <2>1. SUFFICES ASSUME NEW s \in Strings, NEW tail \in Tails, NEW b \in Bytes
                 PROVE  LET l == [name |-> s, uuid |-> [i \in 1 .. UuidLen |-> b]]
                        IN  ReadLoginFrom(WriteLogin(l) \o tail) = Taken(l, tail)
    BY DEF LoginsReadBack
  <2>2. s \in Seq(Bytes) /\ Len(s) \in 0 .. MaxString /\ tail \in Seq(Bytes)
    BY StringsAre
  <2>3. MaxLen + Len(s) + UuidLen + 1 < Modulus \div 2
    BY <1>2, <2>2
  <2>4. PICK uuid \in [1 .. UuidLen -> Bytes] : uuid = [i \in 1 .. UuidLen |-> b]
    OBVIOUS
  <2>5. PICK l : l = [name |-> s, uuid |-> uuid]
    OBVIOUS
  <2>6. ReadLoginFrom(WriteLogin(l) \o tail) = Taken(l, tail)
    BY <2>2, <2>3, <2>5, LoginBack
  <2> QED BY <2>4, <2>5, <2>6
<1> QED BY <1>1, <1>3, <1>4

(* When the handler reads the handshake, and then the login, it has what    *)
(* the client wrote and has read not one byte of what it is to copy:       *)
(* VarInt, String, HandshakePacket and LoginPacket of node/protocol.       *)
THEOREM PacketsAreReadBack == Spec => []PacketsRoundTrip
<1>1. PacketsRoundTrip
  BY PacketsReadBack DEF PacketsRoundTrip
<1> QED BY <1>1, PTL
=============================================================================
