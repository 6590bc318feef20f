------------------------------ MODULE ListFacts ------------------------------
(***************************************************************************)
(* Facts about numbers and sequences that the proofs of several components *)
(* rest on: the least number of a set, and what the four ways in which the *)
(* program changes a list do to its elements.                              *)
(***************************************************************************)
EXTENDS Integers, Sequences, SequenceTheorems, WellFoundedInduction, TLAPS

(* The relation < on the natural numbers, as a set of pairs. *)
Below == { p \in Nat \X Nat : p[1] < p[2] }

(* A set of natural numbers that is not empty has a least element.         *)
LEMMA LeastElement ==
  ASSUME NEW S \in SUBSET Nat, S # {}
  PROVE  \E i \in S : \A j \in S : i <= j
<1>1. IsWellFoundedOn(Below, Nat)
  BY NatLessThanWellFounded, Zenon DEF OpToRel, Below
<1>2. PICK i \in S : \A j \in S : ~ (<< j, i >> \in Below)
  BY <1>1, WFMin
<1>3. \A j \in S : ~ (j < i)
  BY <1>2 DEF Below
<1> QED BY <1>3

(* A list is a function on the numbers up to its length.                   *)
LEMMA ListDomain ==
  ASSUME NEW S, NEW list \in Seq(S)
  PROVE  /\ Len(list) \in Nat /\ DOMAIN list = 1 .. Len(list)
         /\ \A i \in 1 .. Len(list) : list[i] \in S
         /\ list = << >> <=> Len(list) = 0
<1>1. Len(list) \in Nat /\ DOMAIN list = 1 .. Len(list)
      /\ \A i \in 1 .. Len(list) : list[i] \in S
  BY LenProperties
<1>2. list # << >> => Len(list) \in Nat \ {0}
  BY EmptySeq
<1>3. Len(<< >>) = 0
  OBVIOUS
<1> QED BY <1>1, <1>2, <1>3

(* What is appended comes last, the others keep their places.              *)
LEMMA AppendedList ==
  ASSUME NEW S, NEW list \in Seq(S), NEW e \in S
  PROVE  /\ Append(list, e) \in Seq(S)
         /\ Len(list) \in Nat /\ DOMAIN list = 1 .. Len(list)
         /\ Len(Append(list, e)) = Len(list) + 1
         /\ DOMAIN Append(list, e) = 1 .. Len(list) + 1
         /\ Append(list, e)[Len(list) + 1] = e
         /\ \A i \in 1 .. Len(list) : Append(list, e)[i] = list[i]
<1>1. /\ Append(list, e) \in Seq(S) /\ Len(Append(list, e)) = Len(list) + 1
      /\ \A i \in 1 .. Len(list) : Append(list, e)[i] = list[i]
      /\ Append(list, e)[Len(list) + 1] = e
  BY AppendProperties
<1>2. Len(list) \in Nat /\ DOMAIN list = 1 .. Len(list)
  BY LenProperties
<1>3. DOMAIN Append(list, e) = 1 .. Len(Append(list, e))
  BY <1>1, LenProperties
<1> QED BY <1>1, <1>2, <1>3

(* Without its head every element moves down by one place.                 *)
LEMMA ListTail ==
  ASSUME NEW S, NEW list \in Seq(S), list # << >>
  PROVE  /\ Tail(list) \in Seq(S)
         /\ Len(list) \in Nat \ {0} /\ DOMAIN list = 1 .. Len(list)
         /\ Len(Tail(list)) = Len(list) - 1
         /\ DOMAIN Tail(list) = 1 .. Len(list) - 1
         /\ Head(list) = list[1] /\ list[1] \in S
         /\ \A i \in 1 .. Len(list) - 1 : Tail(list)[i] = list[i + 1]
<1>1. /\ Tail(list) \in Seq(S) /\ Len(Tail(list)) = Len(list) - 1
      /\ \A i \in 1 .. Len(Tail(list)) : Tail(list)[i] = list[i + 1]
      /\ Head(list) \in S
  BY HeadTailProperties
<1>2. Len(list) \in Nat \ {0} /\ DOMAIN list = 1 .. Len(list)
  BY EmptySeq, LenProperties
<1>3. DOMAIN Tail(list) = 1 .. Len(Tail(list))
  BY <1>1, LenProperties
<1>4. Head(list) = list[1]
  OBVIOUS
<1> QED BY <1>1, <1>2, <1>3, <1>4

(* Without its last element the others keep their places.                  *)
LEMMA ListFront ==
  ASSUME NEW S, NEW list \in Seq(S), list # << >>
  PROVE  /\ SubSeq(list, 1, Len(list) - 1) \in Seq(S)
         /\ Len(list) \in Nat \ {0} /\ DOMAIN list = 1 .. Len(list)
         /\ Len(SubSeq(list, 1, Len(list) - 1)) = Len(list) - 1
         /\ DOMAIN SubSeq(list, 1, Len(list) - 1) = 1 .. Len(list) - 1
         /\ \A i \in 1 .. Len(list) - 1 : SubSeq(list, 1, Len(list) - 1)[i] = list[i]
<1>1. Len(list) \in Nat \ {0} /\ DOMAIN list = 1 .. Len(list)
      /\ \A i \in 1 .. Len(list) : list[i] \in S
  BY EmptySeq, LenProperties
<1>2. /\ SubSeq(list, 1, Len(list) - 1) \in Seq(S)
      /\ Len(SubSeq(list, 1, Len(list) - 1)) = IF 1 <= Len(list) - 1 THEN Len(list) - 1 - 1 + 1 ELSE 0
      /\ \A i \in 1 .. Len(list) - 1 - 1 + 1 : SubSeq(list, 1, Len(list) - 1)[i] = list[1 + i - 1]
  BY <1>1, SubSeqProperties
<1>3. Len(SubSeq(list, 1, Len(list) - 1)) = Len(list) - 1
  BY <1>1, <1>2
<1>4. DOMAIN SubSeq(list, 1, Len(list) - 1) = 1 .. Len(SubSeq(list, 1, Len(list) - 1))
  BY <1>2, LenProperties
<1>5. \A i \in 1 .. Len(list) - 1 : SubSeq(list, 1, Len(list) - 1)[i] = list[i]
  BY <1>1, <1>2
<1> QED BY <1>1, <1>2, <1>3, <1>4, <1>5

(* Where one element is cut out those behind it move down by one place.    *)
LEMMA ListWithout ==
  ASSUME NEW S, NEW list \in Seq(S), NEW k \in 1 .. Len(list)
  PROVE  /\ SubSeq(list, 1, k - 1) \o SubSeq(list, k + 1, Len(list)) \in Seq(S)
         /\ Len(SubSeq(list, 1, k - 1) \o SubSeq(list, k + 1, Len(list))) = Len(list) - 1
         /\ \A i \in 1 .. Len(list) - 1 :
              (SubSeq(list, 1, k - 1) \o SubSeq(list, k + 1, Len(list)))[i]
                = IF i < k THEN list[i] ELSE list[i + 1]
<1> DEFINE n == Len(list)
           low == SubSeq(list, 1, k - 1)
           high == SubSeq(list, k + 1, Len(list))
<1>1. n \in Nat /\ \A i \in 1 .. n : list[i] \in S
  BY LenProperties
<1>2. /\ low \in Seq(S) /\ Len(low) = k - 1
      /\ \A i \in 1 .. k - 1 : low[i] = list[i]
  <2>1. /\ low \in Seq(S) /\ Len(low) = IF 1 <= k - 1 THEN k - 1 - 1 + 1 ELSE 0
        /\ \A i \in 1 .. k - 1 - 1 + 1 : low[i] = list[1 + i - 1]
    BY <1>1, SubSeqProperties
  <2> QED BY <1>1, <2>1
<1>3. /\ high \in Seq(S) /\ Len(high) = n - k
      /\ \A i \in 1 .. n - k : high[i] = list[k + i]
  <2>1. /\ high \in Seq(S) /\ Len(high) = IF k + 1 <= n THEN n - (k + 1) + 1 ELSE 0
        /\ \A i \in 1 .. n - (k + 1) + 1 : high[i] = list[k + 1 + i - 1]
    BY <1>1, SubSeqProperties
  <2> QED BY <1>1, <2>1
<1> HIDE DEF low, high, n
<1>4. /\ low \o high \in Seq(S) /\ Len(low \o high) = Len(low) + Len(high)
      /\ \A i \in 1 .. Len(low) + Len(high) :
           (low \o high)[i] = IF i <= Len(low) THEN low[i] ELSE high[i - Len(low)]
  BY <1>2, <1>3, ConcatProperties
<1>5. k \in 1 .. n
  BY DEF n
<1>6. ASSUME NEW i \in 1 .. n - 1
      PROVE  (low \o high)[i] = IF i < k THEN list[i] ELSE list[i + 1]
  <2>1. i \in 1 .. Len(low) + Len(high)
    BY <1>1, <1>2, <1>3, <1>5
  <2>2. CASE i < k
    BY <1>1, <1>2, <1>4, <1>5, <2>1, <2>2
  <2>3. CASE ~ (i < k)
    <3>1. i - Len(low) = i - k + 1 /\ i - k + 1 \in 1 .. n - k /\ k + (i - k + 1) = i + 1
      BY <1>1, <1>2, <1>5, <2>3
    <3>2. (low \o high)[i] = high[i - k + 1]
      BY <1>2, <1>4, <1>5, <2>1, <2>3, <3>1
    <3>3. high[i - k + 1] = list[k + (i - k + 1)]
      BY <1>3, <3>1
    <3> QED BY <2>3, <3>1, <3>2, <3>3
  <2> QED BY <2>2, <2>3
<1>7. Len(low \o high) = n - 1
  BY <1>1, <1>2, <1>3, <1>4, <1>5
<1> QED BY <1>4, <1>6, <1>7 DEF low, high, n

(* A beginning of a list has its elements in their places; the longest one *)
(* is the list.                                                            *)
LEMMA ListPrefix ==
  ASSUME NEW S, NEW list \in Seq(S), NEW n \in 0 .. Len(list)
  PROVE  /\ SubSeq(list, 1, n) \in Seq(S)
         /\ Len(SubSeq(list, 1, n)) = n
         /\ DOMAIN SubSeq(list, 1, n) = 1 .. n
         /\ \A i \in 1 .. n : SubSeq(list, 1, n)[i] = list[i]
         /\ n = Len(list) => SubSeq(list, 1, n) = list
<1>1. Len(list) \in Nat /\ \A i \in 1 .. Len(list) : list[i] \in S
  BY LenProperties
<1>2. n \in Int /\ \A i \in 1 .. n : list[i] \in S
  BY <1>1
<1>3. /\ SubSeq(list, 1, n) \in Seq(S)
      /\ Len(SubSeq(list, 1, n)) = IF 1 <= n THEN n - 1 + 1 ELSE 0
      /\ \A i \in 1 .. n - 1 + 1 : SubSeq(list, 1, n)[i] = list[1 + i - 1]
  BY <1>2, SubSeqProperties
<1>4. Len(SubSeq(list, 1, n)) = n /\ \A i \in 1 .. n : SubSeq(list, 1, n)[i] = list[i]
  BY <1>1, <1>2, <1>3
<1>5. DOMAIN SubSeq(list, 1, n) = 1 .. n
  BY <1>3, <1>4, LenProperties
<1>6. SubSeq(list, 1, Len(list)) = list
  BY SubSeqFull
<1> QED BY <1>3, <1>4, <1>5, <1>6

-----------------------------------------------------------------------------
(* Numbers written with digits, the lowest first. *)

(* What is left of a list without its first n elements.                    *)
LEMMA ListSuffix ==
  ASSUME NEW S, NEW list \in Seq(S), NEW n \in 0 .. Len(list)
  PROVE  /\ SubSeq(list, n + 1, Len(list)) \in Seq(S)
         /\ Len(SubSeq(list, n + 1, Len(list))) = Len(list) - n
         /\ \A i \in 1 .. Len(list) - n : SubSeq(list, n + 1, Len(list))[i] = list[n + i]
<1>1. PICK m \in Nat, l \in Nat : m = n + 1 /\ l = Len(list) /\ n \in Nat /\ n <= l
  BY ListDomain
<1>2. \A i \in m .. l : list[i] \in S
  BY <1>1, ListDomain
<1>3. /\ SubSeq(list, m, l) \in Seq(S)
      /\ Len(SubSeq(list, m, l)) = IF m <= l THEN l - m + 1 ELSE 0
      /\ \A i \in 1 .. l - m + 1 : SubSeq(list, m, l)[i] = list[m + i - 1]
  <2>1. m \in Int /\ l \in Int
    BY <1>1
  <2> QED BY <1>2, <2>1, SubSeqProperties
<1>4. l - m + 1 = l - n /\ (IF m <= l THEN l - m + 1 ELSE 0) = l - n
  BY <1>1
<1>5. \A i \in 1 .. l - n : m + i - 1 = n + i
  BY <1>1
<1>6. /\ SubSeq(list, m, l) \in Seq(S) /\ Len(SubSeq(list, m, l)) = l - n
      /\ \A i \in 1 .. l - n : SubSeq(list, m, l)[i] = list[n + i]
  BY <1>3, <1>4, <1>5
<1> QED BY <1>1, <1>6

(* Two lists put together fall apart into the two lists.                   *)
Parts(S, s, t) ==
  /\ s \o t \in Seq(S) /\ Len(s \o t) = Len(s) + Len(t)
  /\ Len(s) \in Nat /\ Len(t) \in Nat
  /\ SubSeq(s \o t, 1, Len(s)) = s
  /\ SubSeq(s \o t, Len(s) + 1, Len(s \o t)) = t
  /\ \A i \in 1 .. Len(s) : (s \o t)[i] = s[i]
  /\ \A i \in 1 .. Len(t) : (s \o t)[Len(s) + i] = t[i]

LEMMA ListParts ==
  ASSUME NEW S, NEW s \in Seq(S), NEW t \in Seq(S)
  PROVE  Parts(S, s, t)
<1>1. PICK r, k : r = s \o t /\ k = Len(s)
  OBVIOUS
<1>2. /\ r \in Seq(S) /\ Len(r) = k + Len(t)
      /\ \A i \in 1 .. Len(r) : r[i] = IF i <= k THEN s[i] ELSE t[i - k]
  BY <1>1, ConcatProperties
<1>3. k \in Nat /\ Len(t) \in Nat
  BY <1>1, ListDomain
<1>4. k \in 0 .. Len(r) /\ k \in Int /\ 1 \in Int
  BY <1>2, <1>3
<1>5. /\ \A i \in 1 .. k : r[i] = s[i]
      /\ \A i \in 1 .. Len(t) : r[k + i] = t[i]
  BY <1>2, <1>3
<1>6. SubSeq(r, 1, k) = s
  <2>1. \A i \in 1 .. k : r[i] \in S
    BY <1>1, <1>5, ListDomain
  <2>2. /\ SubSeq(r, 1, k) \in Seq(S)
        /\ Len(SubSeq(r, 1, k)) = IF 1 <= k THEN k - 1 + 1 ELSE 0
        /\ \A i \in 1 .. k - 1 + 1 : SubSeq(r, 1, k)[i] = r[1 + i - 1]
    BY <1>4, <2>1, SubSeqProperties
  <2>3. PICK q : q = SubSeq(r, 1, k)
    OBVIOUS
  <2>4. q \in Seq(S) /\ Len(q) = k /\ \A i \in 1 .. k : q[i] = s[i]
    BY <1>3, <1>5, <2>2, <2>3
  <2>5. q = s
    BY <1>1, <2>4, SeqEqual
  <2> QED BY <2>3, <2>5
<1>7. SubSeq(r, k + 1, Len(r)) = t
  <2>1. PICK q : q = SubSeq(r, k + 1, Len(r))
    OBVIOUS
  <2>2. /\ q \in Seq(S) /\ Len(q) = Len(r) - k
        /\ \A i \in 1 .. Len(r) - k : q[i] = r[k + i]
    BY <1>2, <1>4, <2>1, ListSuffix
  <2>3. Len(q) = Len(t) /\ \A i \in 1 .. Len(q) : q[i] = t[i]
    BY <1>2, <1>3, <1>5, <2>2
  <2>4. q = t
    BY <2>2, <2>3, SeqEqual
  <2> QED BY <2>1, <2>4
<1> QED BY <1>1, <1>2, <1>3, <1>5, <1>6, <1>7 DEF Parts

(* Lists of two and three, taken apart and put together.                   *)
Few(a, b, c) ==
  /\ << a, b >> \o << c >> = << a, b, c >>
  /\ SubSeq(<< a, b, c >>, 2, 3) = << b, c >>
  /\ SubSeq(<< b, c >>, 2, 2) = << c >>

LEMMA ShortLists ==
  ASSUME NEW S, NEW a \in S, NEW b \in S, NEW c \in S
  PROVE  Few(a, b, c)
<1>1. PICK one, first, two, three : one = << c >> /\ first = << a, b >> /\ two = << b, c >>
                                    /\ three = << a, b, c >>
  OBVIOUS
<1>2. /\ one \in Seq(S) /\ Len(one) = 1 /\ one[1] = c
      /\ first \in Seq(S) /\ Len(first) = 2 /\ first[1] = a /\ first[2] = b
      /\ two \in Seq(S) /\ Len(two) = 2 /\ two[1] = b /\ two[2] = c
      /\ three \in Seq(S) /\ Len(three) = 3 /\ three[1] = a /\ three[2] = b /\ three[3] = c
  BY <1>1
<1>3. first \o one = three
  <2>1. PICK q : q = first \o one
    OBVIOUS
  <2>2. /\ q \in Seq(S) /\ Len(q) = 3 /\ q[1] = a /\ q[2] = b /\ q[3] = c
    <3>1. /\ first \o one \in Seq(S) /\ Len(first \o one) = Len(first) + Len(one)
          /\ \A i \in 1 .. Len(first) : (first \o one)[i] = first[i]
          /\ \A i \in 1 .. Len(one) : (first \o one)[Len(first) + i] = one[i]
      <4>1. first \in Seq(S) /\ one \in Seq(S)
        BY <1>2
      <4>2. Parts(S, first, one)
        BY <4>1, ListParts
      <4> QED BY <4>2 DEF Parts
    <3> QED BY <1>2, <2>1, <3>1
  <2>3. \A i \in 1 .. 3 : i = 1 \/ i = 2 \/ i = 3
    OBVIOUS
  <2>4. \A i \in 1 .. Len(q) : q[i] = three[i]
    BY <1>2, <2>2, <2>3
  <2> QED BY <1>2, <2>1, <2>2, <2>4, SeqEqual
<1>4. SubSeq(three, 2, 3) = two
  <2>1. PICK q : q = SubSeq(three, 2, 3)
    OBVIOUS
  <2>2. 1 \in 0 .. Len(three) /\ 1 + 1 = 2 /\ Len(three) = 3 /\ 3 - 1 = 2 /\ 1 + 2 = 3
    BY <1>2
  <2>3. /\ q \in Seq(S) /\ Len(q) = 2 /\ \A i \in 1 .. 2 : q[i] = three[1 + i]
    BY <1>2, <2>1, <2>2, ListSuffix
  <2>4. \A i \in 1 .. 2 : i = 1 \/ i = 2
    OBVIOUS
  <2>5. \A i \in 1 .. Len(q) : q[i] = two[i]
    BY <1>2, <2>2, <2>3, <2>4
  <2> QED BY <1>2, <2>1, <2>3, <2>5, SeqEqual
<1>5. SubSeq(two, 2, 2) = one
  <2>1. PICK q : q = SubSeq(two, 2, 2)
    OBVIOUS
  <2>2. 1 \in 0 .. Len(two) /\ 1 + 1 = 2 /\ Len(two) = 2 /\ 2 - 1 = 1
    BY <1>2
  <2>3. /\ q \in Seq(S) /\ Len(q) = 1 /\ \A i \in 1 .. 1 : q[i] = two[1 + i]
    BY <1>2, <2>1, <2>2, ListSuffix
  <2>4. \A i \in 1 .. 1 : i = 1
    OBVIOUS
  <2>5. \A i \in 1 .. Len(q) : q[i] = one[i]
    BY <1>2, <2>2, <2>3, <2>4
  <2> QED BY <1>2, <2>1, <2>3, <2>5, SeqEqual
<1> QED BY <1>1, <1>3, <1>4, <1>5 DEF Few

(* Three lists may be put together in either order.                        *)
EitherOrder(s, t, u) == (s \o t) \o u = s \o (t \o u)

LEMMA ListOfThree ==
  ASSUME NEW S, NEW s \in Seq(S), NEW t \in Seq(S), NEW u \in Seq(S)
  PROVE  EitherOrder(s, t, u)
<1>1. PICK a, b : a = s \o t /\ b = t \o u
  OBVIOUS
<1>2. PICK l, m, n : l = Len(s) /\ m = Len(t) /\ n = Len(u)
  OBVIOUS
<1>3. /\ a \in Seq(S) /\ Len(a) = l + m /\ b \in Seq(S) /\ Len(b) = m + n
      /\ l \in Nat /\ m \in Nat /\ n \in Nat
      /\ \A i \in 1 .. l + m : a[i] = IF i <= l THEN s[i] ELSE t[i - l]
      /\ \A i \in 1 .. m + n : b[i] = IF i <= m THEN t[i] ELSE u[i - m]
  BY <1>1, <1>2, ConcatProperties, ListDomain
<1>4. PICK x, y : x = a \o u /\ y = s \o b
  OBVIOUS
<1>5. /\ x \in Seq(S) /\ Len(x) = (l + m) + n
      /\ \A i \in 1 .. (l + m) + n : x[i] = IF i <= l + m THEN a[i] ELSE u[i - (l + m)]
  <2>1. /\ a \o u \in Seq(S) /\ Len(a \o u) = Len(a) + Len(u)
        /\ \A i \in 1 .. Len(a) + Len(u) :
             (a \o u)[i] = IF i <= Len(a) THEN a[i] ELSE u[i - Len(a)]
    BY <1>3, ConcatProperties
  <2> QED BY <1>2, <1>3, <1>4, <2>1
<1>6. /\ y \in Seq(S) /\ Len(y) = l + (m + n)
      /\ \A i \in 1 .. l + (m + n) : y[i] = IF i <= l THEN s[i] ELSE b[i - l]
  <2>1. /\ s \o b \in Seq(S) /\ Len(s \o b) = Len(s) + Len(b)
        /\ \A i \in 1 .. Len(s) + Len(b) :
             (s \o b)[i] = IF i <= Len(s) THEN s[i] ELSE b[i - Len(s)]
    BY <1>3, ConcatProperties
  <2> QED BY <1>2, <1>3, <1>4, <2>1
<1>7. Len(x) = Len(y)
  BY <1>3, <1>5, <1>6
<1>8. ASSUME NEW i \in 1 .. Len(x) PROVE x[i] = y[i]
  <2>1. i \in 1 .. (l + m) + n /\ i \in 1 .. l + (m + n)
    <3>1. Len(x) = (l + m) + n /\ l \in Nat /\ m \in Nat /\ n \in Nat
      BY <1>3, <1>5
    <3> QED BY <3>1
  <2>2. CASE i <= l
    <3>1. i \in 1 .. l + m /\ i <= l + m
      BY <1>3, <2>1, <2>2
    <3>2. x[i] = s[i]
      BY <1>3, <1>5, <2>1, <2>2, <3>1
    <3> QED BY <1>6, <2>1, <2>2, <3>2
  <2>3. CASE i > l /\ i <= l + m
    <3>1. i \in 1 .. l + m /\ ~ (i <= l) /\ i - l \in 1 .. m + n /\ i - l <= m
      BY <1>3, <2>1, <2>3
    <3>2. x[i] = a[i] /\ a[i] = t[i - l]
      <4>1. x[i] = a[i]
        BY <1>5, <2>1, <2>3
      <4>2. a[i] = t[i - l]
        BY <1>3, <3>1
      <4> QED BY <4>1, <4>2
    <3>3. b[i - l] = t[i - l]
      BY <1>3, <3>1
    <3>4. y[i] = b[i - l]
      BY <1>6, <2>1, <3>1
    <3> QED BY <3>2, <3>3, <3>4
  <2>4. CASE i > l + m
    <3>1. /\ ~ (i <= l + m) /\ ~ (i <= l) /\ i - l \in 1 .. m + n /\ ~ (i - l <= m)
          /\ i - l - m = i - (l + m)
      BY <1>3, <2>1, <2>4
    <3>2. x[i] = u[i - (l + m)]
      BY <1>5, <2>1, <3>1
    <3>3. b[i - l] = u[i - l - m]
      <4>1. \A j \in 1 .. m + n : b[j] = IF j <= m THEN t[j] ELSE u[j - m]
        BY <1>3
      <4>2. b[i - l] = IF i - l <= m THEN t[i - l] ELSE u[i - l - m]
        BY <3>1, <4>1, Zenon
      <4> QED BY <3>1, <4>2
    <3>4. y[i] = b[i - l]
      <4>1. \A j \in 1 .. l + (m + n) : y[j] = IF j <= l THEN s[j] ELSE b[j - l]
        BY <1>6
      <4> QED BY <2>1, <3>1, <4>1, Zenon
    <3> QED BY <3>1, <3>2, <3>3, <3>4
  <2>5. i <= l \/ (i > l /\ i <= l + m) \/ i > l + m
    BY <1>3, <2>1
  <2> QED BY <2>2, <2>3, <2>4, <2>5
<1>9. x = y
  BY <1>5, <1>6, <1>7, <1>8, SeqEqual
<1> QED BY <1>1, <1>4, <1>9 DEF EitherOrder

(* A number is its last digit and what is left of it; both are natural.    *)
LEMMA LastDigit ==
  ASSUME NEW u \in Nat, NEW B \in Nat, B > 1
  PROVE  /\ u \div B \in Nat /\ u % B \in 0 .. B - 1
         /\ u = (u \div B) * B + (u % B)
         /\ u >= B => u \div B \in 0 .. u - 1 /\ u \div B > 0
         /\ u < B => u \div B = 0 /\ u % B = u
<1>1. u \div B \in Nat /\ u % B \in 0 .. B - 1 /\ u = (u \div B) * B + (u % B)
  OBVIOUS
<1>2. u >= B => u \div B \in 0 .. u - 1 /\ u \div B > 0
  OBVIOUS
<1>3. u < B => u \div B = 0 /\ u % B = u
  OBVIOUS
<1> QED BY <1>1, <1>2, <1>3

(* What is defined from its predecessor exists on every interval from 0.   *)
Iterates(f, S, first, n, step) ==
  /\ f \in [0 .. n -> S] /\ f[0] = first
  /\ \A i \in 1 .. n : f[i] = step[<< i, f[i - 1] >>]

LEMMA Iteration ==
  ASSUME NEW S, NEW first \in S, NEW n \in Nat,
         NEW step, \A i \in 1 .. n, x \in S : step[<< i, x >>] \in S
  PROVE  \E f : Iterates(f, S, first, n, step)
<1> DEFINE Upto(f, k) ==
      f \in [0 .. k -> S] /\ f[0] = first
      /\ \A i \in 1 .. k : f[i] = step[<< i, f[i - 1] >>]
           Bad == { k \in Nat : k <= n /\ ~ \E f : Upto(f, k) }
<1>1. SUFFICES ASSUME Bad # {} PROVE FALSE
  <2>1. \E f : Upto(f, n)
    BY <1>1
  <2> QED BY <2>1 DEF Iterates
<1>2. PICK k \in Bad : \A j \in Bad : k <= j
  BY <1>1, LeastElement
<1>3. k \in Nat /\ k <= n /\ ~ \E f : Upto(f, k)
  BY <1>2
<1>4. CASE k = 0
  <2>1. Upto([i \in 0 .. 0 |-> first], 0)
    OBVIOUS
  <2> QED BY <1>3, <1>4, <2>1
<1>5. CASE k # 0
  <2>1. k - 1 \in Nat /\ k - 1 <= n /\ k - 1 \notin Bad
    BY <1>2, <1>3, <1>5
  <2>2. PICK g : Upto(g, k - 1)
    BY <2>1
  <2> DEFINE f == [i \in 0 .. k |-> IF i < k THEN g[i] ELSE step[<< k, g[k - 1] >>]]
  <2>3. g[k - 1] \in S /\ step[<< k, g[k - 1] >>] \in S
    BY <1>3, <1>5, <2>1, <2>2
  <2>4. f \in [0 .. k -> S] /\ f[0] = first
    BY <1>3, <1>5, <2>2, <2>3
  <2>5. ASSUME NEW i \in 1 .. k PROVE f[i] = step[<< i, f[i - 1] >>]
    <3>1. f[i - 1] = g[i - 1]
      BY <1>3, <1>5
    <3>2. CASE i = k
      <4>1. f[k] = step[<< k, g[k - 1] >>]
        BY <1>3
      <4>2. f[k - 1] = g[k - 1]
        BY <3>1, <3>2
      <4> QED BY <3>2, <4>1, <4>2, Zenon
    <3>3. CASE i # k
      <4>1. i \in 1 .. k - 1 /\ f[i] = g[i]
        BY <1>3, <1>5, <3>3
      <4> QED BY <2>2, <3>1, <4>1
    <3> QED BY <3>2, <3>3
  <2>6. Upto(f, k)
    BY <2>4, <2>5
  <2> QED BY <1>3, <2>6
<1> QED BY <1>4, <1>5

(* The digits of a number, the lowest first: all but the last say that one *)
(* more follows.  q[i] is what is left of the number after i digits.       *)
Digit(B) == [digit : 0 .. B - 1, more : BOOLEAN]
IsNumeral(d, u, n, q, B) ==
  /\ n \in Nat \ {0} /\ q \in [0 .. n -> Nat]
  /\ d \in Seq(Digit(B)) /\ Len(d) = n
  /\ q[0] = u /\ q[n] = 0
  /\ \A i \in 1 .. n : q[i] = q[i - 1] \div B
  /\ \A i \in 1 .. n : d[i].digit = q[i - 1] % B
  /\ \A i \in 1 .. n : d[i].more <=> i < n
  /\ \A i \in 1 .. n - 1 : q[i] > 0
Numerals(D, m, B) ==
  D = [u \in 0 .. m |->
         IF u < B THEN << [digit |-> u, more |-> FALSE] >>
         ELSE << [digit |-> u % B, more |-> TRUE] >> \o D[u \div B]]

(* They exist. *)
LEMMA NumeralsExist ==
  ASSUME NEW B \in Nat, B > 1, NEW m \in Nat
  PROVE  \E D : Numerals(D, m, B)
<1> DEFINE Bad == { k \in Nat : ~ \E D : Numerals(D, k, B) }
<1>1. SUFFICES ASSUME Bad # {} PROVE FALSE
  BY <1>1
<1>2. PICK k \in Bad : \A j \in Bad : k <= j
  BY <1>1, LeastElement
<1>3. k \in Nat /\ ~ \E D : Numerals(D, k, B)
  BY <1>2
<1>4. PICK g : k # 0 => Numerals(g, k - 1, B)
  <2>1. CASE k = 0
    BY <2>1
  <2>2. CASE k # 0
    <3>1. k - 1 \in Nat /\ k - 1 \notin Bad
      BY <1>2, <1>3, <2>2
    <3> QED BY <3>1
  <2> QED BY <2>1, <2>2
<1> DEFINE Last ==
      IF k < B THEN << [digit |-> k, more |-> FALSE] >>
      ELSE << [digit |-> k % B, more |-> TRUE] >> \o g[k \div B]
           D == [u \in 0 .. k |-> IF u < k THEN g[u] ELSE Last]
<1>5. ASSUME NEW u \in 0 .. k
      PROVE  D[u] = IF u < B THEN << [digit |-> u, more |-> FALSE] >>
                    ELSE << [digit |-> u % B, more |-> TRUE] >> \o D[u \div B]
  <2>1. u \in Nat /\ (u >= B => u \div B \in 0 .. u - 1)
    <3>1. u \in Nat
      BY <1>3
    <3> QED BY <3>1, LastDigit
  <2>2. u >= B => D[u \div B] = g[u \div B]
    BY <1>3, <2>1
  <2>3. CASE u = k
    BY <1>3, <2>2, <2>3, <2>1
  <2>4. CASE u # k
    <3>1. k # 0 /\ u \in 0 .. k - 1 /\ D[u] = g[u]
      BY <1>3, <2>4
    <3>2. g[u] = IF u < B THEN << [digit |-> u, more |-> FALSE] >>
                 ELSE << [digit |-> u % B, more |-> TRUE] >> \o g[u \div B]
      BY <1>4, <3>1, Zenon DEF Numerals
    <3> QED BY <2>1, <2>2, <3>1, <3>2
  <2> QED BY <2>3, <2>4
<1>6. D = [u \in 0 .. k |->
             IF u < B THEN << [digit |-> u, more |-> FALSE] >>
             ELSE << [digit |-> u % B, more |-> TRUE] >> \o D[u \div B]]
  <2> HIDE DEF Last
  <2>1. D = [u \in 0 .. k |-> D[u]]
    OBVIOUS
  <2> HIDE DEF D
  <2> QED BY <1>5, <2>1, Zenon
<1> QED BY <1>3, <1>6 DEF Numerals

(* Every entry of the table is a numeral of its number.                    *)
LEMMA NumeralsAre ==
  ASSUME NEW B \in Nat, B > 1, NEW m \in Nat, NEW D, Numerals(D, m, B), NEW u \in 0 .. m
  PROVE  \E n, q : IsNumeral(D[u], u, n, q, B)
<1> DEFINE Bad == { w \in Nat : w <= m /\ ~ \E n, q : IsNumeral(D[w], w, n, q, B) }
<1>1. SUFFICES ASSUME Bad # {} PROVE FALSE
  BY <1>1
<1>2. PICK w \in Bad : \A j \in Bad : w <= j
  BY <1>1, LeastElement
<1>3. w \in Nat /\ w \in 0 .. m /\ ~ \E n, q : IsNumeral(D[w], w, n, q, B)
  BY <1>2
<1>0. /\ w \in Nat /\ w \div B \in Nat /\ w % B \in 0 .. B - 1
      /\ w >= B => w \div B \in 0 .. w - 1 /\ w \div B > 0
      /\ w < B => w \div B = 0 /\ w % B = w
  <2>1. w \in Nat
    BY <1>3
  <2> QED BY <2>1, LastDigit
<1>4. D[w] = IF w < B THEN << [digit |-> w, more |-> FALSE] >>
             ELSE << [digit |-> w % B, more |-> TRUE] >> \o D[w \div B]
  BY <1>3, Zenon DEF Numerals
<1>5. CASE w < B
  <2> DEFINE q == [i \in 0 .. 1 |-> IF i = 0 THEN w ELSE 0]
  <2>1. w \div B = 0 /\ w % B = w /\ w \in 0 .. B - 1
    BY <1>0, <1>5
  <2>2. D[w] = << [digit |-> w, more |-> FALSE] >>
    BY <1>4, <1>5
  <2>3. D[w] \in Seq(Digit(B)) /\ Len(D[w]) = 1
    BY <2>1, <2>2 DEF Digit
  <2>4. q \in [0 .. 1 -> Nat] /\ q[0] = w /\ q[1] = 0
    BY <1>3
  <2>5. \A i \in 1 .. 1 : q[i] = q[i - 1] \div B
    BY <2>1, <2>4
  <2>6. /\ \A i \in 1 .. 1 : D[w][i].digit = q[i - 1] % B
        /\ \A i \in 1 .. 1 : D[w][i].more <=> i < 1
    <3>1. \A i \in 1 .. 1 : i = 1 /\ i - 1 = 0 /\ ~ (i < 1)
      OBVIOUS
    <3>2. D[w][1].digit = w /\ ~ D[w][1].more
      BY <2>2
    <3>3. q[0] % B = w
      BY <2>1, <2>4
    <3> QED BY <3>1, <3>2, <3>3
  <2> HIDE DEF q
  <2>7. IsNumeral(D[w], w, 1, q, B)
    BY <2>3, <2>4, <2>5, <2>6 DEF IsNumeral
  <2> QED BY <1>3, <2>7
<1>6. CASE ~ (w < B)
  <2> DEFINE v == w \div B
  <2>1. v \in Nat /\ v \in 0 .. w - 1 /\ v > 0 /\ w % B \in 0 .. B - 1
    BY <1>0, <1>6
  <2> HIDE DEF v
  <2>2. v \notin Bad /\ v <= m
    BY <1>2, <1>3, <2>1
  <2>3. PICK k, p : IsNumeral(D[v], v, k, p, B)
    BY <2>1, <2>2
  <2>4. /\ k \in Nat \ {0} /\ p \in [0 .. k -> Nat]
        /\ D[v] \in Seq(Digit(B)) /\ Len(D[v]) = k
        /\ p[0] = v /\ p[k] = 0
    BY <2>3 DEF IsNumeral
  <2>5. /\ \A i \in 1 .. k : p[i] = p[i - 1] \div B
        /\ \A i \in 1 .. k : D[v][i].digit = p[i - 1] % B
        /\ \A i \in 1 .. k : D[v][i].more <=> i < k
        /\ \A i \in 1 .. k - 1 : p[i] > 0
    BY <2>3 DEF IsNumeral
  <2> DEFINE q == [i \in 0 .. k + 1 |-> IF i = 0 THEN w ELSE p[i - 1]]
             d == << [digit |-> w % B, more |-> TRUE] >>
  <2>6. D[w] = d \o D[v]
    BY <1>4, <1>6 DEF v
  <2>7. d \in Seq(Digit(B)) /\ Len(d) = 1 /\ d[1] = [digit |-> w % B, more |-> TRUE]
    BY <2>1 DEF Digit
  <2> HIDE DEF d
  <2>8. /\ D[w] \in Seq(Digit(B)) /\ Len(D[w]) = k + 1
        /\ \A i \in 1 .. k + 1 : D[w][i] = IF i <= 1 THEN d[i] ELSE D[v][i - 1]
    <3>1. d \in Seq(Digit(B)) /\ D[v] \in Seq(Digit(B)) /\ Len(d) = 1 /\ Len(D[v]) = k
      BY <2>4, <2>7
    <3>2. k \in Nat
      BY <2>4
    <3>3. /\ d \o D[v] \in Seq(Digit(B)) /\ Len(d \o D[v]) = 1 + k
          /\ \A i \in 1 .. 1 + k :
               (d \o D[v])[i] = IF i <= 1 THEN d[i] ELSE D[v][i - 1]
      <4> DEFINE e == D[v]
      <4>1. d \in Seq(Digit(B)) /\ e \in Seq(Digit(B)) /\ Len(d) = 1 /\ Len(e) = k
        BY <3>1
      <4> HIDE DEF e
      <4>2. /\ d \o e \in Seq(Digit(B)) /\ Len(d \o e) = Len(d) + Len(e)
            /\ \A i \in 1 .. Len(d) + Len(e) :
                 (d \o e)[i] = IF i <= Len(d) THEN d[i] ELSE e[i - Len(d)]
        BY <4>1, ConcatProperties
      <4> QED BY <4>1, <4>2 DEF e
    <3>4. 1 + k = k + 1
      BY <3>2
    <3> QED BY <2>6, <3>3, <3>4
  <2>9. /\ q \in [0 .. k + 1 -> Nat] /\ q[0] = w /\ q[k + 1] = 0
        /\ \A i \in 1 .. k + 1 : q[i] = p[i - 1]
    BY <1>3, <2>4
  <2> HIDE DEF q
  <2>10. ASSUME NEW i \in 1 .. k + 1
         PROVE  /\ q[i] = q[i - 1] \div B
                /\ D[w][i].digit = q[i - 1] % B
                /\ D[w][i].more <=> i < k + 1
                /\ i < k + 1 => q[i] > 0
    <3>1. CASE i = 1
      <4>1. q[1] = v /\ q[0] = w /\ D[w][1] = d[1] /\ 1 < k + 1 /\ v > 0
        BY <2>1, <2>4, <2>8, <2>9
      <4>2. D[w][1].digit = q[0] % B /\ D[w][1].more /\ 1 < k + 1
        BY <2>7, <4>1
      <4>3. q[1] = q[0] \div B
        BY <4>1 DEF v
      <4>4. i = 1 /\ i - 1 = 0
        BY <3>1
      <4> QED BY <4>1, <4>2, <4>3, <4>4
    <3>2. CASE i # 1
      <4>1. i - 1 \in 1 .. k /\ (i < k + 1 <=> i - 1 < k)
        BY <2>4, <3>2
      <4>2. q[i] = p[i - 1] /\ q[i - 1] = p[i - 1 - 1] /\ D[w][i] = D[v][i - 1]
        <5>1. k \in Nat /\ i \in 2 .. k + 1 /\ i - 1 \in 1 .. k + 1 /\ ~ (i <= 1)
          BY <2>4, <3>2
        <5> QED BY <2>8, <2>9, <5>1
      <4>3. p[i - 1] = p[i - 1 - 1] \div B
        BY <2>5, <4>1
      <4>4. D[v][i - 1].digit = p[i - 1 - 1] % B /\ (D[v][i - 1].more <=> i - 1 < k)
        BY <2>5, <4>1
      <4>5. i < k + 1 => p[i - 1] > 0
        BY <2>4, <2>5, <4>1
      <4> QED BY <4>1, <4>2, <4>3, <4>4, <4>5
    <3> QED BY <3>1, <3>2
  <2>11. \A i \in 1 .. (k + 1) - 1 : q[i] > 0
    <3>1. \A i \in 1 .. (k + 1) - 1 : i \in 1 .. k + 1 /\ i < k + 1
      BY <2>4
    <3> QED BY <2>10, <3>1
  <2>12. k + 1 \in Nat \ {0}
    BY <2>4
  <2>13. IsNumeral(D[w], w, k + 1, q, B)
    BY <2>8, <2>9, <2>10, <2>11, <2>12 DEF IsNumeral
  <2> QED BY <1>3, <2>13
<1> QED BY <1>5, <1>6

(* The powers of the base. *)
Powers(P, B, L) ==
  P \in [0 .. L -> Nat] /\ P[0] = 1 /\ \A i \in 1 .. L : P[i] = B * P[i - 1]

LEMMA PowersExist ==
  ASSUME NEW B \in Nat, NEW L \in Nat
  PROVE  \E P : P = [i \in 0 .. L |-> IF i = 0 THEN 1 ELSE B * P[i - 1]]
<1> DEFINE step == [p \in (1 .. L) \X Nat |-> B * p[2]]
<1>1. \A i \in 1 .. L, x \in Nat : step[<< i, x >>] = B * x /\ B * x \in Nat
  OBVIOUS
<1> HIDE DEF step
<1>2. \A i \in 1 .. L, x \in Nat : step[<< i, x >>] \in Nat
  BY <1>1
<1>3. 1 \in Nat
  OBVIOUS
<1>4. PICK P : Iterates(P, Nat, 1, L, step)
  BY <1>2, <1>3, Iteration
<1>5. P \in [0 .. L -> Nat] /\ P[0] = 1 /\ \A i \in 1 .. L : i - 1 \in 0 .. L
  BY <1>4 DEF Iterates
<1>6. \A i \in 1 .. L : P[i] = B * P[i - 1]
  BY <1>1, <1>4, <1>5 DEF Iterates
<1>7. \A i \in 0 .. L : (i = 0 \/ i \in 1 .. L) /\ (i \in 1 .. L => i # 0)
  OBVIOUS
<1>8. \A i \in 0 .. L : P[i] = IF i = 0 THEN 1 ELSE B * P[i - 1]
  BY <1>5, <1>6, <1>7, Zenon
<1>9. P = [i \in 0 .. L |-> P[i]]
  BY <1>5
<1>10. P = [i \in 0 .. L |-> IF i = 0 THEN 1 ELSE B * P[i - 1]]
  BY <1>8, <1>9, Zenon
<1> QED BY <1>10

LEMMA PowersGrow ==
  ASSUME NEW B \in Nat, B > 1, NEW L \in Nat, NEW P, Powers(P, B, L)
  PROVE  /\ \A i \in 0 .. L : P[i] \in Nat \ {0}
         /\ \A i, j \in 0 .. L : i < j => P[i] < P[j]
<1>1. P \in [0 .. L -> Nat] /\ P[0] = 1 /\ \A i \in 1 .. L : P[i] = B * P[i - 1]
  BY DEF Powers
<1>2. ASSUME NEW i \in 1 .. L
      PROVE  /\ i - 1 \in 0 .. L /\ i \in 0 .. L /\ P[i - 1] \in Nat /\ P[i] \in Nat
             /\ P[i - 1] > 0 => P[i] > P[i - 1] /\ P[i] > 0
  <2>1. i - 1 \in 0 .. L /\ i \in 0 .. L
    OBVIOUS
  <2>2. P[i - 1] \in Nat /\ P[i] \in Nat /\ P[i] = B * P[i - 1]
    BY <1>1, <2>1
  <2>3. ASSUME NEW x \in Nat, x > 0 PROVE B * x > x
    BY <2>3
  <2> QED BY <2>1, <2>2, <2>3
<1>3. \A i \in 0 .. L : P[i] \in Nat \ {0}
  <2> DEFINE Bad == { k \in Nat : k <= L /\ ~ (P[k] \in Nat \ {0}) }
  <2>1. SUFFICES ASSUME Bad # {} PROVE FALSE
    BY <2>1
  <2>2. PICK k \in Bad : \A j \in Bad : k <= j
    BY <2>1, LeastElement
  <2>3. k # 0 /\ k \in 1 .. L /\ P[k] \notin Nat \ {0}
    BY <1>1, <2>2
  <2>4. k - 1 \notin Bad /\ k - 1 \in Nat /\ k - 1 <= L
    BY <2>2, <2>3
  <2>5. P[k - 1] \in Nat \ {0}
    BY <2>4
  <2> QED BY <1>2, <2>3, <2>5
<1>4. ASSUME NEW i \in 0 .. L, NEW j \in 0 .. L, i < j PROVE P[i] < P[j]
  <2> DEFINE Bad == { k \in Nat : k <= L /\ i < k /\ ~ (P[i] < P[k]) }
  <2>1. SUFFICES ASSUME Bad # {} PROVE FALSE
    BY <1>4, <2>1
  <2>2. PICK k \in Bad : \A l \in Bad : k <= l
    BY <2>1, LeastElement
  <2>3. k \in 1 .. L /\ i < k /\ ~ (P[i] < P[k])
    BY <2>2
  <2>4. k - 1 \in 0 .. L /\ P[k - 1] \in Nat /\ P[k] \in Nat /\ P[k] > P[k - 1] /\ P[i] \in Nat
    BY <1>2, <1>3, <2>3
  <2>5. CASE i = k - 1
    BY <2>3, <2>4, <2>5
  <2>6. CASE i # k - 1
    <3>1. k - 1 \notin Bad /\ k - 1 \in Nat /\ k - 1 <= L /\ i < k - 1
      BY <2>2, <2>3, <2>6
    <3>2. P[i] < P[k - 1]
      BY <3>1
    <3> QED BY <2>3, <2>4, <3>2
  <2> QED BY <2>5, <2>6
<1> QED BY <1>3, <1>4

(* What is left after i digits says in which interval the number lies.     *)
LEMMA NumeralInterval ==
  ASSUME NEW B \in Nat, B > 1, NEW L \in Nat, NEW P, Powers(P, B, L),
         NEW d, NEW u \in Nat, NEW n, NEW q, IsNumeral(d, u, n, q, B),
         NEW i \in 0 .. L, i <= n
  PROVE  q[i] \in Nat /\ q[i] * P[i] <= u /\ u < (q[i] + 1) * P[i]
<1> DEFINE Bad == { k \in Nat : k <= L /\ k <= n
                    /\ ~ (q[k] \in Nat /\ q[k] * P[k] <= u /\ u < (q[k] + 1) * P[k]) }
<1>1. SUFFICES ASSUME Bad # {} PROVE FALSE
  <2>1. i \notin Bad /\ i \in Nat /\ i <= L
    BY <1>1
  <2> QED BY <2>1
<1>2. PICK k \in Bad : \A j \in Bad : k <= j
  BY <1>1, LeastElement
<1>3. n \in Nat /\ q \in [0 .. n -> Nat] /\ q[0] = u /\ \A j \in 1 .. n : q[j] = q[j - 1] \div B
  BY DEF IsNumeral
<1>4. P[0] = 1 /\ (\A j \in 1 .. L : P[j] = B * P[j - 1]) /\ P \in [0 .. L -> Nat]
  BY DEF Powers
<1>5. /\ k \in Nat /\ k <= L /\ k <= n
      /\ ~ (q[k] \in Nat /\ q[k] * P[k] <= u /\ u < (q[k] + 1) * P[k])
  BY <1>2
<1>6. CASE k = 0
  <2>1. q[k] = u /\ P[k] = 1 /\ u \in Nat
    <3>1. q[0] = u /\ P[0] = 1 /\ u \in Nat
      BY <1>3, <1>4
    <3> QED BY <1>6, <3>1
  <2>2. u * 1 <= u /\ u < (u + 1) * 1
    BY <2>1
  <2> QED BY <1>5, <2>1, <2>2
<1>7. CASE k # 0
  <2>1. k - 1 \notin Bad /\ k - 1 \in Nat /\ k - 1 <= L /\ k - 1 <= n
    <3>1. k - 1 \in Nat /\ k - 1 <= L /\ k - 1 <= n /\ ~ (k <= k - 1)
      BY <1>3, <1>5, <1>7
    <3>2. k - 1 \notin Bad
      BY <1>2, <3>1, Zenon
    <3> QED BY <3>1, <3>2
  <2>2. q[k - 1] \in Nat /\ q[k - 1] * P[k - 1] <= u /\ u < (q[k - 1] + 1) * P[k - 1]
    BY <2>1
  <2>3. /\ k \in 1 .. n /\ k \in 1 .. L
        /\ q[k] = q[k - 1] \div B /\ P[k] = B * P[k - 1] /\ P[k - 1] \in Nat
    <3>1. k \in 1 .. n /\ k \in 1 .. L /\ k - 1 \in 0 .. L
      BY <1>3, <1>5, <1>7
    <3>2. q[k] = q[k - 1] \div B
      BY <1>3, <3>1
    <3>3. P[k] = B * P[k - 1] /\ P[k - 1] \in Nat
      BY <1>4, <3>1
    <3> QED BY <3>1, <3>2, <3>3
  <2>4. ASSUME NEW a \in Nat, NEW b \in Nat, NEW x \in Nat, NEW r \in 0 .. B - 1,
               a = b * B + r, a * x <= u, u < (a + 1) * x
        PROVE  b * (B * x) <= u /\ u < (b + 1) * (B * x)
    <3>1. a * x = b * (B * x) + r * x /\ r * x \in Nat /\ b * (B * x) \in Nat
      BY <2>4
    <3>2. (a + 1) * x = b * (B * x) + (r + 1) * x
      BY <2>4
    <3>3. (r + 1) * x <= B * x
      <4>1. PICK y \in Nat : B = (r + 1) + y
        <5>1. B - (r + 1) \in Nat /\ B = (r + 1) + (B - (r + 1))
          OBVIOUS
        <5> QED BY <5>1
      <4>2. B * x = (r + 1) * x + y * x /\ y * x \in Nat /\ (r + 1) * x \in Nat
        BY <4>1
      <4> QED BY <4>2
    <3>4. (b + 1) * (B * x) = b * (B * x) + B * x
      OBVIOUS
    <3>5. B * x \in Nat /\ (r + 1) * x \in Nat /\ a * x \in Nat
      OBVIOUS
    <3> QED BY <2>4, <3>1, <3>2, <3>3, <3>4, <3>5
  <2>5. /\ q[k - 1] \div B \in Nat /\ q[k - 1] % B \in 0 .. B - 1
        /\ q[k - 1] = (q[k - 1] \div B) * B + (q[k - 1] % B)
    BY <2>2, LastDigit
  <2>6. q[k] \in Nat /\ q[k] * P[k] <= u /\ u < (q[k] + 1) * P[k]
    <3>1. PICK a \in Nat, b \in Nat, x \in Nat, r \in 0 .. B - 1 :
            a = q[k - 1] /\ b = q[k] /\ x = P[k - 1] /\ r = q[k - 1] % B
      BY <2>2, <2>3, <2>5
    <3>2. a = b * B + r /\ a * x <= u /\ u < (a + 1) * x
      BY <2>2, <2>3, <2>5, <3>1
    <3>3. b * (B * x) <= u /\ u < (b + 1) * (B * x)
      BY <2>4, <3>2
    <3> QED BY <2>3, <3>1, <3>3
  <2> QED BY <1>5, <2>6
<1> QED BY <1>6, <1>7

(* How many digits a number has. *)
LEMMA NumeralLength ==
  ASSUME NEW B \in Nat, B > 1, NEW L \in Nat \ {0}, NEW P, Powers(P, B, L),
         NEW d, NEW u \in Nat, NEW n, NEW q, IsNumeral(d, u, n, q, B), u < P[L]
  PROVE  n \in 1 .. L /\ u < P[n] /\ (n > 1 => P[n - 1] <= u)
<1>1. /\ n \in Nat \ {0} /\ q \in [0 .. n -> Nat] /\ q[n] = 0
      /\ \A j \in 1 .. n - 1 : q[j] > 0
  BY DEF IsNumeral
<1>2. \A j \in 0 .. L : P[j] \in Nat \ {0}
  BY PowersGrow
<1>3. ASSUME NEW j \in 0 .. L, j <= n
      PROVE  q[j] \in Nat /\ q[j] * P[j] <= u /\ u < (q[j] + 1) * P[j]
  BY <1>3, NumeralInterval
<1>4. ASSUME NEW j \in 0 .. L, j < n, j > 0 PROVE P[j] <= u
  <2>1. j \in 1 .. n - 1 /\ j <= n
    BY <1>1, <1>4
  <2>2. q[j] \in Nat /\ q[j] > 0 /\ q[j] * P[j] <= u /\ P[j] \in Nat
    BY <1>1, <1>2, <1>3, <2>1
  <2>3. ASSUME NEW a \in Nat, NEW x \in Nat, a > 0 PROVE x <= a * x
    BY <2>3
  <2>4. P[j] <= q[j] * P[j] /\ q[j] * P[j] \in Nat
    BY <2>2, <2>3
  <2> QED BY <2>2, <2>4
<1>5. n <= L
  <2>1. SUFFICES ASSUME L < n PROVE FALSE
    BY <1>1, <2>1
  <2>2. P[L] <= u /\ P[L] \in Nat
    BY <1>2, <1>4, <2>1
  <2> QED BY <2>2
<1>6. n \in 0 .. L /\ n \in 1 .. L
  BY <1>1, <1>5
<1>7. u < P[n]
  <2>1. u < (q[n] + 1) * P[n] /\ P[n] \in Nat
    BY <1>2, <1>3, <1>6
  <2>2. (q[n] + 1) * P[n] = P[n]
    BY <1>1, <2>1
  <2> QED BY <2>1, <2>2
<1>8. ASSUME n > 1 PROVE P[n - 1] <= u
  <2>1. n - 1 \in 0 .. L /\ n - 1 < n /\ n - 1 > 0
    BY <1>6, <1>8
  <2> QED BY <1>4, <2>1
<1> QED BY <1>6, <1>7, <1>8

AddsUp(V, d, n, P, M) ==
  V[0] = 0 /\ \A i \in 1 .. n : V[i] = (V[i - 1] + d[i].digit * P[i - 1]) % M

(* Adding the digits up in a width the number fits gives the number.       *)
LEMMA NumeralValue ==
  ASSUME NEW B \in Nat, B > 1, NEW L \in Nat \ {0}, NEW P, Powers(P, B, L),
         NEW M \in Nat, NEW d, NEW u \in Nat, u < M,
         NEW n, NEW q, IsNumeral(d, u, n, q, B), n <= L,
         NEW V, AddsUp(V, d, n, P, M)
  PROVE  V[n] = u
<1> DEFINE Bad == { k \in Nat : k <= n /\ ~ (V[k] \in Nat /\ V[k] + q[k] * P[k] = u) }
<1>1. n \in Nat \ {0} /\ q \in [0 .. n -> Nat] /\ q[0] = u /\ q[n] = 0
  BY DEF IsNumeral
<1>2. /\ \A i \in 1 .. n : q[i] = q[i - 1] \div B
      /\ \A i \in 1 .. n : d[i].digit = q[i - 1] % B
  BY DEF IsNumeral
<1>3. P \in [0 .. L -> Nat] /\ P[0] = 1 /\ \A j \in 1 .. L : P[j] = B * P[j - 1]
  BY DEF Powers
<1>4. Bad = {}
  <2>1. SUFFICES ASSUME Bad # {} PROVE FALSE
    BY <2>1
  <2>2. PICK k \in Bad : \A j \in Bad : k <= j
    BY <2>1, LeastElement
  <2>3. k \in Nat /\ k <= n /\ ~ (V[k] \in Nat /\ V[k] + q[k] * P[k] = u)
    BY <2>2
  <2>4. CASE k = 0
    <3>1. V[k] = 0 /\ q[k] = u /\ P[k] = 1 /\ u * 1 = u
      BY <1>1, <1>3, <2>4 DEF AddsUp
    <3> QED BY <2>3, <3>1
  <2>5. CASE k # 0
    <3>1. /\ k \in 1 .. n /\ k \in 1 .. L /\ k - 1 \in 0 .. n /\ k - 1 \in 0 .. L
          /\ k - 1 \notin Bad
      BY <1>1, <2>2, <2>3, <2>5
    <3>2. V[k - 1] \in Nat /\ V[k - 1] + q[k - 1] * P[k - 1] = u
      BY <1>1, <3>1
    <3>3. q[k - 1] \in Nat /\ P[k - 1] \in Nat
      BY <1>1, <1>3, <3>1
    <3>4. q[k] = q[k - 1] \div B /\ P[k] = B * P[k - 1] /\ d[k].digit = q[k - 1] % B
      <4>1. q[k] = q[k - 1] \div B
        BY <1>2, <3>1
      <4>2. P[k] = B * P[k - 1]
        BY <1>3, <3>1
      <4>3. d[k].digit = q[k - 1] % B
        BY <1>2, <3>1
      <4> QED BY <4>1, <4>2, <4>3
    <3>5. V[k] = (V[k - 1] + d[k].digit * P[k - 1]) % M
      BY <3>1 DEF AddsUp
    <3>6. /\ q[k - 1] \div B \in Nat /\ q[k - 1] % B \in 0 .. B - 1
          /\ q[k - 1] = (q[k - 1] \div B) * B + (q[k - 1] % B)
      BY <3>3, LastDigit
    <3>7. PICK v \in Nat, a \in Nat, b \in Nat, x \in Nat, r \in Nat :
            v = V[k - 1] /\ a = q[k - 1] /\ b = q[k] /\ x = P[k - 1] /\ r = d[k].digit
      <4>1. q[k] \in Nat /\ d[k].digit \in Nat
        BY <3>4, <3>6
      <4> QED BY <3>2, <3>3, <4>1
    <3>8. a = b * B + r /\ v + a * x = u
      BY <3>2, <3>4, <3>6, <3>7
    <3>9. /\ a * x = b * (B * x) + r * x
          /\ r * x \in Nat /\ b * (B * x) \in Nat
      BY <3>8
    <3>10. v + r * x \in Nat /\ v + r * x < M /\ (v + r * x) + b * (B * x) = u
      BY <3>8, <3>9
    <3>11. (v + r * x) % M = v + r * x
      <4>1. ASSUME NEW y \in Nat, y < M PROVE y % M = y
        BY <4>1
      <4> QED BY <3>10, <4>1
    <3>12. V[k] = v + r * x
      BY <3>5, <3>7, <3>11
    <3>13. q[k] * P[k] = b * (B * x)
      BY <3>4, <3>7
    <3> QED BY <2>3, <3>10, <3>12, <3>13
  <2> QED BY <2>4, <2>5
<1>5. V[n] \in Nat /\ V[n] + q[n] * P[n] = u
  BY <1>1, <1>4
<1>6. P[n] \in Nat /\ q[n] * P[n] = 0
  <2>1. n \in 0 .. L
    BY <1>1
  <2>2. P[n] \in Nat
    BY <1>3, <2>1
  <2> QED BY <1>1, <2>2
<1> QED BY <1>5, <1>6

LastDigits(r, limit) ==
  { i \in 1 .. limit : i <= Len(r) /\ ~ r[i].more /\ \A j \in 1 .. i - 1 : r[j].more }

StandsAhead(d, n, B, tail, r, limit) ==
  /\ n \in Nat \ {0} /\ r \in Seq(Digit(B)) /\ Len(r) = n + Len(tail)
  /\ \A i \in 1 .. n : r[i] = d[i]
  /\ LastDigits(r, limit) = {n}
  /\ SubSeq(r, n + 1, Len(r)) = tail

(* In front of a stream only the last digit is one that no other follows,  *)
(* and what comes behind it is the stream.                                 *)
LEMMA NumeralAhead ==
  ASSUME NEW B \in Nat, NEW d, NEW u, NEW n, NEW q, IsNumeral(d, u, n, q, B),
         NEW limit \in Nat, n <= limit, NEW tail \in Seq(Digit(B))
  PROVE  StandsAhead(d, n, B, tail, d \o tail, limit)
<1>0. PICK r : r = d \o tail
  OBVIOUS
<1>1. n \in Nat \ {0} /\ d \in Seq(Digit(B)) /\ Len(d) = n
  BY DEF IsNumeral
<1>3. \A i \in 1 .. n : d[i].more <=> i < n
  BY DEF IsNumeral
<1>4. Len(tail) \in Nat
  BY ListDomain
<1>5. /\ d \o tail \in Seq(Digit(B)) /\ Len(d \o tail) = Len(d) + Len(tail)
      /\ \A i \in 1 .. Len(d) + Len(tail) :
           (d \o tail)[i] = IF i <= Len(d) THEN d[i] ELSE tail[i - Len(d)]
  BY <1>1, ConcatProperties
<1>6. r \in Seq(Digit(B)) /\ Len(r) = n + Len(tail)
  BY <1>0, <1>1, <1>5
<1>7. \A i \in 1 .. n + Len(tail) : r[i] = IF i <= n THEN d[i] ELSE tail[i - n]
  BY <1>0, <1>1, <1>5
<1>8. \A i \in 1 .. n : r[i] = d[i]
  BY <1>1, <1>4, <1>7
<1>9. \A i \in 1 .. Len(tail) : r[n + i] = tail[i]
  <2>1. ASSUME NEW i \in 1 .. Len(tail) PROVE r[n + i] = tail[i]
    <3>1. n + i \in 1 .. n + Len(tail) /\ ~ (n + i <= n) /\ (n + i) - n = i
      BY <1>1, <1>4
    <3> QED BY <1>7, <3>1
  <2> QED BY <2>1
<1> DEFINE Final == LastDigits(r, limit)
<1>10. n \in Final
  <2>1. n \in 1 .. limit /\ n <= Len(r)
    BY <1>1, <1>4, <1>6
  <2>2. ~ r[n].more
    BY <1>1, <1>3, <1>8
  <2>3. \A j \in 1 .. n - 1 : r[j].more
    BY <1>1, <1>3, <1>8
  <2> QED BY <2>1, <2>2, <2>3 DEF LastDigits
<1>11. ASSUME NEW i \in Final PROVE i = n
  <2>1. i \in Nat \ {0} /\ ~ r[i].more /\ \A j \in 1 .. i - 1 : r[j].more
    BY DEF LastDigits
  <2>2. CASE i < n
    BY <1>1, <1>3, <1>8, <2>1, <2>2
  <2>3. CASE i > n
    <3>1. n \in 1 .. i - 1
      BY <1>1, <2>1, <2>3
    <3>2. r[n].more
      BY <2>1, <3>1
    <3> QED BY <1>10, <3>2 DEF LastDigits
  <2> QED BY <1>1, <2>1, <2>2, <2>3
<1>12. Final = {n}
  BY <1>10, <1>11
<1>13. SubSeq(r, n + 1, Len(r)) = tail
  <2> DEFINE s == SubSeq(r, n + 1, Len(r))
  <2>1. n \in 0 .. Len(r)
    BY <1>1, <1>4, <1>6
  <2>2. /\ s \in Seq(Digit(B)) /\ Len(s) = Len(r) - n
        /\ \A i \in 1 .. Len(r) - n : s[i] = r[n + i]
    BY <1>6, <2>1, ListSuffix
  <2> HIDE DEF s
  <2>3. Len(s) = Len(tail) /\ \A i \in 1 .. Len(s) : s[i] = tail[i]
    <3>1. Len(r) - n = Len(tail)
      BY <1>1, <1>4, <1>6
    <3> QED BY <1>9, <2>2, <3>1
  <2>4. s = tail
    BY <2>2, <2>3, SeqEqual
  <2> QED BY <2>4 DEF s
<1> QED BY <1>0, <1>1, <1>6, <1>8, <1>12, <1>13 DEF StandsAhead

(* The sum of the digits of r, as the reader adds them up.                 *)
Sums(V, r, n, P, M) ==
  V = [i \in 0 .. n |-> IF i = 0 THEN 0 ELSE (V[i - 1] + r[i].digit * P[i - 1]) % M]

LEMMA SumsExist ==
  ASSUME NEW B \in Nat, NEW M \in Nat \ {0}, NEW r, NEW n \in Nat, NEW P,
         \A i \in 1 .. n : r[i] \in Digit(B) /\ P[i - 1] \in Nat
  PROVE  \E V : Sums(V, r, n, P, M)
<1> DEFINE step == [p \in (1 .. n) \X (0 .. M - 1) |->
                      (p[2] + r[p[1]].digit * P[p[1] - 1]) % M]
<1>1. ASSUME NEW i \in 1 .. n, NEW x \in 0 .. M - 1
      PROVE  /\ step[<< i, x >>] = (x + r[i].digit * P[i - 1]) % M
             /\ step[<< i, x >>] \in 0 .. M - 1
  <2>1. r[i].digit \in Nat /\ P[i - 1] \in Nat
    BY DEF Digit
  <2>2. x + r[i].digit * P[i - 1] \in Nat
    <3>1. r[i].digit * P[i - 1] \in Nat
      BY <2>1
    <3> QED BY <3>1
  <2>3. (x + r[i].digit * P[i - 1]) % M \in 0 .. M - 1
    BY <2>2
  <2> QED BY <2>3
<1> HIDE DEF step
<1>2. 0 \in 0 .. M - 1 /\ \A i \in 1 .. n, x \in 0 .. M - 1 : step[<< i, x >>] \in 0 .. M - 1
  BY <1>1
<1>3. PICK W : Iterates(W, 0 .. M - 1, 0, n, step)
  BY <1>2, Iteration
<1>4. /\ W \in [0 .. n -> 0 .. M - 1] /\ W[0] = 0
      /\ \A i \in 1 .. n : W[i] = step[<< i, W[i - 1] >>]
  BY <1>3 DEF Iterates
<1>5. \A i \in 0 .. n : W[i] = IF i = 0 THEN 0 ELSE (W[i - 1] + r[i].digit * P[i - 1]) % M
  <2>1. ASSUME NEW i \in 1 .. n PROVE W[i] = (W[i - 1] + r[i].digit * P[i - 1]) % M
    <3>1. W[i - 1] \in 0 .. M - 1
      BY <1>4
    <3> QED BY <1>1, <1>4, <3>1
  <2>2. \A i \in 0 .. n : i = 0 \/ i \in 1 .. n
    OBVIOUS
  <2>3. \A i \in 1 .. n : i # 0
    OBVIOUS
  <2> QED BY <1>4, <2>1, <2>2, <2>3, Zenon
<1>6. W = [i \in 0 .. n |-> W[i]]
  BY <1>4
<1>7. Sums(W, r, n, P, M)
  BY <1>5, <1>6, Zenon DEF Sums
<1> QED BY <1>7

LEMMA SumsAddUp ==
  ASSUME NEW V, NEW r, NEW n \in Nat, NEW P, NEW M, Sums(V, r, n, P, M),
         NEW d, \A i \in 1 .. n : r[i] = d[i]
  PROVE  AddsUp(V, d, n, P, M)
<1>1. \A i \in 0 .. n : V[i] = IF i = 0 THEN 0 ELSE (V[i - 1] + r[i].digit * P[i - 1]) % M
  BY Zenon DEF Sums
<1>2. 0 \in 0 .. n /\ \A i \in 1 .. n : i \in 0 .. n /\ i # 0
  OBVIOUS
<1>3. V[0] = 0
  BY <1>1, <1>2
<1>4. \A i \in 1 .. n : V[i] = (V[i - 1] + d[i].digit * P[i - 1]) % M
  BY <1>1, <1>2
<1> QED BY <1>3, <1>4 DEF AddsUp

(* The equation of the powers alone says what they are.                    *)
LEMMA PowersAre ==
  ASSUME NEW B \in Nat, NEW L \in Nat, NEW P,
         P = [i \in 0 .. L |-> IF i = 0 THEN 1 ELSE B * P[i - 1]]
  PROVE  Powers(P, B, L)
<1>1. /\ DOMAIN P = 0 .. L
      /\ \A i \in 0 .. L : P[i] = IF i = 0 THEN 1 ELSE B * P[i - 1]
  <2>1. DOMAIN P = 0 .. L
    BY Zenon
  <2>2. \A i \in 0 .. L : P[i] = IF i = 0 THEN 1 ELSE B * P[i - 1]
    BY Zenon
  <2> QED BY <2>1, <2>2
<1>2. 0 \in 0 .. L /\ \A i \in 1 .. L : i \in 0 .. L /\ i # 0
  OBVIOUS
<1>3. P[0] = 1 /\ \A i \in 1 .. L : P[i] = B * P[i - 1]
  BY <1>1, <1>2
<1>4. \A i \in 0 .. L : P[i] \in Nat
  <2> DEFINE Bad == { k \in Nat : k <= L /\ P[k] \notin Nat }
  <2>1. SUFFICES ASSUME NEW i \in 0 .. L, P[i] \notin Nat PROVE FALSE
    OBVIOUS
  <2>2. i \in Bad /\ Bad \in SUBSET Nat
    BY <2>1
  <2>3. PICK k \in Bad : \A j \in Bad : k <= j
    BY <2>2, LeastElement
  <2>4. k \in Nat /\ k <= L /\ P[k] \notin Nat
    OBVIOUS
  <2>5. k \in 1 .. L
    BY <1>3, <2>4
  <2>6. k - 1 \in Nat /\ k - 1 <= L /\ ~ (k <= k - 1)
    BY <2>5
  <2>7. k - 1 \notin Bad
    BY <2>3, <2>6, Zenon
  <2>8. P[k - 1] \in Nat
    BY <2>6, <2>7
  <2>9. P[k] = B * P[k - 1]
    BY <1>3, <2>5
  <2> QED BY <2>4, <2>8, <2>9
<1>5. P \in [0 .. L -> Nat]
  <2>1. P = [i \in 0 .. L |-> P[i]]
    BY <1>1
  <2> QED BY <1>4, <2>1
<1> QED BY <1>3, <1>5 DEF Powers

(* A reader that looks for the last digit, adds up to it and goes on behind *)
(* it: with a numeral in front it has the number, and is at what follows.   *)
ReadsAs(d, u, n, B, L, P, M, tail) ==
  /\ d \in Seq(Digit(B)) /\ Len(d) = n /\ n \in 1 .. L
  /\ u < P[n] /\ (n > 1 => P[n - 1] <= u)
  /\ d \o tail \in Seq(Digit(B)) /\ LastDigits(d \o tail, L + 1) = {n}
  /\ SubSeq(d \o tail, n + 1, Len(d \o tail)) = tail
  /\ (CHOOSE V : Sums(V, d \o tail, n, P, M))[n] = u

LEMMA NumeralReads ==
  ASSUME NEW B \in Nat, B > 1, NEW L \in Nat \ {0}, NEW P, Powers(P, B, L),
         NEW M \in Nat \ {0}, M < P[L], NEW D, Numerals(D, M - 1, B),
         NEW u \in 0 .. M - 1, NEW tail \in Seq(Digit(B))
  PROVE  \E n : ReadsAs(D[u], u, n, B, L, P, M, tail)
<1>1. PICK d, r : d = D[u] /\ r = d \o tail
  OBVIOUS
<1>2. PICK n, q : IsNumeral(d, u, n, q, B)
  <2>1. M - 1 \in Nat
    OBVIOUS
  <2> QED BY <1>1, <2>1, NumeralsAre
<1>3. \A i \in 0 .. L : P[i] \in Nat
  <2>1. L \in Nat
    OBVIOUS
  <2> QED BY <2>1, PowersGrow
<1>4. u \in Nat /\ u < M /\ u < P[L]
  BY <1>3
<1>5. n \in 1 .. L /\ u < P[n] /\ (n > 1 => P[n - 1] <= u)
  BY <1>2, <1>4, NumeralLength
<1>6. d \in Seq(Digit(B)) /\ Len(d) = n
  BY <1>2 DEF IsNumeral
<1>7. StandsAhead(d, n, B, tail, r, L + 1)
  <2>1. L + 1 \in Nat /\ n <= L + 1
    BY <1>5
  <2> QED BY <1>1, <1>2, <2>1, NumeralAhead
<1>8. /\ r \in Seq(Digit(B)) /\ Len(r) = n + Len(tail)
      /\ \A i \in 1 .. n : r[i] = d[i]
      /\ LastDigits(r, L + 1) = {n} /\ SubSeq(r, n + 1, Len(r)) = tail
  BY <1>7 DEF StandsAhead
<1> DEFINE V == CHOOSE V : Sums(V, r, n, P, M)
<1>9. V[n] = u
  <2>1. n \in Nat /\ n <= L /\ \A i \in 1 .. n : i \in 1 .. Len(r) /\ i - 1 \in 0 .. L
    <3>1. Len(tail) \in Nat
      BY ListDomain
    <3> QED BY <1>5, <1>8, <3>1
  <2>2. \A i \in 1 .. n : r[i] \in Digit(B) /\ P[i - 1] \in Nat
    <3>1. \A i \in 1 .. Len(r) : r[i] \in Digit(B)
      BY <1>8, ListDomain
    <3> QED BY <1>3, <2>1, <3>1
  <2>3. Sums(V, r, n, P, M)
    BY <2>1, <2>2, SumsExist
  <2> HIDE DEF V
  <2>4. AddsUp(V, d, n, P, M)
    BY <1>8, <2>1, <2>3, SumsAddUp
  <2> QED BY <1>2, <1>4, <2>1, <2>4, NumeralValue
<1> HIDE DEF V
<1>10. ReadsAs(d, u, n, B, L, P, M, tail)
  BY <1>1, <1>5, <1>6, <1>8, <1>9 DEF ReadsAs, V
<1> QED BY <1>1, <1>10
=============================================================================
