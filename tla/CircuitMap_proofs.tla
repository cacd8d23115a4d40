-------------------------- MODULE CircuitMap_proofs --------------------------
(***************************************************************************)
(* The parser first: "... so the byte offsets below cannot overflow a      *)
(* 32-bit size_t" (the comment at ZCF_MAX_FILE_BYTES).  Whatever the bytes *)
(* of a file are, the offsets zcf_config.c computes from its length fields *)
(* do not wrap, its tests let it read no byte beyond the section, and      *)
(* every record moves the parser forward, so that it ends.                 *)
(*                                                                         *)
(* Then the dipswitch, and the map: its types, that it is the map of the   *)
(* stored file where no task loads it, and that a press switches what it   *)
(* says.  The last three ask that no two loads overlap (Overlap = FALSE:   *)
(* nothing in the code keeps them apart), and the last two that the parser *)
(* understands the files (Understood), which it does when their bytes are  *)
(* laid out as they say of themselves (Legible).                           *)
(*                                                                         *)
(* What FlattenSeq and the chains of records are is defined by recursion:  *)
(* the lemmas about them go by the least number at which they would fail.  *)
(***************************************************************************)
EXTENDS CircuitMap, WellFoundedInduction, SequenceTheorems, TLAPS
-----------------------------------------------------------------------------
(* Sequences of sequences, and chains *)

\* A set of natural numbers that is not empty has a least one.
LEMMA LeastNatural ==
  ASSUME NEW T \in SUBSET Nat, T # {}
  PROVE  \E m \in T : \A k \in T : m <= k
<1> DEFINE R == OpToRel(<, Nat)
<1>1. IsWellFoundedOn(R, Nat)
  BY NatLessThanWellFounded
<1>2. \A x, y \in Nat : x < y => <<x, y>> \in R
  BY DEF OpToRel
<1> HIDE DEF R
<1>3. PICK x \in T : \A y \in T : ~(<<y, x>> \in R)
  BY <1>1, WFMin
<1>4. ASSUME NEW y \in T PROVE x <= y
  <2>1. ~(y < x)
    BY <1>2, <1>3
  <2> QED
    BY <2>1
<1> QED
  BY <1>4

\* The sums of a sequence of sequences: s[k] is that of the first k.
Sums(q, S) ==
  {s \in [0 .. Len(q) -> Seq(S)] :
     s[0] = <<>> /\ \A i \in 1 .. Len(q) : s[i] = s[i - 1] \o q[i]}

LEMMA SumsExist ==
  ASSUME NEW S, NEW q \in Seq(Seq(S))
  PROVE  Sums(q, S) # {}
<1> DEFINE P(n) == \E s \in [0 .. n -> Seq(S)] :
                     s[0] = <<>> /\ \A i \in 1 .. n : s[i] = s[i - 1] \o q[i]
           T == {n \in 0 .. Len(q) : ~P(n)}
<1>1. Len(q) \in Nat
  OBVIOUS
<1> HIDE DEF P
<1>2. SUFFICES T = {}
  <2>1. P(Len(q))
    BY <1>1, <1>2
  <2> QED
    BY <2>1 DEF Sums, P
<1>3. SUFFICES ASSUME T # {} PROVE FALSE
  OBVIOUS
<1>4. PICK m \in T : \A k \in T : m <= k
  <2>1. T \in SUBSET Nat
    BY <1>1
  <2> HIDE DEF T
  <2> QED
    BY <1>3, <2>1, LeastNatural
<1>5. P(0)
  <2> DEFINE s == [i \in 0 .. 0 |-> <<>>]
  <2>1. s \in [0 .. 0 -> Seq(S)] /\ s[0] = <<>>
    OBVIOUS
  <2>2. \A i \in 1 .. 0 : s[i] = s[i - 1] \o q[i]
    OBVIOUS
  <2> HIDE DEF s
  <2> QED
    BY <2>1, <2>2 DEF P
<1>6. m \in 1 .. Len(q) /\ P(m - 1)
  <2>1. m \in 0 .. Len(q) /\ m # 0
    BY <1>5
  <2>2. m - 1 \in 0 .. Len(q)
    BY <1>1, <2>1
  <2>3. m - 1 \notin T
    BY <1>1, <1>4, <2>1
  <2> QED
    BY <1>1, <2>1, <2>2, <2>3
<1>7. PICK s \in [0 .. m - 1 -> Seq(S)] :
        s[0] = <<>> /\ \A i \in 1 .. m - 1 : s[i] = s[i - 1] \o q[i]
  BY <1>6 DEF P
<1> DEFINE v == s[m - 1] \o q[m]
           r == [i \in 0 .. m |-> IF i = m THEN v ELSE s[i]]
<1>8. r \in [0 .. m -> Seq(S)]
  <2>1. q[m] \in Seq(S) /\ s[m - 1] \in Seq(S)
    BY <1>1, <1>6
  <2>2. v \in Seq(S)
    BY <2>1
  <2>3. ASSUME NEW i \in 0 .. m, i # m PROVE s[i] \in Seq(S)
    BY <1>6, <2>3
  <2> HIDE DEF v
  <2> QED
    BY <2>2, <2>3
<1> HIDE DEF v
<1>9. r[0] = <<>> /\ \A i \in 1 .. m : r[i] = r[i - 1] \o q[i]
  <2>1. r[0] = <<>>
    BY <1>6, <1>7
  <2>2. ASSUME NEW i \in 1 .. m PROVE r[i] = r[i - 1] \o q[i]
    <3>1. r[i - 1] = s[i - 1]
      BY <1>6
    <3>2. CASE i = m
      <4>1. r[m] = v
        BY <1>1, <1>6
      <4> QED
        BY <3>1, <3>2, <4>1 DEF v
    <3>3. CASE i # m
      <4>1. i \in 1 .. m - 1 /\ r[i] = s[i]
        BY <1>6, <3>3
      <4> HIDE DEF r
      <4> QED
        BY <1>7, <3>1, <4>1
    <3> QED
      BY <3>2, <3>3
  <2> QED
    BY <2>1, <2>2
<1>10. P(m)
  <2> HIDE DEF r
  <2> QED
    BY <1>8, <1>9 DEF P
<1> QED
  BY <1>4, <1>10

\* FlattenSeq of the first k sequences is their sum.
LEMMA FlattenIsSum ==
  ASSUME NEW S, NEW q \in Seq(Seq(S)), NEW s \in Sums(q, S), NEW k \in 0 .. Len(q)
  PROVE  FlattenSeq(SubSeq(q, 1, k)) = s[k]
<1> DEFINE p == SubSeq(q, 1, k)
           G(f) == f = [i \in 1 .. Len(p) |-> IF i = 1 THEN p[i] ELSE f[i - 1] \o p[i]]
<1>1. Len(q) \in Nat
  OBVIOUS
<1>2. Len(p) = k /\ \A i \in 1 .. k : p[i] = q[i]
  BY <1>1
<1>3. s \in [0 .. Len(q) -> Seq(S)] /\ s[0] = <<>> /\ \A i \in 1 .. Len(q) : s[i] = s[i - 1] \o q[i]
  BY DEF Sums
<1>4. CASE k = 0
  <2>1. p = <<>>
    BY <1>2, <1>4
  <2> QED
    BY <1>3, <1>4, <2>1 DEF FlattenSeq
<1>5. CASE k # 0
  <2> DEFINE g == [i \in 1 .. k |-> s[i]]
  <2>0. s[1] = q[1]
    <3>1. 1 \in 1 .. Len(q)
      BY <1>1, <1>5
    <3>2. ASSUME NEW i \in 1 .. Len(q), i = 1 PROVE s[i] = s[0] \o q[i]
      <4>1. s[i] = s[i - 1] \o q[i]
        BY <1>3
      <4>2. i - 1 = 0
        BY <3>2
      <4> QED
        BY <4>1, <4>2
    <3>3. q[1] \in Seq(S)
      BY <3>1
    <3>4. <<>> \o q[1] = q[1]
      BY <3>3
    <3> QED
      BY <1>3, <3>1, <3>2, <3>4
  <2>1. G(g)
    <3>1. ASSUME NEW i \in 1 .. k PROVE g[i] = IF i = 1 THEN p[i] ELSE g[i - 1] \o p[i]
      <4>1. CASE i = 1
        BY <1>2, <2>0, <4>1
      <4>2. CASE i # 1
        <5>1. i \in 1 .. Len(q) /\ i - 1 \in 1 .. k
          BY <1>1, <4>2
        <5>2. s[i] = s[i - 1] \o q[i]
          BY <1>3, <5>1
        <5> QED
          BY <1>2, <4>2, <5>1, <5>2
      <4> QED
        BY <4>1, <4>2
    <3> QED
      BY <1>2, <3>1
  <2> HIDE DEF g
  <2>2. ASSUME NEW f, G(f) PROVE f[k] = s[k]
    <3> DEFINE U == {i \in 1 .. k : f[i] # s[i]}
    <3>0. k \in 1 .. k
      BY <1>1, <1>5
    <3>1. SUFFICES ASSUME U # {} PROVE FALSE
      BY <3>0
    <3>2. PICK m \in U : \A j \in U : m <= j
      <4>1. U \in SUBSET Nat
        BY <1>1
      <4> HIDE DEF U
      <4> QED
        BY <3>1, <4>1, LeastNatural
    <3>3. f[m] = IF m = 1 THEN p[m] ELSE f[m - 1] \o p[m]
      BY <1>2, <2>2
    <3>4. CASE m = 1
      BY <1>2, <2>0, <3>2, <3>3, <3>4
    <3>5. CASE m # 1
      <4>1. m \in 1 .. k /\ \A j \in U : m <= j
        BY <3>2
      <4>2. m - 1 \in 1 .. k /\ ~(m <= m - 1)
        BY <1>1, <3>5, <4>1
      <4>3. f[m - 1] = s[m - 1]
        BY <4>1, <4>2
      <4>4. s[m] = s[m - 1] \o q[m]
        <5>1. m \in 1 .. Len(q)
          BY <1>1, <3>2
        <5> QED
          BY <1>3, <5>1
      <4> QED
        BY <1>2, <3>2, <3>3, <3>5, <4>3, <4>4
    <3> QED
      BY <3>4, <3>5
  <2>3. FlattenSeq(p) = (CHOOSE f : G(f))[Len(p)]
    BY <1>2, <1>5 DEF FlattenSeq
  <2>4. G(CHOOSE f : G(f))
    BY <2>1
  <2> HIDE DEF G
  <2> QED
    BY <1>2, <2>2, <2>3, <2>4
<1> QED
  BY <1>4, <1>5

\* So it is built up one sequence after another.
LEMMA FlattenTyped ==
  ASSUME NEW S, NEW q \in Seq(Seq(S)), NEW k \in 0 .. Len(q)
  PROVE  FlattenSeq(SubSeq(q, 1, k)) \in Seq(S)
<1>1. PICK s \in Sums(q, S) : TRUE
  BY SumsExist
<1>2. s[k] \in Seq(S)
  BY DEF Sums
<1>3. FlattenSeq(SubSeq(q, 1, k)) = s[k]
  BY FlattenIsSum
<1> QED
  BY <1>2, <1>3

LEMMA FlattenNone ==
  ASSUME NEW S, NEW q \in Seq(Seq(S))
  PROVE  FlattenSeq(SubSeq(q, 1, 0)) = <<>>
<1>1. PICK s \in Sums(q, S) : TRUE
  BY SumsExist
<1>2. s[0] = <<>>
  BY DEF Sums
<1>3. 0 \in 0 .. Len(q)
  OBVIOUS
<1> QED
  BY <1>2, <1>3, FlattenIsSum

LEMMA FlattenNext ==
  ASSUME NEW S, NEW q \in Seq(Seq(S)), NEW k \in 1 .. Len(q)
  PROVE  FlattenSeq(SubSeq(q, 1, k)) = FlattenSeq(SubSeq(q, 1, k - 1)) \o q[k]
<1>1. PICK s \in Sums(q, S) : TRUE
  BY SumsExist
<1>2. s[k] = s[k - 1] \o q[k]
  BY DEF Sums
<1>3. k \in 0 .. Len(q) /\ k - 1 \in 0 .. Len(q)
  OBVIOUS
<1>4. FlattenSeq(SubSeq(q, 1, k)) = s[k] /\ FlattenSeq(SubSeq(q, 1, k - 1)) = s[k - 1]
  BY <1>3, FlattenIsSum
<1> QED
  BY <1>2, <1>4

LEMMA FlattenAll ==
  ASSUME NEW S, NEW q \in Seq(Seq(S))
  PROVE  FlattenSeq(q) \in Seq(S) /\ FlattenSeq(q) = FlattenSeq(SubSeq(q, 1, Len(q)))
<1>1. SubSeq(q, 1, Len(q)) = q
  OBVIOUS
<1>2. Len(q) \in 0 .. Len(q)
  OBVIOUS
<1> QED
  BY <1>1, <1>2, FlattenTyped

\* What it has of the first k stays.
LEMMA FlattenKeeps ==
  ASSUME NEW S, NEW q \in Seq(Seq(S)), NEW n \in 0 .. Len(q), NEW k \in 0 .. n
  PROVE  LET short == FlattenSeq(SubSeq(q, 1, k))
             long  == FlattenSeq(SubSeq(q, 1, n))
         IN Len(short) <= Len(long) /\ \A j \in 1 .. Len(short) : long[j] = short[j]
<1> DEFINE Upto(i) == FlattenSeq(SubSeq(q, 1, i))
           Keeps(i) == Len(Upto(k)) <= Len(Upto(i)) /\ \A j \in 1 .. Len(Upto(k)) : Upto(i)[j] = Upto(k)[j]
           T == {i \in k .. Len(q) : ~Keeps(i)}
<1>1. Len(q) \in Nat
  OBVIOUS
<1>2. \A i \in 0 .. Len(q) : Upto(i) \in Seq(S)
  BY FlattenTyped
<1>3. \A i \in 1 .. Len(q) : Upto(i) = Upto(i - 1) \o q[i]
  BY FlattenNext
<1> HIDE DEF Upto
<1>4. SUFFICES T = {}
  <2>1. n \in k .. Len(q)
    BY <1>1
  <2>2. Keeps(n)
    BY <1>4, <2>1
  <2> QED
    BY <2>2 DEF Upto
<1>5. SUFFICES ASSUME T # {} PROVE FALSE
  OBVIOUS
<1>6. PICK m \in T : \A i \in T : m <= i
  <2>1. T \in SUBSET Nat
    BY <1>1
  <2> HIDE DEF T
  <2> QED
    BY <1>5, <2>1, LeastNatural
<1>7. k \in 0 .. Len(q) /\ Keeps(k)
  BY <1>1, <1>2
<1>8. m - 1 \in k .. Len(q) /\ m \in 1 .. Len(q)
  BY <1>1, <1>6, <1>7
<1>9. Keeps(m - 1)
  BY <1>1, <1>6, <1>8
<1>10. Upto(m) = Upto(m - 1) \o q[m]
  BY <1>3, <1>8
<1>11. Upto(m - 1) \in Seq(S) /\ q[m] \in Seq(S) /\ Upto(k) \in Seq(S)
  BY <1>1, <1>2, <1>8
<1>12. Keeps(m)
  <2>0. Len(Upto(m)) = Len(Upto(m - 1)) + Len(q[m])
    BY <1>10, <1>11
  <2>1. \A j \in 1 .. Len(Upto(m - 1)) : Upto(m)[j] = Upto(m - 1)[j]
    BY <1>10, <1>11
  <2>2. Len(Upto(k)) \in Nat /\ Len(Upto(m - 1)) \in Nat /\ Len(q[m]) \in Nat
    BY <1>11
  <2>3. Len(Upto(k)) <= Len(Upto(m))
    <3>1. Len(Upto(k)) <= Len(Upto(m - 1))
      BY <1>9
    <3>2. \A a, b, c \in Nat : a <= b => a <= b + c
      OBVIOUS
    <3>3. Len(Upto(k)) <= Len(Upto(m - 1)) + Len(q[m])
      BY <2>2, <3>1, <3>2
    <3> QED
      BY <2>0, <3>3
  <2>4. ASSUME NEW j \in 1 .. Len(Upto(k)) PROVE Upto(m)[j] = Upto(k)[j]
    <3>1. j \in 1 .. Len(Upto(m - 1)) /\ Upto(m - 1)[j] = Upto(k)[j]
      BY <1>9, <2>2
    <3> QED
      BY <2>1, <3>1
  <2> QED
    BY <2>3, <2>4
<1> QED
  BY <1>6, <1>12

\* A chain: f[o] are the links from o on, each of which leads to a later place.
Leads(n, F, next) == F \in SUBSET (0 .. n) /\ \A o \in F : next[o] \in o + 1 .. n
Linked(f, n, F, next) ==
  \A o \in 0 .. n : f[o] = IF o \in F THEN <<o>> \o f[next[o]] ELSE <<>>
Links(n, F, next) == {f \in [0 .. n -> Seq(F)] : Linked(f, n, F, next)}

LEMMA LinksExist ==
  ASSUME NEW n \in Nat, NEW F, NEW next, Leads(n, F, next)
  PROVE  Links(n, F, next) # {}
<1> USE DEF Leads, Linked
<1> DEFINE P(k) == \E f \in [k .. n -> Seq(F)] :
                     \A o \in k .. n : f[o] = IF o \in F THEN <<o>> \o f[next[o]] ELSE <<>>
           T == {k \in 0 .. n + 1 : P(k)}
<1>1. P(n + 1)
  <2> DEFINE f == [o \in n + 1 .. n |-> <<>>]
  <2>1. f \in [n + 1 .. n -> Seq(F)]
    OBVIOUS
  <2>2. \A o \in n + 1 .. n : f[o] = IF o \in F THEN <<o>> \o f[next[o]] ELSE <<>>
    OBVIOUS
  <2> HIDE DEF f
  <2> QED
    BY <2>1, <2>2
<1> HIDE DEF P
<1>2. T # {} /\ T \in SUBSET Nat
  BY <1>1
<1> HIDE DEF T
<1>3. PICK m \in T : \A k \in T : m <= k
  BY <1>2, LeastNatural
<1>4. m \in 0 .. n + 1 /\ P(m)
  BY <1>3 DEF T
<1>5. PICK f \in [m .. n -> Seq(F)] :
        \A o \in m .. n : f[o] = IF o \in F THEN <<o>> \o f[next[o]] ELSE <<>>
  BY <1>4 DEF P
<1>6. CASE m = 0
  BY <1>5, <1>6 DEF Links
<1>7. CASE m # 0
  <2>1. m - 1 \in 0 .. n
    BY <1>4, <1>7
  <2> DEFINE v == IF m - 1 \in F THEN <<m - 1>> \o f[next[m - 1]] ELSE <<>>
             g == [o \in m - 1 .. n |-> IF o = m - 1 THEN v ELSE f[o]]
  <2>2. v \in Seq(F)
    <3>1. CASE m - 1 \in F
      <4>1. next[m - 1] \in m .. n
        BY <1>4, <3>1
      <4>2. f[next[m - 1]] \in Seq(F)
        BY <4>1
      <4> QED
        BY <3>1, <4>2
    <3>2. CASE m - 1 \notin F
      BY <3>2
    <3> QED
      BY <3>1, <3>2
  <2>3. ASSUME NEW o \in m - 1 .. n, o \in F
        PROVE  next[o] \in m .. n /\ next[o] \in m - 1 .. n /\ next[o] # m - 1
    BY <1>4, <2>3
  <2>4. m - 1 \in F => v = <<m - 1>> \o f[next[m - 1]]
    OBVIOUS
  <2>5. m - 1 \notin F => v = <<>>
    OBVIOUS
  <2> HIDE DEF v
  <2>6. g \in [m - 1 .. n -> Seq(F)]
    <3>1. ASSUME NEW o \in m - 1 .. n, o # m - 1 PROVE f[o] \in Seq(F)
      <4>1. o \in m .. n
        BY <1>4, <3>1
      <4> QED
        BY <4>1
    <3> QED
      BY <2>2, <3>1
  <2>7. g[m - 1] = v
    BY <1>4
  <2>8. ASSUME NEW o \in m .. n PROVE g[o] = f[o]
    BY <1>4
  <2> HIDE DEF g
  <2>9. ASSUME NEW o \in m - 1 .. n
        PROVE  g[o] = IF o \in F THEN <<o>> \o g[next[o]] ELSE <<>>
    <3>1. CASE o = m - 1
      BY <2>3, <2>4, <2>5, <2>7, <2>8, <3>1
    <3>2. CASE o # m - 1
      <4>1. o \in m .. n
        BY <1>4, <3>2
      <4> QED
        BY <1>5, <2>3, <2>8, <4>1
    <3> QED
      BY <3>1, <3>2
  <2>10. P(m - 1)
    BY <2>6, <2>9 DEF P
  <2>11. m - 1 \in T
    BY <2>1, <2>10 DEF T
  <2> QED
    BY <1>3, <1>4, <2>11
<1> QED
  BY <1>6, <1>7

\* There is no other.
LEMMA LinksOnly ==
  ASSUME NEW n \in Nat, NEW F, NEW next, Leads(n, F, next),
         NEW f, f \in Links(n, F, next), NEW g, Linked(g, n, F, next)
  PROVE  \A o \in 0 .. n : g[o] = f[o]
<1> USE DEF Leads, Linked
<1> DEFINE T == {k \in 0 .. n : g[n - k] # f[n - k]}
<1>1. ASSUME T = {}, NEW o \in 0 .. n PROVE g[o] = f[o]
  <2>1. n - o \in 0 .. n /\ n - (n - o) = o
    OBVIOUS
  <2> QED
    BY <1>1, <2>1
<1>2. SUFFICES ASSUME T # {} PROVE FALSE
  BY <1>1
<1>3. PICK m \in T : \A k \in T : m <= k
  <2>1. T \in SUBSET Nat
    OBVIOUS
  <2> HIDE DEF T
  <2> QED
    BY <1>2, <2>1, LeastNatural
<1> DEFINE o == n - m
<1>4. m \in 0 .. n /\ g[o] # f[o] /\ o \in 0 .. n
  BY <1>3
<1>5. g[o] = IF o \in F THEN <<o>> \o g[next[o]] ELSE <<>>
  BY <1>4
<1>6. f[o] = IF o \in F THEN <<o>> \o f[next[o]] ELSE <<>>
  BY <1>4 DEF Links
<1>7. o \in F
  BY <1>4, <1>5, <1>6
<1>8. next[o] \in o + 1 .. n
  BY <1>7
<1>9. n - next[o] \in 0 .. n /\ n - (n - next[o]) = next[o] /\ n - next[o] < m
  BY <1>4, <1>8
<1>10. n - next[o] \notin T
  BY <1>3, <1>4, <1>9
<1>11. g[next[o]] = f[next[o]]
  BY <1>9, <1>10
<1> QED
  BY <1>4, <1>5, <1>6, <1>11
-----------------------------------------------------------------------------
(* Numbers and bytes *)

\* A sum that stays below Word is a sum.
LEMMA PlusIsSum ==
  ASSUME NEW a \in Nat, NEW b \in Nat, a + b <= 4 * ZCF_MAX_FILE_BYTES + 1024
  PROVE  Plus(a, b) = a + b
<1>1. a + b \in 0 .. Word - 1
  BY SMT, ZcfParserAssumption
<1>2. \A w \in Nat : \A x \in 0 .. w - 1 : (x % w) = x
  OBVIOUS
<1> QED
  BY SMT, <1>1, <1>2, ZcfParserAssumption DEF Plus

LEMMA BufferLength ==
  ASSUME NEW buf \in Buffer
  PROVE  /\ Len(buf) \in Nat /\ Len(buf) <= ZCF_MAX_FILE_BYTES
         /\ ZCF_MAX_FILE_BYTES \in Nat
BY SMT, ZcfParserAssumption DEF Buffer

\* An element of a sequence, and a remainder.
LEMMA ElementType ==
  ASSUME NEW S, NEW q \in Seq(S), NEW k \in 1 .. Len(q)
  PROVE  q[k] \in S
OBVIOUS

LEMMA RemainderType ==
  ASSUME NEW x \in Nat
  PROVE  (x % Word) \in Nat /\ (x % Word) < Word
<1>1. \A w \in Nat \ {0} : (x % w) \in Nat /\ (x % w) < w
  OBVIOUS
<1> QED
  BY SMT, <1>1, ZcfParserAssumption

LEMMA RemainderBeyond ==
  ASSUME NEW x \in Nat, Word <= x, x < 2 * Word
  PROVE  (x % Word) = x - Word
<1>1. \A w \in Nat : \A y \in w .. 2 * w - 1 : (y % w) = y - w
  OBVIOUS
<1> QED
  BY SMT, <1>1, ZcfParserAssumption

\* The bytes of a file, and the numbers made of them.
LEMMA ByteType ==
  ASSUME NEW buf \in Buffer, NEW i \in Nat, i < Len(buf)
  PROVE  Byte(buf, i) \in Nat /\ Byte(buf, i) <= UINT8_MAX /\ Byte(buf, i) <= 255
<1>1. buf \in Seq(0 .. UINT8_MAX) /\ i + 1 \in 1 .. Len(buf)
  BY BufferLength DEF Buffer
<1>2. buf[i + 1] \in 0 .. UINT8_MAX
  BY <1>1, ElementType
<1>3. \A b \in 0 .. UINT8_MAX : b \in Nat /\ b <= UINT8_MAX
  BY DEF UINT8_MAX
<1> QED
  BY <1>2, <1>3 DEF Byte, UINT8_MAX

LEMMA U16Type ==
  ASSUME NEW buf \in Buffer, NEW i \in Nat, i + 2 <= Len(buf)
  PROVE  U16(buf, i) \in Nat /\ U16(buf, i) <= 65535
<1>1. i < Len(buf) /\ i + 1 < Len(buf) /\ i + 1 \in Nat
  BY BufferLength
<1>2. Byte(buf, i) \in Nat /\ Byte(buf, i) <= 255
  BY <1>1, ByteType
<1>3. Byte(buf, i + 1) \in Nat /\ Byte(buf, i + 1) <= 255
  BY <1>1, ByteType
<1> QED
  BY <1>2, <1>3 DEF U16

LEMMA U32Type ==
  ASSUME NEW buf \in Buffer, NEW i \in Nat, i + 4 <= Len(buf)
  PROVE  U32(buf, i) \in Nat /\ U32(buf, i) < Word
<1>1. i + 2 <= Len(buf) /\ (i + 2) + 2 <= Len(buf) /\ i + 2 \in Nat
  BY BufferLength
<1>2. U16(buf, i) \in Nat
  BY <1>1, U16Type
<1>3. U16(buf, i + 2) \in Nat
  BY <1>1, U16Type
<1>4. U16(buf, i) + 65536 * U16(buf, i + 2) \in Nat
  BY <1>2, <1>3
<1> QED
  BY <1>4, RemainderType DEF U32
-----------------------------------------------------------------------------
(* The loads *)

\* loads_section_ok goes on only to a record that lies before the end, and each
\* one brings it at least 15 bytes further.
THEOREM LoadInBounds ==
  ASSUME NEW buf \in Buffer, NEW end \in 0 .. Len(buf), NEW o \in 0 .. end, NEW h \in 15 .. 24,
         LoadFits(buf, o, end, h)
  PROVE  /\ NextLoad(buf, o, h) = o + h + NameLen(buf, o, h)
         /\ NextLoad(buf, o, h) \in o + 15 .. end
<1>1. /\ Len(buf) \in Nat /\ Len(buf) <= ZCF_MAX_FILE_BYTES
      /\ ZCF_MAX_FILE_BYTES \in Nat
  BY BufferLength
<1>2. Plus(o, h) = o + h
  BY <1>1, PlusIsSum
<1>3. o + h <= end
  BY <1>2 DEF LoadFits
<1>4. NameLen(buf, o, h) \in Nat /\ NameLen(buf, o, h) <= 255
  BY <1>1, <1>3, ByteType DEF NameLen
<1>5. Plus(Plus(o, h), NameLen(buf, o, h)) = o + h + NameLen(buf, o, h)
  <2>1. o + h \in Nat /\ (o + h) + NameLen(buf, o, h) <= 4 * ZCF_MAX_FILE_BYTES + 1024
    BY <1>1, <1>4
  <2> QED
    BY <1>2, <1>4, <2>1, PlusIsSum
<1>6. Plus(Plus(o, h), NameLen(buf, o, h)) <= end
  BY DEF LoadFits
<1> QED
  BY <1>1, <1>4, <1>5, <1>6 DEF NextLoad
-----------------------------------------------------------------------------
(* The control records *)

\* The first two tests: the name and the length of the commanders are there.
LEMMA NameInBounds ==
  ASSUME NEW buf \in Buffer, NEW end \in 0 .. Len(buf), NEW o \in 0 .. end,
         NameFits(o, end), CmdLenFits(buf, o, end)
  PROVE  /\ CmdLenAt(buf, o) \in o + 8 .. end - 4
         /\ CmdAt(buf, o) = CmdLenAt(buf, o) + 4
<1>1. /\ Len(buf) \in Nat /\ Len(buf) <= ZCF_MAX_FILE_BYTES
      /\ ZCF_MAX_FILE_BYTES \in Nat
  BY BufferLength
<1>2. NameAt(o) = o + 8
  BY <1>1, PlusIsSum DEF NameAt
<1>3. Byte(buf, o + 7) \in Nat /\ Byte(buf, o + 7) <= 255
  BY <1>1, <1>2, ByteType DEF NameFits
<1>4. CmdLenAt(buf, o) = o + 8 + Byte(buf, o + 7)
  BY <1>1, <1>2, <1>3, PlusIsSum DEF CmdLenAt
<1>5. CmdAt(buf, o) = CmdLenAt(buf, o) + 4
  <2>1. /\ CmdLenAt(buf, o) \in Nat
        /\ CmdLenAt(buf, o) + 4 <= 4 * ZCF_MAX_FILE_BYTES + 1024
    BY <1>1, <1>3, <1>4
  <2> QED
    BY <2>1, PlusIsSum DEF CmdAt
<1>6. CmdAt(buf, o) <= end
  BY DEF CmdLenFits
<1> QED
  BY <1>1, <1>3, <1>4, <1>5, <1>6

\* The third: so are the commanders, and the length and the count of the outputs.
LEMMA CommandersInBounds ==
  ASSUME NEW buf \in Buffer, NEW end \in 0 .. Len(buf), NEW o \in 0 .. end,
         NameFits(o, end), CmdLenFits(buf, o, end), CommandersFit(buf, o, end)
  PROVE  /\ OutLenAt(buf, o) \in o + 12 .. end - 6
         /\ OutAt(buf, o) = OutLenAt(buf, o) + 6
<1>1. /\ Len(buf) \in Nat /\ Len(buf) <= ZCF_MAX_FILE_BYTES
      /\ ZCF_MAX_FILE_BYTES \in Nat
  BY BufferLength
<1>2. CmdLenAt(buf, o) \in o + 8 .. end - 4 /\ CmdAt(buf, o) = CmdLenAt(buf, o) + 4
  BY NameInBounds
<1>3. U32(buf, CmdLenAt(buf, o)) \in Nat
  BY <1>1, <1>2, U32Type
<1>4. U32(buf, CmdLenAt(buf, o)) <= end - CmdAt(buf, o)
  BY DEF CommandersFit
<1>5. OutLenAt(buf, o) = CmdAt(buf, o) + U32(buf, CmdLenAt(buf, o))
  <2>1. /\ CmdAt(buf, o) \in Nat
        /\ CmdAt(buf, o) + U32(buf, CmdLenAt(buf, o)) <= 4 * ZCF_MAX_FILE_BYTES + 1024
    BY <1>1, <1>2, <1>3, <1>4
  <2> QED
    BY <1>3, <2>1, PlusIsSum DEF OutLenAt
<1>6. OutLenAt(buf, o) \in o + 12 .. end
  BY <1>1, <1>2, <1>3, <1>4, <1>5
<1>7. OutAt(buf, o) = OutLenAt(buf, o) + 6
  BY <1>1, <1>6, PlusIsSum DEF OutAt
<1>8. OutAt(buf, o) <= end
  BY DEF CommandersFit
<1> QED
  BY <1>1, <1>6, <1>7, <1>8

\* A record that parse_control_records accepts brings it at least 18 bytes further
\* and not beyond the end of the section, and every output it reads from the
\* record lies in the record.
THEOREM RecordInBounds ==
  ASSUME NEW buf \in Buffer, NEW end \in 0 .. Len(buf), NEW o \in 0 .. end,
         RecordFits(buf, o, end)
  PROVE  /\ NextRecord(buf, o) \in o + 18 .. end
         /\ HasChannels(buf, o) =>
              \A j \in 1 .. OutCount(buf, o) :
                OutAt(buf, o) + 5 * (j - 1) + 5 <= NextRecord(buf, o)
<1>1. /\ Len(buf) \in Nat /\ Len(buf) <= ZCF_MAX_FILE_BYTES
      /\ ZCF_MAX_FILE_BYTES \in Nat
  BY BufferLength
<1>2. OutLenAt(buf, o) \in o + 12 .. end - 6 /\ OutAt(buf, o) = OutLenAt(buf, o) + 6
  BY CommandersInBounds DEF RecordFits
<1>3. Plus(OutLenAt(buf, o), 4) = OutLenAt(buf, o) + 4
  <2>1. /\ OutLenAt(buf, o) \in Nat
        /\ OutLenAt(buf, o) + 4 <= 4 * ZCF_MAX_FILE_BYTES + 1024
    BY <1>1, <1>2
  <2> QED
    BY <2>1, PlusIsSum
<1>4. OutLen(buf, o) \in Nat
  BY <1>1, <1>2, U32Type DEF OutLen
<1>5. OutLen(buf, o) >= 2 /\ OutLen(buf, o) <= end - (OutLenAt(buf, o) + 4)
  BY <1>3 DEF RecordFits, OutputsFit
<1>6. NextRecord(buf, o) = OutLenAt(buf, o) + 4 + OutLen(buf, o)
  <2>1. /\ OutLenAt(buf, o) + 4 \in Nat
        /\ (OutLenAt(buf, o) + 4) + OutLen(buf, o) <= 4 * ZCF_MAX_FILE_BYTES + 1024
    BY <1>1, <1>2, <1>4, <1>5
  <2> QED
    BY <1>3, <1>4, <2>1, PlusIsSum DEF NextRecord
<1>7. NextRecord(buf, o) \in o + 18 .. end
  BY <1>1, <1>2, <1>4, <1>5, <1>6
<1>8. ASSUME HasChannels(buf, o), NEW j \in 1 .. OutCount(buf, o)
      PROVE  OutAt(buf, o) + 5 * (j - 1) + 5 <= NextRecord(buf, o)
  <2>1. OutCount(buf, o) \in Nat /\ OutCount(buf, o) <= 65535
    BY <1>1, <1>2, U16Type DEF OutCount
  <2>2. 2 + 5 * OutCount(buf, o) \in 0 .. Word - 1
    BY SMT, <2>1, ZcfParserAssumption
  <2>3. \A w \in Nat : \A x \in 0 .. w - 1 : (x % w) = x
    OBVIOUS
  <2>4. OutLen(buf, o) = 2 + 5 * OutCount(buf, o)
    BY SMT, <1>8, <2>2, <2>3, ZcfParserAssumption DEF HasChannels
  <2>5. \A a, c \in Nat : \A i \in 1 .. c : (a + 6) + 5 * (i - 1) + 5 <= a + 4 + (2 + 5 * c)
    OBVIOUS
  <2>6. OutLenAt(buf, o) \in Nat
    BY <1>1, <1>2
  <2>7. (OutLenAt(buf, o) + 6) + 5 * (j - 1) + 5 <= OutLenAt(buf, o) + 4 + (2 + 5 * OutCount(buf, o))
    BY <2>1, <2>5, <2>6
  <2> QED
    BY <1>2, <1>6, <2>4, <2>7
<1> QED
  BY <1>7, <1>8
-----------------------------------------------------------------------------
(* The sections *)

\* A section that zcf_config_load tries begins behind its marker and ends in the
\* file, so that the records are looked for in bytes that are there.  Its length
\* comes from the file and may be any number: one that makes the sum wrap is refused.
THEOREM SectionInBounds ==
  ASSUME NEW buf \in Buffer, NEW i \in 6 .. Len(buf) - 4, Marked(buf, i)
  PROVE  /\ SectionEnd(buf, i) = (i - 2) + U32(buf, i - 6)
         /\ SectionEnd(buf, i) \in i + 1 .. Len(buf)
<1>1. /\ Len(buf) \in Nat /\ Len(buf) <= ZCF_MAX_FILE_BYTES
      /\ ZCF_MAX_FILE_BYTES \in Nat
  BY BufferLength
<1>2. U32(buf, i - 6) \in Nat /\ U32(buf, i - 6) < Word
  BY <1>1, U32Type
<1>3. SectionEnd(buf, i) <= Len(buf) /\ SectionEnd(buf, i) > i
  BY DEF Marked
<1>4. (i - 2) + U32(buf, i - 6) \in 0 .. Word - 1
  <2>1. SUFFICES ASSUME (i - 2) + U32(buf, i - 6) >= Word
                 PROVE  FALSE
    BY SMT, <1>1, <1>2, ZcfParserAssumption
  <2>2. /\ (i - 2) + U32(buf, i - 6) \in Nat
        /\ (i - 2) + U32(buf, i - 6) < 2 * Word
    BY SMT, <1>1, <1>2, ZcfParserAssumption
  <2>3. SectionEnd(buf, i) = ((i - 2) + U32(buf, i - 6)) - Word
    BY <2>1, <2>2, RemainderBeyond DEF SectionEnd, Plus
  <2> QED
    BY SMT, <1>1, <1>2, <1>3, <2>3, ZcfParserAssumption
<1>5. SectionEnd(buf, i) = (i - 2) + U32(buf, i - 6)
  <2>1. \A w \in Nat : \A x \in 0 .. w - 1 : (x % w) = x
    OBVIOUS
  <2> QED
    BY SMT, <1>4, <2>1, ZcfParserAssumption DEF SectionEnd, Plus
<1> QED
  BY <1>1, <1>2, <1>3, <1>5
-----------------------------------------------------------------------------
(* What the parser finds *)

\* The records the parser goes through are records that fit.
LEMMA LoadsFit ==
  ASSUME NEW buf \in Buffer, NEW end \in 0 .. Len(buf), NEW start \in 0 .. Len(buf), NEW h \in 15 .. 24
  PROVE  LoadsFrom(buf, start, end, h) \in Seq({o \in 0 .. end : LoadFits(buf, o, end, h)})
<1> DEFINE n == Len(buf)
           F == {o \in 0 .. end : LoadFits(buf, o, end, h)}
           next == [o \in 0 .. n |-> NextLoad(buf, o, h)]
           E(f) == f = [o \in 0 .. n |-> IF LoadFits(buf, o, end, h)
                                          THEN <<o>> \o f[NextLoad(buf, o, h)] ELSE <<>>]
<1>1. n \in Nat /\ n <= ZCF_MAX_FILE_BYTES /\ ZCF_MAX_FILE_BYTES \in Nat
  BY BufferLength
<1>2. ASSUME NEW o \in 0 .. n PROVE LoadFits(buf, o, end, h) <=> o \in F
  <2>1. SUFFICES ASSUME LoadFits(buf, o, end, h) PROVE o <= end
    BY <1>1
  <2>2. Plus(o, h) = o + h
    BY <1>1, PlusIsSum
  <2> QED
    BY <1>1, <2>1, <2>2 DEF LoadFits
<1>3. ASSUME NEW o \in F PROVE next[o] \in o + 1 .. n
  <2>1. NextLoad(buf, o, h) \in o + 15 .. end
    BY LoadInBounds
  <2> QED
    BY <1>1, <2>1
<1>4. Leads(n, F, next)
  <2>1. F \in SUBSET (0 .. n)
    BY <1>1
  <2> HIDE DEF F, next
  <2> QED
    BY <1>3, <2>1 DEF Leads
<1>5. \A o \in 0 .. n : next[o] = NextLoad(buf, o, h)
  OBVIOUS
<1> HIDE DEF F, next
<1>6. PICK l \in Links(n, F, next) : TRUE
  BY <1>1, <1>4, LinksExist
<1>7. E(l)
  <2>1. ASSUME NEW o \in 0 .. n
        PROVE  l[o] = IF LoadFits(buf, o, end, h) THEN <<o>> \o l[NextLoad(buf, o, h)] ELSE <<>>
    BY <1>2, <1>5 DEF Links, Linked
  <2>2. l \in [0 .. n -> Seq(F)]
    BY DEF Links
  <2> QED
    BY <2>1, <2>2
<1> DEFINE c == CHOOSE f : E(f)
<1>8. E(c)
  BY <1>7
<1>9. Linked(c, n, F, next)
  BY <1>2, <1>5, <1>8 DEF Linked
<1>10. LoadsFrom(buf, start, end, h) = c[start]
  BY DEF LoadsFrom
<1> HIDE DEF c
<1>11. c[start] = l[start]
  BY <1>1, <1>4, <1>6, <1>9, LinksOnly
<1>12. l[start] \in Seq(F)
  BY DEF Links
<1> QED
  BY <1>10, <1>11, <1>12 DEF F

\* The records from one place on: each fits, and behind the one there come those from
\* the next one on.
LEMMA RecordsFit ==
  ASSUME NEW buf \in Buffer, NEW end \in 0 .. Len(buf), NEW start \in 0 .. Len(buf)
  PROVE  /\ RecordsFrom(buf, start, end) \in Seq({o \in 0 .. end : RecordFits(buf, o, end)})
         /\ RecordFits(buf, start, end) =>
              RecordsFrom(buf, start, end) = <<start>> \o RecordsFrom(buf, NextRecord(buf, start), end)
<1> DEFINE n == Len(buf)
           F == {o \in 0 .. end : RecordFits(buf, o, end)}
           next == [o \in 0 .. n |-> NextRecord(buf, o)]
           E(f) == f = [o \in 0 .. n |-> IF RecordFits(buf, o, end)
                                          THEN <<o>> \o f[NextRecord(buf, o)] ELSE <<>>]
<1>1. n \in Nat /\ n <= ZCF_MAX_FILE_BYTES /\ ZCF_MAX_FILE_BYTES \in Nat
  BY BufferLength
<1>2. ASSUME NEW o \in 0 .. n PROVE RecordFits(buf, o, end) <=> o \in F
  <2>1. SUFFICES ASSUME RecordFits(buf, o, end) PROVE o <= end
    BY <1>1
  <2>2. NameAt(o) = o + 8
    BY <1>1, PlusIsSum DEF NameAt
  <2> QED
    BY <1>1, <2>1, <2>2 DEF RecordFits, NameFits
<1>3. ASSUME NEW o \in F PROVE next[o] \in o + 1 .. n
  <2>1. NextRecord(buf, o) \in o + 18 .. end
    BY RecordInBounds
  <2> QED
    BY <1>1, <2>1
<1>4. Leads(n, F, next)
  <2>1. F \in SUBSET (0 .. n)
    BY <1>1
  <2> HIDE DEF F, next
  <2> QED
    BY <1>3, <2>1 DEF Leads
<1>5. \A o \in 0 .. n : next[o] = NextRecord(buf, o)
  OBVIOUS
<1> HIDE DEF F, next
<1>6. PICK l \in Links(n, F, next) : TRUE
  BY <1>1, <1>4, LinksExist
<1>7. E(l)
  <2>1. ASSUME NEW o \in 0 .. n
        PROVE  l[o] = IF RecordFits(buf, o, end) THEN <<o>> \o l[NextRecord(buf, o)] ELSE <<>>
    BY <1>2, <1>5 DEF Links, Linked
  <2>2. l \in [0 .. n -> Seq(F)]
    BY DEF Links
  <2> QED
    BY <2>1, <2>2
<1> DEFINE c == CHOOSE f : E(f)
<1>8. E(c)
  BY <1>7
<1>9. Linked(c, n, F, next)
  BY <1>2, <1>5, <1>8 DEF Linked
<1>10. \A s \in 0 .. n : RecordsFrom(buf, s, end) = c[s]
  BY DEF RecordsFrom
<1> HIDE DEF c
<1>11. c[start] = l[start]
  BY <1>1, <1>4, <1>6, <1>9, LinksOnly
<1>12. l[start] \in Seq(F)
  BY DEF Links
<1>13. ASSUME RecordFits(buf, start, end)
       PROVE  c[start] = <<start>> \o c[NextRecord(buf, start)] /\ NextRecord(buf, start) \in 0 .. n
  <2>1. start \in 0 .. n /\ start \in F
    BY <1>2, <1>13
  <2>2. NextRecord(buf, start) \in 0 .. n
    BY <1>1, <1>3, <1>5, <2>1
  <2> QED
    BY <1>8, <1>13, <2>1, <2>2
<1> QED
  BY <1>10, <1>11, <1>12, <1>13 DEF F

-----------------------------------------------------------------------------
(* What the parser makes of the records *)

LEMMA PartTyped ==
  ASSUME NEW S, NEW q \in Seq(S), NEW m \in 1 .. Len(q) + 1, NEW n \in m - 1 .. Len(q)
  PROVE  SubSeq(q, m, n) \in Seq(S)
OBVIOUS

LEMMA NameTyped ==
  ASSUME NEW buf \in Buffer, NEW i \in Nat, NEW n \in Nat, i + n <= Len(buf)
  PROVE  NameOf(buf, i, n) \in Names
<1> DEFINE k == IF n >= ZCF_NAME_MAX THEN ZCF_NAME_MAX - 1 ELSE n
<1>1. k \in 0 .. n
  BY ZcfParserAssumption
<1>2. Len(buf) \in Nat
  BY BufferLength
<1>3. i + 1 \in 1 .. Len(buf) + 1 /\ i + k \in (i + 1) - 1 .. Len(buf)
  BY <1>1, <1>2
<1>4. buf \in Seq(0 .. UINT8_MAX)
  BY DEF Buffer
<1> HIDE DEF k
<1>5. SubSeq(buf, i + 1, i + k) \in Seq(0 .. UINT8_MAX)
  BY <1>3, <1>4, PartTyped
<1> QED
  BY <1>5 DEF NameOf, Names, k

LEMMA LoadNameTyped ==
  ASSUME NEW buf \in Buffer, NEW address
  PROVE  LoadName(buf, address) \in Names
<1>1. CASE BestLoads(buf) = {}
  BY <1>1 DEF LoadName, Names
<1>2. ASSUME NEW i \in BestLoads(buf) PROVE NameInLoads(buf, i, address) \in Names
  <2> DEFINE end == Plus(Plus(i, 4), U32(buf, i))
             h == Byte(buf, i + 6)
             q == LoadRecords(buf, i)
             there == {k \in DOMAIN q : U16(buf, q[k]) = address}
             first == CHOOSE k \in there : \A j \in there : k <= j
             F == {o \in 0 .. end : LoadFits(buf, o, end, h)}
  <2>1. i \in 6 .. Len(buf) - 8 /\ LoadsHeader(buf, i)
    BY DEF BestLoads
  <2>2. Len(buf) \in Nat /\ Len(buf) <= ZCF_MAX_FILE_BYTES /\ ZCF_MAX_FILE_BYTES \in Nat
    BY BufferLength
  <2>3. end \in 0 .. Len(buf) /\ h \in 15 .. 24
    <3>1. Plus(i, 4) = i + 4
      BY <2>1, <2>2, PlusIsSum
    <3>2. U32(buf, i) \in Nat
      BY <2>1, <2>2, U32Type
    <3>3. Plus(i + 4, U32(buf, i)) \in Nat
      <4>1. (i + 4) + U32(buf, i) \in Nat
        BY <2>1, <3>2
      <4> QED
        BY <4>1, RemainderType DEF Plus
    <3> QED
      BY <2>1, <2>2, <3>1, <3>3 DEF LoadsHeader
  <2>4. q \in Seq(F)
    <3>1. i + 7 \in 0 .. Len(buf)
      BY <2>1, <2>2
    <3> HIDE DEF end, h
    <3>2. LoadsFrom(buf, i + 7, end, h) \in Seq({o \in 0 .. end : LoadFits(buf, o, end, h)})
      BY <2>3, <3>1, LoadsFit
    <3> QED
      BY <3>2 DEF LoadRecords, end, h
  <2>5. CASE there = {}
    BY <2>5 DEF NameInLoads, Names
  <2>6. CASE there # {}
    <3>1. there \in SUBSET Nat
      BY <2>4
    <3>2. \E k \in there : \A j \in there : k <= j
      <4> HIDE DEF there
      <4> QED
        BY <2>6, <3>1, LeastNatural
    <3>3. first \in there
      <4> HIDE DEF there
      <4> QED
        BY <3>2
    <3>4. first \in 1 .. Len(q)
      <4> HIDE DEF first, q
      <4> QED
        BY <2>4, <3>3
    <3> HIDE DEF first, q, end, h
    <3>5. q[first] \in 0 .. end /\ LoadFits(buf, q[first], end, h)
      BY <2>4, <3>4, ElementType
    <3>6. /\ NextLoad(buf, q[first], h) = q[first] + h + NameLen(buf, q[first], h)
          /\ NextLoad(buf, q[first], h) \in q[first] + 15 .. end
      BY <2>3, <3>5, LoadInBounds
    <3>7. q[first] + h <= Len(buf)
      <4>1. Plus(q[first], h) = q[first] + h
        <5>1. /\ q[first] \in Nat /\ h \in Nat
              /\ q[first] + h <= 4 * ZCF_MAX_FILE_BYTES + 1024
          BY <2>2, <2>3, <3>5
        <5> QED
          BY <5>1, PlusIsSum
      <4> QED
        BY <2>2, <2>3, <3>5, <4>1 DEF LoadFits
    <3>8. NameLen(buf, q[first], h) \in Nat
      BY <2>2, <2>3, <3>5, <3>7, ByteType DEF NameLen
    <3>9. NameOf(buf, q[first] + h, NameLen(buf, q[first], h)) \in Names
      <4>1. q[first] + h \in Nat /\ (q[first] + h) + NameLen(buf, q[first], h) <= Len(buf)
        BY <2>2, <2>3, <3>5, <3>6, <3>8
      <4> QED
        BY <3>8, <4>1, NameTyped
    <3> QED
      BY <2>6, <3>9 DEF NameInLoads, first, q, h
  <2> QED
    BY <2>5, <2>6
<1>3. CASE BestLoads(buf) # {}
  BY <1>2, <1>3 DEF LoadName
<1> QED
  BY <1>1, <1>3

LEMMA InRange ==
  ASSUME NEW n \in Nat, NEW x \in Nat, x <= n
  PROVE  x \in 0 .. n
OBVIOUS

LEMMA RemainderInRange ==
  ASSUME NEW n \in Nat, NEW x \in Nat
  PROVE  x % (n + 1) \in 0 .. n
OBVIOUS

LEMMA Maxima == UINT8_MAX \in Nat /\ UINT16_MAX \in Nat /\ LEVEL_MAX \in Nat
BY DEF UINT8_MAX, UINT16_MAX, LEVEL_MAX

\* An output that is read from a record that fits.
LEMMA OutputTyped ==
  ASSUME NEW buf \in Buffer, NEW end \in 0 .. Len(buf), NEW o \in 0 .. end,
         RecordFits(buf, o, end), HasChannels(buf, o), NEW j \in 1 .. OutCount(buf, o)
  PROVE  OutputAt(buf, o, j) \in Output
<1> DEFINE e == OutAt(buf, o) + 5 * (j - 1)
<1>1. Len(buf) \in Nat /\ Len(buf) <= ZCF_MAX_FILE_BYTES /\ ZCF_MAX_FILE_BYTES \in Nat
  BY BufferLength
<1>2. OutLenAt(buf, o) \in o + 12 .. end - 6 /\ OutAt(buf, o) = OutLenAt(buf, o) + 6
  BY CommandersInBounds DEF RecordFits
<1>3. OutCount(buf, o) \in Nat
  BY <1>1, <1>2, U16Type DEF OutCount
<1>4. e + 5 <= NextRecord(buf, o) /\ NextRecord(buf, o) \in o + 18 .. end
  BY RecordInBounds
<1>5. e \in Nat /\ e + 5 <= Len(buf)
  BY <1>1, <1>2, <1>3, <1>4
<1> HIDE DEF e
<1>6. U16(buf, e) \in Nat /\ U16(buf, e) <= 65535
  BY <1>1, <1>5, U16Type
<1>7. U16(buf, e + 2) % (LEVEL_MAX + 1) \in 0 .. LEVEL_MAX
  <2>1. e + 2 \in Nat /\ (e + 2) + 2 <= Len(buf)
    BY <1>1, <1>5
  <2>2. U16(buf, e + 2) \in Nat
    BY <2>1, U16Type
  <2> QED
    BY <2>2, Maxima, RemainderInRange
<1>8. /\ NameAt(o) = o + 8
      /\ Byte(buf, o + 7) \in Nat /\ Byte(buf, o + 7) <= 255
      /\ o + 8 + Byte(buf, o + 7) <= Len(buf)
  <2>1. NameAt(o) = o + 8
    BY <1>1, PlusIsSum DEF NameAt
  <2>2. o + 8 <= end
    BY <2>1 DEF RecordFits, NameFits
  <2>3. Byte(buf, o + 7) \in Nat /\ Byte(buf, o + 7) <= 255
    BY <1>1, <2>2, ByteType
  <2>4. CmdLenAt(buf, o) = o + 8 + Byte(buf, o + 7)
    <3>1. /\ o + 8 \in Nat
          /\ (o + 8) + Byte(buf, o + 7) <= 4 * ZCF_MAX_FILE_BYTES + 1024
      BY <1>1, <2>2, <2>3
    <3> QED
      BY <2>1, <2>3, <3>1, PlusIsSum DEF CmdLenAt
  <2>5. CmdLenAt(buf, o) \in o + 8 .. end - 4
    BY NameInBounds DEF RecordFits
  <2> QED
    BY <1>1, <2>1, <2>3, <2>4, <2>5
<1>9. NameOf(buf, NameAt(o), Byte(buf, o + 7)) \in Names
  <2>1. o + 8 \in Nat /\ (o + 8) + Byte(buf, o + 7) <= Len(buf)
    BY <1>1, <1>8
  <2> QED
    BY <1>8, <2>1, NameTyped
<1>10. LoadName(buf, U16(buf, e)) \in Names
  BY LoadNameTyped
<1>11. Byte(buf, o) \in 0 .. UINT8_MAX
  <2>1. o < Len(buf)
    BY <1>1, <1>4
  <2>2. Byte(buf, o) \in Nat /\ Byte(buf, o) <= UINT8_MAX
    BY <1>1, <2>1, ByteType
  <2> QED
    BY <2>2, Maxima, InRange
<1>12. U16(buf, e) \in 0 .. UINT16_MAX
  <2>1. U16(buf, e) <= UINT16_MAX
    BY <1>6 DEF UINT16_MAX
  <2> QED
    BY <1>6, <2>1, Maxima, InRange
<1> QED
  BY <1>7, <1>9, <1>10, <1>11, <1>12 DEF OutputAt, Output, e

LEMMA OutputsTyped ==
  ASSUME NEW buf \in Buffer, NEW end \in 0 .. Len(buf), NEW o \in 0 .. end, RecordFits(buf, o, end)
  PROVE  Outputs(buf, o) \in Seq(Output)
<1>1. CASE ~HasChannels(buf, o)
  BY <1>1 DEF Outputs
<1>2. CASE HasChannels(buf, o)
  <2> DEFINE n == OutCount(buf, o)
             q == [j \in 1 .. n |-> <<OutputAt(buf, o, j)>>]
  <2>1. n \in Nat
    <3>1. Len(buf) \in Nat
      BY BufferLength
    <3>2. OutLenAt(buf, o) \in o + 12 .. end - 6
      BY CommandersInBounds DEF RecordFits
    <3> QED
      BY <3>1, <3>2, U16Type DEF OutCount
  <2>2. ASSUME NEW j \in 1 .. n PROVE <<OutputAt(buf, o, j)>> \in Seq(Output)
    <3>1. OutputAt(buf, o, j) \in Output
      BY <1>2, OutputTyped
    <3> QED
      BY <3>1
  <2> HIDE DEF n
  <2>3. q \in Seq(Seq(Output))
    BY <2>1, <2>2
  <2> HIDE DEF q
  <2>4. FlattenSeq(q) \in Seq(Output)
    BY <2>3, FlattenAll
  <2> QED
    BY <1>2, <2>4 DEF Outputs, q, n
<1> QED
  BY <1>1, <1>2

Section == [outputs : Seq(Output), exact : BOOLEAN]

LEMMA SectionTyped ==
  ASSUME NEW buf \in Buffer, NEW i \in 6 .. Len(buf) - 4, Marked(buf, i)
  PROVE  SectionAt(buf, i) \in Section
<1> DEFINE count == U16(buf, i - 2)
           end == SectionEnd(buf, i)
           found == RecordsFrom(buf, i + 4, end)
           taken == SubSeq(found, 1, IF Len(found) < count THEN Len(found) ELSE count)
           F == {o \in 0 .. end : RecordFits(buf, o, end)}
           q == [k \in DOMAIN taken |-> Outputs(buf, taken[k])]
<1>1. Len(buf) \in Nat
  BY BufferLength
<1>2. end \in 0 .. Len(buf)
  BY <1>1, SectionInBounds
<1>3. found \in Seq(F)
  <2>1. i + 4 \in 0 .. Len(buf)
    BY <1>1
  <2> QED
    BY <1>2, <2>1, RecordsFit
<1>4. count \in Nat
  BY <1>1, U16Type
<1> HIDE DEF count, found, F
<1>5. taken \in Seq(F)
  <2> DEFINE n == IF Len(found) < count THEN Len(found) ELSE count
  <2>1. n \in 1 - 1 .. Len(found) /\ 1 \in 1 .. Len(found) + 1
    BY <1>3, <1>4
  <2> HIDE DEF n
  <2>2. SubSeq(found, 1, n) \in Seq(F)
    BY <1>3, <2>1, PartTyped
  <2> QED
    BY <2>2 DEF n
<1> HIDE DEF taken
<1>6. ASSUME NEW k \in DOMAIN taken PROVE Outputs(buf, taken[k]) \in Seq(Output)
  <2>1. taken[k] \in F
    BY <1>5
  <2>2. taken[k] \in 0 .. end /\ RecordFits(buf, taken[k], end)
    BY <2>1 DEF F
  <2> HIDE DEF end
  <2> QED
    BY <1>2, <2>2, OutputsTyped
<1>7. q \in Seq(Seq(Output))
  BY <1>5, <1>6
<1> HIDE DEF q
<1>8. FlattenSeq(q) \in Seq(Output)
  BY <1>7, FlattenAll
<1> QED
  BY <1>8 DEF SectionAt, Section, q, taken, found, count

\* The sections that are tried, at one place after another.
Tried(buf) ==
  [i \in 1 .. Len(buf) - 4 |-> IF i >= 6 /\ Marked(buf, i) THEN <<SectionAt(buf, i)>> ELSE <<>>]

TriedTo(buf, k) == FlattenSeq(SubSeq(Tried(buf), 1, k))

LEMMA TriedTyped ==
  ASSUME NEW buf \in Buffer, Parsable(buf)
  PROVE  /\ Tried(buf) \in Seq(Seq(Section)) /\ Len(Tried(buf)) = Len(buf) - 4
         /\ Len(buf) - 4 \in Nat /\ Len(buf) \in Nat
<1> DEFINE n == Len(buf) - 4
           at(i) == IF i >= 6 /\ Marked(buf, i) THEN <<SectionAt(buf, i)>> ELSE <<>>
           q == [i \in 1 .. n |-> at(i)]
<1>1. n \in Nat /\ Len(buf) \in Nat
  <2>1. Len(buf) \in Nat
    BY BufferLength
  <2> QED
    BY <2>1 DEF Parsable
<1>2. ASSUME NEW i \in 1 .. n PROVE at(i) \in Seq(Section)
  <2>1. CASE i >= 6 /\ Marked(buf, i)
    <3>1. i \in 6 .. Len(buf) - 4
      BY <1>1, <2>1
    <3>2. SectionAt(buf, i) \in Section
      BY <2>1, <3>1, SectionTyped
    <3> QED
      BY <2>1, <3>2
  <2>2. CASE ~(i >= 6 /\ Marked(buf, i))
    BY <2>2
  <2> QED
    BY <2>1, <2>2
<1> HIDE DEF at
<1>3. q \in Seq(Seq(Section)) /\ Len(q) = n
  <2> HIDE DEF n
  <2> QED
    BY <1>1, <1>2
<1>4. Tried(buf) = q
  BY DEF Tried, at
<1> HIDE DEF q
<1> QED
  BY <1>1, <1>3, <1>4

LEMMA SectionsAreTried ==
  ASSUME NEW buf \in Buffer, Parsable(buf)
  PROVE  SectionsOf(buf) = TriedTo(buf, Len(buf) - 4) /\ SectionsOf(buf) \in Seq(Section)
<1>1. SectionsOf(buf) = FlattenSeq(Tried(buf))
  BY DEF SectionsOf, Tried
<1> QED
  BY <1>1, TriedTyped, FlattenAll DEF TriedTo
-----------------------------------------------------------------------------
(* What the parser makes of a file that is laid out as it should be *)

\* A sum of sequences of one element each is the sequence of these.
Singles(q, n, e) == q = [j \in 1 .. n |-> <<e[j]>>]

LEMMA FlattenSingles ==
  ASSUME NEW S, NEW n \in Nat, NEW e \in [1 .. n -> S], NEW q, Singles(q, n, e)
  PROVE  FlattenSeq(q) = e
<1> DEFINE Upto(k) == FlattenSeq(SubSeq(q, 1, k))
           Right(k) == Len(Upto(k)) = k /\ \A j \in 1 .. k : Upto(k)[j] = e[j]
           T == {k \in 0 .. n : ~Right(k)}
<1>1. q \in Seq(Seq(S)) /\ Len(q) = n
  <2>1. \A j \in 1 .. n : <<e[j]>> \in Seq(S)
    OBVIOUS
  <2> QED
    BY <2>1 DEF Singles
<1>2. \A k \in 1 .. n : q[k] = <<e[k]>>
  BY DEF Singles
<1>3. \A k \in 0 .. n : Upto(k) \in Seq(S)
  BY <1>1, FlattenTyped
<1>4. Upto(0) = <<>>
  BY <1>1, FlattenNone
<1>5. \A k \in 1 .. n : Upto(k) = Upto(k - 1) \o <<e[k]>>
  BY <1>1, <1>2, FlattenNext
<1> HIDE DEF Upto
<1>6. T = {}
  <2> SUFFICES ASSUME T # {} PROVE FALSE
    OBVIOUS
  <2>1. PICK m \in T : \A k \in T : m <= k
    <3>1. T \in SUBSET Nat
      OBVIOUS
    <3> HIDE DEF T
    <3> QED
      BY <3>1, LeastNatural
  <2>2. m # 0
    BY <1>4, <2>1
  <2>3. m \in 1 .. n /\ m - 1 \in 0 .. n /\ Right(m - 1)
    BY <2>1, <2>2
  <2>4. Upto(m) = Upto(m - 1) \o <<e[m]>> /\ Upto(m - 1) \in Seq(S) /\ e[m] \in S
    BY <1>3, <1>5, <2>3
  <2>5. Len(Upto(m)) = m /\ Upto(m)[m] = e[m]
    BY <2>3, <2>4
  <2>6. \A j \in 1 .. m - 1 : Upto(m)[j] = e[j]
    BY <2>3, <2>4
  <2> QED
    BY <2>1, <2>3, <2>5, <2>6
<1>7. Right(n) /\ Upto(n) \in Seq(S)
  BY <1>3, <1>6
<1>8. Upto(n) = e
  BY <1>7
<1>9. FlattenSeq(q) = Upto(n)
  BY <1>1, FlattenAll DEF Upto
<1> QED
  BY <1>8, <1>9

\* A record that is as long as it says is parsed, and the next one is found.
LEMMA RecordParsed ==
  ASSUME NEW buf \in Buffer, NEW end \in 0 .. Len(buf), NEW o \in Nat, NEW next \in Nat,
         next <= end, IsRecord(buf, o, next)
  PROVE  /\ o + 18 <= next
         /\ RecordFits(buf, o, end)
         /\ NextRecord(buf, o) = next
         /\ OutLenAt(buf, o) = OutsAt(buf, o) /\ OutAt(buf, o) = OutsAt(buf, o) + 6
         /\ NameAt(o) = o + 8
<1> DEFINE B == Byte(buf, o + 7)
           p == NameEnd(buf, o)
           C == U32(buf, p)
           q == OutsAt(buf, o)
           L == U32(buf, q)
<1>1. /\ Len(buf) \in Nat /\ Len(buf) <= ZCF_MAX_FILE_BYTES
      /\ ZCF_MAX_FILE_BYTES \in Nat /\ end \in Nat /\ end <= Len(buf)
  BY BufferLength
<1>2. o + 8 <= next /\ p + 4 <= next /\ q + 6 <= next /\ q + 4 + L = next
  BY DEF IsRecord
<1>3. B \in Nat /\ p = o + 8 + B
  BY <1>1, <1>2, ByteType DEF NameEnd
<1>4. C \in Nat /\ q = p + 4 + C
  BY <1>1, <1>2, <1>3, U32Type DEF OutsAt
<1>5. L \in Nat
  <2>1. p \in Nat /\ q \in Nat
    BY <1>3, <1>4
  <2>2. q + 4 <= Len(buf)
    BY <1>1, <1>2, <2>1
  <2> HIDE DEF q
  <2> QED
    BY <2>1, <2>2, U32Type
<1> HIDE DEF B, p, C, q, L
<1>6. /\ p \in Nat /\ q \in Nat
      /\ \A x \in Nat : x <= end + 4 => x <= 4 * ZCF_MAX_FILE_BYTES + 1024
  BY <1>1, <1>3, <1>4
<1>7. NameAt(o) = o + 8 /\ o + 8 \in Nat
  BY <1>1, <1>2, <1>6, PlusIsSum DEF NameAt
<1>8. CmdLenAt(buf, o) = p
  <2>1. o + 8 + B <= end
    BY <1>1, <1>2, <1>3, <1>6
  <2>2. Plus(o + 8, B) = o + 8 + B
    BY <1>3, <1>6, <1>7, <2>1, PlusIsSum
  <2> QED
    BY <1>3, <1>7, <2>2 DEF CmdLenAt, B
<1>9. CmdAt(buf, o) = p + 4
  <2>1. p + 4 <= end
    BY <1>1, <1>2, <1>6
  <2>2. Plus(p, 4) = p + 4
    BY <1>6, <2>1, PlusIsSum
  <2> QED
    BY <1>8, <2>2 DEF CmdAt
<1>10. OutLenAt(buf, o) = q
  <2>1. p + 4 + C <= end /\ p + 4 \in Nat
    BY <1>1, <1>2, <1>4, <1>6
  <2>2. Plus(p + 4, C) = p + 4 + C
    BY <1>4, <1>6, <2>1, PlusIsSum
  <2> QED
    BY <1>4, <1>8, <1>9, <2>2 DEF OutLenAt, C
<1>11. OutAt(buf, o) = q + 6
  <2>1. q + 6 <= end
    BY <1>1, <1>2, <1>6
  <2>2. Plus(q, 6) = q + 6
    BY <1>6, <2>1, PlusIsSum
  <2> QED
    BY <1>10, <2>2 DEF OutAt
<1>12. OutLen(buf, o) = L /\ Plus(OutLenAt(buf, o), 4) = q + 4
  <2>1. q + 4 <= end
    BY <1>1, <1>2, <1>6
  <2>2. Plus(q, 4) = q + 4
    BY <1>6, <2>1, PlusIsSum
  <2> QED
    BY <1>10, <2>2 DEF OutLen, L
<1>13. NextRecord(buf, o) = next
  <2>1. q + 4 + L <= end /\ q + 4 \in Nat
    BY <1>1, <1>2, <1>6
  <2>2. Plus(q + 4, L) = q + 4 + L
    BY <1>5, <1>6, <2>1, PlusIsSum
  <2> QED
    BY <1>2, <1>12, <2>2 DEF NextRecord
<1>14. NameFits(o, end) /\ CmdLenFits(buf, o, end)
  BY <1>1, <1>2, <1>6, <1>7, <1>9 DEF NameFits, CmdLenFits
<1>15. CommandersFit(buf, o, end)
  <2>1. C <= end - (p + 4) /\ q + 6 <= end
    BY <1>1, <1>2, <1>4, <1>6
  <2> QED
    BY <1>8, <1>9, <1>11, <2>1 DEF CommandersFit, C
<1>16. OutputsFit(buf, o, end)
  <2>1. L >= 2 /\ L <= end - (q + 4)
    BY <1>1, <1>2, <1>5, <1>6
  <2> QED
    BY <1>12, <2>1 DEF OutputsFit
<1>17. o + 18 <= next
  BY <1>2, <1>3, <1>4, <1>6
<1> QED
  BY <1>7, <1>10, <1>11, <1>13, <1>14, <1>15, <1>16, <1>17 DEF RecordFits, q

LEMMA RecordOutputs ==
  ASSUME NEW buf \in Buffer, NEW end \in 0 .. Len(buf), NEW o \in Nat, NEW next \in Nat,
         next <= end, IsRecord(buf, o, next)
  PROVE  Outputs(buf, o) = OutputsIn(buf, o) /\ OutputsIn(buf, o) \in Seq(Output)
<1>1. /\ o \in 0 .. end /\ RecordFits(buf, o, end) /\ NameAt(o) = o + 8
      /\ OutLenAt(buf, o) = OutsAt(buf, o) /\ OutAt(buf, o) = OutsAt(buf, o) + 6
  <2>1. end \in Nat /\ Len(buf) \in Nat
    BY BufferLength
  <2> QED
    BY <2>1, RecordParsed
<1> DEFINE n == OutCount(buf, o)
           e == [j \in 1 .. n |-> OutputAt(buf, o, j)]
           q == [j \in 1 .. n |-> <<OutputAt(buf, o, j)>>]
<1>2. n \in Nat /\ n <= 65535 /\ n = U16(buf, OutsAt(buf, o) + 4)
  <2>1. Len(buf) \in Nat
    BY BufferLength
  <2>2. OutLenAt(buf, o) \in o + 12 .. end - 6
    BY <1>1, CommandersInBounds DEF RecordFits
  <2> QED
    BY <1>1, <2>1, <2>2, U16Type DEF OutCount
<1>3. HasChannels(buf, o) <=> U32(buf, OutsAt(buf, o)) = 2 + 5 * n
  <2>1. 2 + 5 * n \in 0 .. Word - 1
    BY SMT, <1>2, ZcfParserAssumption
  <2>2. \A w \in Nat : \A x \in 0 .. w - 1 : (x % w) = x
    OBVIOUS
  <2>3. (2 + 5 * n) % Word = 2 + 5 * n
    BY SMT, <2>1, <2>2, ZcfParserAssumption
  <2> QED
    BY <1>1, <2>3 DEF HasChannels, OutLen
<1>4. Outputs(buf, o) \in Seq(Output)
  BY <1>1, OutputsTyped
<1>5. CASE ~HasChannels(buf, o)
  BY <1>2, <1>3, <1>4, <1>5 DEF Outputs, OutputsIn
<1>6. CASE HasChannels(buf, o)
  <2>1. \A j \in 1 .. n : e[j] \in Output
    BY <1>1, <1>6, OutputTyped
  <2>2. Outputs(buf, o) = FlattenSeq(q)
    BY <1>6 DEF Outputs
  <2>3. e \in [1 .. n -> Output]
    BY <2>1
  <2>4. Singles(q, n, e)
    BY DEF Singles
  <2>5. OutputsIn(buf, o) = e
    BY <1>1, <1>2, <1>3, <1>6 DEF OutputsIn, OutputAt
  <2> HIDE DEF e, n, q
  <2>6. FlattenSeq(q) = e
    <3>1. \A N \in Nat : \A E \in [1 .. N -> Output] : \A Q : Singles(Q, N, E) => FlattenSeq(Q) = E
      BY FlattenSingles
    <3>2. n \in Nat
      BY <1>2
    <3>3. \A E \in [1 .. n -> Output] : \A Q : Singles(Q, n, E) => FlattenSeq(Q) = E
      BY <3>1, <3>2
    <3>4. \A Q : Singles(Q, n, e) => FlattenSeq(Q) = e
      BY <2>3, <3>3
    <3> QED
      BY <2>4, <3>4
  <2> QED
    BY <1>4, <2>2, <2>5, <2>6
<1> QED
  BY <1>5, <1>6

\* The records of a section that is laid out, one behind the other.
LEMMA RecordsInOrder ==
  ASSUME NEW buf \in Buffer, NEW i, NEW r \in Seq(Nat), IsSection(buf, i, r)
  PROVE  /\ Len(r) \in Nat /\ Len(r) >= 2 /\ r[Len(r)] \in 0 .. Len(buf)
         /\ \A k \in 1 .. Len(r) - 1 :
              /\ r[k] \in Nat /\ r[k + 1] \in Nat
              /\ r[k] + 18 <= r[k + 1] /\ r[k + 1] <= r[Len(r)]
<1> DEFINE n == Len(r)
           T == {k \in 0 .. n - 2 : ~(r[n - k] <= r[n])}
<1>1. /\ Len(buf) \in Nat /\ n \in Nat /\ n >= 2 /\ i \in 6 .. Len(buf) - 4
      /\ \A k \in 1 .. n : r[k] \in Nat
      /\ r[n] <= Len(buf)
  <2>1. Len(buf) \in Nat /\ i \in 6 .. Len(buf) - 4 /\ Len(r) = U16(buf, i - 2) + 1 /\ U16(buf, i - 2) # 0
    BY BufferLength DEF IsSection
  <2>2. U16(buf, i - 2) \in Nat
    BY <2>1, U16Type
  <2>3. n \in Nat /\ n >= 2
    BY <2>1, <2>2
  <2>4. \A k \in 1 .. n : r[k] \in Nat
    OBVIOUS
  <2> QED
    BY <2>1, <2>3, <2>4 DEF IsSection
<1>2. ASSUME NEW k \in 1 .. n - 1, r[k + 1] <= r[n] PROVE r[k] + 18 <= r[k + 1]
  <2>1. /\ r[k] \in Nat /\ r[k + 1] \in Nat /\ IsRecord(buf, r[k], r[k + 1])
        /\ r[n] \in 0 .. Len(buf)
    <3>1. k \in 1 .. n /\ k + 1 \in 1 .. n /\ n \in 1 .. n
      BY <1>1
    <3>2. IsRecord(buf, r[k], r[k + 1])
      BY DEF IsSection
    <3> QED
      BY <1>1, <3>1, <3>2
  <2> QED
    BY <1>2, <2>1, RecordParsed
<1> HIDE DEF n
<1>3. T = {}
  <2> SUFFICES ASSUME T # {} PROVE FALSE
    OBVIOUS
  <2>1. PICK m \in T : \A k \in T : m <= k
    <3>1. T \in SUBSET Nat
      BY <1>1
    <3> HIDE DEF T
    <3> QED
      BY <3>1, LeastNatural
  <2>2. m \in 0 .. n - 2 /\ ~(r[n - m] <= r[n])
    BY <2>1
  <2>3. m # 0
    BY <1>1, <2>2
  <2>4. m - 1 \in 0 .. n - 2 /\ m - 1 \notin T
    <3>1. m - 1 \in 0 .. n - 2 /\ ~(m <= m - 1)
      BY <1>1, <2>2, <2>3
    <3> HIDE DEF T
    <3> QED
      BY <2>1, <3>1
  <2>5. r[n - (m - 1)] <= r[n]
    BY <2>4
  <2>6. n - m \in 1 .. n - 1 /\ (n - m) + 1 = n - (m - 1)
    BY <1>1, <2>2
  <2>7. r[n - m] + 18 <= r[(n - m) + 1]
    BY <1>2, <2>5, <2>6
  <2>8. r[n - m] \in Nat /\ r[n - (m - 1)] \in Nat /\ r[n] \in Nat
    BY <1>1, <2>6
  <2>9. \A a, b, c \in Nat : a + 18 <= b /\ b <= c => a <= c
    OBVIOUS
  <2> QED
    BY <2>2, <2>5, <2>6, <2>7, <2>8, <2>9
<1>4. ASSUME NEW k \in 1 .. n - 1 PROVE r[k + 1] <= r[n]
  <2>1. n - (k + 1) \in 0 .. n - 2 /\ n - (n - (k + 1)) = k + 1
    BY <1>1
  <2>2. n - (k + 1) \notin T
    BY <1>3
  <2> HIDE <1>3
  <2> QED
    BY <2>1, <2>2
<1> QED
  BY <1>1, <1>2, <1>4 DEF n

LEMMA WiderType ==
  ASSUME NEW A, NEW B, A \subseteq B, NEW q \in Seq(A)
  PROVE  q \in Seq(B)
OBVIOUS

LEMMA PutInFront ==
  ASSUME NEW S, NEW x \in S, NEW q \in Seq(S)
  PROVE  LET p == <<x>> \o q
         IN /\ Len(p) = 1 + Len(q) /\ Len(q) \in Nat
            /\ p[1] = x
            /\ \A j \in 1 .. Len(q) : p[1 + j] = q[j]
OBVIOUS

\* They are the first ones that the parser finds.
LEMMA RecordsFound ==
  ASSUME NEW buf \in Buffer, NEW i, NEW r \in Seq(Nat), IsSection(buf, i, r)
  PROVE  LET found == RecordsFrom(buf, r[1], r[Len(r)])
         IN /\ found \in Seq(Nat) /\ Len(found) >= Len(r) - 1
            /\ \A j \in 1 .. Len(r) - 1 : found[j] = r[j]
<1> DEFINE n == Len(r) - 1
           end == r[Len(r)]
           R(k) == RecordsFrom(buf, r[k], end)
           P(k) == /\ Len(R(1)) = k - 1 + Len(R(k))
                   /\ \A j \in 1 .. k - 1 : R(1)[j] = r[j]
                   /\ \A j \in 1 .. Len(R(k)) : R(1)[k - 1 + j] = R(k)[j]
           T == {k \in 1 .. n + 1 : ~P(k)}
<1>1. /\ n \in Nat /\ n >= 1 /\ end \in 0 .. Len(buf) /\ Len(buf) \in Nat
      /\ \A k \in 1 .. n : r[k] \in Nat /\ r[k + 1] \in Nat /\ r[k] + 18 <= r[k + 1] /\ r[k + 1] <= end
      /\ Len(r) = n + 1
  BY RecordsInOrder, BufferLength
<1>2. ASSUME NEW k \in 1 .. n PROVE r[k] \in 0 .. end
  <2>1. /\ r[k] \in Nat /\ r[k + 1] \in Nat /\ end \in Nat
        /\ r[k] + 18 <= r[k + 1] /\ r[k + 1] <= end
    BY <1>1
  <2> HIDE DEF end
  <2> QED
    BY <2>1
<1>3. ASSUME NEW k \in 1 .. n PROVE R(k) = <<r[k]>> \o R(k + 1)
  <2>1. IsRecord(buf, r[k], r[k + 1])
    BY DEF IsSection
  <2>2. RecordFits(buf, r[k], end) /\ NextRecord(buf, r[k]) = r[k + 1]
    BY <1>1, <2>1, RecordParsed
  <2>3. r[k] \in 0 .. end /\ end \in 0 .. Len(buf)
    BY <1>1, <1>2
  <2> HIDE DEF end
  <2>4. r[k] \in 0 .. Len(buf)
    BY <2>3, <1>1
  <2>5. RecordsFrom(buf, r[k], end) = <<r[k]>> \o RecordsFrom(buf, NextRecord(buf, r[k]), end)
    BY <2>2, <2>3, <2>4, RecordsFit
  <2> QED
    BY <2>2, <2>5
<1>4. ASSUME NEW k \in 1 .. n + 1 PROVE R(k) \in Seq(Nat)
  <2>1. r[k] \in 0 .. Len(buf)
    <3>1. CASE k \in 1 .. n
      BY <1>1, <1>2, <3>1
    <3>2. CASE k = n + 1
      BY <1>1, <3>2
    <3>3. \A a \in Nat : \A b \in 1 .. a + 1 : b \in 1 .. a \/ b = a + 1
      OBVIOUS
    <3>4. k \in 1 .. n \/ k = n + 1
      BY <1>1, <3>3
    <3> QED
      BY <3>1, <3>2, <3>4
  <2>2. R(k) \in Seq({o \in 0 .. end : RecordFits(buf, o, end)})
    BY <1>1, <2>1, RecordsFit
  <2> HIDE DEF R
  <2>3. {o \in 0 .. end : RecordFits(buf, o, end)} \subseteq Nat
    BY <1>1
  <2> DEFINE F == {o \in 0 .. end : RecordFits(buf, o, end)}
  <2> HIDE DEF F
  <2>4. F \subseteq Nat /\ R(k) \in Seq(F)
    BY <2>2, <2>3 DEF F
  <2> QED
    BY <2>4, WiderType
<1> HIDE DEF R, n, end
<1>5. T = {}
  <2> SUFFICES ASSUME T # {} PROVE FALSE
    OBVIOUS
  <2>1. PICK m \in T : \A k \in T : m <= k
    <3>1. T \in SUBSET Nat
      BY <1>1
    <3> HIDE DEF T
    <3> QED
      BY <3>1, LeastNatural
  <2>2. m \in 1 .. n + 1 /\ ~P(m)
    BY <2>1
  <2>3. R(1) \in Seq(Nat)
    BY <1>1, <1>4
  <2>4. P(1)
    BY <2>3
  <2>5. m # 1
    BY <2>2, <2>4
  <2>6. m - 1 \in 1 .. n /\ m - 1 \in 1 .. n + 1 /\ ~(m <= m - 1)
    BY <1>1, <2>2, <2>5
  <2>7. P(m - 1)
    <3> HIDE DEF P
    <3> QED
      BY <2>1, <2>6
  <2>8. R(m - 1) = <<r[m - 1]>> \o R(m) /\ R(m) \in Seq(Nat) /\ r[m - 1] \in Nat
    <3>1. (m - 1) + 1 = m
      BY <1>1, <2>2
    <3> QED
      BY <1>1, <1>3, <1>4, <2>2, <2>6, <3>1
  <2>9. /\ Len(R(m - 1)) = 1 + Len(R(m)) /\ Len(R(m)) \in Nat
        /\ R(m - 1)[1] = r[m - 1]
        /\ \A j \in 1 .. Len(R(m)) : R(m - 1)[1 + j] = R(m)[j]
    <3> DEFINE x == r[m - 1]
               q == R(m)
               p == <<x>> \o q
    <3>1. x \in Nat /\ q \in Seq(Nat) /\ R(m - 1) = p
      BY <2>8
    <3> HIDE DEF x, q
    <3>2. /\ Len(p) = 1 + Len(q) /\ Len(q) \in Nat /\ p[1] = x
          /\ \A j \in 1 .. Len(q) : p[1 + j] = q[j]
      BY <3>1, PutInFront
    <3> QED
      BY <3>1, <3>2 DEF x, q
  <2>10. Len(R(1)) = m - 1 + Len(R(m))
    <3>1. Len(R(1)) = (m - 1) - 1 + Len(R(m - 1))
      BY <2>7
    <3>2. \A a, b \in Nat : (a - 1) - 1 + (1 + b) = a - 1 + b
      OBVIOUS
    <3>3. m \in Nat
      BY <2>2
    <3> QED
      BY <2>9, <3>1, <3>2, <3>3
  <2>11. ASSUME NEW j \in 1 .. m - 1 PROVE R(1)[j] = r[j]
    <3>1. CASE j \in 1 .. (m - 1) - 1
      BY <2>7, <3>1
    <3>2. CASE j = m - 1
      <4>1. 1 \in 1 .. Len(R(m - 1)) /\ ((m - 1) - 1) + 1 = m - 1
        BY <1>1, <2>2, <2>9
      <4>2. R(1)[((m - 1) - 1) + 1] = R(m - 1)[1]
        BY <2>7, <4>1
      <4> QED
        BY <2>9, <3>2, <4>1, <4>2
    <3> QED
      BY <1>1, <2>2, <3>1, <3>2
  <2>12. ASSUME NEW j \in 1 .. Len(R(m)) PROVE R(1)[m - 1 + j] = R(m)[j]
    <3>1. 1 + j \in 1 .. Len(R(m - 1)) /\ (m - 1) - 1 + (1 + j) = m - 1 + j
      BY <1>1, <2>2, <2>9
    <3>2. R(1)[(m - 1) - 1 + (1 + j)] = R(m - 1)[1 + j]
      BY <2>7, <3>1
    <3> QED
      BY <2>9, <3>1, <3>2
  <2> QED
    BY <2>2, <2>10, <2>11, <2>12
<1>6. P(n + 1) /\ R(1) \in Seq(Nat) /\ R(n + 1) \in Seq(Nat)
  <2>1. n + 1 \in 1 .. n + 1 /\ 1 \in 1 .. n + 1
    BY <1>1
  <2>2. P(n + 1)
    <3> HIDE DEF P
    <3> QED
      BY <1>5, <2>1
  <2> QED
    BY <1>4, <2>1, <2>2
<1>7. Len(R(1)) >= n /\ \A j \in 1 .. n : R(1)[j] = r[j]
  <2>1. Len(R(n + 1)) \in Nat /\ (n + 1) - 1 = n
    BY <1>1, <1>6
  <2> QED
    BY <1>1, <1>6, <2>1
<1> QED
  BY <1>6, <1>7 DEF R, n, end

\* A section that is laid out is tried, is exact, and gives the outputs of its records.
THEOREM SectionParsed ==
  ASSUME NEW buf \in Buffer, NEW i, NEW r \in Seq(Nat), IsSection(buf, i, r)
  PROVE  /\ Marked(buf, i)
         /\ SectionAt(buf, i) = [outputs |-> OutputsAt(buf, r), exact |-> TRUE]
<1> DEFINE n == Len(r) - 1
           end == r[Len(r)]
           count == U16(buf, i - 2)
           found == RecordsFrom(buf, i + 4, SectionEnd(buf, i))
           taken == SubSeq(found, 1, IF Len(found) < count THEN Len(found) ELSE count)
<1>1. /\ n \in Nat /\ n >= 1 /\ end \in 0 .. Len(buf) /\ Len(buf) \in Nat
      /\ \A k \in 1 .. n : r[k] \in Nat /\ r[k + 1] \in Nat /\ r[k] + 18 <= r[k + 1] /\ r[k + 1] <= end
      /\ Len(r) = n + 1
  BY RecordsInOrder, BufferLength
<1>2. i \in 6 .. Len(buf) - 4 /\ r[1] = i + 4 /\ end = i - 2 + U32(buf, i - 6) /\ count # 0
  BY DEF IsSection
<1>3. U32(buf, i - 6) \in Nat /\ U32(buf, i - 6) >= 6 /\ end > i
  <2>1. U32(buf, i - 6) \in Nat
    BY <1>1, <1>2, U32Type
  <2>2. 1 \in 1 .. n
    BY <1>1
  <2>3. r[1] + 18 <= r[1 + 1] /\ r[1 + 1] <= end /\ r[1] \in Nat /\ r[1 + 1] \in Nat
    BY <1>1, <2>2
  <2> HIDE DEF n, end
  <2> QED
    BY <1>1, <1>2, <2>1, <2>3
<1>4. count = n
  <2>1. count \in Nat
    BY <1>1, <1>2, U16Type
  <2> QED
    BY <1>1, <2>1 DEF IsSection
<1>5. SectionEnd(buf, i) = end
  <2>1. /\ i - 2 \in Nat /\ (i - 2) + U32(buf, i - 6) = end
        /\ end <= ZCF_MAX_FILE_BYTES /\ ZCF_MAX_FILE_BYTES \in Nat
    BY <1>1, <1>2, <1>3, BufferLength
  <2>2. (i - 2) + U32(buf, i - 6) <= 4 * ZCF_MAX_FILE_BYTES + 1024
    BY <1>1, <2>1
  <2> HIDE DEF end
  <2> QED
    BY <1>3, <2>1, <2>2, PlusIsSum DEF SectionEnd
<1>6. Marked(buf, i)
  BY <1>1, <1>2, <1>3, <1>5 DEF Marked, IsSection
<1>7. /\ found \in Seq(Nat) /\ Len(found) >= n
      /\ \A j \in 1 .. n : found[j] = r[j]
  BY <1>2, <1>5, RecordsFound
<1> HIDE DEF found, end
<1>8. Len(taken) = n /\ DOMAIN taken = 1 .. n /\ \A j \in 1 .. n : taken[j] = r[j]
  <2>1. taken = SubSeq(found, 1, n)
    <3>1. Len(found) \in Nat
      BY <1>7
    <3>2. ~(Len(found) < count)
      BY <1>1, <1>4, <1>7, <3>1
    <3> QED
      BY <1>4, <3>2
  <2> HIDE DEF taken, n
  <2> QED
    BY <1>1, <1>7, <2>1
<1> HIDE DEF taken
<1>9. ASSUME NEW k \in 1 .. n
      PROVE  Outputs(buf, taken[k]) = OutputsIn(buf, r[k]) /\ NextRecord(buf, taken[k]) = r[k + 1]
  <2>1. IsRecord(buf, r[k], r[k + 1])
    BY DEF IsSection
  <2>2. r[k] \in Nat /\ r[k + 1] \in Nat /\ r[k + 1] <= end /\ taken[k] = r[k]
    BY <1>1, <1>8
  <2> QED
    <3>1. end \in 0 .. Len(buf)
      BY <1>1
    <3>2. NextRecord(buf, r[k]) = r[k + 1]
      BY <2>1, <2>2, <3>1, RecordParsed
    <3>3. Outputs(buf, r[k]) = OutputsIn(buf, r[k])
      BY <2>1, <2>2, <3>1, RecordOutputs
    <3> QED
      BY <2>2, <3>2, <3>3
<1>10. NextRecord(buf, taken[count]) = SectionEnd(buf, i)
  <2>1. n \in 1 .. n /\ r[n + 1] = end
    BY <1>1 DEF end
  <2> QED
    BY <1>4, <1>5, <1>9, <2>1
<1>11. FlattenSeq([k \in DOMAIN taken |-> Outputs(buf, taken[k])]) = OutputsAt(buf, r)
  <2>1. [k \in DOMAIN taken |-> Outputs(buf, taken[k])] = [k \in 1 .. Len(r) - 1 |-> OutputsIn(buf, r[k])]
    BY <1>8, <1>9
  <2> QED
    BY <2>1 DEF OutputsAt
<1> QED
  BY <1>4, <1>6, <1>8, <1>10, <1>11 DEF SectionAt, taken, found

LEMMA NoneExactTried ==
  ASSUME NEW buf \in Buffer, Parsable(buf), NEW n \in 0 .. Len(buf) - 4, NoneExact(buf, n)
  PROVE  \A k \in 1 .. Len(TriedTo(buf, n)) : ~TriedTo(buf, n)[k].exact
<1> DEFINE None(m) == \A k \in 1 .. Len(TriedTo(buf, m)) : ~TriedTo(buf, m)[k].exact
           T == {m \in 0 .. n : ~None(m)}
<1>1. /\ Tried(buf) \in Seq(Seq(Section)) /\ Len(Tried(buf)) = Len(buf) - 4
      /\ Len(buf) - 4 \in Nat /\ Len(buf) \in Nat
  BY TriedTyped
<1>2. TriedTo(buf, 0) = <<>>
  BY <1>1, FlattenNone DEF TriedTo
<1>3. ASSUME NEW m \in 1 .. n
      PROVE  /\ TriedTo(buf, m) = TriedTo(buf, m - 1) \o Tried(buf)[m]
             /\ TriedTo(buf, m - 1) \in Seq(Section)
  <2>1. m \in 1 .. Len(Tried(buf)) /\ m - 1 \in 0 .. Len(Tried(buf))
    BY <1>1
  <2> QED
    BY <1>1, <2>1, FlattenNext, FlattenTyped DEF TriedTo
<1>4. SUFFICES ASSUME T # {} PROVE FALSE
  <2>1. n \in 0 .. n
    BY <1>1
  <2> QED
    BY <1>4, <2>1
<1>5. PICK m \in T : \A k \in T : m <= k
  <2>1. T \in SUBSET Nat
    BY <1>1
  <2> HIDE DEF T
  <2> QED
    BY <1>4, <2>1, LeastNatural
<1>6. m \in 0 .. n /\ ~None(m)
  BY <1>5
<1>7. m # 0
  BY <1>2, <1>6
<1>8. m \in 1 .. n /\ m - 1 \in 0 .. n /\ ~(m <= m - 1)
  BY <1>1, <1>6, <1>7
<1>9. None(m - 1)
  <2> HIDE DEF None
  <2> QED
    BY <1>5, <1>8
<1>10. CASE m >= 6 /\ Marked(buf, m)
  <2> DEFINE p == TriedTo(buf, m - 1)
             s == SectionAt(buf, m)
  <2>1. Tried(buf)[m] = <<s>>
    BY <1>1, <1>8, <1>10 DEF Tried
  <2>2. TriedTo(buf, m) = p \o <<s>> /\ p \in Seq(Section)
    BY <1>3, <1>8, <2>1
  <2>3. ~s.exact
    BY <1>8, <1>10 DEF NoneExact
  <2>4. \A k \in 1 .. Len(p) : ~p[k].exact
    BY <1>9
  <2> HIDE DEF p, s
  <2>5. \A k \in 1 .. Len(p \o <<s>>) : (k \in 1 .. Len(p) /\ (p \o <<s>>)[k] = p[k]) \/ (p \o <<s>>)[k] = s
    BY <2>2
  <2> QED
    BY <1>6, <2>2, <2>3, <2>4, <2>5
<1>11. CASE ~(m >= 6 /\ Marked(buf, m))
  <2> DEFINE p == TriedTo(buf, m - 1)
  <2>1. Tried(buf)[m] = <<>>
    BY <1>1, <1>8, <1>11 DEF Tried
  <2>2. TriedTo(buf, m) = p \o <<>> /\ p \in Seq(Section)
    BY <1>3, <1>8, <2>1
  <2>3. None(m - 1) = (\A k \in 1 .. Len(p) : ~p[k].exact)
    OBVIOUS
  <2> HIDE DEF p
  <2>4. p \o <<>> = p
    BY <2>2
  <2>5. \A k \in 1 .. Len(TriedTo(buf, m)) : ~TriedTo(buf, m)[k].exact
    BY <1>9, <2>2, <2>3, <2>4
  <2> QED
    BY <1>6, <2>5
<1> QED
  BY <1>10, <1>11

\* The first exact section is the one at i.
LEMMA FirstExact ==
  ASSUME NEW buf \in Buffer, Parsable(buf), NEW i \in 6 .. Len(buf) - 4, Marked(buf, i),
         NoneExact(buf, i - 1)
  PROVE  \E k \in DOMAIN SectionsOf(buf) :
           /\ SectionsOf(buf)[k] = SectionAt(buf, i)
           /\ \A j \in 1 .. k - 1 : ~SectionsOf(buf)[j].exact
<1> DEFINE n == Len(buf) - 4
           p == TriedTo(buf, i - 1)
           s == SectionAt(buf, i)
           all == SectionsOf(buf)
<1>1. /\ Tried(buf) \in Seq(Seq(Section)) /\ Len(Tried(buf)) = n /\ n \in Nat /\ Len(buf) \in Nat
  BY TriedTyped
<1>2. i \in 1 .. Len(Tried(buf)) /\ i - 1 \in 0 .. Len(Tried(buf)) /\ i \in 0 .. n /\ n \in 0 .. n
      /\ i - 1 \in 0 .. n
  BY <1>1
<1>3. Tried(buf)[i] = <<s>>
  BY <1>2, <1>1 DEF Tried
<1>4. TriedTo(buf, i) = p \o <<s>> /\ p \in Seq(Section) /\ s \in Section
  BY <1>1, <1>2, <1>3, FlattenNext, FlattenTyped, SectionTyped DEF TriedTo
<1>5. /\ all \in Seq(Section)
      /\ Len(TriedTo(buf, i)) <= Len(all)
      /\ \A j \in 1 .. Len(TriedTo(buf, i)) : all[j] = TriedTo(buf, i)[j]
  <2>1. all = TriedTo(buf, n) /\ all \in Seq(Section)
    BY SectionsAreTried
  <2>2. n \in 0 .. Len(Tried(buf)) /\ i \in 0 .. n
    BY <1>1, <1>2
  <2> HIDE DEF n, all
  <2> QED
    BY <1>1, <2>1, <2>2, FlattenKeeps DEF TriedTo
<1>6. \A j \in 1 .. Len(p) : ~p[j].exact
  BY <1>2, NoneExactTried
<1> HIDE DEF p, s, all
<1> DEFINE t == TriedTo(buf, i)
<1>7. /\ Len(t) = Len(p) + 1 /\ Len(p) \in Nat /\ t[Len(p) + 1] = s
      /\ \A j \in 1 .. Len(p) : t[j] = p[j]
  BY <1>4
<1> HIDE DEF t
<1>8. /\ Len(p) + 1 \in DOMAIN all /\ all[Len(p) + 1] = s
      /\ \A j \in 1 .. Len(p) : all[j] = p[j]
  <2>1. Len(all) \in Nat /\ DOMAIN all = 1 .. Len(all)
    BY <1>5
  <2>2. Len(p) + 1 <= Len(all) /\ \A j \in 1 .. Len(p) + 1 : all[j] = t[j]
    BY <1>5, <1>7 DEF t
  <2> QED
    BY <1>7, <2>1, <2>2
<1>9. \A j \in 1 .. (Len(p) + 1) - 1 : ~all[j].exact
  BY <1>6, <1>7, <1>8
<1> QED
  BY <1>8, <1>9 DEF all, s

\* A file that has one section, laid out as it says of itself, with nothing before it
\* that parses, is understood: the records are followed from length to length, and
\* the map is made of what they say.  With a marker in the wrong place it need not be.
THEOREM LegibleUnderstood ==
  ASSUME NEW marker, NEW starts \in [Files -> Seq(Nat)], Legible(marker, starts)
  PROVE  Understood
<1> SUFFICES ASSUME NEW f \in Files
             PROVE  IF Parsable(Bytes[f]) /\ \E k \in DOMAIN Sections[f] : Sections[f][k].exact
                    THEN /\ Meant[f] # NoRecords
                         /\ \A k \in DOMAIN Sections[f] :
                              Sections[f][k].exact /\ (\A j \in 1 .. k - 1 : ~Sections[f][j].exact) =>
                                Meant[f] = Sections[f][k].outputs
                    ELSE Meant[f] = NoRecords
  BY DEF Understood
<1> DEFINE buf == Bytes[f]
           i == marker[f]
           r == starts[f]
           all == Sections[f]
<1>1. all = SectionsOf(buf) /\ LaidOut(f, i, r) /\ (Meant[f] # NoRecords => Meant[f] = OutputsAt(buf, r))
      /\ r \in Seq(Nat)
  BY DEF Sections, Legible
<1>2. Parsable(buf) => buf \in Buffer
  BY CircuitMapAssumption DEF Parsable, Buffer
<1>3. CASE Meant[f] = NoRecords
  <2>1. SUFFICES ASSUME Parsable(buf), NEW k \in DOMAIN all, all[k].exact PROVE FALSE
    BY <1>3
  <2>2. NoneExact(buf, Len(buf) - 4)
    BY <1>1, <1>3, <2>1 DEF LaidOut
  <2>3. all = TriedTo(buf, Len(buf) - 4) /\ all \in Seq(Section) /\ Len(buf) - 4 \in Nat
    BY <1>1, <1>2, <2>1, SectionsAreTried, TriedTyped
  <2>4. Len(buf) - 4 \in 0 .. Len(buf) - 4 /\ k \in 1 .. Len(all)
    BY <2>3
  <2> HIDE DEF buf, all
  <2> QED
    BY <1>2, <2>1, <2>2, <2>3, <2>4, NoneExactTried
<1>4. CASE Meant[f] # NoRecords
  <2>1. buf \in Buffer /\ Parsable(buf) /\ IsSection(buf, i, r) /\ NoneExact(buf, i - 1)
    BY <1>1, <1>2, <1>4 DEF LaidOut
  <2>2. /\ i \in 6 .. Len(buf) - 4 /\ Marked(buf, i)
        /\ SectionAt(buf, i).exact /\ SectionAt(buf, i).outputs = OutputsAt(buf, r)
    <3>1. i \in 6 .. Len(buf) - 4
      BY <2>1 DEF IsSection
    <3> HIDE DEF buf, i, r
    <3>2. Marked(buf, i) /\ SectionAt(buf, i) = [outputs |-> OutputsAt(buf, r), exact |-> TRUE]
      BY <1>1, <2>1, SectionParsed
    <3> QED
      BY <3>1, <3>2
  <2>3. PICK k \in DOMAIN all :
          /\ all[k] = SectionAt(buf, i)
          /\ \A j \in 1 .. k - 1 : ~all[j].exact
    BY <1>1, <2>1, <2>2, FirstExact
  <2>4. all \in Seq(Section)
    BY <1>1, <2>1, SectionsAreTried
  <2> HIDE DEF buf, i, r, all
  <2>5. ASSUME NEW l \in DOMAIN all, all[l].exact, \A j \in 1 .. l - 1 : ~all[j].exact
        PROVE  l = k
    <3>1. l \in Nat /\ k \in Nat /\ l >= 1 /\ k >= 1
      BY <2>4
    <3>2. ~(l < k)
      BY <2>3, <2>5, <3>1
    <3>3. ~(k < l)
      BY <2>2, <2>3, <2>5, <3>1
    <3> QED
      BY <3>1, <3>2, <3>3
  <2>6. \A l \in DOMAIN all :
          all[l].exact /\ (\A j \in 1 .. l - 1 : ~all[j].exact) => Meant[f] = all[l].outputs
    BY <1>1, <1>4, <2>2, <2>3, <2>5
  <2> QED
    BY <1>4, <2>1, <2>2, <2>3, <2>6 DEF buf, all
<1> QED
  BY <1>3, <1>4
-----------------------------------------------------------------------------
(* The dipswitch *)

\* Nothing but device_config_init takes the module away from its default before it
\* is done, the terminal goes on only after it, and what NVS would give after a
\* loss of power is one of the dipswitches that may be in use.
SettingsTyped ==
  /\ nvs \in Dipswitches \cup {Unset}
  /\ dipswitch \in Dipswitches
  /\ pc \in [Tasks -> Places]
  /\ stored \in [Tasks -> Dipswitches \cup {Unset}]

AfterInit ==
  /\ ~s_inited => s_dipswitch = CZONE_DEVICE_DIPSWITCH
  /\ pc["term"] \in {"persist", "use"} => s_inited
  /\ pc["term"] = "use" => nvs = dipswitch

SettingsInv == SettingsTyped /\ AfterInit /\ InUse(nvs) \in expected /\ DipswitchKept

LEMMA ResetPlaces ==
  LET places == [t \in Tasks |-> CASE t = "main" -> "init" [] t = "rx" -> "off" [] OTHER -> "idle"]
  IN places \in [Tasks -> Places] /\ places["term"] = "idle"
<1> DEFINE places == [t \in Tasks |-> CASE t = "main" -> "init" [] t = "rx" -> "off" [] OTHER -> "idle"]
<1>1. places["main"] = "init" /\ places["rx"] = "off" /\ places["term"] = "idle"
  BY DEF Tasks
<1> QED
  BY <1>1 DEF Tasks, Places

LEMMA SettingsStart == Init => SettingsInv
<1> SUFFICES ASSUME Init PROVE SettingsInv
  OBVIOUS
<1>1. pc \in [Tasks -> Places] /\ pc["term"] = "idle"
  BY ResetPlaces DEF Init, Reset
<1>2. stored \in [Tasks -> Dipswitches \cup {Unset}]
  BY DEF Init, Reset
<1>3. /\ nvs \in Dipswitches \cup {Unset} /\ dipswitch \in Dipswitches
      /\ InUse(nvs) \in expected /\ s_inited = FALSE /\ s_dipswitch = CZONE_DEVICE_DIPSWITCH
  BY DipswitchAssumption DEF Init, Reset
<1> QED
  BY <1>1, <1>2, <1>3 DEF SettingsInv, SettingsTyped, AfterInit, DipswitchKept

\* The steps that leave the settings alone only move a task from place to place.
LEMMA SettingsAlone ==
  ASSUME SettingsInv, NEW t \in Tasks, NEW l \in Places, Goto(t, l), UNCHANGED settings,
         t = "term" => l \notin {"persist", "use"}
  PROVE  SettingsInv'
BY DEF SettingsInv, SettingsTyped, AfterInit, DipswitchKept, Goto, settings, InUse

LEMMA SetDipswitchKeeps ==
  ASSUME SettingsInv, NEW d \in Dipswitches, SetDipswitch(d)
  PROVE  SettingsInv'
<1>1. SettingsTyped'
  BY DEF SetDipswitch, SettingsInv, SettingsTyped, Goto, Tasks, Places
<1> QED
  BY <1>1 DEF SetDipswitch, SettingsInv, SettingsTyped, AfterInit, DipswitchKept, Goto, Tasks, InUse

LEMMA ReadNvsKeeps ==
  ASSUME SettingsInv, NEW t \in {"main", "term"}, ReadNvs(t)
  PROVE  SettingsInv'
<1>1. /\ nvs' \in Dipswitches \cup {Unset} /\ InUse(nvs') \in expected'
      /\ \E d \in Dipswitches \cup {Unset} : stored' = [stored EXCEPT ![t] = d]
  BY DEF ReadNvs, SettingsInv, SettingsTyped, InUse
<1>2. pc' = [pc EXCEPT ![t] = "assign"] /\ ~s_inited /\ UNCHANGED <<s_dipswitch, s_inited, dipswitch>>
  BY DEF ReadNvs, Goto
<1>3. SettingsTyped'
  BY <1>1, <1>2 DEF SettingsInv, SettingsTyped, Tasks, Places
<1> QED
  BY <1>1, <1>2, <1>3 DEF SettingsInv, SettingsTyped, AfterInit, DipswitchKept, Tasks, InUse

\* What it has read is still what NVS has, or it takes back a change.
LEMMA AssignStoredKeeps ==
  ASSUME SettingsInv, NEW t \in {"main", "term"}, AssignStored(t)
  PROVE  SettingsInv'
<1>1. SettingsTyped'
  BY DEF AssignStored, SettingsInv, SettingsTyped, Goto, Tasks, Places
<1>2. AfterInit'
  BY DEF AssignStored, SettingsInv, SettingsTyped, AfterInit, Goto, Tasks
<1>3. DipswitchKept'
  <2>1. SUFFICES ASSUME ~drifted, stored[t] = nvs PROVE s_dipswitch' \in expected
    BY DEF AssignStored, DipswitchKept
  <2> QED
    BY <2>1 DEF AssignStored, SettingsInv, AfterInit, DipswitchKept, InUse
<1> QED
  BY <1>1, <1>2, <1>3 DEF AssignStored, SettingsInv, InUse

LEMMA PersistKeeps ==
  ASSUME SettingsInv, Persist \/ PersistFails
  PROVE  SettingsInv'
<1>1. SettingsTyped'
  BY DEF Persist, PersistFails, SettingsInv, SettingsTyped, Goto, Tasks, Places
<1>2. AfterInit'
  BY DEF Persist, PersistFails, SettingsInv, SettingsTyped, AfterInit, Goto, Tasks
<1>3. DipswitchKept' /\ InUse(nvs') \in expected'
  BY DipswitchAssumption
     DEF Persist, PersistFails, SettingsInv, SettingsTyped, DipswitchKept, InUse
<1> QED
  BY <1>1, <1>2, <1>3 DEF SettingsInv

LEMMA UseDipswitchKeeps ==
  ASSUME SettingsInv, UseDipswitch
  PROVE  SettingsInv'
<1>1. SettingsTyped'
  BY DEF UseDipswitch, SettingsInv, SettingsTyped, Goto, Tasks, Places
<1>2. AfterInit'
  BY DEF UseDipswitch, SettingsInv, SettingsTyped, AfterInit, Goto, Tasks
<1>3. DipswitchKept' /\ InUse(nvs') \in expected'
  BY DipswitchAssumption
     DEF UseDipswitch, SettingsInv, SettingsTyped, AfterInit, DipswitchKept, InUse
<1> QED
  BY <1>1, <1>2, <1>3 DEF SettingsInv

LEMMA PowerLossKeeps ==
  ASSUME SettingsInv, PowerLoss
  PROVE  SettingsInv'
<1>1. pc' \in [Tasks -> Places] /\ pc'["term"] = "idle"
  BY ResetPlaces DEF PowerLoss
<1>2. stored' \in [Tasks -> Dipswitches \cup {Unset}]
  BY DEF PowerLoss
<1>3. /\ UNCHANGED <<nvs, expected>> /\ dipswitch' \in Dipswitches
      /\ s_inited' = FALSE /\ s_dipswitch' = CZONE_DEVICE_DIPSWITCH
  BY DipswitchAssumption DEF PowerLoss
<1> QED
  BY <1>1, <1>2, <1>3 DEF SettingsInv, SettingsTyped, AfterInit, DipswitchKept, InUse

LEMMA LoaderLeavesSettings ==
  ASSUME SettingsInv, NEW t \in Tasks, Loader(t)
  PROVE  SettingsInv'
<1>1. UNCHANGED settings
  BY DEF Loader, Load, ReadFile, ReadFails, OpenSection, StoreOutput, CountOutput, SkipOutput,
         RejectSection, Finish
<1>2. pc' = pc \/ \E l \in {"read", "idle", "section", "output", "count"} : Goto(t, l)
  BY DEF Loader, Load, ReadFile, ReadFails, OpenSection, StoreOutput, CountOutput, SkipOutput,
         RejectSection, Finish
<1>3. CASE pc' = pc
  BY <1>1, <1>3 DEF SettingsInv, SettingsTyped, AfterInit, DipswitchKept, settings, InUse
<1>4. CASE \E l \in {"read", "idle", "section", "output", "count"} : Goto(t, l)
  BY <1>1, <1>4, SettingsAlone DEF Places
<1> QED
  BY <1>2, <1>3, <1>4

LEMMA PressLeavesSettings ==
  ASSUME SettingsInv, Press
  PROVE  SettingsInv'
<1>1. UNCHANGED settings
  BY DEF Press, PressSwitch, LookUp, LookedUp, UseMap, UseFallback, UseNothing, SwitchRelays
<1>2. pc' = pc \/ \E l \in {"idle", "look", "resolve", "switch"} : Goto("rx", l)
  BY DEF Press, PressSwitch, LookUp, LookedUp, UseMap, UseFallback, UseNothing, SwitchRelays
<1>3. CASE pc' = pc
  BY <1>1, <1>3 DEF SettingsInv, SettingsTyped, AfterInit, DipswitchKept, settings, InUse
<1>4. CASE \E l \in {"idle", "look", "resolve", "switch"} : Goto("rx", l)
  BY <1>1, <1>4, SettingsAlone DEF Places, Tasks
<1> QED
  BY <1>2, <1>3, <1>4

LEMMA SettingsStep ==
  ASSUME SettingsInv, [Next]_vars
  PROVE  SettingsInv'
<1>1. ASSUME NEW f \in Files, CommitUpload(f) PROVE SettingsInv'
  BY <1>1, SettingsAlone DEF CommitUpload, Tasks, Places
<1>2. ASSUME NEW t \in {"main", "term"}, AlreadyInited(t) PROVE SettingsInv'
  <2>1. SettingsTyped'
    BY <1>2 DEF AlreadyInited, SettingsInv, SettingsTyped, Goto, settings, Tasks, Places
  <2> QED
    BY <1>2, <2>1 DEF AlreadyInited, SettingsInv, SettingsTyped, AfterInit, DipswitchKept, Goto,
                      settings, Tasks, InUse
<1>3. ASSUME NEW t \in {"main", "term"}, NvsInitFails(t) PROVE SettingsInv'
  BY <1>3, SettingsAlone DEF NvsInitFails, Tasks, Places
<1>4. ASSUME NEW t \in {"main", "term"}, Reload(t) PROVE SettingsInv'
  BY <1>4, SettingsAlone DEF Reload, Tasks, Places
<1>5. CASE StartTasks
  BY <1>5 DEF StartTasks, SettingsInv, SettingsTyped, AfterInit, DipswitchKept, settings, Tasks,
              Places, InUse
<1>6. CASE UNCHANGED vars
  BY <1>6 DEF SettingsInv, SettingsTyped, AfterInit, DipswitchKept, vars, settings, InUse
<1> QED
  BY <1>1, <1>2, <1>3, <1>4, <1>5, <1>6, SetDipswitchKeeps, ReadNvsKeeps, AssignStoredKeeps,
     PersistKeeps, UseDipswitchKeeps, PowerLossKeeps, LoaderLeavesSettings, PressLeavesSettings
     DEF Next, Settings

\* Whatever fails and whenever the power does, and however the terminal's command
\* and app_main overlap: the dipswitch in use is one of those DipswitchKept allows.
THEOREM DipswitchCorrect == Spec => []DipswitchKept
<1>1. SettingsInv => DipswitchKept
  BY DEF SettingsInv
<1> QED
  BY <1>1, SettingsStart, SettingsStep, PTL DEF Spec
-----------------------------------------------------------------------------
(* The types of the map *)

LEMMA RelayTyped ==
  ASSUME NEW d, NEW address \in Nat
  PROVE  Chan(d)!RelayForChannel(address) \in 0 .. 8
<1> DEFINE ch == address % 256
<1>1. ch \in Nat
  OBVIOUS
<1> HIDE DEF ch
<1>2. (IF ch \in 12 .. 15 THEN ch - 11 ELSE IF ch < 4 THEN ch + 5 ELSE 0) \in 0 .. 8
  BY <1>1
<1>3. (IF ch < 8 THEN ch + 1 ELSE 0) \in 0 .. 8
  BY <1>1
<1> QED
  BY <1>2, <1>3 DEF Chan!RelayForChannel, Chan!BOARD_RELAY_COUNT, ch

LEMMA EntryTyped ==
  ASSUME NEW o \in Output
  PROVE  EntryOf(o) \in Entry /\ RelayOf(o) \in 0 .. 8
<1>1. /\ o.circuit \in 0 .. UINT8_MAX /\ o.address \in 0 .. UINT16_MAX
      /\ o.level \in 0 .. LEVEL_MAX /\ o.name \in Names /\ o.load \in Names
  BY DEF Output
<1>2. o.address \in Nat
  BY <1>1, Maxima
<1>3. RelayOf(o) \in 0 .. 8
  BY <1>2, RelayTyped DEF RelayOf
<1> QED
  BY <1>1, <1>3 DEF EntryOf, Entry

LEMMA SectionsOfFile ==
  ASSUME NEW f \in Files, Parsable(Bytes[f])
  PROVE  Sections[f] \in Seq(Section)
<1>1. Bytes[f] \in Buffer
  BY CircuitMapAssumption DEF Parsable, Buffer
<1> QED
  BY <1>1, SectionsAreTried DEF Sections

\* One task loads at a time; it has a file that can be parsed and a section of it;
\* the entries of the map that are counted, and the one being stored, have a relay.
SettingsOK ==
  /\ nvs \in Dipswitches \cup {Unset}
  /\ s_dipswitch \in Dipswitches
  /\ dipswitch \in Dipswitches
  /\ expected \subseteq Dipswitches
  /\ stored \in [Tasks -> Dipswitches \cup {Unset}]
  /\ s_inited \in BOOLEAN
  /\ drifted \in BOOLEAN

MapOK ==
  /\ s_map \in [1 .. ZCF_MAP_MAX -> Entry]
  /\ s_map_count \in 0 .. ZCF_MAP_MAX
  /\ s_loaded \in BOOLEAN
  /\ failed \in BOOLEAN
  /\ late \in BOOLEAN

ParseOK ==
  /\ file \in [Tasks -> Files \cup {NoFile}]
  /\ section \in [Tasks -> Nat \ {0}]
  /\ output \in [Tasks -> Nat \ {0}]

PressOK ==
  /\ switch \in Circuits \cup {0}
  /\ index \in 1 .. ZCF_MAP_MAX + 1
  /\ channels \in Seq(1 .. 8)
  /\ steady \in BOOLEAN

PlacesOK == pc \in [Tasks -> Places]

OneLoads == \A t, u \in Tasks : Loading(t) /\ Loading(u) => t = u

ParsingOf(t) ==
  /\ pc[t] \in {"section", "output", "count"} => file[t] \in Files /\ Parsable(Bytes[file[t]])
  /\ pc[t] \in {"output", "count"} => section[t] \in 1 .. Len(Sections[file[t]])
  /\ pc[t] = "count" => output[t] \in 1 .. Len(Candidate(t).outputs)

Parsing == \A t \in Tasks : ParsingOf(t)

Counted ==
  /\ \A k \in 1 .. s_map_count : s_map[k].relay # 0
  /\ \A t \in Tasks : pc[t] = "count" =>
       s_map_count < ZCF_MAP_MAX /\ s_map[s_map_count + 1].relay # 0

Pressing == pc["rx"] \in {"look", "resolve", "switch"} => switch \in Circuits

Typed == zcf \in Files \cup {NoFile} /\ SettingsOK /\ MapOK /\ ParseOK /\ PressOK /\ PlacesOK

MapTyped == Typed /\ OneLoads /\ Parsing /\ Counted /\ Pressing

LEMMA TypedIsTypeOK == ASSUME Typed PROVE TypeOK
<1>1. {s_dipswitch, dipswitch} \cup expected \subseteq Dipswitches
  BY DEF Typed, SettingsOK
<1>2. {s_inited, s_loaded, steady, failed, late, drifted} \subseteq BOOLEAN
  BY DEF Typed, SettingsOK, MapOK, PressOK
<1> QED
  BY <1>1, <1>2 DEF Typed, SettingsOK, MapOK, ParseOK, PressOK, PlacesOK, TypeOK

\* What is the same after a reset.
Started ==
  /\ zcf \in Files \cup {NoFile}
  /\ nvs \in Dipswitches \cup {Unset}
  /\ expected \subseteq Dipswitches
  /\ Reset

LEMMA StartedTyped ==
  ASSUME Started
  PROVE  MapTyped
<1> USE DEF Started, Reset
<1>1. SettingsOK
  BY DipswitchAssumption DEF SettingsOK
<1>2. MapOK
  <2>1. Free \in Entry
    <3>1. <<>> \in Names /\ 0 \in 0 .. UINT8_MAX /\ 0 \in 0 .. LEVEL_MAX
      BY Maxima DEF Names
    <3> QED
      BY <3>1 DEF Free, Entry
  <2>2. s_map_count \in 0 .. ZCF_MAP_MAX
    BY CircuitMapAssumption
  <2>3. s_map \in [1 .. ZCF_MAP_MAX -> Entry]
    BY <2>1
  <2> QED
    BY <2>2, <2>3 DEF MapOK
<1>3. ParseOK
  BY DEF ParseOK
<1>4. PressOK
  <2>1. index \in 1 .. ZCF_MAP_MAX + 1
    BY CircuitMapAssumption
  <2>2. channels \in Seq(1 .. 8)
    OBVIOUS
  <2> QED
    BY <2>1, <2>2 DEF PressOK
<1>5. pc["main"] = "init" /\ pc["rx"] = "off" /\ pc["term"] = "idle" /\ PlacesOK
  BY DEF Tasks, PlacesOK, Places
<1>6. OneLoads /\ Parsing
  BY <1>5 DEF OneLoads, Parsing, ParsingOf, Loading, Tasks
<1>7. Counted /\ Pressing
  BY <1>5 DEF Counted, Pressing, Tasks
<1> QED
  BY <1>1, <1>2, <1>3, <1>4, <1>5, <1>6, <1>7 DEF MapTyped, Typed

\* A task that loads nothing goes somewhere else, and leaves the map and the parser.
Elsewhere == Places \ {"load", "read", "section", "output", "count"}

LEMMA MoveKeeps ==
  ASSUME MapTyped, NEW t \in Tasks, pc[t] \in Elsewhere, NEW l \in Elsewhere, Goto(t, l),
         UNCHANGED <<s_map, s_map_count, parse>>
  PROVE  PlacesOK' /\ OneLoads' /\ Parsing' /\ Counted'
<1>1. pc \in [Tasks -> Places] /\ pc' = [pc EXCEPT ![t] = l]
  BY DEF MapTyped, Typed, PlacesOK, Goto
<1>2. \A u \in Tasks : pc'[u] = IF u = t THEN l ELSE pc[u]
  BY <1>1
<1>3. PlacesOK'
  BY <1>1 DEF PlacesOK, Elsewhere
<1>4. \A u \in Tasks : pc'[u] \in {"load", "read", "section", "output", "count"} => pc'[u] = pc[u]
  BY <1>2 DEF Elsewhere
<1>5. OneLoads'
  BY <1>4 DEF MapTyped, OneLoads, Loading
<1>6. Parsing'
  BY <1>4 DEF MapTyped, Parsing, ParsingOf, Candidate, parse
<1>7. Counted'
  BY <1>4 DEF MapTyped, Counted
<1> QED
  BY <1>3, <1>5, <1>6, <1>7

\* The same for a task that goes to load, alone.
LEMMA ToLoadKeeps ==
  ASSUME MapTyped, Overlap = FALSE, NEW t \in Tasks, MayLoad(t), Goto(t, "load"),
         UNCHANGED <<s_map, s_map_count, parse>>
  PROVE  PlacesOK' /\ OneLoads' /\ Parsing' /\ Counted'
<1>1. pc \in [Tasks -> Places] /\ pc' = [pc EXCEPT ![t] = "load"]
  BY DEF MapTyped, Typed, PlacesOK, Goto
<1>2. \A u \in Tasks : pc'[u] = IF u = t THEN "load" ELSE pc[u]
  BY <1>1
<1>3. PlacesOK'
  BY <1>1 DEF PlacesOK, Places
<1>4. \A u \in Tasks : pc'[u] \in {"read", "section", "output", "count"} => pc'[u] = pc[u]
  BY <1>2
<1>5. OneLoads'
  <2>1. \A u \in Tasks : Loading(u)' => u = t
    BY <1>2 DEF MayLoad, Loading
  <2> QED
    BY <2>1 DEF OneLoads
<1>6. Parsing'
  BY <1>4 DEF MapTyped, Parsing, ParsingOf, Candidate, parse
<1>7. Counted'
  BY <1>4 DEF MapTyped, Counted
<1> QED
  BY <1>3, <1>5, <1>6, <1>7

LEMMA SettingsTypedStep ==
  ASSUME MapTyped, Overlap = FALSE,
         \/ \E d \in Dipswitches : SetDipswitch(d)
         \/ \E t \in {"main", "term"} : Settings(t)
         \/ Persist \/ PersistFails \/ UseDipswitch
  PROVE  MapTyped'
<1>1. SettingsOK'
  <2>1. ASSUME NEW d \in Dipswitches, SetDipswitch(d) PROVE SettingsOK'
    BY <2>1 DEF SetDipswitch, MapTyped, Typed, SettingsOK
  <2>2. ASSUME NEW t \in {"main", "term"}, AlreadyInited(t) \/ NvsInitFails(t) PROVE SettingsOK'
    BY <2>2 DEF AlreadyInited, NvsInitFails, settings, MapTyped, Typed, SettingsOK
  <2>3. ASSUME NEW t \in {"main", "term"}, ReadNvs(t) PROVE SettingsOK'
    <3>1. /\ nvs' \in Dipswitches \cup {Unset} /\ expected' \subseteq Dipswitches
          /\ \E d \in Dipswitches \cup {Unset} : stored' = [stored EXCEPT ![t] = d]
      BY <2>3, DipswitchAssumption DEF ReadNvs, MapTyped, Typed, SettingsOK
    <3>2. stored' \in [Tasks -> Dipswitches \cup {Unset}]
      BY <3>1 DEF MapTyped, Typed, SettingsOK
    <3> QED
      BY <2>3, <3>1, <3>2 DEF ReadNvs, MapTyped, Typed, SettingsOK
  <2>4. ASSUME NEW t \in {"main", "term"}, AssignStored(t) PROVE SettingsOK'
    <3>1. t \in Tasks /\ stored[t] \in Dipswitches \cup {Unset}
      BY DEF Tasks, MapTyped, Typed, SettingsOK
    <3>2. s_dipswitch' \in Dipswitches
      BY <2>4, <3>1 DEF AssignStored, MapTyped, Typed, SettingsOK
    <3>3. stored' \in [Tasks -> Dipswitches \cup {Unset}]
      BY <2>4 DEF AssignStored, MapTyped, Typed, SettingsOK
    <3>4. s_inited' \in BOOLEAN /\ drifted' \in BOOLEAN
      BY <2>4 DEF AssignStored
    <3> QED
      BY <2>4, <3>2, <3>3, <3>4 DEF AssignStored, MapTyped, Typed, SettingsOK
  <2>5. CASE Persist
    BY <2>5 DEF Persist, MapTyped, Typed, SettingsOK
  <2>6. CASE PersistFails
    BY <2>6 DEF PersistFails, MapTyped, Typed, SettingsOK
  <2>7. CASE UseDipswitch
    BY <2>7 DEF UseDipswitch, MapTyped, Typed, SettingsOK
  <2> QED
    BY <2>1, <2>2, <2>3, <2>4, <2>5, <2>6, <2>7 DEF Settings
<1>2. /\ UNCHANGED <<zcf, s_map, s_map_count, s_loaded, failed, parse, switch, index, channels>>
      /\ late' = late \/ late' \in BOOLEAN
      /\ steady' = steady \/ steady' = FALSE
  BY DEF SetDipswitch, Settings, AlreadyInited, NvsInitFails, ReadNvs, AssignStored, Persist,
         PersistFails, UseDipswitch, map, press
<1>3. \E t \in {"main", "term"}, l \in {"persist", "init", "start", "assign", "idle", "use", "reload"} :
        pc[t] \in {"idle", "init", "assign", "persist", "use"} /\ Goto(t, l)
  BY DEF SetDipswitch, Settings, AlreadyInited, NvsInitFails, ReadNvs, AssignStored, Persist,
         PersistFails, UseDipswitch
<1>4. PlacesOK' /\ OneLoads' /\ Parsing' /\ Counted'
  BY <1>2, <1>3, MoveKeeps DEF Elsewhere, Places, Tasks
<1>5. Typed'
  BY <1>1, <1>2, <1>4 DEF MapTyped, Typed, MapOK, ParseOK, PressOK, parse
<1>6. Pressing'
  <2>1. pc'["rx"] = pc["rx"]
    BY <1>3 DEF Goto, MapTyped, Typed, PlacesOK
  <2> QED
    BY <1>2, <2>1 DEF MapTyped, Pressing
<1> QED
  BY <1>4, <1>5, <1>6 DEF MapTyped

LEMMA ToLoadTypedStep ==
  ASSUME MapTyped, Overlap = FALSE,
         \/ StartTasks
         \/ \E f \in Files : CommitUpload(f)
         \/ \E t \in {"main", "term"} : Reload(t)
  PROVE  MapTyped'
<1>1. CASE StartTasks
  <2>1. /\ pc \in [Tasks -> Places]
        /\ pc' = [pc EXCEPT !["main"] = "reload", !["rx"] = "idle"]
        /\ UNCHANGED <<zcf, settings, map, parse, press>>
    BY <1>1 DEF StartTasks, MapTyped, Typed, PlacesOK
  <2>2. PlacesOK' /\ pc'["rx"] = "idle"
    BY <2>1 DEF PlacesOK, Tasks, Places
  <2>3. \A u \in Tasks : pc'[u] \in {"load", "read", "section", "output", "count"} => pc'[u] = pc[u]
    BY <2>1 DEF Tasks
  <2>4. OneLoads'
    BY <2>3 DEF MapTyped, OneLoads, Loading
  <2>5. Parsing'
    BY <2>1, <2>3 DEF MapTyped, Parsing, ParsingOf, Candidate, parse
  <2>6. Counted'
    BY <2>1, <2>3 DEF MapTyped, Counted, map
  <2>7. Typed'
    BY <2>1, <2>2 DEF MapTyped, Typed, SettingsOK, MapOK, ParseOK, PressOK, settings, map, parse, press
  <2> QED
    BY <2>2, <2>4, <2>5, <2>6, <2>7 DEF MapTyped, Pressing
<1>2. ASSUME NEW f \in Files, CommitUpload(f) PROVE MapTyped'
  <2>1. /\ zcf' = f /\ MayLoad("rx") /\ Goto("rx", "load")
        /\ UNCHANGED <<settings, map, parse, press>>
    BY <1>2 DEF CommitUpload
  <2>2. PlacesOK' /\ OneLoads' /\ Parsing' /\ Counted'
    BY <2>1, ToLoadKeeps DEF Tasks, map
  <2>3. Typed'
    BY <2>1, <2>2 DEF MapTyped, Typed, SettingsOK, MapOK, ParseOK, PressOK, settings, map, parse, press
  <2>4. pc'["rx"] = "load"
    BY <2>1 DEF Goto, MapTyped, Typed, PlacesOK, Tasks
  <2> QED
    BY <2>2, <2>3, <2>4 DEF MapTyped, Pressing
<1>3. ASSUME NEW t \in {"main", "term"}, Reload(t) PROVE MapTyped'
  <2>1. /\ MayLoad(t) /\ Goto(t, "load") /\ steady' = FALSE
        /\ UNCHANGED <<zcf, settings, map, parse, switch, index, channels>>
    BY <1>3 DEF Reload
  <2>2. PlacesOK' /\ OneLoads' /\ Parsing' /\ Counted'
    BY <2>1, ToLoadKeeps DEF Tasks, map
  <2>3. Typed'
    BY <2>1, <2>2 DEF MapTyped, Typed, SettingsOK, MapOK, ParseOK, PressOK, settings, map, parse
  <2>4. pc'["rx"] = pc["rx"]
    BY <2>1 DEF Goto, MapTyped, Typed, PlacesOK
  <2> QED
    BY <2>1, <2>2, <2>3, <2>4 DEF MapTyped, Pressing
<1> QED
  BY <1>1, <1>2, <1>3

\* A step of zcf_config_load: no other task loads, and what it leaves alone is typed.
LEMMA LoaderFrame ==
  ASSUME MapTyped, NEW t \in Tasks, Loading(t), NEW l \in Places, Goto(t, l),
         UNCHANGED <<zcf, settings, press>>
  PROVE  /\ PlacesOK' /\ OneLoads' /\ SettingsOK' /\ PressOK' /\ zcf' \in Files \cup {NoFile}
         /\ pc'[t] = l
         /\ \A u \in Tasks : u # t => pc'[u] = pc[u] /\ ~Loading(u)
         /\ l \notin {"look", "resolve", "switch"} => Pressing'
<1>1. pc \in [Tasks -> Places] /\ pc' = [pc EXCEPT ![t] = l]
  BY DEF MapTyped, Typed, PlacesOK, Goto
<1>2. \A u \in Tasks : pc'[u] = IF u = t THEN l ELSE pc[u]
  BY <1>1
<1>3. PlacesOK'
  BY <1>1 DEF PlacesOK
<1>4. \A u \in Tasks : u # t => ~Loading(u)
  BY DEF MapTyped, OneLoads
<1>5. OneLoads'
  BY <1>2, <1>4 DEF OneLoads, Loading
<1>6. SettingsOK' /\ PressOK' /\ zcf' \in Files \cup {NoFile}
  BY DEF MapTyped, Typed, SettingsOK, PressOK, settings, press
<1>7. ASSUME l \notin {"look", "resolve", "switch"} PROVE Pressing'
  BY <1>2, <1>7 DEF MapTyped, Pressing, press, Tasks
<1> QED
  BY <1>2, <1>3, <1>4, <1>5, <1>6, <1>7

\* Nothing is said of the others, which do not load.
LEMMA OthersParsing ==
  ASSUME NEW t \in Tasks, ParsingOf(t)', \A u \in Tasks : u # t => pc'[u] = pc[u] /\ ~Loading(u)
  PROVE  Parsing'
<1>1. ASSUME NEW u \in Tasks, u # t PROVE ParsingOf(u)'
  <2>1. pc'[u] \notin {"section", "output", "count"}
    BY <1>1 DEF Loading
  <2> QED
    BY <2>1 DEF ParsingOf
<1> QED
  BY <1>1 DEF Parsing

LEMMA LoadTyped ==
  ASSUME MapTyped, NEW t \in Tasks, Load(t)
  PROVE  MapTyped'
<1>1. /\ Loading(t) /\ Goto(t, "read") /\ UNCHANGED <<zcf, settings, press, s_map, parse>>
      /\ s_map_count' = 0 /\ s_loaded' = FALSE /\ failed' = FALSE /\ late' = FALSE
  BY DEF Load, Loading
<1>2. /\ PlacesOK' /\ OneLoads' /\ SettingsOK' /\ PressOK' /\ zcf' \in Files \cup {NoFile}
      /\ pc'[t] = "read" /\ Pressing'
      /\ \A u \in Tasks : u # t => pc'[u] = pc[u] /\ ~Loading(u)
  BY <1>1, LoaderFrame DEF Places
<1>3. Parsing'
  BY <1>2, OthersParsing DEF ParsingOf
<1>4. MapOK' /\ ParseOK'
  <2>1. 0 \in 0 .. ZCF_MAP_MAX
    BY CircuitMapAssumption
  <2> QED
    BY <1>1, <2>1 DEF MapTyped, Typed, MapOK, ParseOK, parse
<1>5. Counted'
  <2>1. \A u \in Tasks : pc'[u] # "count"
    BY <1>2 DEF Loading
  <2> QED
    BY <1>1, <2>1 DEF Counted
<1> QED
  BY <1>2, <1>3, <1>4, <1>5 DEF MapTyped, Typed

LEMMA ReadTyped ==
  ASSUME MapTyped, NEW t \in Tasks, ReadFile(t) \/ ReadFails(t)
  PROVE  MapTyped'
<1>1. \E l \in {"idle", "section"} :
        /\ Loading(t) /\ Goto(t, l) /\ UNCHANGED <<zcf, settings, press, s_map, s_map_count, s_loaded, late>>
        /\ UNCHANGED <<section, output>>
        /\ failed' = failed \/ failed' = TRUE
        /\ \/ l = "idle" /\ UNCHANGED file
           \/ zcf # NoFile /\ Parsable(Bytes[zcf]) /\ file' = [file EXCEPT ![t] = zcf]
  BY DEF ReadFile, ReadFails, Loading, map, parse
<1>2. PICK l \in {"idle", "section"} :
        /\ Loading(t) /\ Goto(t, l) /\ UNCHANGED <<zcf, settings, press, s_map, s_map_count, s_loaded, late>>
        /\ UNCHANGED <<section, output>>
        /\ failed' = failed \/ failed' = TRUE
        /\ \/ l = "idle" /\ UNCHANGED file
           \/ zcf # NoFile /\ Parsable(Bytes[zcf]) /\ file' = [file EXCEPT ![t] = zcf]
  BY <1>1
<1>3. /\ PlacesOK' /\ OneLoads' /\ SettingsOK' /\ PressOK' /\ zcf' \in Files \cup {NoFile}
      /\ pc'[t] = l /\ Pressing'
      /\ \A u \in Tasks : u # t => pc'[u] = pc[u] /\ ~Loading(u)
  BY <1>2, LoaderFrame DEF Places
<1>4. zcf \in Files \cup {NoFile} /\ file \in [Tasks -> Files \cup {NoFile}]
  BY DEF MapTyped, Typed, ParseOK
<1>5. ParsingOf(t)'
  <2>1. CASE l = "idle"
    BY <1>3, <2>1 DEF ParsingOf
  <2>2. CASE l = "section"
    <3>1. file'[t] = zcf /\ zcf \in Files /\ Parsable(Bytes[zcf])
      BY <1>2, <1>4, <2>2
    <3> QED
      BY <1>3, <2>2, <3>1 DEF ParsingOf
  <2> QED
    BY <2>1, <2>2
<1>6. Parsing'
  BY <1>3, <1>5, OthersParsing
<1>7. MapOK'
  BY <1>2 DEF MapTyped, Typed, MapOK
<1>8. ParseOK'
  <2>1. file' \in [Tasks -> Files \cup {NoFile}]
    BY <1>2, <1>4
  <2> QED
    BY <1>2, <2>1 DEF MapTyped, Typed, ParseOK
<1>9. Counted'
  <2>1. \A u \in Tasks : pc'[u] # "count"
    BY <1>3 DEF Loading
  <2> QED
    BY <1>2, <2>1 DEF Counted, MapTyped
<1> QED
  BY <1>3, <1>6, <1>7, <1>8, <1>9 DEF MapTyped, Typed

\* What a task that parses has before it.
LEMMA CandidateTyped ==
  ASSUME MapTyped, NEW t \in Tasks, pc[t] \in {"output", "count"}
  PROVE  /\ section[t] \in 1 .. Len(Sections[file[t]])
         /\ Candidate(t) \in Section
         /\ Len(Candidate(t).outputs) \in Nat
         /\ output[t] \in Nat \ {0}
         /\ output[t] <= Len(Candidate(t).outputs) => Current(t) \in Output
<1>1. file[t] \in Files /\ Parsable(Bytes[file[t]]) /\ section[t] \in 1 .. Len(Sections[file[t]])
  BY DEF MapTyped, Parsing, ParsingOf
<1>2. Sections[file[t]] \in Seq(Section)
  BY <1>1, SectionsOfFile
<1>3. Candidate(t) \in Section
  BY <1>1, <1>2, ElementType DEF Candidate
<1>4. Candidate(t).outputs \in Seq(Output)
  BY <1>3 DEF Section
<1>5. output[t] \in Nat \ {0}
  BY DEF MapTyped, Typed, ParseOK
<1>6. ASSUME output[t] <= Len(Candidate(t).outputs) PROVE Current(t) \in Output
  <2>1. output[t] \in 1 .. Len(Candidate(t).outputs)
    BY <1>4, <1>5, <1>6
  <2> QED
    BY <1>4, <2>1, ElementType DEF Current
<1> QED
  BY <1>1, <1>3, <1>4, <1>5, <1>6

LEMMA OpenTyped ==
  ASSUME MapTyped, NEW t \in Tasks, OpenSection(t)
  PROVE  MapTyped'
<1>1. /\ Loading(t) /\ Goto(t, "output") /\ UNCHANGED <<zcf, settings, press>>
      /\ UNCHANGED <<s_map, s_loaded, failed, late, file, section>>
      /\ s_map_count' = 0 /\ output' = [output EXCEPT ![t] = 1]
      /\ pc[t] = "section" /\ section[t] <= Len(Sections[file[t]])
  BY DEF OpenSection, Loading
<1>2. /\ PlacesOK' /\ OneLoads' /\ SettingsOK' /\ PressOK' /\ zcf' \in Files \cup {NoFile}
      /\ pc'[t] = "output" /\ Pressing'
      /\ \A u \in Tasks : u # t => pc'[u] = pc[u] /\ ~Loading(u)
  BY <1>1, LoaderFrame DEF Places
<1>3. file[t] \in Files /\ Parsable(Bytes[file[t]]) /\ section[t] \in Nat \ {0}
  BY <1>1 DEF MapTyped, Typed, Parsing, ParsingOf, ParseOK
<1>4. section[t] \in 1 .. Len(Sections[file[t]])
  <2>1. Sections[file[t]] \in Seq(Section)
    BY <1>3, SectionsOfFile
  <2>2. Len(Sections[file[t]]) \in Nat
    BY <2>1
  <2> QED
    BY <1>1, <1>3, <2>2
<1>5. Parsing'
  <2>1. ParsingOf(t)'
    BY <1>1, <1>2, <1>3, <1>4 DEF ParsingOf
  <2> QED
    BY <1>2, <2>1, OthersParsing
<1>6. MapOK'
  <2>1. 0 \in 0 .. ZCF_MAP_MAX
    BY CircuitMapAssumption
  <2> QED
    BY <1>1, <2>1 DEF MapTyped, Typed, MapOK
<1>7. ParseOK'
  BY <1>1 DEF MapTyped, Typed, ParseOK
<1>8. Counted'
  <2>1. \A u \in Tasks : pc'[u] # "count"
    BY <1>2 DEF Loading
  <2> QED
    BY <1>1, <2>1 DEF Counted
<1> QED
  BY <1>2, <1>5, <1>6, <1>7, <1>8 DEF MapTyped, Typed

LEMMA StoreTyped ==
  ASSUME MapTyped, NEW t \in Tasks, StoreOutput(t)
  PROVE  MapTyped'
<1>1. /\ Loading(t) /\ Goto(t, "count") /\ UNCHANGED <<zcf, settings, press>>
      /\ UNCHANGED <<s_map_count, s_loaded, failed, late, parse>>
      /\ s_map' = [s_map EXCEPT ![s_map_count + 1] = EntryOf(Current(t))]
      /\ pc[t] = "output" /\ output[t] <= Len(Candidate(t).outputs)
      /\ Ours(Current(t)) /\ s_map_count < ZCF_MAP_MAX
  BY DEF StoreOutput, Loading
<1>2. /\ PlacesOK' /\ OneLoads' /\ SettingsOK' /\ PressOK' /\ zcf' \in Files \cup {NoFile}
      /\ pc'[t] = "count" /\ Pressing'
      /\ \A u \in Tasks : u # t => pc'[u] = pc[u] /\ ~Loading(u)
  BY <1>1, LoaderFrame DEF Places
<1>3. /\ Current(t) \in Output /\ Len(Candidate(t).outputs) \in Nat /\ output[t] \in Nat \ {0}
  BY <1>1, CandidateTyped
<1>4. EntryOf(Current(t)) \in Entry /\ EntryOf(Current(t)).relay # 0
  BY <1>1, <1>3, EntryTyped DEF EntryOf, Ours
<1>5. Parsing'
  <2>1. output[t] \in 1 .. Len(Candidate(t).outputs)
    BY <1>1, <1>3
  <2>2. ParsingOf(t)
    BY DEF MapTyped, Parsing
  <2>3. ParsingOf(t)'
    BY <1>1, <2>1, <2>2 DEF ParsingOf, parse, Candidate
  <2> QED
    BY <1>2, <2>3, OthersParsing
<1>6. s_map_count + 1 \in 1 .. ZCF_MAP_MAX /\ s_map_count \in Nat
  BY <1>1, CircuitMapAssumption DEF MapTyped, Typed, MapOK
<1>7. MapOK'
  <2>1. s_map' \in [1 .. ZCF_MAP_MAX -> Entry]
    BY <1>1, <1>4 DEF MapTyped, Typed, MapOK
  <2> QED
    BY <1>1, <2>1 DEF MapTyped, Typed, MapOK
<1>8. ParseOK'
  BY <1>1 DEF MapTyped, Typed, ParseOK, parse
<1>9. Counted'
  <2>1. s_map'[s_map_count + 1].relay # 0
    BY <1>1, <1>4, <1>6 DEF MapTyped, Typed, MapOK
  <2>2. ASSUME NEW k \in 1 .. s_map_count PROVE s_map'[k].relay # 0
    <3>1. s_map'[k] = s_map[k]
      BY <1>1, <1>6 DEF MapTyped, Typed, MapOK
    <3> QED
      BY <3>1 DEF MapTyped, Counted
  <2> QED
    BY <1>1, <2>1, <2>2 DEF Counted
<1> QED
  BY <1>2, <1>5, <1>7, <1>8, <1>9 DEF MapTyped, Typed

LEMMA CountTyped ==
  ASSUME MapTyped, NEW t \in Tasks, CountOutput(t)
  PROVE  MapTyped'
<1>1. /\ Loading(t) /\ Goto(t, "output") /\ UNCHANGED <<zcf, settings, press>>
      /\ UNCHANGED <<s_map, s_loaded, failed, late, file, section>>
      /\ s_map_count' = s_map_count + 1 /\ output' = [output EXCEPT ![t] = @ + 1]
      /\ pc[t] = "count"
  BY DEF CountOutput, Loading
<1>2. /\ PlacesOK' /\ OneLoads' /\ SettingsOK' /\ PressOK' /\ zcf' \in Files \cup {NoFile}
      /\ pc'[t] = "output" /\ Pressing'
      /\ \A u \in Tasks : u # t => pc'[u] = pc[u] /\ ~Loading(u)
  BY <1>1, LoaderFrame DEF Places
<1>3. s_map_count < ZCF_MAP_MAX /\ s_map[s_map_count + 1].relay # 0
  BY <1>1 DEF MapTyped, Counted
<1>4. s_map_count \in Nat /\ s_map_count + 1 \in 0 .. ZCF_MAP_MAX
  BY <1>3, CircuitMapAssumption DEF MapTyped, Typed, MapOK
<1>5. Parsing'
  <2>1. ParsingOf(t)
    BY DEF MapTyped, Parsing
  <2>2. ParsingOf(t)'
    BY <1>1, <1>2, <2>1 DEF ParsingOf
  <2> QED
    BY <1>2, <2>2, OthersParsing
<1>6. MapOK'
  BY <1>1, <1>4 DEF MapTyped, Typed, MapOK
<1>7. ParseOK'
  BY <1>1 DEF MapTyped, Typed, ParseOK
<1>8. Counted'
  <2>1. \A u \in Tasks : pc'[u] # "count"
    BY <1>2 DEF Loading
  <2>2. ASSUME NEW k \in 1 .. s_map_count + 1 PROVE s_map[k].relay # 0
    <3>1. k = s_map_count + 1 \/ k \in 1 .. s_map_count
      BY <1>4
    <3> QED
      BY <1>3, <3>1 DEF MapTyped, Counted
  <2> QED
    BY <1>1, <2>1, <2>2 DEF Counted
<1> QED
  BY <1>2, <1>5, <1>6, <1>7, <1>8 DEF MapTyped, Typed

LEMMA SkipTyped ==
  ASSUME MapTyped, NEW t \in Tasks, SkipOutput(t) \/ RejectSection(t)
  PROVE  MapTyped'
<1>1. \E l \in {"output", "section"} :
        /\ Loading(t) /\ Goto(t, l) /\ UNCHANGED <<zcf, settings, press>>
        /\ UNCHANGED <<map, file>>
        /\ \/ l = "output" /\ output' = [output EXCEPT ![t] = @ + 1] /\ UNCHANGED section
           \/ l = "section" /\ section' = [section EXCEPT ![t] = @ + 1] /\ UNCHANGED output
        /\ pc[t] = "output"
  <2>1. CASE SkipOutput(t)
    <3>1. pc' = [pc EXCEPT ![t] = "output"]
      BY <2>1 DEF SkipOutput, MapTyped, Typed, PlacesOK
    <3> QED
      BY <2>1, <3>1 DEF SkipOutput, Loading, Goto
  <2>2. CASE RejectSection(t)
    BY <2>2 DEF RejectSection, Loading
  <2> QED
    BY <2>1, <2>2
<1>2. PICK l \in {"output", "section"} :
        /\ Loading(t) /\ Goto(t, l) /\ UNCHANGED <<zcf, settings, press>>
        /\ UNCHANGED <<map, file>>
        /\ \/ l = "output" /\ output' = [output EXCEPT ![t] = @ + 1] /\ UNCHANGED section
           \/ l = "section" /\ section' = [section EXCEPT ![t] = @ + 1] /\ UNCHANGED output
        /\ pc[t] = "output"
  BY <1>1
<1>3. /\ PlacesOK' /\ OneLoads' /\ SettingsOK' /\ PressOK' /\ zcf' \in Files \cup {NoFile}
      /\ pc'[t] = l /\ Pressing'
      /\ \A u \in Tasks : u # t => pc'[u] = pc[u] /\ ~Loading(u)
  BY <1>2, LoaderFrame DEF Places
<1>4. ParsingOf(t)'
  <2>1. ParsingOf(t)
    BY DEF MapTyped, Parsing
  <2>2. l = "section" => pc'[t] \notin {"output", "count"}
    BY <1>3
  <2>3. l = "output" => pc'[t] # "count" /\ section' = section
    BY <1>2, <1>3
  <2>4. file' = file /\ pc[t] = "output"
    BY <1>2
  <2> QED
    BY <1>3, <2>1, <2>2, <2>3, <2>4 DEF ParsingOf
<1>5. Parsing'
  BY <1>3, <1>4, OthersParsing
<1>6. MapOK'
  BY <1>2 DEF MapTyped, Typed, MapOK, map
<1>7. ParseOK'
  BY <1>2 DEF MapTyped, Typed, ParseOK
<1>8. Counted'
  <2>1. \A u \in Tasks : pc'[u] # "count"
    BY <1>3 DEF Loading
  <2> QED
    BY <1>2, <2>1 DEF Counted, MapTyped, map
<1> QED
  BY <1>3, <1>5, <1>6, <1>7, <1>8 DEF MapTyped, Typed

LEMMA FinishTyped ==
  ASSUME MapTyped, NEW t \in Tasks, Finish(t)
  PROVE  MapTyped'
<1>1. /\ Loading(t) /\ Goto(t, "idle") /\ UNCHANGED <<zcf, settings, press>>
      /\ UNCHANGED <<s_map, s_map_count, failed, late>>
      /\ file' = [file EXCEPT ![t] = NoFile] /\ section' = [section EXCEPT ![t] = 1]
      /\ output' = [output EXCEPT ![t] = 1]
  BY DEF Finish, Loading
<1>2. s_loaded' = TRUE \/ s_loaded' = FALSE
  BY DEF Finish
<1>3. /\ PlacesOK' /\ OneLoads' /\ SettingsOK' /\ PressOK' /\ zcf' \in Files \cup {NoFile}
      /\ pc'[t] = "idle" /\ Pressing'
      /\ \A u \in Tasks : u # t => pc'[u] = pc[u] /\ ~Loading(u)
  BY <1>1, LoaderFrame DEF Places
<1>4. Parsing'
  BY <1>3, OthersParsing DEF ParsingOf
<1>5. MapOK'
  BY <1>1, <1>2 DEF MapTyped, Typed, MapOK
<1>6. ParseOK'
  BY <1>1 DEF MapTyped, Typed, ParseOK
<1>7. Counted'
  <2>1. \A u \in Tasks : pc'[u] # "count"
    BY <1>3 DEF Loading
  <2> QED
    BY <1>1, <2>1 DEF Counted, MapTyped
<1> QED
  BY <1>3, <1>4, <1>5, <1>6, <1>7 DEF MapTyped, Typed

LEMMA LoaderTyped ==
  ASSUME MapTyped, NEW t \in Tasks, Loader(t)
  PROVE  MapTyped'
BY LoadTyped, ReadTyped, OpenTyped, StoreTyped, CountTyped, SkipTyped, FinishTyped DEF Loader

\* A press changes nothing but what it has found.
LEMMA PressFrame ==
  ASSUME MapTyped, UNCHANGED <<zcf, settings, map, parse>>, PressOK',
         pc["rx"] \in {"idle", "look", "resolve", "switch"},
         \/ UNCHANGED pc /\ UNCHANGED switch
         \/ Goto("rx", "idle")
         \/ \E l \in {"look", "resolve", "switch"} : Goto("rx", l) /\ switch' \in Circuits
  PROVE  MapTyped'
<1>1. CASE UNCHANGED pc /\ UNCHANGED switch
  <2>1. Typed'
    BY <1>1 DEF MapTyped, Typed, SettingsOK, MapOK, ParseOK, PlacesOK, settings, map, parse
  <2>2. OneLoads' /\ Pressing'
    BY <1>1 DEF MapTyped, OneLoads, Loading, Pressing
  <2>3. Parsing' /\ Counted'
    BY <1>1 DEF MapTyped, Parsing, ParsingOf, Candidate, Counted, map, parse
  <2> QED
    BY <2>1, <2>2, <2>3 DEF MapTyped
<1>2. ASSUME NEW l \in {"idle", "look", "resolve", "switch"}, Goto("rx", l),
             l # "idle" => switch' \in Circuits
      PROVE  MapTyped'
  <2>1. PlacesOK' /\ OneLoads' /\ Parsing' /\ Counted'
    BY <1>2, MoveKeeps DEF Elsewhere, Places, Tasks, map
  <2>2. Typed'
    BY <2>1 DEF MapTyped, Typed, SettingsOK, MapOK, ParseOK, settings, map, parse
  <2>3. pc'["rx"] = l
    BY <1>2 DEF Goto, MapTyped, Typed, PlacesOK, Tasks
  <2>4. Pressing'
    BY <1>2, <2>3 DEF Pressing
  <2> QED
    BY <2>1, <2>2, <2>4 DEF MapTyped
<1> QED
  BY <1>1, <1>2

\* The relay of an entry that is counted.
LEMMA RelayFound ==
  ASSUME MapTyped, NEW k \in Nat \ {0}, k <= s_map_count
  PROVE  s_map[k].relay \in 1 .. 8
<1>1. k \in 1 .. s_map_count /\ k \in 1 .. ZCF_MAP_MAX
  BY CircuitMapAssumption DEF MapTyped, Typed, MapOK
<1>2. s_map[k] \in Entry
  BY <1>1 DEF MapTyped, Typed, MapOK
<1>3. s_map[k].relay \in 0 .. 8
  BY <1>2 DEF Entry
<1> QED
  BY <1>1, <1>3 DEF MapTyped, Counted

LEMMA PressTypedStep ==
  ASSUME MapTyped, Press
  PROVE  MapTyped'
<1>0. PressOK
  BY DEF MapTyped, Typed
<1>1. ASSUME NEW s \in Circuits, PressSwitch(s) PROVE MapTyped'
  <2>1. PressOK'
    <3>1. steady' \in BOOLEAN
      BY <1>1 DEF PressSwitch
    <3> QED
      BY <1>0, <1>1, <3>1 DEF PressSwitch, PressOK
  <2> QED
    BY <1>1, <2>1, PressFrame DEF PressSwitch
<1>2. CASE LookUp
  <2>1. index \in Nat \ {0} /\ index \in 1 .. ZCF_MAP_MAX
    BY <1>0, <1>2, CircuitMapAssumption DEF LookUp, PressOK
  <2>2. s_map[index].relay \in 1 .. 8
    BY <1>2, <2>1, RelayFound DEF LookUp
  <2>3. channels' \in Seq(1 .. 8)
    <3> DEFINE S == 1 .. 8
    <3> HIDE DEF S
    <3>1. channels \in Seq(S) /\ s_map[index].relay \in S
      BY <1>0, <2>2 DEF PressOK, S
    <3>2. Append(channels, s_map[index].relay) \in Seq(S)
      BY <3>1
    <3>3. channels' \in Seq(S)
      BY <1>2, <3>1, <3>2 DEF LookUp
    <3> QED
      BY <3>3 DEF S
  <2>4. PressOK'
    <3>1. index' \in 1 .. ZCF_MAP_MAX + 1
      BY <1>2, <2>1, CircuitMapAssumption DEF LookUp
    <3> QED
      BY <1>0, <1>2, <2>3, <3>1 DEF LookUp, PressOK
  <2> QED
    BY <1>2, <2>4, PressFrame DEF LookUp
<1>3. CASE LookedUp \/ UseMap \/ UseNothing
  <2>1. /\ UNCHANGED <<zcf, settings, map, parse, press>>
        /\ pc["rx"] \in {"look", "resolve"}
        /\ \E l \in {"look", "resolve", "switch"} : Goto("rx", l)
    BY <1>3 DEF LookedUp, UseMap, UseNothing
  <2>2. PressOK'
    BY <1>0, <2>1 DEF PressOK, press
  <2>3. switch' \in Circuits
    BY <2>1 DEF MapTyped, Pressing, press
  <2> QED
    BY <2>1, <2>2, <2>3, PressFrame
<1>4. CASE UseFallback
  <2>1. switch \in Circuits
    BY <1>4 DEF UseFallback, MapTyped, Pressing
  <2>2. Fallback[switch] \in 0 .. 8
    BY <2>1, CircuitMapAssumption
  <2>3. channels' \in Seq(1 .. 8)
    <3>1. CASE Fallback[switch] # 0
      <4>1. Fallback[switch] \in 1 .. 8
        BY <2>2, <3>1
      <4>2. <<Fallback[switch]>> \in Seq(1 .. 8)
        BY <4>1
      <4> QED
        BY <1>4, <3>1, <4>2 DEF UseFallback
    <3>2. CASE Fallback[switch] = 0
      BY <1>4, <3>2 DEF UseFallback
    <3> QED
      BY <3>1, <3>2
  <2>4. PressOK'
    BY <1>0, <1>4, <2>3 DEF UseFallback, PressOK
  <2>5. switch' \in Circuits
    BY <1>4, <2>1 DEF UseFallback
  <2> QED
    BY <1>4, <2>4, <2>5, PressFrame DEF UseFallback
<1>5. CASE SwitchRelays
  <2>1. PressOK'
    <3>1. 1 \in 1 .. ZCF_MAP_MAX + 1
      BY CircuitMapAssumption
    <3>2. <<>> \in Seq(1 .. 8)
      OBVIOUS
    <3> QED
      BY <1>5, <3>1, <3>2 DEF SwitchRelays, PressOK
  <2> QED
    BY <1>5, <2>1, PressFrame DEF SwitchRelays
<1> QED
  BY <1>1, <1>2, <1>3, <1>4, <1>5 DEF Press

LEMMA MapTypedStep ==
  ASSUME MapTyped, Overlap = FALSE, [Next]_vars
  PROVE  MapTyped' \/ Started'
<1>1. CASE PowerLoss
  BY <1>1 DEF PowerLoss, Started, Reset, MapTyped, Typed, SettingsOK
<1>2. CASE UNCHANGED vars
  <2>1. Typed'
    BY <1>2 DEF MapTyped, Typed, SettingsOK, MapOK, ParseOK, PressOK, PlacesOK, vars, settings, map,
                parse, press
  <2>2. OneLoads' /\ Pressing'
    BY <1>2 DEF MapTyped, OneLoads, Loading, Pressing, vars, press
  <2>3. Parsing' /\ Counted'
    BY <1>2 DEF MapTyped, Parsing, ParsingOf, Candidate, Counted, vars, map, parse
  <2> QED
    BY <2>1, <2>2, <2>3 DEF MapTyped
<1>3. CASE \E t \in Tasks : Loader(t)
  BY <1>3, LoaderTyped
<1>4. CASE Press
  BY <1>4, PressTypedStep
<1>5. CASE \E f \in Files : CommitUpload(f)
  BY <1>5, ToLoadTypedStep
<1>6. CASE StartTasks
  BY <1>6, ToLoadTypedStep
<1>7. CASE \E t \in {"main", "term"} : Settings(t) \/ Reload(t)
  BY <1>7, SettingsTypedStep, ToLoadTypedStep
<1>8. CASE (\E d \in Dipswitches : SetDipswitch(d)) \/ Persist \/ PersistFails \/ UseDipswitch
  BY <1>8, SettingsTypedStep
<1> QED
  BY <1>1, <1>2, <1>3, <1>4, <1>5, <1>6, <1>7, <1>8 DEF Next

\* Whatever the bytes of the files are, and whatever fails: every entry the parser
\* stores fits its place, there is always room for it, and the look-up, at whatever
\* moment it runs, finds relays that are there.
THEOREM TypeCorrect ==
  ASSUME Overlap = FALSE
  PROVE  Spec => []TypeOK
<1>1. Started => MapTyped
  BY StartedTyped
<1>2. Init => MapTyped
  <2> SUFFICES ASSUME Init PROVE Started
    BY <1>1
  <2>1. InUse(nvs) \in Dipswitches
    BY DipswitchAssumption DEF Init, InUse
  <2> QED
    BY <2>1 DEF Init, Started
<1>3. MapTyped /\ [Next]_vars => MapTyped' \/ Started'
  BY MapTypedStep
<1>4. MapTyped => TypeOK
  BY TypedIsTypeOK DEF MapTyped
<1> QED
  BY <1>1, <1>2, <1>3, <1>4, PTL DEF Spec
-----------------------------------------------------------------------------
(* The map *)

\* The entries a module with dipswitch d makes of an output, and of the first k.
Entries(d, e) ==
  IF Chan(d)!RelayForChannel(e.address) # 0
  THEN << [circuit |-> e.circuit, relay |-> Chan(d)!RelayForChannel(e.address), level |-> e.level,
           name |-> e.name, load |-> e.load] >>
  ELSE <<>>

Own(d, o, k) == FlattenSeq(SubSeq([i \in DOMAIN o |-> Entries(d, o[i])], 1, k))

\* The first n places of m have the beginning of q, as much as there is room for.
AtMost(n, k) == IF n < k THEN n ELSE k
Holds(m, n, q) == n = AtMost(Len(q), ZCF_MAP_MAX) /\ \A j \in 1 .. n : m[j] = q[j]

LEMMA EntriesTyped ==
  ASSUME NEW d, NEW e \in Output
  PROVE  Entries(d, e) \in Seq(Entry)
<1> DEFINE r == Chan(d)!RelayForChannel(e.address)
           x == [circuit |-> e.circuit, relay |-> r, level |-> e.level, name |-> e.name, load |-> e.load]
<1>1. /\ e.circuit \in 0 .. UINT8_MAX /\ e.address \in 0 .. UINT16_MAX
      /\ e.level \in 0 .. LEVEL_MAX /\ e.name \in Names /\ e.load \in Names
  BY DEF Output
<1>2. e.address \in Nat
  BY <1>1, Maxima
<1>3. r \in 0 .. 8
  BY <1>2, RelayTyped
<1> HIDE DEF r
<1>4. x \in Entry
  BY <1>1, <1>3 DEF Entry
<1> HIDE DEF x
<1>5. <<x>> \in Seq(Entry)
  BY <1>4
<1> QED
  BY <1>5 DEF Entries, x, r

LEMMA EntriesAre ==
  ASSUME NEW e
  PROVE  /\ EntriesOf(e) = Entries(s_dipswitch, e)
         /\ Ours(e) => Entries(s_dipswitch, e) = <<EntryOf(e)>>
         /\ ~Ours(e) => Entries(s_dipswitch, e) = <<>>
BY DEF EntriesOf, Entries, Ours, EntryOf, RelayOf

LEMMA OwnTyped ==
  ASSUME NEW d, NEW o \in Seq(Output)
  PROVE  /\ [i \in DOMAIN o |-> Entries(d, o[i])] \in Seq(Seq(Entry))
         /\ Len([i \in DOMAIN o |-> Entries(d, o[i])]) = Len(o)
<1>1. \A i \in DOMAIN o : Entries(d, o[i]) \in Seq(Entry)
  BY EntriesTyped
<1> QED
  BY <1>1

LEMMA OwnNone ==
  ASSUME NEW d, NEW o \in Seq(Output)
  PROVE  Own(d, o, 0) = <<>>
BY OwnTyped, FlattenNone DEF Own

LEMMA OwnNext ==
  ASSUME NEW d, NEW o \in Seq(Output), NEW k \in 1 .. Len(o)
  PROVE  /\ Own(d, o, k - 1) \in Seq(Entry)
         /\ Own(d, o, k) = Own(d, o, k - 1) \o Entries(d, o[k])
<1> DEFINE q == [i \in DOMAIN o |-> Entries(d, o[i])]
<1>1. q \in Seq(Seq(Entry)) /\ Len(q) = Len(o)
  BY OwnTyped
<1>2. q[k] = Entries(d, o[k])
  OBVIOUS
<1> HIDE DEF q
<1>3. k \in 1 .. Len(q) /\ k - 1 \in 0 .. Len(q)
  BY <1>1
<1>4. FlattenSeq(SubSeq(q, 1, k - 1)) \in Seq(Entry)
  BY <1>1, <1>3, FlattenTyped
<1>5. FlattenSeq(SubSeq(q, 1, k)) = FlattenSeq(SubSeq(q, 1, k - 1)) \o q[k]
  BY <1>1, <1>3, FlattenNext
<1> QED
  BY <1>2, <1>4, <1>5 DEF Own, q

LEMMA OwnAll ==
  ASSUME NEW d, NEW o \in Seq(Output)
  PROVE  /\ Own(d, o, Len(o)) \in Seq(Entry)
         /\ FlattenSeq([i \in DOMAIN o |-> Entries(d, o[i])]) = Own(d, o, Len(o))
<1> DEFINE q == [i \in DOMAIN o |-> Entries(d, o[i])]
<1>1. q \in Seq(Seq(Entry)) /\ Len(q) = Len(o)
  BY OwnTyped
<1> HIDE DEF q
<1>2. FlattenSeq(q) \in Seq(Entry) /\ FlattenSeq(q) = FlattenSeq(SubSeq(q, 1, Len(q)))
  BY <1>1, FlattenAll
<1> QED
  BY <1>1, <1>2 DEF Own, q

LEMMA HoldsOneMore ==
  ASSUME NEW q \in Seq(Entry), NEW m, NEW n \in 0 .. ZCF_MAP_MAX, n < ZCF_MAP_MAX, Holds(m, n, q)
  PROVE  Holds(m, n + 1, q \o <<m[n + 1]>>)
<1>1. Len(q) \in Nat /\ ZCF_MAP_MAX \in Nat
  BY CircuitMapAssumption
<1>2. n = Len(q)
  BY <1>1 DEF Holds, AtMost
<1> DEFINE r == q \o <<m[n + 1]>>
<1>3. Len(r) = n + 1
  BY <1>1, <1>2
<1>4. ASSUME NEW j \in 1 .. n + 1 PROVE m[j] = r[j]
  <2>1. CASE j = n + 1
    BY <1>1, <1>2, <2>1
  <2>2. CASE j # n + 1
    <3>1. j \in 1 .. n
      BY <1>1, <2>2
    <3>2. r[j] = q[j]
      BY <1>1, <1>2, <3>1
    <3>3. m[j] = q[j]
      BY <3>1 DEF Holds
    <3> QED
      BY <3>2, <3>3
  <2> QED
    BY <2>1, <2>2
<1>5. n + 1 = AtMost(n + 1, ZCF_MAP_MAX)
  BY <1>1 DEF AtMost
<1> HIDE DEF r
<1>6. Holds(m, n + 1, r)
  BY <1>3, <1>4, <1>5 DEF Holds
<1> QED
  BY <1>6 DEF r

LEMMA HoldsNoMore ==
  ASSUME NEW q \in Seq(Entry), NEW r \in Seq(Entry), NEW m, Holds(m, ZCF_MAP_MAX, q)
  PROVE  Holds(m, ZCF_MAP_MAX, q \o r)
<1>1. Len(q) \in Nat /\ Len(r) \in Nat /\ ZCF_MAP_MAX \in Nat
  BY CircuitMapAssumption
<1>2. ZCF_MAP_MAX <= Len(q)
  BY <1>1 DEF Holds, AtMost
<1>3. Len(q \o r) = Len(q) + Len(r)
  OBVIOUS
<1>4. ZCF_MAP_MAX = AtMost(Len(q \o r), ZCF_MAP_MAX)
  BY <1>1, <1>2, <1>3 DEF AtMost
<1>5. ASSUME NEW j \in 1 .. ZCF_MAP_MAX PROVE m[j] = (q \o r)[j]
  <2>1. j \in 1 .. Len(q)
    BY <1>1, <1>2
  <2>2. (q \o r)[j] = q[j]
    BY <2>1
  <2> QED
    BY <2>2 DEF Holds
<1> QED
  BY <1>4, <1>5 DEF Holds

LEMMA HoldsFirst ==
  ASSUME NEW q \in Seq(Entry), NEW m \in [1 .. ZCF_MAP_MAX -> Entry], NEW n, Holds(m, n, q)
  PROVE  SubSeq(m, 1, n) = First(ZCF_MAP_MAX, q)
<1>1. Len(q) \in Nat /\ ZCF_MAP_MAX \in Nat
  BY CircuitMapAssumption
<1>2. n = AtMost(Len(q), ZCF_MAP_MAX) /\ \A j \in 1 .. n : m[j] = q[j]
  BY DEF Holds
<1>3. n \in Nat /\ n <= ZCF_MAP_MAX /\ n <= Len(q)
  BY <1>1, <1>2 DEF AtMost
<1>4. m \in Seq(Entry) /\ Len(m) = ZCF_MAP_MAX
  BY <1>1
<1>5. /\ SubSeq(m, 1, n) \in Seq(Entry) /\ Len(SubSeq(m, 1, n)) = n
      /\ \A j \in 1 .. n : SubSeq(m, 1, n)[j] = m[j]
  BY <1>1, <1>3, <1>4
<1>6. /\ SubSeq(q, 1, n) \in Seq(Entry) /\ Len(SubSeq(q, 1, n)) = n
      /\ \A j \in 1 .. n : SubSeq(q, 1, n)[j] = q[j]
  BY <1>1, <1>3
<1>7. SubSeq(m, 1, n) = SubSeq(q, 1, n)
  BY <1>2, <1>5, <1>6, SeqEqual
<1> QED
  BY <1>2, <1>7 DEF First, AtMost

\* A load that is still due will replace the map.  If none is, and device_config_init
\* has not come late: a task that loads has the stored file, has passed over sections
\* that are not exact, and has stored the entries of the outputs so far; and where no
\* task loads, the map is that of the file.
Due ==
  \/ pc["main"] \in {"init", "assign", "start", "reload"}
  \/ pc["term"] = "reload"
  \/ \E t \in Tasks : pc[t] = "load"

InLoad(t) ==
  /\ failed = FALSE /\ s_loaded = FALSE
  /\ pc[t] = "read" => s_map_count = 0
  /\ pc[t] \in {"section", "output", "count"} =>
       file[t] = zcf /\ \A j \in 1 .. section[t] - 1 : ~Sections[zcf][j].exact
  /\ pc[t] \in {"output", "count"} =>
       /\ output[t] <= Len(Candidate(t).outputs) + 1
       /\ Holds(s_map, s_map_count, Own(s_dipswitch, Candidate(t).outputs, output[t] - 1))
  /\ pc[t] = "count" => Ours(Current(t)) /\ s_map[s_map_count + 1] = EntryOf(Current(t))

Result ==
  IF failed
  THEN s_map_count = 0 /\ ~s_loaded
  ELSE /\ s_loaded <=> HasRecords(zcf)
       /\ (s_loaded \/ zcf = NoFile) => SubSeq(s_map, 1, s_map_count) = OwnOutputs(zcf)

\* zcf_config_load begins with the first section.
Rewound == \A t \in Tasks : pc[t] \notin {"section", "output", "count"} => section[t] = 1

MapFollows ==
  ~late /\ ~Due =>
    /\ \A t \in Tasks : pc[t] \in {"read", "section", "output", "count"} => InLoad(t)
    /\ (\A t \in Tasks : ~Loading(t)) => Result

\* The CAN tasks start when device_config_init has returned.
RxOff == pc["main"] \in {"init", "assign", "start"} => pc["rx"] = "off"

MapInv == MapTyped /\ RxOff /\ Rewound /\ MapFollows

LEMMA MapFollowsAtRest == ASSUME MapInv PROVE MapIsOfFile
<1>1. ASSUME ~late, \A t \in Tasks : AtRest(t) PROVE Result
  <2>1. \A t \in Tasks : pc[t] \in {"off", "idle", "look", "resolve", "switch"}
    BY <1>1 DEF AtRest
  <2>2. ~Due /\ \A t \in Tasks : ~Loading(t)
    BY <2>1 DEF Due, Loading, Tasks
  <2> QED
    BY <1>1, <2>2 DEF MapInv, MapFollows
<1> QED
  BY <1>1 DEF MapIsOfFile, Result

\* A step that leaves the map, the file, the dipswitch and the tasks that load.
LEMMA MapFrame ==
  ASSUME MapInv,
         UNCHANGED <<zcf, s_dipswitch, s_map, s_map_count, s_loaded, failed, parse>>,
         late => late',
         Due => Due',
         \A t \in Tasks : pc'[t] # pc[t] =>
           pc[t] \in Elsewhere /\ pc'[t] \in Elsewhere
  PROVE  Rewound' /\ MapFollows'
<1>1. \A t \in Tasks : pc'[t] \in {"load", "read", "section", "output", "count"}
                          \/ pc[t] \in {"load", "read", "section", "output", "count"} => pc'[t] = pc[t]
  BY DEF Elsewhere
<1>2. Rewound'
  BY <1>1 DEF MapInv, Rewound, parse
<1>3. SUFFICES ASSUME ~late', ~Due' PROVE MapFollows'
  BY <1>2 DEF MapFollows
<1>4. ~late /\ ~Due
  BY <1>3
<1>5. ASSUME NEW t \in Tasks, pc'[t] \in {"read", "section", "output", "count"} PROVE InLoad(t)'
  <2>1. pc'[t] = pc[t]
    BY <1>1, <1>5
  <2>2. InLoad(t)
    BY <1>4, <1>5, <2>1 DEF MapInv, MapFollows
  <2>3. Candidate(t)' = Candidate(t) /\ Current(t)' = Current(t)
    BY DEF Candidate, Current, parse
  <2>4. Ours(Current(t))' <=> Ours(Current(t))
    BY <2>3 DEF Ours, RelayOf
  <2>5. EntryOf(Current(t))' = EntryOf(Current(t))
    BY <2>3 DEF EntryOf, RelayOf
  <2> QED
    BY <2>1, <2>2, <2>3, <2>4, <2>5 DEF InLoad, parse
<1>6. ASSUME \A t \in Tasks : ~Loading(t)' PROVE Result'
  <2>1. \A t \in Tasks : ~Loading(t)
    BY <1>1, <1>6 DEF Loading
  <2>2. Result
    BY <1>4, <2>1 DEF MapInv, MapFollows
  <2> QED
    BY <2>2 DEF Result, OwnOutputs, EntriesOf, Ours, EntryOf, RelayOf
<1> QED
  BY <1>5, <1>6 DEF MapFollows

\* A step of a task that loads: there is no other one.
LEMMA LoadEnv ==
  ASSUME MapInv, NEW t \in Tasks, pc[t] \in {"read", "section", "output", "count"},
         NEW l \in {"section", "output", "count", "idle"}, Goto(t, l), late' = late
  PROVE  /\ pc'[t] = l
         /\ \A u \in Tasks : u # t => ~Loading(u) /\ ~Loading(u)'
         /\ ~late' /\ ~Due' => InLoad(t)
         /\ pc[t] \in {"section", "output", "count"} =>
              file[t] \in Files /\ Parsable(Bytes[file[t]]) /\ Sections[file[t]] \in Seq(Section)
<1>1. pc \in [Tasks -> Places] /\ pc' = [pc EXCEPT ![t] = l]
  BY DEF MapInv, MapTyped, Typed, PlacesOK, Goto
<1>2. \A u \in Tasks : pc'[u] = IF u = t THEN l ELSE pc[u]
  BY <1>1
<1>3. ASSUME NEW u \in Tasks, u # t PROVE ~Loading(u) /\ ~Loading(u)'
  <2>1. ~Loading(u)
    BY <1>3 DEF MapInv, MapTyped, OneLoads, Loading
  <2> QED
    BY <1>2, <1>3, <2>1 DEF Loading
<1>4. Due => Due'
  BY <1>2 DEF Due, Tasks
<1>5. ASSUME ~late', ~Due' PROVE InLoad(t)
  BY <1>4, <1>5 DEF MapInv, MapFollows
<1>6. ASSUME pc[t] \in {"section", "output", "count"}
      PROVE  file[t] \in Files /\ Parsable(Bytes[file[t]]) /\ Sections[file[t]] \in Seq(Section)
  <2>1. file[t] \in Files /\ Parsable(Bytes[file[t]])
    BY <1>6 DEF MapInv, MapTyped, Parsing, ParsingOf
  <2> QED
    BY <2>1, SectionsOfFile
<1> QED
  BY <1>2, <1>3, <1>5, <1>6

\* What is left to show of one: that it goes on, or that it ends well.
LEMMA LoadGoesOn ==
  ASSUME NEW t \in Tasks, \A u \in Tasks : u # t => ~Loading(u)', pc'[t] # "load",
         ~late' /\ ~Due' => /\ Loading(t)' => InLoad(t)'
                            /\ ~Loading(t)' => Result'
  PROVE  MapFollows'
BY DEF MapFollows, Loading

LEMMA LoadMap ==
  ASSUME MapInv, NEW t \in Tasks, Load(t)
  PROVE  Rewound' /\ MapFollows'
<1>1. /\ pc[t] = "load" /\ Goto(t, "read") /\ UNCHANGED <<zcf, settings, s_map, parse, press>>
      /\ s_map_count' = 0 /\ s_loaded' = FALSE /\ failed' = FALSE
  BY DEF Load
<1>2. pc \in [Tasks -> Places] /\ pc' = [pc EXCEPT ![t] = "read"]
  BY <1>1 DEF MapInv, MapTyped, Typed, PlacesOK, Goto
<1>3. \A u \in Tasks : pc'[u] = IF u = t THEN "read" ELSE pc[u]
  BY <1>2
<1>4. \A u \in Tasks : u # t => ~Loading(u)'
  <2>1. \A u \in Tasks : u # t => ~Loading(u)
    BY <1>1 DEF MapInv, MapTyped, OneLoads, Loading
  <2> QED
    BY <1>3, <2>1 DEF Loading
<1>5. Rewound'
  BY <1>1, <1>3 DEF MapInv, Rewound, parse
<1>6. InLoad(t)' /\ Loading(t)'
  BY <1>1, <1>3 DEF InLoad, Loading
<1> QED
  BY <1>3, <1>4, <1>5, <1>6, LoadGoesOn

LEMMA EmptyMap == ASSUME NEW m PROVE SubSeq(m, 1, 0) = <<>>
BY DEF SubSeq

LEMMA ReadMap ==
  ASSUME MapInv, Understood, NEW t \in Tasks, ReadFile(t)
  PROVE  Rewound' /\ MapFollows'
<1>1. pc[t] = "read" /\ UNCHANGED <<zcf, settings, map, press, section, output>>
  BY DEF ReadFile, parse
<1>2. zcf \in Files \cup {NoFile} /\ pc \in [Tasks -> Places] /\ file \in [Tasks -> Files \cup {NoFile}]
  BY DEF MapInv, MapTyped, Typed, PlacesOK, ParseOK
<1>3. section[t] = 1
  BY <1>1 DEF MapInv, Rewound
<1>4. CASE zcf = NoFile \/ ~Parsable(Bytes[zcf])
  <2>1. Goto(t, "idle") /\ UNCHANGED file
    BY <1>4 DEF ReadFile, parse
  <2>2. /\ pc'[t] = "idle" /\ \A u \in Tasks : u # t => ~Loading(u)'
        /\ ~late' /\ ~Due' => InLoad(t)
    BY <1>1, <2>1, LoadEnv DEF map
  <2>3. Rewound'
    BY <1>1, <1>2, <1>3, <2>1 DEF MapInv, Rewound, Goto
  <2>4. ~HasRecords(zcf)
    BY <1>2, <1>4 DEF Understood, HasRecords
  <2>5. ASSUME ~late', ~Due' PROVE Result'
    <3>1. s_map_count' = 0 /\ s_loaded' = FALSE /\ failed' = FALSE /\ s_map' = s_map /\ zcf' = zcf
      BY <1>1, <2>2, <2>5 DEF InLoad, map
    <3>2. (zcf = NoFile) => OwnOutputs(zcf)' = <<>>
      BY <1>1 DEF OwnOutputs, HasRecords
    <3>3. SubSeq(s_map', 1, s_map_count') = <<>>
      BY <3>1, EmptyMap
    <3> QED
      BY <2>4, <3>1, <3>2, <3>3 DEF Result, HasRecords
  <2> QED
    BY <2>2, <2>3, <2>5, LoadGoesOn DEF Loading
<1>5. CASE ~(zcf = NoFile \/ ~Parsable(Bytes[zcf]))
  <2>1. Goto(t, "section") /\ file' = [file EXCEPT ![t] = zcf]
    BY <1>5 DEF ReadFile
  <2>2. /\ pc'[t] = "section" /\ \A u \in Tasks : u # t => ~Loading(u)'
        /\ ~late' /\ ~Due' => InLoad(t)
    BY <1>1, <2>1, LoadEnv DEF map
  <2>3. Rewound'
    BY <1>1, <1>2, <2>1, <2>2 DEF MapInv, Rewound, Goto
  <2>4. ASSUME ~late', ~Due' PROVE InLoad(t)'
    <3>1. /\ s_loaded' = FALSE /\ failed' = FALSE /\ zcf' = zcf /\ file'[t] = zcf
          /\ section'[t] = 1
      BY <1>1, <1>2, <1>3, <2>1, <2>2, <2>4 DEF InLoad, map
    <3>2. \A j \in 1 .. section'[t] - 1 : FALSE
      BY <3>1
    <3> QED
      BY <2>2, <3>1, <3>2 DEF InLoad
  <2> QED
    BY <2>2, <2>3, <2>4, LoadGoesOn DEF Loading
<1> QED
  BY <1>4, <1>5

LEMMA ReadFailsMap ==
  ASSUME MapInv, NEW t \in Tasks, ReadFails(t)
  PROVE  Rewound' /\ MapFollows'
<1>1. /\ pc[t] = "read" /\ Goto(t, "idle") /\ failed' = TRUE
      /\ UNCHANGED <<zcf, settings, s_map, s_map_count, s_loaded, late, parse, press>>
  BY DEF ReadFails
<1>2. /\ pc'[t] = "idle" /\ \A u \in Tasks : u # t => ~Loading(u)'
      /\ ~late' /\ ~Due' => InLoad(t)
  BY <1>1, LoadEnv
<1>3. Rewound'
  <2>1. section[t] = 1
    BY <1>1 DEF MapInv, Rewound
  <2>2. pc \in [Tasks -> Places]
    BY DEF MapInv, MapTyped, Typed, PlacesOK
  <2> QED
    BY <1>1, <2>1, <2>2 DEF MapInv, Rewound, Goto, parse
<1>4. ASSUME ~late', ~Due' PROVE Result'
  BY <1>1, <1>2, <1>4 DEF InLoad, Result
<1> QED
  BY <1>2, <1>3, <1>4, LoadGoesOn DEF Loading

LEMMA OpenMap ==
  ASSUME MapInv, NEW t \in Tasks, OpenSection(t)
  PROVE  Rewound' /\ MapFollows'
<1>1. /\ pc[t] = "section" /\ Goto(t, "output") /\ s_map_count' = 0
      /\ output' = [output EXCEPT ![t] = 1] /\ section[t] <= Len(Sections[file[t]])
      /\ UNCHANGED <<zcf, settings, s_map, s_loaded, failed, late, file, section, press>>
  BY DEF OpenSection
<1>2. /\ pc'[t] = "output" /\ \A u \in Tasks : u # t => ~Loading(u)'
      /\ ~late' /\ ~Due' => InLoad(t)
      /\ Sections[file[t]] \in Seq(Section)
  BY <1>1, LoadEnv
<1>3. pc \in [Tasks -> Places] /\ output \in [Tasks -> Nat \ {0}] /\ section[t] \in Nat \ {0}
  BY DEF MapInv, MapTyped, Typed, PlacesOK, ParseOK
<1>4. Rewound'
  BY <1>1, <1>3 DEF MapInv, Rewound, Goto
<1>5. ASSUME ~late', ~Due' PROVE InLoad(t)'
  <2>1. InLoad(t)
    BY <1>2, <1>5
  <2>2. Candidate(t)' = Candidate(t) /\ output'[t] = 1
    BY <1>1, <1>3 DEF Candidate
  <2>3. Candidate(t).outputs \in Seq(Output)
    <3>1. section[t] \in 1 .. Len(Sections[file[t]])
      BY <1>1, <1>2, <1>3
    <3>2. Candidate(t) \in Section
      BY <1>2, <3>1, ElementType DEF Candidate
    <3> QED
      BY <3>2 DEF Section
  <2>4. output'[t] <= Len(Candidate(t).outputs) + 1 /\ output'[t] - 1 = 0
    BY <2>2, <2>3
  <2>5. Holds(s_map', s_map_count', Own(s_dipswitch', Candidate(t).outputs, 0))
    <3>1. Own(s_dipswitch', Candidate(t).outputs, 0) = <<>>
      BY <2>3, OwnNone
    <3>2. ZCF_MAP_MAX \in Nat
      BY CircuitMapAssumption
    <3> QED
      BY <1>1, <3>1, <3>2 DEF Holds, AtMost
  <2> QED
    BY <1>1, <1>2, <2>1, <2>2, <2>4, <2>5 DEF InLoad
<1> QED
  BY <1>2, <1>4, <1>5, LoadGoesOn DEF Loading

LEMMA StoreMap ==
  ASSUME MapInv, NEW t \in Tasks, StoreOutput(t)
  PROVE  Rewound' /\ MapFollows'
<1>1. /\ pc[t] = "output" /\ Goto(t, "count")
      /\ output[t] <= Len(Candidate(t).outputs)
      /\ Ours(Current(t)) /\ s_map_count < ZCF_MAP_MAX
      /\ s_map' = [s_map EXCEPT ![s_map_count + 1] = EntryOf(Current(t))]
      /\ UNCHANGED <<zcf, s_dipswitch, s_map_count, s_loaded, failed, late, file, section, output>>
  BY DEF StoreOutput, settings, parse
<1>2. /\ pc'[t] = "count" /\ \A u \in Tasks : u # t => ~Loading(u)'
      /\ ~late' /\ ~Due' => InLoad(t)
  BY <1>1, LoadEnv
<1>3. /\ pc \in [Tasks -> Places] /\ s_map \in [1 .. ZCF_MAP_MAX -> Entry]
      /\ s_map_count \in 0 .. ZCF_MAP_MAX /\ ZCF_MAP_MAX \in Nat
  BY CircuitMapAssumption DEF MapInv, MapTyped, Typed, PlacesOK, MapOK
<1>4. Rewound'
  BY <1>1, <1>3 DEF MapInv, Rewound, Goto
<1>5. ASSUME ~late', ~Due' PROVE InLoad(t)'
  <2>1. InLoad(t)
    BY <1>2, <1>5
  <2>2. Candidate(t)' = Candidate(t) /\ Current(t)' = Current(t)
    BY <1>1 DEF Candidate, Current
  <2>3. (Ours(Current(t)))' /\ (EntryOf(Current(t)))' = EntryOf(Current(t))
    BY <1>1, <2>2 DEF Ours, EntryOf, RelayOf
  <2>4. s_map'[s_map_count + 1] = EntryOf(Current(t)) /\ \A j \in 1 .. s_map_count : s_map'[j] = s_map[j]
    BY <1>1, <1>3
  <2>5. \A q : Holds(s_map, s_map_count, q) => Holds(s_map', s_map_count, q)
    BY <2>4 DEF Holds
  <2> QED
    BY <1>1, <1>2, <2>1, <2>2, <2>3, <2>4, <2>5 DEF InLoad
<1> QED
  BY <1>2, <1>4, <1>5, LoadGoesOn DEF Loading

LEMMA CountMap ==
  ASSUME MapInv, NEW t \in Tasks, CountOutput(t)
  PROVE  Rewound' /\ MapFollows'
<1>1. /\ pc[t] = "count" /\ Goto(t, "output") /\ s_map_count' = s_map_count + 1
      /\ output' = [output EXCEPT ![t] = @ + 1]
      /\ UNCHANGED <<zcf, s_dipswitch, s_map, s_loaded, failed, late, file, section>>
  BY DEF CountOutput, settings
<1>2. /\ pc'[t] = "output" /\ \A u \in Tasks : u # t => ~Loading(u)'
      /\ ~late' /\ ~Due' => InLoad(t)
  BY <1>1, LoadEnv
<1>3. /\ pc \in [Tasks -> Places] /\ output \in [Tasks -> Nat \ {0}]
      /\ s_map_count \in 0 .. ZCF_MAP_MAX /\ s_map_count < ZCF_MAP_MAX
  BY <1>1 DEF MapInv, MapTyped, Typed, PlacesOK, ParseOK, MapOK, Counted
<1>4. Rewound'
  BY <1>1, <1>3 DEF MapInv, Rewound, Goto
<1>5. ASSUME ~late', ~Due' PROVE InLoad(t)'
  <2>1. InLoad(t)
    BY <1>2, <1>5
  <2>2. Candidate(t)' = Candidate(t) /\ output'[t] = output[t] + 1
    BY <1>1, <1>3 DEF Candidate
  <2>3. Candidate(t) \in Section /\ output[t] \in 1 .. Len(Candidate(t).outputs)
    BY <1>1, CandidateTyped DEF MapInv, MapTyped, Parsing, ParsingOf
  <2> DEFINE o == Candidate(t).outputs
             k == output[t]
             q == Own(s_dipswitch, o, k - 1)
  <2>4. o \in Seq(Output) /\ k \in 1 .. Len(o)
    BY <2>3 DEF Section
  <2>5. q \in Seq(Entry) /\ Own(s_dipswitch, o, k) = q \o Entries(s_dipswitch, o[k])
    <3> HIDE DEF o, k
    <3> QED
      BY <2>4, OwnNext
  <2>6. Entries(s_dipswitch, o[k]) = <<s_map[s_map_count + 1]>>
    BY <1>1, <2>1, EntriesAre DEF InLoad, Current
  <2>7. Holds(s_map, s_map_count, q)
    BY <1>1, <2>1 DEF InLoad
  <2>8. Holds(s_map, s_map_count + 1, q \o <<s_map[s_map_count + 1]>>)
    <3> HIDE DEF q
    <3> QED
      BY <1>3, <2>5, <2>7, HoldsOneMore
  <2>9. Holds(s_map', s_map_count', Own(s_dipswitch', o, k))
    <3> HIDE DEF q, o, k
    <3> QED
      BY <1>1, <2>5, <2>6, <2>8
  <2>10. output'[t] - 1 = k /\ output'[t] <= Len(o) + 1
    BY <2>2, <2>4
  <2> HIDE DEF q, k
  <2> QED
    BY <1>1, <1>2, <2>1, <2>2, <2>9, <2>10 DEF InLoad
<1> QED
  BY <1>2, <1>4, <1>5, LoadGoesOn DEF Loading

LEMMA SkipMap ==
  ASSUME MapInv, NEW t \in Tasks, SkipOutput(t)
  PROVE  Rewound' /\ MapFollows'
<1>1. /\ pc[t] = "output" /\ output[t] <= Len(Candidate(t).outputs)
      /\ ~(Ours(Current(t)) /\ s_map_count < ZCF_MAP_MAX)
      /\ output' = [output EXCEPT ![t] = @ + 1] /\ pc' = pc
      /\ UNCHANGED <<zcf, s_dipswitch, s_map, s_map_count, s_loaded, failed, late, file, section>>
  BY DEF SkipOutput, settings, map
<1>2. pc \in [Tasks -> Places] /\ output \in [Tasks -> Nat \ {0}] /\ s_map_count \in 0 .. ZCF_MAP_MAX
  BY DEF MapInv, MapTyped, Typed, PlacesOK, ParseOK, MapOK
<1>3. Goto(t, "output")
  BY <1>1, <1>2 DEF Goto
<1>4. /\ pc'[t] = "output" /\ \A u \in Tasks : u # t => ~Loading(u)'
      /\ ~late' /\ ~Due' => InLoad(t)
  BY <1>1, <1>3, LoadEnv
<1>5. Rewound'
  BY <1>1 DEF MapInv, Rewound
<1>6. ASSUME ~late', ~Due' PROVE InLoad(t)'
  <2>1. InLoad(t)
    BY <1>4, <1>6
  <2>2. Candidate(t)' = Candidate(t) /\ output'[t] = output[t] + 1
    BY <1>1, <1>2 DEF Candidate
  <2> DEFINE o == Candidate(t).outputs
             k == output[t]
             q == Own(s_dipswitch, o, k - 1)
             r == Entries(s_dipswitch, o[k])
  <2>3. o \in Seq(Output) /\ k \in 1 .. Len(o) /\ o[k] \in Output
    <3>1. Candidate(t) \in Section /\ Len(o) \in Nat /\ k \in Nat \ {0} /\ Current(t) \in Output
      BY <1>1, CandidateTyped DEF MapInv
    <3> QED
      BY <1>1, <3>1 DEF Section, Current
  <2>4. q \in Seq(Entry) /\ Own(s_dipswitch, o, k) = q \o r /\ r \in Seq(Entry)
    <3> HIDE DEF o, k
    <3> QED
      BY <2>3, OwnNext, EntriesTyped
  <2>5. Holds(s_map, s_map_count, q)
    BY <1>1, <2>1 DEF InLoad
  <2>6. Holds(s_map, s_map_count, q \o r)
    <3>1. CASE ~Ours(Current(t))
      <4>1. r = <<>>
        BY <3>1, EntriesAre DEF Current
      <4> HIDE DEF q, r
      <4>2. q \o r = q
        BY <2>4, <4>1
      <4> QED
        BY <2>5, <4>2
    <3>2. CASE ~(s_map_count < ZCF_MAP_MAX)
      <4>1. s_map_count = ZCF_MAP_MAX
        BY <1>2, <3>2, CircuitMapAssumption
      <4> HIDE DEF q, r
      <4> QED
        BY <2>4, <2>5, <4>1, HoldsNoMore
    <3> QED
      BY <1>1, <3>1, <3>2
  <2>7. Holds(s_map', s_map_count', Own(s_dipswitch', o, k))
    <3> HIDE DEF q, r, o, k
    <3> QED
      BY <1>1, <2>4, <2>6
  <2>8. output'[t] - 1 = k /\ output'[t] <= Len(o) + 1
    BY <2>2, <2>3
  <2> HIDE DEF q, k
  <2> QED
    BY <1>1, <1>4, <2>1, <2>2, <2>7, <2>8 DEF InLoad
<1> QED
  BY <1>4, <1>5, <1>6, LoadGoesOn DEF Loading

LEMMA RejectMap ==
  ASSUME MapInv, NEW t \in Tasks, RejectSection(t)
  PROVE  Rewound' /\ MapFollows'
<1>1. /\ pc[t] = "output" /\ ~Candidate(t).exact /\ Goto(t, "section")
      /\ section' = [section EXCEPT ![t] = @ + 1]
      /\ UNCHANGED <<zcf, s_dipswitch, s_map, s_map_count, s_loaded, failed, late, file, output>>
  BY DEF RejectSection, settings, map
<1>2. /\ pc'[t] = "section" /\ \A u \in Tasks : u # t => ~Loading(u)'
      /\ ~late' /\ ~Due' => InLoad(t)
  BY <1>1, LoadEnv
<1>3. pc \in [Tasks -> Places] /\ section \in [Tasks -> Nat \ {0}]
  BY DEF MapInv, MapTyped, Typed, PlacesOK, ParseOK
<1>4. Rewound'
  BY <1>1, <1>2, <1>3 DEF MapInv, Rewound, Goto
<1>5. ASSUME ~late', ~Due' PROVE InLoad(t)'
  <2>1. InLoad(t)
    BY <1>2, <1>5
  <2>2. file[t] = zcf /\ \A j \in 1 .. section[t] - 1 : ~Sections[zcf][j].exact
    BY <1>1, <2>1 DEF InLoad
  <2>3. ~Sections[zcf][section[t]].exact
    BY <1>1, <2>2 DEF Candidate
  <2>4. section'[t] = section[t] + 1 /\ section[t] \in Nat
    BY <1>1, <1>3
  <2>5. \A j \in 1 .. section'[t] - 1 : j = section[t] \/ j \in 1 .. section[t] - 1
    BY <2>4
  <2>6. \A j \in 1 .. section'[t] - 1 : ~Sections[zcf][j].exact
    BY <2>2, <2>3, <2>5
  <2> QED
    BY <1>1, <1>2, <2>1, <2>2, <2>6 DEF InLoad
<1> QED
  BY <1>2, <1>4, <1>5, LoadGoesOn DEF Loading

LEMMA FinishMap ==
  ASSUME MapInv, Understood, NEW t \in Tasks, Finish(t)
  PROVE  Rewound' /\ MapFollows'
<1>1. /\ pc[t] \in {"output", "section"} /\ Goto(t, "idle")
      /\ section' = [section EXCEPT ![t] = 1]
      /\ UNCHANGED <<zcf, s_dipswitch, s_map, s_map_count, failed, late>>
  BY DEF Finish, settings
<1>2. /\ pc'[t] = "idle" /\ \A u \in Tasks : u # t => ~Loading(u)'
      /\ ~late' /\ ~Due' => InLoad(t)
      /\ Parsable(Bytes[file[t]]) /\ file[t] \in Files
      /\ Sections[file[t]] \in Seq(Section)
  BY <1>1, LoadEnv
<1>3. /\ pc \in [Tasks -> Places] /\ section \in [Tasks -> Nat \ {0}]
      /\ output \in [Tasks -> Nat \ {0}] /\ s_map \in [1 .. ZCF_MAP_MAX -> Entry]
  BY DEF MapInv, MapTyped, Typed, PlacesOK, ParseOK, MapOK
<1>4. Rewound'
  BY <1>1, <1>3 DEF MapInv, Rewound, Goto
<1>5. ASSUME ~late', ~Due' PROVE Result'
  <2>1. /\ InLoad(t) /\ failed' = FALSE /\ file[t] = zcf
        /\ \A j \in 1 .. section[t] - 1 : ~Sections[zcf][j].exact
    BY <1>1, <1>2, <1>5 DEF InLoad
  <2>2. OwnOutputs(zcf)' = OwnOutputs(zcf)
    BY <1>1 DEF OwnOutputs, EntriesOf, Ours, EntryOf, RelayOf
  <2>3. zcf \in Files /\ zcf # NoFile /\ Len(Sections[zcf]) \in Nat /\ DOMAIN Sections[zcf] = 1 .. Len(Sections[zcf])
    BY <1>2, <2>1, CircuitMapAssumption
  <2>4. CASE pc[t] = "output"
    <3> DEFINE o == Candidate(t).outputs
    <3>1. /\ output[t] > Len(o) /\ Candidate(t).exact /\ s_loaded' = TRUE
      BY <2>4 DEF Finish
    <3>2. section[t] \in 1 .. Len(Sections[zcf]) /\ Candidate(t) = Sections[zcf][section[t]]
      BY <2>1, <2>4 DEF MapInv, MapTyped, Parsing, ParsingOf, Candidate
    <3>3. Candidate(t) \in Section
      BY <1>2, <2>1, <3>2, ElementType
    <3>4. o \in Seq(Output)
      BY <3>3 DEF Section
    <3>5. Meant[zcf] = o /\ Meant[zcf] # NoRecords
      BY <1>2, <2>1, <2>3, <3>1, <3>2 DEF Understood
    <3>6. output[t] <= Len(o) + 1 /\ Holds(s_map, s_map_count, Own(s_dipswitch, o, output[t] - 1))
      BY <2>1, <2>4 DEF InLoad
    <3>7. output[t] - 1 = Len(o)
      <4>1. Len(o) \in Nat /\ output[t] \in Nat
        BY <1>3, <3>4
      <4> HIDE DEF o
      <4> QED
        BY <3>1, <3>6, <4>1
    <3>8. OwnOutputs(zcf) = First(ZCF_MAP_MAX, FlattenSeq([i \in DOMAIN o |-> Entries(s_dipswitch, o[i])]))
      <4> HIDE DEF o
      <4>1. OwnOutputs(zcf) = First(ZCF_MAP_MAX, FlattenSeq([i \in DOMAIN o |-> EntriesOf(o[i])]))
        BY <2>3, <3>5 DEF OwnOutputs, HasRecords
      <4>2. [i \in DOMAIN o |-> EntriesOf(o[i])] = [i \in DOMAIN o |-> Entries(s_dipswitch, o[i])]
        BY EntriesAre
      <4> QED
        BY <4>1, <4>2
    <3> HIDE DEF o
    <3>9. /\ Own(s_dipswitch, o, Len(o)) \in Seq(Entry)
          /\ FlattenSeq([i \in DOMAIN o |-> Entries(s_dipswitch, o[i])]) = Own(s_dipswitch, o, Len(o))
      BY <3>4, OwnAll
    <3>10. SubSeq(s_map, 1, s_map_count) = First(ZCF_MAP_MAX, Own(s_dipswitch, o, Len(o)))
      BY <1>3, <3>6, <3>7, <3>9, HoldsFirst
    <3>11. SubSeq(s_map, 1, s_map_count) = OwnOutputs(zcf)
      BY <3>8, <3>9, <3>10
    <3>12. HasRecords(zcf)
      BY <2>3, <3>5 DEF HasRecords
    <3> QED
      BY <1>1, <2>1, <2>2, <3>1, <3>11, <3>12 DEF Result, HasRecords
  <2>5. CASE pc[t] = "section"
    <3>1. section[t] > Len(Sections[zcf]) /\ s_loaded' = FALSE
      BY <2>1, <2>5 DEF Finish
    <3>2. \A j \in 1 .. Len(Sections[zcf]) : j \in 1 .. section[t] - 1
      BY <1>3, <2>3, <3>1
    <3>3. ~\E k \in DOMAIN Sections[zcf] : Sections[zcf][k].exact
      BY <2>1, <2>3, <3>2
    <3>4. Meant[zcf] = NoRecords
      BY <2>3, <3>3 DEF Understood
    <3> QED
      BY <1>1, <2>1, <2>3, <3>1, <3>4 DEF Result, HasRecords
  <2> QED
    BY <1>1, <2>4, <2>5
<1> QED
  BY <1>2, <1>4, <1>5, LoadGoesOn DEF Loading

LEMMA RxOffStep ==
  ASSUME PlacesOK, RxOff, [Next]_vars
  PROVE  RxOff'
<1> DEFINE Moves(t, l) == /\ Goto(t, l)
                          /\ t = "rx" => pc["rx"] # "off"
                          /\ t = "main" => (l \in {"init", "assign", "start"}
                                              => pc["main"] \in {"init", "assign", "start"})
<1>1. ASSUME NEW t \in Tasks, NEW l, Moves(t, l) PROVE RxOff'
  <2>1. pc' = [pc EXCEPT ![t] = l] /\ pc \in [Tasks -> Places]
    BY <1>1 DEF Goto, PlacesOK
  <2>2. \A u \in Tasks : pc'[u] = IF u = t THEN l ELSE pc[u]
    BY <2>1
  <2>3. "rx" \in Tasks /\ "main" \in Tasks
    BY DEF Tasks
  <2> QED
    BY <1>1, <2>2, <2>3 DEF RxOff
<1>2. ASSUME pc' = pc PROVE RxOff'
  BY <1>2 DEF RxOff
<1>3. CASE PowerLoss
  BY <1>3 DEF PowerLoss, RxOff, Tasks
<1>4. CASE UNCHANGED vars
  BY <1>2, <1>4 DEF vars
<1>5. ASSUME NEW t \in Tasks, Loader(t) PROVE RxOff'
  <2>1. CASE SkipOutput(t)
    BY <1>2, <2>1 DEF SkipOutput
  <2>2. CASE Load(t)
    BY <1>1, <2>2 DEF Load
  <2>3. CASE ReadFile(t)
    <3>1. Goto(t, "idle") \/ Goto(t, "section")
      BY <2>3 DEF ReadFile
    <3> QED
      BY <1>1, <2>3, <3>1 DEF ReadFile
  <2>4. CASE ReadFails(t)
    BY <1>1, <2>4 DEF ReadFails
  <2>5. CASE OpenSection(t)
    BY <1>1, <2>5 DEF OpenSection
  <2>6. CASE StoreOutput(t)
    BY <1>1, <2>6 DEF StoreOutput
  <2>7. CASE CountOutput(t)
    BY <1>1, <2>7 DEF CountOutput
  <2>8. CASE RejectSection(t)
    BY <1>1, <2>8 DEF RejectSection
  <2>9. CASE Finish(t)
    BY <1>1, <2>9 DEF Finish
  <2> QED
    BY <1>5, <2>1, <2>2, <2>3, <2>4, <2>5, <2>6, <2>7, <2>8, <2>9 DEF Loader
<1>6. CASE Press
  <2>1. (pc["rx"] \in {"idle", "look", "resolve", "switch"}
           /\ \E l \in Places : Goto("rx", l)) \/ pc' = pc
    BY <1>6 DEF Press, PressSwitch, LookUp, LookedUp, UseMap, UseFallback, UseNothing, SwitchRelays, Places
  <2> QED
    BY <1>1, <1>2, <2>1 DEF Tasks
<1>7. ASSUME NEW f \in Files, CommitUpload(f) PROVE RxOff'
  BY <1>1, <1>7 DEF CommitUpload, Tasks
<1>8. CASE StartTasks
  BY <1>8 DEF StartTasks, RxOff, PlacesOK, Tasks
<1>9. ASSUME NEW t \in {"main", "term"}, Settings(t) \/ Reload(t) PROVE RxOff'
  <2>1. CASE Settings(t)
    <3>1. /\ pc[t] \in {"init", "assign"}
          /\ \E l : Goto(t, l)
      BY <2>1 DEF Settings, AlreadyInited, ReadNvs, NvsInitFails, AssignStored
    <3> QED
      BY <1>1, <3>1 DEF Tasks
  <2>2. CASE Reload(t)
    BY <1>1, <2>2 DEF Reload, Tasks
  <2> QED
    BY <1>9, <2>1, <2>2
<1>10. CASE (\E d \in Dipswitches : SetDipswitch(d)) \/ Persist \/ PersistFails \/ UseDipswitch
  <2>1. \E l : Goto("term", l)
    BY <1>10 DEF SetDipswitch, Persist, PersistFails, UseDipswitch
  <2> QED
    BY <1>1, <2>1 DEF Tasks
<1> QED
  BY <1>3, <1>4, <1>5, <1>6, <1>7, <1>8, <1>9, <1>10 DEF Next

\* A task that loads nothing goes on to a place where it loads nothing either.
LEMMA MoveMap ==
  ASSUME MapInv, NEW t \in Tasks, pc[t] \in Elsewhere, NEW l \in Elsewhere, Goto(t, l),
         UNCHANGED <<zcf, s_dipswitch, s_map, s_map_count, s_loaded, failed, parse>>,
         late => late',
         \/ late'
         \/ t = "main" /\ l \in {"assign", "start"}
         \/ t = "rx"
         \/ t = "term" /\ pc[t] # "reload"
  PROVE  Rewound' /\ MapFollows'
<1>1. pc \in [Tasks -> Places] /\ pc' = [pc EXCEPT ![t] = l]
  BY DEF MapInv, MapTyped, Typed, PlacesOK, Goto
<1>2. \A u \in Tasks : pc'[u] = IF u = t THEN l ELSE pc[u]
  BY <1>1
<1>3. CASE late'
  <2>1. Rewound'
    BY <1>2 DEF MapInv, Rewound, parse, Elsewhere
  <2> QED
    BY <1>3, <2>1 DEF MapFollows
<1>4. CASE ~late'
  <2>1. Due => Due'
    BY <1>2, <1>4 DEF Due, Tasks, Elsewhere
  <2>2. \A u \in Tasks : pc'[u] # pc[u] => pc[u] \in Elsewhere /\ pc'[u] \in Elsewhere
    BY <1>2
  <2> QED
    BY <2>1, <2>2, MapFrame
<1> QED
  BY <1>3, <1>4

\* A step after which a load is due.
LEMMA DueMap ==
  ASSUME MapInv, NEW t \in Tasks, pc[t] \in Elsewhere, NEW l \in Elsewhere \cup {"load"}, Goto(t, l),
         UNCHANGED parse, l = "load" \/ (t = "term" /\ l = "reload")
  PROVE  Rewound' /\ MapFollows'
<1>1. pc \in [Tasks -> Places] /\ pc' = [pc EXCEPT ![t] = l]
  BY DEF MapInv, MapTyped, Typed, PlacesOK, Goto
<1>2. \A u \in Tasks : pc'[u] = IF u = t THEN l ELSE pc[u]
  BY <1>1
<1>3. Rewound'
  BY <1>2 DEF MapInv, Rewound, parse, Elsewhere
<1>4. Due'
  BY <1>2 DEF Due
<1> QED
  BY <1>3, <1>4 DEF MapFollows

LEMMA SettingsMap ==
  ASSUME MapInv,
         \/ \E t \in {"main", "term"} : Settings(t) \/ Reload(t)
         \/ \E d \in Dipswitches : SetDipswitch(d)
         \/ Persist \/ PersistFails \/ UseDipswitch \/ StartTasks
         \/ \E f \in Files : CommitUpload(f)
  PROVE  Rewound' /\ MapFollows'
<1>0. pc \in [Tasks -> Places]
  BY DEF MapInv, MapTyped, Typed, PlacesOK
<1>1. ASSUME NEW t \in {"main", "term"}, AlreadyInited(t) \/ ReadNvs(t) \/ NvsInitFails(t)
      PROVE  Rewound' /\ MapFollows'
  <2>1. /\ pc[t] = "init"
        /\ UNCHANGED <<zcf, s_dipswitch, s_map, s_map_count, s_loaded, failed, late, parse>>
    BY <1>1 DEF AlreadyInited, ReadNvs, NvsInitFails, settings, map
  <2>2. \E l \in {"assign", "start", "persist", "idle"} : Goto(t, l) /\ (t = "main" => l \in {"assign", "start"})
    BY <1>1 DEF AlreadyInited, ReadNvs, NvsInitFails
  <2>3. t \in Tasks /\ pc[t] \in Elsewhere /\ {"assign", "start", "persist", "idle"} \subseteq Elsewhere
    BY <2>1 DEF Tasks, Elsewhere, Places
  <2> QED
    BY <2>1, <2>2, <2>3, MoveMap
<1>2. ASSUME NEW t \in {"main", "term"}, AssignStored(t) PROVE Rewound' /\ MapFollows'
  <2>1. /\ pc[t] = "assign" /\ UNCHANGED parse /\ t \in Tasks
        /\ late' = (late \/ pc["main"] \notin {"init", "assign", "start", "reload"})
        /\ Goto(t, IF t = "main" THEN "start" ELSE "persist")
    BY <1>2 DEF AssignStored, Tasks
  <2>2. \A u \in Tasks : pc'[u] = IF u = t THEN (IF t = "main" THEN "start" ELSE "persist") ELSE pc[u]
    BY <1>0, <2>1 DEF Goto
  <2>3. Rewound'
    BY <2>1, <2>2 DEF MapInv, Rewound, parse
  <2>4. late' \/ Due'
    BY <2>1, <2>2 DEF Due, Tasks
  <2> QED
    BY <2>3, <2>4 DEF MapFollows
<1>3. CASE (\E d \in Dipswitches : SetDipswitch(d)) \/ Persist \/ PersistFails
  <2>1. /\ pc["term"] \in {"idle", "persist"}
        /\ UNCHANGED <<zcf, s_dipswitch, s_map, s_map_count, s_loaded, failed, late, parse>>
    BY <1>3 DEF SetDipswitch, Persist, PersistFails, map
  <2>2. \E l \in {"persist", "init", "use", "idle"} : Goto("term", l)
    BY <1>3 DEF SetDipswitch, Persist, PersistFails
  <2>3. "term" \in Tasks /\ pc["term"] \in Elsewhere /\ {"persist", "init", "use", "idle"} \subseteq Elsewhere
    BY <2>1 DEF Tasks, Elsewhere, Places
  <2>4. pc["term"] # "reload"
    BY <2>1
  <2> QED
    BY <2>1, <2>2, <2>3, <2>4, MoveMap
<1>4. CASE UseDipswitch
  BY <1>4, DueMap DEF UseDipswitch, Tasks, Elsewhere, Places
<1>5. ASSUME NEW t \in Tasks, pc[t] \in {"idle", "reload"}, Goto(t, "load"), UNCHANGED parse
      PROVE  Rewound' /\ MapFollows'
  <2>1. pc[t] \in Elsewhere
    BY <1>5 DEF Elsewhere, Places
  <2> QED
    BY <1>5, <2>1, DueMap
<1>6. ASSUME NEW t \in {"main", "term"}, Reload(t) PROVE Rewound' /\ MapFollows'
  BY <1>5, <1>6 DEF Reload, Tasks
<1>7. ASSUME NEW f \in Files, CommitUpload(f) PROVE Rewound' /\ MapFollows'
  BY <1>5, <1>7 DEF CommitUpload, Tasks
<1>8. CASE StartTasks
  <2>1. pc["rx"] = "off"
    BY <1>8 DEF StartTasks, MapInv, RxOff
  <2>2. \A u \in Tasks : pc'[u] = CASE u = "main" -> "reload" [] u = "rx" -> "idle" [] OTHER -> pc[u]
    BY <1>0, <1>8 DEF StartTasks, Tasks
  <2>3. pc'["main"] = "reload" /\ \A u \in Tasks : u # "main" /\ u # "rx" => pc'[u] = pc[u]
    BY <2>2 DEF Tasks
  <2>4. UNCHANGED section /\ pc["main"] = "start"
    BY <1>8 DEF StartTasks, parse
  <2>5. Rewound'
    BY <2>1, <2>3, <2>4 DEF MapInv, Rewound
  <2>6. Due'
    BY <2>3 DEF Due
  <2> QED
    BY <2>5, <2>6 DEF MapFollows
<1> QED
  BY <1>1, <1>2, <1>3, <1>4, <1>6, <1>7, <1>8 DEF Settings

LEMMA PressMap ==
  ASSUME MapInv, Press
  PROVE  Rewound' /\ MapFollows'
<1>1. /\ UNCHANGED <<zcf, s_dipswitch, s_map, s_map_count, s_loaded, failed, late, parse>>
      /\ pc["rx"] \in {"idle", "look", "resolve", "switch"}
  BY DEF Press, PressSwitch, LookUp, LookedUp, UseMap, UseFallback, UseNothing, SwitchRelays, settings, map
<1>2. (\E l \in {"idle", "look", "resolve", "switch"} : Goto("rx", l)) \/ pc' = pc
  BY DEF Press, PressSwitch, LookUp, LookedUp, UseMap, UseFallback, UseNothing, SwitchRelays
<1>3. pc["rx"] \in Elsewhere /\ "rx" \in Tasks /\ {"idle", "look", "resolve", "switch"} \subseteq Elsewhere
  BY <1>1 DEF Elsewhere, Places, Tasks
<1>4. CASE pc' = pc
  <2>1. Due => Due'
    BY <1>4 DEF Due
  <2> QED
    BY <1>1, <1>4, <2>1, MapFrame
<1>5. CASE \E l \in {"idle", "look", "resolve", "switch"} : Goto("rx", l)
  BY <1>1, <1>3, <1>5, MoveMap
<1> QED
  BY <1>2, <1>4, <1>5

LEMMA StartedMap == ASSUME Started PROVE MapInv
<1>1. /\ pc["main"] = "init" /\ pc["rx"] = "off" /\ section = [t \in Tasks |-> 1]
  BY DEF Started, Reset, Tasks
<1>2. RxOff /\ Rewound /\ MapFollows
  BY <1>1 DEF RxOff, Rewound, MapFollows, Due
<1> QED
  BY <1>2, StartedTyped DEF MapInv

LEMMA MapStep ==
  ASSUME MapInv, Overlap = FALSE, Understood, [Next]_vars
  PROVE  MapInv' \/ Started'
<1>1. MapTyped' \/ Started'
  BY MapTypedStep DEF MapInv
<1>2. RxOff'
  BY RxOffStep DEF MapInv, MapTyped, Typed
<1>3. CASE PowerLoss
  BY <1>3 DEF PowerLoss, Started, Reset, MapInv, MapTyped, Typed, SettingsOK
<1>4. CASE UNCHANGED vars
  <2>1. Due => Due'
    BY <1>4 DEF Due, vars
  <2>2. Rewound' /\ MapFollows'
    BY <1>4, <2>1, MapFrame DEF vars, settings, map
  <2> QED
    BY <1>1, <1>2, <2>2 DEF MapInv
<1>5. ASSUME NEW t \in Tasks, Loader(t) PROVE Rewound' /\ MapFollows'
  BY <1>5, LoadMap, ReadMap, ReadFailsMap, OpenMap, StoreMap, CountMap, SkipMap, RejectMap, FinishMap
     DEF Loader
<1>6. CASE Press
  BY <1>1, <1>2, <1>6, PressMap DEF MapInv
<1>7. CASE \/ \E t \in {"main", "term"} : Settings(t) \/ Reload(t)
           \/ \E d \in Dipswitches : SetDipswitch(d)
           \/ Persist \/ PersistFails \/ UseDipswitch \/ StartTasks
           \/ \E f \in Files : CommitUpload(f)
  BY <1>1, <1>2, <1>7, SettingsMap DEF MapInv
<1>8. CASE \E t \in Tasks : Loader(t)
  BY <1>1, <1>2, <1>5, <1>8 DEF MapInv
<1> QED
  BY <1>3, <1>4, <1>6, <1>7, <1>8 DEF Next

LEMMA InitStarted == ASSUME Init PROVE Started
<1>1. InUse(nvs) \in Dipswitches
  BY DipswitchAssumption DEF Init, InUse
<1> QED
  BY <1>1 DEF Init, Started

\* Whatever tasks load the map, one after the other, and whatever fails: where none
\* does, the map is that of the stored file for the dipswitch in use, or there is none.
THEOREM MapCorrect ==
  ASSUME Overlap = FALSE, Understood
  PROVE  Spec => []MapIsOfFile
<1>1. Started => MapInv
  BY StartedMap
<1>2. Init => MapInv
  BY <1>1, InitStarted
<1>3. MapInv /\ [Next]_vars => MapInv' \/ Started'
  BY MapStep
<1>4. MapInv => MapIsOfFile
  BY MapFollowsAtRest
<1> QED
  BY <1>1, <1>2, <1>3, <1>4, PTL DEF Spec
-----------------------------------------------------------------------------
(* The press *)

\* What the look-up finds in the first k entries of q, and what it has room for.
Relays == 0 .. BOARD_RELAY_COUNT
Hits(q, c) == [i \in DOMAIN q |-> IF q[i].circuit = c THEN <<q[i].relay>> ELSE <<>>]
Found(q, c, k) == FlattenSeq(SubSeq(Hits(q, c), 1, k))
Has(ch, r) == Len(ch) = AtMost(Len(r), BOARD_RELAY_COUNT) /\ \A j \in 1 .. Len(ch) : ch[j] = r[j]

LEMMA HitsTyped ==
  ASSUME NEW q \in Seq(Entry), NEW c
  PROVE  Hits(q, c) \in Seq(Seq(Relays)) /\ Len(Hits(q, c)) = Len(q)
<1>1. \A i \in DOMAIN q : q[i] \in Entry
  OBVIOUS
<1>2. \A i \in DOMAIN q : q[i].relay \in Relays
  BY <1>1 DEF Entry, Relays, BOARD_RELAY_COUNT
<1> HIDE DEF Relays
<1> DEFINE Hit(i) == IF q[i].circuit = c THEN <<q[i].relay>> ELSE <<>>
<1>3. \A i \in DOMAIN q : Hit(i) \in Seq(Relays)
  BY <1>2
<1> HIDE DEF Hit
<1>4. [i \in DOMAIN q |-> Hit(i)] \in Seq(Seq(Relays)) /\ Len([i \in DOMAIN q |-> Hit(i)]) = Len(q)
  BY <1>3
<1> QED
  BY <1>4 DEF Hits, Hit

LEMMA FoundTyped ==
  ASSUME NEW q \in Seq(Entry), NEW c, NEW k \in 0 .. Len(q)
  PROVE  Found(q, c, k) \in Seq(Relays)
BY HitsTyped, FlattenTyped DEF Found

LEMMA FoundNone ==
  ASSUME NEW q \in Seq(Entry), NEW c
  PROVE  Found(q, c, 0) = <<>>
BY HitsTyped, FlattenNone DEF Found

LEMMA FoundNext ==
  ASSUME NEW q \in Seq(Entry), NEW c, NEW k \in 1 .. Len(q)
  PROVE  Found(q, c, k) = IF q[k].circuit = c THEN Found(q, c, k - 1) \o <<q[k].relay>>
                          ELSE Found(q, c, k - 1)
<1> DEFINE h == Hits(q, c)
<1>1. h \in Seq(Seq(Relays)) /\ Len(h) = Len(q)
  BY HitsTyped
<1>2. h[k] = IF q[k].circuit = c THEN <<q[k].relay>> ELSE <<>>
  BY DEF Hits
<1> HIDE DEF h
<1>3. k \in 1 .. Len(h) /\ k - 1 \in 0 .. Len(q)
  BY <1>1
<1>4. Found(q, c, k) = Found(q, c, k - 1) \o h[k]
  BY <1>1, <1>3, FlattenNext DEF Found, h
<1>5. Found(q, c, k - 1) \in Seq(Relays)
  BY <1>3, FoundTyped
<1>6. Found(q, c, k - 1) \o <<>> = Found(q, c, k - 1)
  BY <1>5
<1> QED
  BY <1>2, <1>4, <1>6

LEMMA FoundAll ==
  ASSUME NEW q \in Seq(Entry), NEW c
  PROVE  FlattenSeq(Hits(q, c)) = Found(q, c, Len(q)) /\ Found(q, c, Len(q)) \in Seq(Relays)
<1>1. Hits(q, c) \in Seq(Seq(Relays)) /\ Len(Hits(q, c)) = Len(q)
  BY HitsTyped
<1>2. Len(q) \in 0 .. Len(q)
  OBVIOUS
<1> QED
  BY <1>1, <1>2, FlattenAll, FoundTyped DEF Found

\* Where there is room the next relay is found as well, and where there is none the
\* look-up has the first eight of all.
LEMMA HasOneMore ==
  ASSUME NEW ch \in Seq(Relays), NEW r \in Seq(Relays), NEW x \in Relays,
         Has(ch, r), Len(ch) < BOARD_RELAY_COUNT
  PROVE  Has(Append(ch, x), r \o <<x>>)
<1>1. Len(ch) = Len(r) /\ Len(r) \in Nat /\ Len(r) < 8
  BY DEF Has, AtMost, BOARD_RELAY_COUNT
<1> DEFINE a == Append(ch, x)
           b == r \o <<x>>
<1>2. Len(a) = Len(r) + 1 /\ Len(b) = Len(r) + 1
  BY <1>1
<1>3. ASSUME NEW j \in 1 .. Len(r) + 1 PROVE a[j] = b[j]
  <2>1. CASE j = Len(r) + 1
    BY <1>1, <2>1
  <2>2. CASE j # Len(r) + 1
    <3>1. j \in 1 .. Len(r)
      BY <1>1, <2>2
    <3>2. ch[j] = r[j]
      BY <1>1, <3>1 DEF Has
    <3>3. a[j] = ch[j]
      BY <1>1, <3>1
    <3>4. b[j] = r[j]
      BY <1>1, <3>1
    <3> QED
      BY <3>2, <3>3, <3>4
  <2> QED
    BY <2>1, <2>2
<1>4. AtMost(Len(r) + 1, BOARD_RELAY_COUNT) = Len(r) + 1
  BY <1>1 DEF AtMost, BOARD_RELAY_COUNT
<1> HIDE DEF a, b
<1>5. Has(a, b)
  BY <1>2, <1>3, <1>4 DEF Has
<1> QED
  BY <1>5 DEF a, b

LEMMA HasFirst ==
  ASSUME NEW q \in Seq(Entry), NEW c, NEW k \in 0 .. Len(q), NEW ch,
         Has(ch, Found(q, c, k)), k = Len(q) \/ Len(ch) = BOARD_RELAY_COUNT
  PROVE  Has(ch, Found(q, c, Len(q)))
<1>1. CASE k = Len(q)
  BY <1>1
<1>2. CASE Len(ch) = BOARD_RELAY_COUNT
  <2> DEFINE h == Hits(q, c)
             short == Found(q, c, k)
             long == Found(q, c, Len(q))
  <2>1. h \in Seq(Seq(Relays)) /\ Len(h) = Len(q) /\ Len(q) \in 0 .. Len(h)
    BY HitsTyped
  <2>2. Len(short) <= Len(long) /\ \A j \in 1 .. Len(short) : long[j] = short[j]
    BY <2>1, FlattenKeeps DEF Found
  <2>3. Len(short) \in Nat /\ Len(long) \in Nat
    <3>1. short \in Seq(Relays) /\ long \in Seq(Relays)
      BY FoundTyped
    <3> HIDE DEF short, long
    <3> QED
      BY <3>1
  <2> HIDE DEF short, long
  <2>4. Len(ch) = AtMost(Len(short), 8) /\ \A j \in 1 .. Len(ch) : ch[j] = short[j]
    BY DEF Has, short, BOARD_RELAY_COUNT
  <2>5. 8 <= Len(short) /\ Len(ch) = 8
    BY <1>2, <2>3, <2>4 DEF AtMost, BOARD_RELAY_COUNT
  <2>6. Len(ch) = AtMost(Len(long), 8)
    BY <2>2, <2>3, <2>5 DEF AtMost
  <2>7. \A j \in 1 .. Len(ch) : j \in 1 .. Len(short)
    BY <2>3, <2>5
  <2>8. \A j \in 1 .. Len(ch) : ch[j] = long[j]
    BY <2>2, <2>4, <2>7
  <2>9. Has(ch, long)
    BY <2>6, <2>8 DEF Has, BOARD_RELAY_COUNT
  <2> QED
    BY <2>9 DEF long
<1> QED
  BY <1>1, <1>2

LEMMA HasIsFirst ==
  ASSUME NEW r \in Seq(Relays), NEW ch \in Seq(Relays), Has(ch, r)
  PROVE  ch = First(BOARD_RELAY_COUNT, r)
<1>1. Len(r) \in Nat /\ Len(ch) \in Nat
  OBVIOUS
<1>2. Len(ch) <= Len(r) /\ Len(ch) = AtMost(Len(r), 8)
  BY <1>1 DEF Has, AtMost, BOARD_RELAY_COUNT
<1>3. SubSeq(r, 1, Len(ch)) \in Seq(Relays) /\ Len(SubSeq(r, 1, Len(ch))) = Len(ch)
      /\ \A j \in 1 .. Len(ch) : SubSeq(r, 1, Len(ch))[j] = r[j]
  BY <1>1, <1>2
<1>4. ch = SubSeq(r, 1, Len(ch))
  BY <1>3, SeqEqual DEF Has
<1> QED
  BY <1>2, <1>4 DEF First, AtMost, BOARD_RELAY_COUNT

\* A press starts with nothing found.  If no other task is then about to change the
\* map, and none has since, it has found what the entries it has passed give, and at
\* the end the first eight relays of all.
Emptied == pc["rx"] \notin {"look", "resolve", "switch"} => channels = <<>> /\ index = 1

FoundSoFar ==
  steady /\ pc["rx"] \in {"look", "resolve"} =>
    /\ ~Due /\ \A t \in Tasks : ~Loading(t)
    /\ pc["rx"] = "look" =>
         /\ index - 1 <= s_map_count
         /\ Has(channels, Found(SubSeq(s_map, 1, s_map_count), switch % 256, index - 1))
    /\ pc["rx"] = "resolve" =>
         Has(channels, Found(SubSeq(s_map, 1, s_map_count), switch % 256, s_map_count))

PressInv == MapInv /\ Emptied /\ FoundSoFar

LEMMA MapSeq ==
  ASSUME MapOK
  PROVE  /\ SubSeq(s_map, 1, s_map_count) \in Seq(Entry)
         /\ Len(SubSeq(s_map, 1, s_map_count)) = s_map_count
         /\ \A j \in 1 .. s_map_count : SubSeq(s_map, 1, s_map_count)[j] = s_map[j]
<1>1. s_map \in Seq(Entry) /\ Len(s_map) = ZCF_MAP_MAX
  BY CircuitMapAssumption DEF MapOK
<1>2. s_map_count \in Nat /\ s_map_count <= Len(s_map)
  BY <1>1, CircuitMapAssumption DEF MapOK
<1> QED
  BY <1>1, <1>2

\* A step that is not one of the press.
LEMMA OthersPress ==
  ASSUME PressInv, UNCHANGED <<switch, index, channels>>, steady' => steady,
         \/ pc'["rx"] = pc["rx"]
         \/ /\ pc["rx"] \notin {"look", "resolve", "switch"}
            /\ pc'["rx"] \notin {"look", "resolve", "switch"},
         steady' /\ pc'["rx"] \in {"look", "resolve"} /\ ~Due /\ (\A t \in Tasks : ~Loading(t)) =>
           ~Due' /\ (\A t \in Tasks : ~Loading(t)') /\ UNCHANGED <<s_map, s_map_count>>
  PROVE  Emptied' /\ FoundSoFar'
<1>1. Emptied'
  BY DEF PressInv, Emptied
<1>2. ASSUME steady', pc'["rx"] \in {"look", "resolve"} PROVE FoundSoFar'
  <2>1. steady /\ pc'["rx"] = pc["rx"]
    BY <1>2
  <2>2. FoundSoFar /\ ~Due /\ \A t \in Tasks : ~Loading(t)
    BY <1>2, <2>1 DEF PressInv, FoundSoFar
  <2>3. ~Due' /\ (\A t \in Tasks : ~Loading(t)') /\ UNCHANGED <<s_map, s_map_count>>
    BY <1>2, <2>2
  <2> QED
    BY <2>1, <2>2, <2>3 DEF FoundSoFar
<1> QED
  BY <1>1, <1>2 DEF FoundSoFar

LEMMA LoaderPress ==
  ASSUME PressInv, NEW t \in Tasks, Loader(t)
  PROVE  Emptied' /\ FoundSoFar'
<1>1. Loading(t) /\ UNCHANGED <<switch, index, channels, steady>>
  BY DEF Loader, Load, ReadFile, ReadFails, OpenSection, StoreOutput, CountOutput, SkipOutput,
         RejectSection, Finish, Loading, press
<1>2. pc \in [Tasks -> Places]
  BY DEF PressInv, MapInv, MapTyped, Typed, PlacesOK
<1>3. \E l \in {"read", "idle", "section", "output", "count"} : Goto(t, l) \/ pc' = pc
  BY DEF Loader, Load, ReadFile, ReadFails, OpenSection, StoreOutput, CountOutput, SkipOutput,
         RejectSection, Finish
<1>4. \/ pc'["rx"] = pc["rx"]
      \/ /\ pc["rx"] \notin {"look", "resolve", "switch"}
         /\ pc'["rx"] \notin {"look", "resolve", "switch"}
  BY <1>1, <1>2, <1>3 DEF Goto, Loading, Tasks
<1> QED
  BY <1>1, <1>4, OthersPress

LEMMA SettingsPress ==
  ASSUME PressInv,
         \/ \E t \in {"main", "term"} : Settings(t) \/ Reload(t)
         \/ \E d \in Dipswitches : SetDipswitch(d)
         \/ Persist \/ PersistFails \/ UseDipswitch \/ StartTasks
         \/ \E f \in Files : CommitUpload(f)
  PROVE  Emptied' /\ FoundSoFar'
<1>0. pc \in [Tasks -> Places]
  BY DEF PressInv, MapInv, MapTyped, Typed, PlacesOK
<1>1. ASSUME NEW t \in {"main", "term"}, NEW l \in {"assign", "start", "persist", "init", "use", "idle"},
             Goto(t, l), t = "main" => pc["main"] \in {"init", "assign"},
             UNCHANGED <<switch, index, channels, steady, s_map, s_map_count>>
      PROVE  Emptied' /\ FoundSoFar'
  <2>1. \A u \in Tasks : pc'[u] = IF u = t THEN l ELSE pc[u]
    BY <1>0, <1>1 DEF Goto
  <2>2. pc'["rx"] = pc["rx"]
    BY <2>1 DEF Tasks
  <2>3. ASSUME ~Due, \A u \in Tasks : ~Loading(u) PROVE ~Due' /\ \A u \in Tasks : ~Loading(u)'
    <3>1. t = "term"
      BY <1>1, <2>3 DEF Due
    <3>2. \A u \in Tasks : pc'[u] # pc[u] => u = "term" /\ pc'[u] = l
      BY <2>1, <3>1
    <3>3. ~Due'
      BY <2>3, <3>2 DEF Due, Tasks
    <3>4. \A u \in Tasks : ~Loading(u)'
      BY <2>3, <3>2 DEF Loading
    <3> QED
      BY <3>3, <3>4
  <2> QED
    BY <1>1, <2>2, <2>3, OthersPress
<1>2. ASSUME NEW t \in {"main", "term"}, Settings(t) PROVE Emptied' /\ FoundSoFar'
  <2>1. pc[t] \in {"init", "assign"} /\ UNCHANGED <<switch, index, channels, steady, s_map, s_map_count>>
    BY <1>2 DEF Settings, AlreadyInited, ReadNvs, NvsInitFails, AssignStored, press, map
  <2>2. \E l \in {"assign", "start", "persist", "init", "use", "idle"} : Goto(t, l)
    BY <1>2 DEF Settings, AlreadyInited, ReadNvs, NvsInitFails, AssignStored
  <2> QED
    BY <1>1, <2>1, <2>2
<1>3. CASE (\E d \in Dipswitches : SetDipswitch(d)) \/ Persist \/ PersistFails
  <2>1. UNCHANGED <<switch, index, channels, steady, s_map, s_map_count>>
    BY <1>3 DEF SetDipswitch, Persist, PersistFails, press, map
  <2>2. \E l \in {"assign", "start", "persist", "init", "use", "idle"} : Goto("term", l)
    BY <1>3 DEF SetDipswitch, Persist, PersistFails
  <2> QED
    BY <1>1, <2>1, <2>2
<1>4. ASSUME NEW t \in {"main", "term"}, NEW l, Goto(t, l), steady' = FALSE,
             UNCHANGED <<switch, index, channels>>
      PROVE  Emptied' /\ FoundSoFar'
  <2>1. pc'["rx"] = pc["rx"]
    BY <1>0, <1>4 DEF Goto, Tasks
  <2> QED
    BY <1>4, <2>1, OthersPress
<1>5. CASE UseDipswitch
  BY <1>4, <1>5 DEF UseDipswitch
<1>6. ASSUME NEW t \in {"main", "term"}, Reload(t) PROVE Emptied' /\ FoundSoFar'
  BY <1>4, <1>6 DEF Reload
<1>7. ASSUME pc["rx"] \in {"idle", "off"}, pc'["rx"] \in {"idle", "load"},
             UNCHANGED <<switch, index, channels, steady>>
      PROVE  Emptied' /\ FoundSoFar'
  BY <1>7, OthersPress
<1>8. CASE StartTasks
  <2>1. pc["rx"] = "off"
    BY <1>8 DEF StartTasks, PressInv, MapInv, RxOff
  <2> QED
    BY <1>0, <1>7, <1>8, <2>1 DEF StartTasks, Tasks, press
<1>9. ASSUME NEW f \in Files, CommitUpload(f) PROVE Emptied' /\ FoundSoFar'
  BY <1>0, <1>7, <1>9 DEF CommitUpload, Goto, Tasks, press
<1> QED
  BY <1>2, <1>3, <1>5, <1>6, <1>8, <1>9

LEMMA LookPress ==
  ASSUME PressInv, LookUp
  PROVE  Emptied' /\ FoundSoFar'
<1>1. /\ pc["rx"] = "look" /\ pc' = pc /\ index <= s_map_count /\ Len(channels) < BOARD_RELAY_COUNT
      /\ channels' = IF s_map[index].circuit = switch % 256
                     THEN Append(channels, s_map[index].relay) ELSE channels
      /\ index' = index + 1
      /\ UNCHANGED <<s_map, s_map_count, switch, steady>>
  BY DEF LookUp, map
<1>2. Emptied'
  BY <1>1 DEF Emptied
<1>3. ASSUME steady' PROVE FoundSoFar'
  <2>1. /\ ~Due /\ (\A t \in Tasks : ~Loading(t))
        /\ Has(channels, Found(SubSeq(s_map, 1, s_map_count), switch % 256, index - 1))
    BY <1>1, <1>3 DEF PressInv, FoundSoFar
  <2>2. ~Due' /\ \A t \in Tasks : ~Loading(t)'
    BY <1>1, <2>1 DEF Due, Loading
  <2> DEFINE q == SubSeq(s_map, 1, s_map_count)
             c == switch % 256
  <2>3. /\ q \in Seq(Entry) /\ Len(q) = s_map_count /\ s_map_count \in Nat
        /\ \A j \in 1 .. s_map_count : q[j] = s_map[j]
    BY MapSeq, CircuitMapAssumption DEF PressInv, MapInv, MapTyped, Typed, MapOK
  <2>4. index \in Nat \ {0} /\ channels \in Seq(1 .. 8)
    BY CircuitMapAssumption DEF PressInv, MapInv, MapTyped, Typed, PressOK
  <2> HIDE DEF q, c
  <2>5. index \in 1 .. Len(q) /\ q[index] = s_map[index] /\ index - 1 \in 0 .. Len(q)
    BY <1>1, <2>3, <2>4
  <2>6. s_map[index].relay \in Relays
    BY <1>1, <2>4, RelayFound DEF PressInv, MapInv, Relays, BOARD_RELAY_COUNT
  <2>7. channels \in Seq(Relays) /\ Found(q, c, index - 1) \in Seq(Relays)
    BY <2>3, <2>4, <2>5, FoundTyped DEF Relays, BOARD_RELAY_COUNT
  <2>8. Has(channels, Found(q, c, index - 1))
    BY <2>1 DEF q, c
  <2>9. Has(channels', Found(q, c, index))
    <3>1. CASE s_map[index].circuit = c
      <4>1. channels' = Append(channels, s_map[index].relay)
        BY <1>1, <3>1 DEF c
      <4>2. Found(q, c, index) = Found(q, c, index - 1) \o <<s_map[index].relay>>
        BY <2>3, <2>5, <3>1, FoundNext
      <4>3. Has(Append(channels, s_map[index].relay), Found(q, c, index - 1) \o <<s_map[index].relay>>)
        BY <1>1, <2>6, <2>7, <2>8, HasOneMore
      <4> QED
        BY <4>1, <4>2, <4>3
    <3>2. CASE s_map[index].circuit # c
      <4>1. channels' = channels
        BY <1>1, <3>2 DEF c
      <4>2. Found(q, c, index) = Found(q, c, index - 1)
        <5>1. ~(q[index].circuit = c)
          BY <2>5, <3>2
        <5> QED
          BY <2>3, <2>5, <5>1, FoundNext
      <4> QED
        BY <2>8, <4>1, <4>2
    <3> QED
      BY <3>1, <3>2
  <2>10. SubSeq(s_map', 1, s_map_count') = q /\ switch' % 256 = c
    BY <1>1 DEF q, c
  <2>11. index' - 1 = index /\ index <= s_map_count'
    BY <1>1, <2>4
  <2> QED
    BY <1>1, <2>2, <2>9, <2>10, <2>11 DEF FoundSoFar
<1> QED
  BY <1>2, <1>3 DEF FoundSoFar

LEMMA LookedPress ==
  ASSUME PressInv, LookedUp
  PROVE  Emptied' /\ FoundSoFar'
<1>1. /\ pc["rx"] = "look" /\ Goto("rx", "resolve")
      /\ index > s_map_count \/ Len(channels) = BOARD_RELAY_COUNT
      /\ UNCHANGED <<s_map, s_map_count, switch, index, channels, steady>>
  BY DEF LookedUp, map, press
<1>2. \A u \in Tasks : pc'[u] = IF u = "rx" THEN "resolve" ELSE pc[u]
  BY <1>1 DEF Goto, PressInv, MapInv, MapTyped, Typed, PlacesOK
<1>3. pc'["rx"] = "resolve"
  BY <1>2 DEF Tasks
<1>4. ASSUME steady' PROVE FoundSoFar'
  <2>1. /\ ~Due /\ (\A t \in Tasks : ~Loading(t)) /\ index - 1 <= s_map_count
        /\ Has(channels, Found(SubSeq(s_map, 1, s_map_count), switch % 256, index - 1))
    BY <1>1, <1>4 DEF PressInv, FoundSoFar
  <2>2. ~Due' /\ \A t \in Tasks : ~Loading(t)'
    BY <1>2, <2>1 DEF Due, Loading, Tasks
  <2> DEFINE q == SubSeq(s_map, 1, s_map_count)
             c == switch % 256
  <2>3. q \in Seq(Entry) /\ Len(q) = s_map_count /\ s_map_count \in Nat
    BY MapSeq, CircuitMapAssumption DEF PressInv, MapInv, MapTyped, Typed, MapOK
  <2>4. index \in Nat \ {0}
    BY CircuitMapAssumption DEF PressInv, MapInv, MapTyped, Typed, PressOK
  <2> HIDE DEF q, c
  <2>5. index - 1 \in 0 .. Len(q) /\ (index - 1 = Len(q) \/ Len(channels) = BOARD_RELAY_COUNT)
    BY <1>1, <2>1, <2>3, <2>4
  <2>6. Has(channels, Found(q, c, index - 1))
    BY <2>1 DEF q, c
  <2>7. Has(channels, Found(q, c, Len(q)))
    BY <2>3, <2>5, <2>6, HasFirst
  <2>8. Has(channels', Found(SubSeq(s_map', 1, s_map_count'), switch' % 256, s_map_count'))
    BY <1>1, <2>3, <2>7 DEF q, c
  <2> QED
    BY <1>3, <2>2, <2>8 DEF FoundSoFar
<1> QED
  BY <1>3, <1>4 DEF FoundSoFar, Emptied

LEMMA PressPress ==
  ASSUME PressInv, Press
  PROVE  Emptied' /\ FoundSoFar'
<1>0. pc \in [Tasks -> Places] /\ "rx" \in Tasks
  BY DEF PressInv, MapInv, MapTyped, Typed, PlacesOK, Tasks
<1>1. ASSUME NEW s \in Circuits, PressSwitch(s) PROVE Emptied' /\ FoundSoFar'
  <2>1. /\ pc["rx"] = "idle" /\ Goto("rx", "look") /\ switch' = s
        /\ steady' = (AtRest("main") /\ AtRest("term"))
        /\ UNCHANGED <<s_map, s_map_count, index, channels>>
    BY <1>1 DEF PressSwitch, map
  <2>2. \A u \in Tasks : pc'[u] = IF u = "rx" THEN "look" ELSE pc[u]
    BY <1>0, <2>1 DEF Goto
  <2>3. pc'["rx"] = "look"
    BY <2>2 DEF Tasks
  <2>4. channels' = <<>> /\ index' = 1
    BY <2>1 DEF PressInv, Emptied
  <2>5. ASSUME steady' PROVE FoundSoFar'
    <3>1. \A u \in Tasks : pc'[u] \in {"off", "idle", "look", "resolve", "switch"}
      BY <2>1, <2>2, <2>5 DEF AtRest, Tasks
    <3>2. ~Due' /\ \A u \in Tasks : ~Loading(u)'
      BY <3>1 DEF Due, Loading, Tasks
    <3>3. SubSeq(s_map, 1, s_map_count) \in Seq(Entry) /\ s_map_count \in Nat
      BY MapSeq, CircuitMapAssumption DEF PressInv, MapInv, MapTyped, Typed, MapOK
    <3>4. Found(SubSeq(s_map, 1, s_map_count), s % 256, 0) = <<>>
      BY <3>3, FoundNone
    <3>5. Has(<<>>, <<>>)
      BY DEF Has, AtMost, BOARD_RELAY_COUNT
    <3>6. index' - 1 = 0 /\ index' - 1 <= s_map_count'
      BY <2>1, <2>4, <3>3
    <3> QED
      BY <2>1, <2>3, <2>4, <3>2, <3>4, <3>5, <3>6 DEF FoundSoFar
  <2> QED
    BY <2>3, <2>5 DEF Emptied, FoundSoFar
<1>2. CASE UseMap \/ UseFallback \/ UseNothing
  <2>1. Goto("rx", "switch")
    BY <1>2 DEF UseMap, UseFallback, UseNothing
  <2>2. pc'["rx"] = "switch"
    BY <1>0, <2>1 DEF Goto
  <2> QED
    BY <2>2 DEF Emptied, FoundSoFar
<1>3. CASE SwitchRelays
  <2>1. pc'["rx"] = "idle" /\ channels' = <<>> /\ index' = 1
    BY <1>0, <1>3 DEF SwitchRelays, Goto
  <2> QED
    BY <2>1 DEF Emptied, FoundSoFar
<1> QED
  BY <1>1, <1>2, <1>3, LookPress, LookedPress DEF Press

LEMMA PressStep ==
  ASSUME PressInv, Overlap = FALSE, Understood, [Next]_vars
  PROVE  PressInv' \/ Started'
<1>1. MapInv' \/ Started'
  BY MapStep DEF PressInv
<1>2. CASE PowerLoss
  BY <1>2 DEF PowerLoss, Started, Reset, PressInv, MapInv, MapTyped, Typed, SettingsOK
<1>3. CASE UNCHANGED vars
  <2>1. /\ UNCHANGED <<switch, index, channels, steady, pc, s_map, s_map_count>>
    BY <1>3 DEF vars, press, map
  <2>2. ~Due /\ (\A t \in Tasks : ~Loading(t)) => ~Due' /\ \A t \in Tasks : ~Loading(t)'
    BY <2>1 DEF Due, Loading
  <2> QED
    BY <1>1, <2>1, <2>2, OthersPress DEF PressInv
<1>4. CASE \E t \in Tasks : Loader(t)
  BY <1>1, <1>4, LoaderPress DEF PressInv
<1>5. CASE Press
  BY <1>1, <1>5, PressPress DEF PressInv
<1>6. CASE \/ \E t \in {"main", "term"} : Settings(t) \/ Reload(t)
           \/ \E d \in Dipswitches : SetDipswitch(d)
           \/ Persist \/ PersistFails \/ UseDipswitch \/ StartTasks
           \/ \E f \in Files : CommitUpload(f)
  BY <1>1, <1>6, SettingsPress DEF PressInv
<1> QED
  BY <1>2, <1>3, <1>4, <1>5, <1>6 DEF Next

LEMMA StartedPress == ASSUME Started PROVE PressInv
<1>1. pc["rx"] = "off" /\ channels = <<>> /\ index = 1
  BY DEF Started, Reset, Tasks
<1> QED
  BY <1>1, StartedMap DEF PressInv, Emptied, FoundSoFar

\* The relays of the map that has been read are those of the stored file.
LEMMA FollowsFile ==
  ASSUME PressInv, UseMap \/ UseFallback \/ UseNothing, steady, ~failed, ~late,
         zcf = NoFile \/ HasRecords(zcf)
  PROVE  channels' = IF HasRecords(zcf) THEN RelaysOf(zcf, switch % 256)
                     ELSE IF Fallback[switch] # 0 THEN <<Fallback[switch]>> ELSE <<>>
<1> DEFINE q == SubSeq(s_map, 1, s_map_count)
           c == switch % 256
<1>1. pc["rx"] = "resolve"
  BY DEF UseMap, UseFallback, UseNothing
<1>2. ~Due /\ (\A t \in Tasks : ~Loading(t)) /\ Has(channels, Found(q, c, s_map_count))
  BY <1>1 DEF PressInv, FoundSoFar
<1>3. Result
  BY <1>2 DEF PressInv, MapInv, MapFollows
<1>4. (s_loaded <=> HasRecords(zcf)) /\ q = OwnOutputs(zcf)
  BY <1>3 DEF Result
<1>5. q \in Seq(Entry) /\ Len(q) = s_map_count
  BY MapSeq DEF PressInv, MapInv, MapTyped, Typed
<1>6. channels \in Seq(Relays)
  <2>1. channels \in Seq(1 .. 8)
    BY DEF PressInv, MapInv, MapTyped, Typed, PressOK
  <2>2. \A j \in 1 .. Len(channels) : channels[j] \in 0 .. 8
    BY <2>1
  <2> QED
    BY <2>1, <2>2 DEF Relays, BOARD_RELAY_COUNT
<1>7. RelaysOf(zcf, c) = First(BOARD_RELAY_COUNT, FlattenSeq(Hits(q, c)))
  BY <1>4 DEF RelaysOf, Hits
<1> HIDE DEF q, c
<1>8. channels = RelaysOf(zcf, c)
  <2>1. FlattenSeq(Hits(q, c)) = Found(q, c, s_map_count) /\ Found(q, c, s_map_count) \in Seq(Relays)
    BY <1>5, FoundAll
  <2>2. channels = First(BOARD_RELAY_COUNT, Found(q, c, s_map_count))
    BY <1>2, <1>6, <2>1, HasIsFirst
  <2> QED
    BY <1>7, <2>1, <2>2
<1>9. ASSUME ~HasRecords(zcf) PROVE channels = <<>>
  <2>1. q = <<>>
    BY <1>4, <1>9 DEF OwnOutputs
  <2>2. s_map_count = 0
    BY <1>5, <2>1
  <2>3. Found(q, c, s_map_count) = <<>>
    BY <1>5, <2>2, FoundNone
  <2>4. Len(channels) = 0
    BY <1>2, <2>3 DEF Has, AtMost, BOARD_RELAY_COUNT
  <2> QED
    BY <1>6, <2>4
<1>10. CASE UseMap
  BY <1>8, <1>9, <1>10 DEF UseMap, press, c
<1>11. CASE UseFallback
  BY <1>4, <1>11 DEF UseFallback
<1>12. CASE UseNothing
  BY <1>4, <1>8, <1>12 DEF UseNothing, press, c
<1> QED
  BY <1>10, <1>11, <1>12

\* Whatever was loaded before the press, in whatever order of tasks, and wherever the
\* circuit is in the map: the relays that are switched are those of the stored file.
THEOREM PressCorrect ==
  ASSUME Overlap = FALSE, Understood
  PROVE  Spec => PressFollowsFile
<1> DEFINE Follows ==
      /\ UseMap \/ UseFallback \/ UseNothing
      /\ steady /\ ~failed /\ ~late
      /\ zcf = NoFile \/ HasRecords(zcf)
      => channels' = IF HasRecords(zcf) THEN RelaysOf(zcf, switch % 256)
                     ELSE IF Fallback[switch] # 0 THEN <<Fallback[switch]>> ELSE <<>>
<1>1. Started => PressInv
  BY StartedPress
<1>2. Init => PressInv
  BY <1>1, InitStarted
<1>3. PressInv /\ [Next]_vars => PressInv' \/ Started'
  BY PressStep
<1>4. PressInv => Follows
  BY FollowsFile
<1>5. PressInv /\ [Next]_vars => [Follows]_vars
  BY <1>4
<1> HIDE DEF Follows
<1>6. Spec => [][Follows]_vars
  BY <1>1, <1>2, <1>3, <1>5, PTL DEF Spec
<1> QED
  BY <1>6 DEF Follows, PressFollowsFile
=============================================================================
