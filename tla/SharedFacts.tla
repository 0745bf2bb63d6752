---------------------------- MODULE SharedFacts ----------------------------
(***************************************************************************)
(* Facts that the proofs of several components share.                      *)
(*                                                                         *)
(* Induction.  The code's loops are modelled as functions defined by       *)
(* recursion over the positions of a sequence.  That such a function       *)
(* exists, and what it leaves, is proved by induction on the set of        *)
(* positions for which it holds: a statement about sets, so that it needs  *)
(* no operator as a parameter.                                             *)
(*                                                                         *)
(* The intelligence timeline.  Sorting, the cursor and the table say       *)
(* what was asserted by a moment.                                          *)
(***************************************************************************)
EXTENDS IntelTimeline, FiniteSetTheorems, WellFoundedInduction, TLAPS

(* A set with 0 and every successor has every natural number.              *)
LEMMA SetInduction ==
  ASSUME NEW T, 0 \in T, \A n \in Nat : n \in T => n + 1 \in T
  PROVE  Nat \subseteq T
<1>1. SUFFICES ASSUME ~(Nat \subseteq T) PROVE FALSE
  OBVIOUS
<1> DEFINE U == Nat \ T
           R == OpToRel(<, Nat)
<1>2. U \subseteq Nat /\ U # {}
  BY <1>1
<1>3. IsWellFoundedOn(R, Nat)
  BY NatLessThanWellFounded
<1> HIDE DEF R
<1>4. PICK x \in U : \A y \in U : ~(<< y, x >> \in R)
  BY <1>2, <1>3, WFMin
<1>5. x # 0 /\ x - 1 \in Nat /\ (x - 1) + 1 = x
  OBVIOUS
<1>6. x - 1 \in U
  BY <1>5
<1>7. << x - 1, x >> \in R
  BY <1>5 DEF R, OpToRel
<1> QED
  BY <1>4, <1>6, <1>7

(* A set of naturals with a bound has a greatest element.                  *)
LEMMA MaxExists ==
  ASSUME NEW n \in Nat, NEW S \in SUBSET (0..n), S # {}
  PROVE  Max(S) \in S /\ \A x \in S : x <= Max(S)
<1> DEFINE T == {k \in Nat : \A W \in SUBSET (0..k) :
                               W # {} => \E m \in W : \A x \in W : x <= m}
<1>1. 0 \in T
  <2> SUFFICES ASSUME NEW W \in SUBSET (0..0), W # {} PROVE \E m \in W : \A x \in W : x <= m
    OBVIOUS
  <2>1. \A x \in W : x = 0
    OBVIOUS
  <2>2. PICK m \in W : TRUE
    OBVIOUS
  <2>3. \A x \in W : x <= m
    BY <2>1, <2>2
  <2> QED
    BY <2>3
<1>2. ASSUME NEW k \in Nat, k \in T PROVE k + 1 \in T
  <2> SUFFICES ASSUME NEW W \in SUBSET (0..(k + 1)), W # {} PROVE \E m \in W : \A x \in W : x <= m
    OBVIOUS
  <2>1. CASE k + 1 \in W
    BY <2>1
  <2>2. CASE k + 1 \notin W
    <3>1. W \in SUBSET (0..k)
      <4> SUFFICES ASSUME NEW x \in W PROVE x \in 0..k
        OBVIOUS
      <4>1. x \in 0..(k + 1) /\ x # k + 1
        BY <2>2
      <4> QED
        BY <4>1
    <3> QED
      BY <1>2, <3>1
  <2> QED
    BY <2>1, <2>2
<1>3. n \in T
  <2> HIDE DEF T
  <2> QED
    BY <1>1, <1>2, SetInduction
<1>4. PICK m \in S : \A x \in S : x <= m
  BY <1>3
<1>5. \A x, y \in S : x <= y <=> y >= x
  OBVIOUS
<1> QED
  BY <1>4, <1>5 DEF Max

(* The first natural number with a property.                               *)
LEMMA LeastExists ==
  ASSUME NEW S \in SUBSET Nat, S # {}
  PROVE  \E m \in S : \A x \in S : m <= x
<1>1. PICK n \in S : TRUE
  OBVIOUS
<1> DEFINE R == OpToRel(<, Nat)
<1>2. IsWellFoundedOn(R, Nat)
  BY NatLessThanWellFounded
<1> HIDE DEF R
<1>3. PICK m \in S : \A y \in S : ~(<< y, m >> \in R)
  BY <1>2, WFMin
<1>4. \A y \in S : ~(y < m)
  BY <1>3 DEF R, OpToRel
<1>5. \A y \in S : m <= y
  BY <1>4
<1> QED
  BY <1>3, <1>5

-----------------------------------------------------------------------------
IsSequence(q) == \E S : q \in Seq(S)

(* Events of whatever beneficiaries. *)
IsIntel(q) ==
  /\ IsSequence(q)
  /\ \A i \in 1..Len(q) : q[i].ts \in Int /\ q[i].hop \in Nat

InTimeOrder(q) == \A i, j \in 1..Len(q) : i <= j => q[i].ts <= q[j].ts

LEMMA LengthIsNatural ==
  ASSUME NEW q, IsSequence(q)
  PROVE  Len(q) \in Nat /\ DOMAIN q = 1..Len(q)
BY DEF IsSequence

-----------------------------------------------------------------------------
(* Sorting *)

LEMMA PlaceExists ==
  ASSUME NEW q, IsSequence(q), \A i \in 1..Len(q) : q[i].ts \in Int,
         InTimeOrder(q), NEW t \in Int
  PROVE  \E k \in 0..Len(q) : \A i \in 1..Len(q) : (i <= k) = (q[i].ts <= t)
<1> DEFINE n == Len(q)
           S == {k \in 0..n : \A i \in 1..n : i > k => q[i].ts > t}
<1>1. n \in Nat /\ \A i \in 1..n : q[i].ts \in Int
  BY LengthIsNatural
<1>2. \A i, j \in 1..n : i <= j => q[i].ts <= q[j].ts
  BY DEF InTimeOrder
<1> HIDE DEF n
<1>3. n \in S /\ S \in SUBSET Nat
  BY <1>1
<1>4. PICK m \in S : \A x \in S : m <= x
  BY <1>3, LeastExists
<1>5. m \in 0..n /\ \A i \in 1..n : i > m => q[i].ts > t
  OBVIOUS
<1>6. m > 0 => q[m].ts <= t
  <2> SUFFICES ASSUME m > 0 PROVE q[m].ts <= t
    OBVIOUS
  <2>1. m - 1 \in 0..n /\ ~(m <= m - 1) /\ m \in 1..n
    BY <1>1, <1>5
  <2>2. m - 1 \notin S
    BY <1>4, <2>1
  <2>3. PICK i \in 1..n : i > m - 1 /\ ~(q[i].ts > t)
    BY <2>1, <2>2
  <2>4. i = m
    BY <1>1, <1>5, <2>3, <2>1
  <2> QED
    BY <1>1, <2>1, <2>3, <2>4
<1>7. ASSUME NEW i \in 1..n PROVE i <= m <=> q[i].ts <= t
  <2>1. CASE i <= m
    <3>1. m \in 1..n /\ m > 0
      BY <1>1, <1>5, <2>1
    <3>2. q[i].ts <= q[m].ts /\ q[m].ts <= t
      BY <1>2, <1>6, <2>1, <3>1
    <3> QED
      BY <1>1, <2>1, <3>1, <3>2
  <2>2. CASE ~(i <= m)
    BY <1>1, <1>5, <2>2
  <2> QED
    BY <2>1, <2>2
<1> QED
  BY <1>5, <1>7 DEF n

(* r is q with e in its place. *)
InsertionOf(r, q, e) ==
  /\ IsIntel(r) /\ InTimeOrder(r)
  /\ Len(r) = Len(q) + 1
  /\ ToSet(r) = ToSet(q) \cup {e}

(* r is q with e behind its first k elements. *)
SplicedAt(r, q, k, e) ==
  /\ Len(r) = Len(q) + 1
  /\ \A i \in 1..(Len(q) + 1) :
       r[i] = IF i <= k THEN q[i] ELSE IF i = k + 1 THEN e ELSE q[i - 1]

LEMMA InsertAtElements ==
  ASSUME NEW S, NEW q \in Seq(S), NEW e \in S, NEW k \in 0..Len(q)
  PROVE  InsertAt(q, k + 1, e) \in Seq(S) /\ SplicedAt(InsertAt(q, k + 1, e), q, k, e)
<1>1. Len(q) \in Nat /\ k \in Nat /\ k <= Len(q) /\ (k + 1) - 1 = k
  OBVIOUS
<1>2. SubSeq(q, 1, k) \in Seq(S) /\ Len(SubSeq(q, 1, k)) = k
      /\ \A i \in 1..k : SubSeq(q, 1, k)[i] = q[i]
  BY <1>1
<1>3. SubSeq(q, k + 1, Len(q)) \in Seq(S) /\ Len(SubSeq(q, k + 1, Len(q))) = Len(q) - k
      /\ \A i \in 1..(Len(q) - k) : SubSeq(q, k + 1, Len(q))[i] = q[k + i]
  BY <1>1
<1> DEFINE a == SubSeq(q, 1, k)
           b == SubSeq(q, k + 1, Len(q))
<1>4. InsertAt(q, k + 1, e) = (a \o << e >>) \o b
  BY <1>1 DEF InsertAt
<1>5. a \in Seq(S) /\ Len(a) = k /\ b \in Seq(S) /\ Len(b) = Len(q) - k /\ << e >> \in Seq(S)
  BY <1>2, <1>3
<1>6. /\ \A i \in 1..k : a[i] = q[i]
      /\ \A i \in 1..(Len(q) - k) : b[i] = q[k + i]
  BY <1>2, <1>3
<1> HIDE DEF a, b
<1>7. (a \o << e >>) \in Seq(S) /\ Len(a \o << e >>) = k + 1
      /\ \A i \in 1..(k + 1) : (a \o << e >>)[i] = IF i <= k THEN a[i] ELSE e
  <2>1. Len(<< e >>) = 1 /\ << e >>[1] = e
    OBVIOUS
  <2>2. (a \o << e >>) \in Seq(S) /\ Len(a \o << e >>) = k + 1
    BY <1>1, <1>5, <2>1
  <2>3. ASSUME NEW i \in 1..(k + 1), i <= k PROVE (a \o << e >>)[i] = a[i]
    BY <1>1, <1>5, <2>1, <2>3
  <2>4. (a \o << e >>)[k + 1] = e
    BY <1>1, <1>5, <2>1
  <2>5. \A i \in 1..(k + 1) : i <= k \/ i = k + 1
    BY <1>1
  <2>6. ~(k + 1 <= k)
    BY <1>1
  <2> QED
    BY <2>2, <2>3, <2>4, <2>5, <2>6
<1> DEFINE c == a \o << e >>
<1>8. c \in Seq(S) /\ Len(c) = k + 1 /\ \A i \in 1..(k + 1) : c[i] = IF i <= k THEN a[i] ELSE e
  BY <1>7
<1> HIDE DEF c
<1>9. (c \o b) \in Seq(S) /\ Len(c \o b) = Len(q) + 1
      /\ \A i \in 1..(Len(q) + 1) : (c \o b)[i] = IF i <= k + 1 THEN c[i] ELSE b[i - (k + 1)]
  BY <1>1, <1>5, <1>8
<1>10. ASSUME NEW i \in 1..(Len(q) + 1)
       PROVE  (c \o b)[i] = IF i <= k THEN q[i] ELSE IF i = k + 1 THEN e ELSE q[i - 1]
  <2>1. CASE i <= k
    BY SMTT(30), <1>1, <1>6, <1>8, <1>9, <2>1
  <2>2. CASE i = k + 1
    BY <1>1, <1>8, <1>9, <2>2
  <2>3. CASE i > k + 1
    <3>1. i - (k + 1) \in 1..(Len(q) - k) /\ k + (i - (k + 1)) = i - 1
      BY <1>1, <2>3
    <3> QED
      BY <1>1, <1>6, <1>9, <2>3, <3>1
  <2>4. i <= k \/ i = k + 1 \/ i > k + 1
    BY <1>1
  <2> QED
    BY <2>1, <2>2, <2>3, <2>4
<1>11. InsertAt(q, k + 1, e) = c \o b
  BY <1>4 DEF c
<1>12. SplicedAt(c \o b, q, k, e)
  BY <1>9, <1>10 DEF SplicedAt
<1> QED
  BY <1>9, <1>11, <1>12

LEMMA InsertedIsInsertion ==
  ASSUME NEW q, IsIntel(q), InTimeOrder(q), NEW e, e.ts \in Int, e.hop \in Nat
  PROVE  InsertionOf(Inserted(q, e), q, e)
<1> DEFINE n == Len(q)
           k == CHOOSE k \in 0..Len(q) : \A i \in 1..Len(q) : (i <= k) = (q[i].ts <= e.ts)
           r == Inserted(q, e)
<1>1. n \in Nat /\ DOMAIN q = 1..n /\ \A i \in 1..n : q[i].ts \in Int /\ q[i].hop \in Nat
  BY LengthIsNatural DEF IsIntel
<1>2. \A i, j \in 1..n : i <= j => q[i].ts <= q[j].ts
  BY DEF InTimeOrder
<1>3. k \in 0..n /\ \A i \in 1..n : (i <= k) = (q[i].ts <= e.ts)
  BY PlaceExists DEF IsIntel
<1>4. PICK S : q \in Seq(S)
  BY DEF IsIntel, IsSequence
<1>5. r = InsertAt(q, k + 1, e)
  BY DEF Inserted
<1> HIDE DEF k, r
<1>6. q \in Seq(S \cup {e}) /\ e \in S \cup {e} /\ k \in 0..Len(q)
  BY <1>3, <1>4
<1> DEFINE E == S \cup {e}
<1>60. q \in Seq(E) /\ e \in E /\ k \in 0..Len(q)
  BY <1>6
<1> HIDE DEF E
<1>7. /\ r \in Seq(E) /\ Len(r) = n + 1
      /\ \A i \in 1..(n + 1) : r[i] = IF i <= k THEN q[i] ELSE IF i = k + 1 THEN e ELSE q[i - 1]
  <2>1. r \in Seq(E) /\ SplicedAt(r, q, k, e)
    BY <1>5, <1>60, InsertAtElements
  <2> QED
    BY <2>1 DEF SplicedAt, n
<1> HIDE DEF n
<1>8. DOMAIN r = 1..(n + 1) /\ IsSequence(r)
  BY <1>7, LengthIsNatural DEF IsSequence
<1>9. /\ \A i \in 1..(n + 1) : i <= k => i \in 1..n /\ r[i] = q[i] /\ r[i].ts <= e.ts
      /\ \A i \in 1..(n + 1) : i = k + 1 => r[i] = e
      /\ \A i \in 1..(n + 1) : i > k + 1 => i - 1 \in 1..n /\ r[i] = q[i - 1] /\ e.ts < r[i].ts
  <2>1. ASSUME NEW i \in 1..(n + 1), i <= k
        PROVE  i \in 1..n /\ r[i] = q[i] /\ r[i].ts <= e.ts
    <3>1. i \in 1..n /\ r[i] = q[i]
      BY <1>1, <1>3, <1>7, <2>1
    <3> QED
      BY <1>3, <2>1, <3>1
  <2>2. ASSUME NEW i \in 1..(n + 1), i = k + 1 PROVE r[i] = e
    <3>1. ~(i <= k)
      BY <1>1, <1>3, <2>2
    <3> QED
      BY <1>7, <2>2, <3>1
  <2>3. ASSUME NEW i \in 1..(n + 1), i > k + 1
        PROVE  i - 1 \in 1..n /\ r[i] = q[i - 1] /\ e.ts < r[i].ts
    <3>1. i - 1 \in 1..n /\ ~(i <= k) /\ i # k + 1 /\ ~(i - 1 <= k)
      BY <1>1, <1>3, <2>3
    <3>2. r[i] = q[i - 1]
      BY <1>7, <2>3, <3>1
    <3>3. ~(q[i - 1].ts <= e.ts)
      BY <1>3, <3>1
    <3> QED
      BY <1>1, <3>1, <3>2, <3>3
  <2> QED
    BY <2>1, <2>2, <2>3
<1>10. \A i \in 1..(n + 1) : r[i].ts \in Int /\ r[i].hop \in Nat
  <2> TAKE i \in 1..(n + 1)
  <2>1. i <= k \/ i = k + 1 \/ i > k + 1
    BY <1>1, <1>3
  <2> QED
    BY <1>1, <1>9, <2>1
<1>11. ASSUME NEW i \in 1..(n + 1), NEW j \in 1..(n + 1), i <= j PROVE r[i].ts <= r[j].ts
  <2>1. CASE j <= k
    <3>1. i <= k /\ i \in 1..n /\ j \in 1..n
      BY <1>1, <1>3, <1>11, <2>1
    <3> QED
      BY <1>2, <1>9, <1>11, <2>1, <3>1
  <2>2. CASE i > k + 1
    <3>1. j > k + 1 /\ i - 1 <= j - 1
      BY <1>1, <1>3, <1>11, <2>2
    <3> QED
      BY <1>2, <1>9, <2>2, <3>1
  <2>3. CASE i <= k + 1 /\ j > k
    <3>1. (i <= k \/ i = k + 1) /\ (j = k + 1 \/ j > k + 1)
      BY <1>1, <1>3, <2>3
    <3>2. r[i].ts <= e.ts /\ e.ts <= r[j].ts
      BY <1>9, <1>10, <3>1
    <3> QED
      BY <1>10, <3>2
  <2> QED
    BY <1>1, <1>3, <2>1, <2>2, <2>3
<1>12. ToSet(r) = ToSet(q) \cup {e}
  <2>1. \A i \in 1..(n + 1) : r[i] \in ToSet(q) \cup {e}
    <3> TAKE i \in 1..(n + 1)
    <3>1. i <= k \/ i = k + 1 \/ i > k + 1
      BY <1>1, <1>3
    <3> QED
      BY <1>1, <1>9, <3>1 DEF ToSet
  <2>2. \A i \in 1..n : \E j \in 1..(n + 1) : r[j] = q[i]
    <3> TAKE i \in 1..n
    <3>1. CASE i <= k
      <4>1. i \in 1..(n + 1)
        BY <1>1
      <4> QED
        BY <1>9, <3>1, <4>1
    <3>2. CASE i > k
      <4>1. i + 1 \in 1..(n + 1) /\ i + 1 > k + 1 /\ (i + 1) - 1 = i
        BY <1>1, <1>3, <3>2
      <4> QED
        BY <1>9, <4>1
    <3> QED
      BY <1>1, <1>3, <3>1, <3>2
  <2>3. k + 1 \in 1..(n + 1) /\ r[k + 1] = e
    <3>1. k + 1 \in 1..(n + 1)
      BY <1>1, <1>3
    <3> QED
      BY <1>9, <3>1
  <2> QED
    BY <1>1, <1>8, <2>1, <2>2, <2>3 DEF ToSet
<1> QED
  BY <1>7, <1>8, <1>10, <1>11, <1>12 DEF InsertionOf, IsIntel, InTimeOrder, n, r

(* The recursion of SortedByTime, through the first n events.                *)
SortingFollows(f, events, n) ==
  /\ f = [i \in 0..n |-> f[i]]
  /\ f[0] = << >>
  /\ \A i \in 1..n : f[i] = Inserted(f[i - 1], events[i])

LEMMA SortingExists ==
  ASSUME NEW events, NEW n \in Nat
  PROVE  \E f : SortingFollows(f, events, n)
<1> DEFINE T == {k \in Nat : \E f : SortingFollows(f, events, k)}
<1>1. 0 \in T
  <2> DEFINE f == [i \in 0..0 |-> << >>]
  <2>1. f[0] = << >> /\ f = [i \in 0..0 |-> f[i]]
    OBVIOUS
  <2> HIDE DEF f
  <2>2. SortingFollows(f, events, 0)
    BY <2>1 DEF SortingFollows
  <2> QED
    BY <2>2
<1>2. ASSUME NEW k \in Nat, k \in T PROVE k + 1 \in T
  <2>1. PICK f : SortingFollows(f, events, k)
    BY <1>2
  <2>2. PICK next : next = Inserted(f[k], events[(k + 1)])
    OBVIOUS
  <2> DEFINE g == [i \in 0..(k + 1) |-> IF i <= k THEN f[i] ELSE next]
  <2>3. g = [i \in 0..(k + 1) |-> g[i]] /\ g[0] = << >>
    BY <2>1 DEF SortingFollows
  <2>4. ASSUME NEW i \in 1..(k + 1) PROVE g[i] = Inserted(g[i - 1], events[i])
    <3>1. g[i - 1] = f[i - 1]
      OBVIOUS
    <3>2. CASE i <= k
      <4>1. i \in 1..k /\ g[i] = f[i]
        BY <3>2
      <4> QED
        BY <2>1, <3>1, <4>1 DEF SortingFollows
    <3>3. CASE ~(i <= k)
      <4>1. i = k + 1 /\ i - 1 = k /\ g[i] = next
        BY <3>3
      <4> QED
        BY <2>2, <3>1, <4>1
    <3> QED
      BY <3>2, <3>3
  <2> HIDE DEF g
  <2>5. SortingFollows(g, events, k + 1)
    BY <2>3, <2>4 DEF SortingFollows
  <2> QED
    BY <2>5
<1> HIDE DEF T
<1>3. Nat \subseteq T
  BY <1>1, <1>2, SetInduction
<1>4. n \in T
  BY <1>3
<1> QED
  BY <1>4 DEF T

LEMMA SortingUnfolds ==
  ASSUME NEW events, Len(events) \in Nat
  PROVE  \E f : SortingFollows(f, events, Len(events)) /\ SortedByTime(events) = f[Len(events)]
<1> DEFINE n == Len(events)
           Body(g) == [i \in 0..n |-> IF i = 0 THEN << >> ELSE Inserted(g[i - 1], events[i])]
           after == CHOOSE g : g = Body(g)
<1>1. SortedByTime(events) = after[n]
  BY DEF SortedByTime
<1>2. n \in Nat
  OBVIOUS
<1>3. \E g : g = Body(g)
  <2>1. PICK f : SortingFollows(f, events, n)
    BY <1>2, SortingExists
  <2>2. f = [i \in 0..n |-> f[i]]
    BY <2>1 DEF SortingFollows
  <2>3. \A i \in 0..n : f[i] = IF i = 0 THEN << >> ELSE Inserted(f[i - 1], events[i])
    <3> TAKE i \in 0..n
    <3>1. CASE i = 0
      BY <2>1, <3>1 DEF SortingFollows
    <3>2. CASE i # 0
      <4>1. i \in 1..n
        BY <1>2, <3>2
      <4> QED
        BY <2>1, <3>2, <4>1 DEF SortingFollows
    <3> QED
      BY <3>1, <3>2
  <2>4. f = Body(f)
    BY <2>2, <2>3
  <2> QED
    BY <2>4
<1>4. after = Body(after)
  BY <1>3
<1> HIDE DEF after
<1>5. \A i \in 0..n : after[i] = IF i = 0 THEN << >> ELSE Inserted(after[i - 1], events[i])
  BY <1>4
<1>6. after[0] = << >> /\ \A i \in 1..n : after[i] = Inserted(after[i - 1], events[i])
  <2>1. 0 \in 0..n /\ \A i \in 1..n : i \in 0..n /\ i # 0
    BY <1>2
  <2> QED
    BY <1>5, <2>1
<1>7. after = [i \in 0..n |-> after[i]]
  BY <1>4
<1> HIDE DEF Body, n
<1>8. SortingFollows(after, events, n)
  BY <1>6, <1>7 DEF SortingFollows
<1> QED
  BY <1>1, <1>8 DEF n

LEMMA SortedByTimeIsSorted ==
  ASSUME NEW events, IsIntel(events)
  PROVE  /\ IsIntel(SortedByTime(events)) /\ InTimeOrder(SortedByTime(events))
         /\ ToSet(SortedByTime(events)) = ToSet(events)
<1> DEFINE n == Len(events)
<1>1. n \in Nat /\ DOMAIN events = 1..n /\ \A i \in 1..n : events[i].ts \in Int /\ events[i].hop \in Nat
  BY LengthIsNatural DEF IsIntel
<1> HIDE DEF n
<1>2. PICK f : SortingFollows(f, events, n) /\ SortedByTime(events) = f[n]
  BY <1>1, SortingUnfolds DEF n
<1> DEFINE Sorts(q, k) == /\ IsIntel(q) /\ InTimeOrder(q)
                          /\ ToSet(q) = {events[i] : i \in 1..k}
           T == {k \in Nat : k <= n => Sorts(f[k], k)}
<1>3. 0 \in T
  <2>1. << >> \in Seq({}) /\ Len(<< >>) = 0 /\ ToSet(<< >>) = {}
    BY DEF ToSet
  <2>2. IsIntel(<< >>) /\ InTimeOrder(<< >>) /\ ToSet(<< >>) = {events[i] : i \in 1..0}
    BY <2>1 DEF IsIntel, IsSequence, InTimeOrder
  <2> QED
    BY <1>2, <2>2 DEF SortingFollows
<1>4. ASSUME NEW k \in Nat, k \in T PROVE k + 1 \in T
  <2> SUFFICES ASSUME k + 1 <= n PROVE Sorts(f[k + 1], k + 1)
    OBVIOUS
  <2>1. k + 1 \in 1..n /\ (k + 1) - 1 = k /\ k <= n
    BY <1>1
  <2>2. Sorts(f[k], k)
    BY <1>4, <2>1
  <2>3. f[k + 1] = Inserted(f[k], events[k + 1])
    BY <1>2, <2>1 DEF SortingFollows
  <2>4. InsertionOf(f[k + 1], f[k], events[k + 1])
    BY <1>1, <2>1, <2>2, <2>3, InsertedIsInsertion
  <2>5. {events[i] : i \in 1..(k + 1)} = {events[i] : i \in 1..k} \cup {events[k + 1]}
    <3>1. 1..(k + 1) = 1..k \cup {k + 1}
      OBVIOUS
    <3> QED
      BY <3>1
  <2> QED
    BY <2>2, <2>4, <2>5 DEF InsertionOf
<1> HIDE DEF T
<1>5. Nat \subseteq T
  BY <1>3, <1>4, SetInduction
<1>6. Sorts(f[n], n)
  BY <1>1, <1>5 DEF T
<1> QED
  BY <1>1, <1>2, <1>6 DEF ToSet

-----------------------------------------------------------------------------
(* Folding *)

(* known is what the first c events say. *)
KnownBy(known, events, c) ==
  /\ DOMAIN known = {events[i].payee : i \in 1..c}
  /\ \A p \in DOMAIN known :
       /\ known[p].confirmed = (\E i \in 1..c : events[i].payee = p /\ events[i].hop = 0)
       /\ \E i \in 1..c : events[i].payee = p /\ events[i].hop = known[p].hop
       /\ \A i \in 1..c : events[i].payee = p => known[p].hop <= events[i].hop

LEMMA MinOfTwo ==
  ASSUME NEW a \in Nat, NEW b \in Nat
  PROVE  Min({a, b}) = IF a <= b THEN a ELSE b
<1>1. \E x \in {a, b} : \A y \in {a, b} : x <= y
  <2>1. CASE a <= b
    BY <2>1
  <2>2. CASE b <= a
    BY <2>2
  <2> QED
    BY <2>1, <2>2
<1>2. Min({a, b}) \in {a, b} /\ \A y \in {a, b} : Min({a, b}) <= y
  BY <1>1 DEF Min
<1> QED
  BY <1>2

LEMMA FoldOne ==
  ASSUME NEW events, IsIntel(events), NEW c \in Nat, c + 1 <= Len(events),
         NEW known, KnownBy(known, events, c)
  PROVE  KnownBy(Fold(known, events[c + 1]), events, c + 1)
<1> DEFINE e == events[c + 1]
           old == IF e.payee \in DOMAIN known THEN known[e.payee]
                  ELSE [confirmed |-> FALSE, hop |-> e.hop]
           new == [confirmed |-> old.confirmed \/ e.hop = 0, hop |-> Min({old.hop, e.hop})]
           r == Fold(known, e)
<1>1. /\ Len(events) \in Nat /\ c + 1 \in 1..Len(events)
      /\ \A i \in 1..(c + 1) : events[i].hop \in Nat
  BY LengthIsNatural DEF IsIntel
<1>2. 1..(c + 1) = 1..c \cup {c + 1}
  OBVIOUS
<1>3. DOMAIN r = {events[i].payee : i \in 1..(c + 1)}
  <2>1. DOMAIN r = DOMAIN known \cup {e.payee}
    BY DEF Fold
  <2> QED
    BY <1>2, <2>1 DEF KnownBy
<1>4. r = [p \in DOMAIN known \cup {e.payee} |-> IF p = e.payee THEN new ELSE known[p]]
  BY DEF Fold
<1>5. ASSUME NEW p \in DOMAIN r, p # e.payee
      PROVE  /\ r[p].confirmed = (\E i \in 1..(c + 1) : events[i].payee = p /\ events[i].hop = 0)
             /\ \E i \in 1..(c + 1) : events[i].payee = p /\ events[i].hop = r[p].hop
             /\ \A i \in 1..(c + 1) : events[i].payee = p => r[p].hop <= events[i].hop
  <2>1. p \in DOMAIN known /\ r[p] = known[p]
    BY <1>4, <1>5
  <2>2. \A i \in 1..(c + 1) : events[i].payee = p => i \in 1..c
    BY <1>2, <1>5
  <2>3. \A i \in 1..c : i \in 1..(c + 1)
    BY <1>2
  <2> HIDE DEF r, e
  <2>4. /\ r[p].confirmed = (\E i \in 1..c : events[i].payee = p /\ events[i].hop = 0)
        /\ \E i \in 1..c : events[i].payee = p /\ events[i].hop = r[p].hop
        /\ \A i \in 1..c : events[i].payee = p => r[p].hop <= events[i].hop
    <3>1. PICK k : k = known[p]
      OBVIOUS
    <3>2. /\ k.confirmed = (\E i \in 1..c : events[i].payee = p /\ events[i].hop = 0)
          /\ \E i \in 1..c : events[i].payee = p /\ events[i].hop = k.hop
          /\ \A i \in 1..c : events[i].payee = p => k.hop <= events[i].hop
      BY <2>1, <3>1, Zenon DEF KnownBy
    <3> QED
      BY <2>1, <3>1, <3>2, Zenon
  <2>5. (\E i \in 1..(c + 1) : events[i].payee = p /\ events[i].hop = 0)
          <=> (\E i \in 1..c : events[i].payee = p /\ events[i].hop = 0)
    BY <2>2, <2>3
  <2> QED
    BY <2>2, <2>3, <2>4, <2>5, Zenon
<1>6. ASSUME NEW p \in DOMAIN r, p = e.payee
      PROVE  /\ r[p].confirmed = (\E i \in 1..(c + 1) : events[i].payee = p /\ events[i].hop = 0)
             /\ \E i \in 1..(c + 1) : events[i].payee = p /\ events[i].hop = r[p].hop
             /\ \A i \in 1..(c + 1) : events[i].payee = p => r[p].hop <= events[i].hop
  <2>1. r[p] = new
    BY <1>4, <1>6
  <2>2. /\ old.hop \in Nat
        /\ old.confirmed = (\E i \in 1..c : events[i].payee = p /\ events[i].hop = 0)
        /\ (\E i \in 1..c : events[i].payee = p /\ events[i].hop = old.hop) \/ old.hop = e.hop
        /\ \A i \in 1..c : events[i].payee = p => old.hop <= events[i].hop
    <3>1. CASE e.payee \in DOMAIN known
      <4>1. old = known[p] /\ p \in DOMAIN known
        BY <1>6, <3>1
      <4> HIDE DEF old, e, r
      <4>2. PICK i \in 1..c : events[i].payee = p /\ events[i].hop = old.hop
        BY <4>1 DEF KnownBy
      <4>3. old.hop \in Nat
        BY <1>1, <1>2, <4>2
      <4> QED
        BY <4>1, <4>2, <4>3 DEF KnownBy
    <3>2. CASE e.payee \notin DOMAIN known
      <4>1. old = [confirmed |-> FALSE, hop |-> e.hop]
        BY <3>2
      <4>2. \A i \in 1..c : events[i].payee # p
        BY <1>6, <3>2 DEF KnownBy
      <4>3. e.hop \in Nat
        BY <1>1, <1>2
      <4> HIDE DEF old, e, r
      <4> QED
        BY <4>1, <4>2, <4>3
    <3> QED
      BY <3>1, <3>2
  <2>3. e.hop \in Nat /\ events[c + 1] = e /\ e.payee = p
    BY <1>1, <1>2, <1>6
  <2>4. r[p].hop = (IF old.hop <= e.hop THEN old.hop ELSE e.hop)
    BY <2>1, <2>2, <2>3, MinOfTwo
  <2>5. r[p].confirmed = (old.confirmed \/ e.hop = 0)
    BY <2>1
  <2> HIDE DEF old, e, r, new
  <2>6. r[p].confirmed = (\E i \in 1..(c + 1) : events[i].payee = p /\ events[i].hop = 0)
    BY <1>2, <2>2, <2>3, <2>5
  <2>7. \E i \in 1..(c + 1) : events[i].payee = p /\ events[i].hop = r[p].hop
    BY <1>2, <2>2, <2>3, <2>4
  <2>8. ASSUME NEW i \in 1..(c + 1), events[i].payee = p PROVE r[p].hop <= events[i].hop
    <3>1. CASE i = c + 1
      BY <2>2, <2>3, <2>4, <3>1
    <3>2. CASE i # c + 1
      <4>1. i \in 1..c /\ events[i].hop \in Nat
        BY <1>1, <1>2, <3>2
      <4>2. old.hop <= events[i].hop
        BY <2>2, <2>8, <4>1
      <4> QED
        BY <2>2, <2>3, <2>4, <4>1, <4>2
    <3> QED
      BY <3>1, <3>2
  <2> QED
    BY <2>6, <2>7, <2>8
<1> HIDE DEF r
<1>7. KnownBy(r, events, c + 1)
  BY <1>3, <1>5, <1>6 DEF KnownBy
<1> QED
  BY <1>7 DEF r

(* The recursion of FoldNext, through the first n events.                    *)
FoldingFollows(f, known, events, from, n) ==
  /\ f = [i \in 0..n |-> f[i]]
  /\ f[0] = known
  /\ \A i \in 1..n : f[i] = Fold(f[i - 1], events[from + i])

LEMMA FoldingExists ==
  ASSUME NEW known, NEW events, NEW from, NEW n \in Nat
  PROVE  \E f : FoldingFollows(f, known, events, from, n)
<1> DEFINE T == {k \in Nat : \E f : FoldingFollows(f, known, events, from, k)}
<1>1. 0 \in T
  <2> DEFINE f == [i \in 0..0 |-> known]
  <2>1. f[0] = known /\ f = [i \in 0..0 |-> f[i]]
    OBVIOUS
  <2> HIDE DEF f
  <2>2. FoldingFollows(f, known, events, from, 0)
    BY <2>1 DEF FoldingFollows
  <2> QED
    BY <2>2
<1>2. ASSUME NEW k \in Nat, k \in T PROVE k + 1 \in T
  <2>1. PICK f : FoldingFollows(f, known, events, from, k)
    BY <1>2
  <2>2. PICK next : next = Fold(f[k], events[from + (k + 1)])
    OBVIOUS
  <2> DEFINE g == [i \in 0..(k + 1) |-> IF i <= k THEN f[i] ELSE next]
  <2>3. g = [i \in 0..(k + 1) |-> g[i]] /\ g[0] = known
    BY <2>1 DEF FoldingFollows
  <2>4. ASSUME NEW i \in 1..(k + 1) PROVE g[i] = Fold(g[i - 1], events[from + i])
    <3>1. g[i - 1] = f[i - 1]
      OBVIOUS
    <3>2. CASE i <= k
      <4>1. i \in 1..k /\ g[i] = f[i]
        BY <3>2
      <4> QED
        BY <2>1, <3>1, <4>1 DEF FoldingFollows
    <3>3. CASE ~(i <= k)
      <4>1. i = k + 1 /\ i - 1 = k /\ g[i] = next
        BY <3>3
      <4> QED
        BY <2>2, <3>1, <4>1
    <3> QED
      BY <3>2, <3>3
  <2> HIDE DEF g
  <2>5. FoldingFollows(g, known, events, from, k + 1)
    BY <2>3, <2>4 DEF FoldingFollows
  <2> QED
    BY <2>5
<1> HIDE DEF T
<1>3. Nat \subseteq T
  BY <1>1, <1>2, SetInduction
<1>4. n \in T
  BY <1>3
<1> QED
  BY <1>4 DEF T

LEMMA FoldingUnfolds ==
  ASSUME NEW known, NEW events, NEW from, NEW m \in Nat
  PROVE  \E f : FoldingFollows(f, known, events, from, m) /\ FoldNext(known, events, from, m) = f[m]
<1> DEFINE n == m
           Body(g) == [i \in 0..n |-> IF i = 0 THEN known ELSE Fold(g[i - 1], events[from + i])]
           after == CHOOSE g : g = Body(g)
<1>1. FoldNext(known, events, from, m) = after[n]
  BY DEF FoldNext
<1>2. n \in Nat
  OBVIOUS
<1>3. \E g : g = Body(g)
  <2>1. PICK f : FoldingFollows(f, known, events, from, n)
    BY <1>2, FoldingExists
  <2>2. f = [i \in 0..n |-> f[i]]
    BY <2>1 DEF FoldingFollows
  <2>3. \A i \in 0..n : f[i] = IF i = 0 THEN known ELSE Fold(f[i - 1], events[from + i])
    <3> TAKE i \in 0..n
    <3>1. CASE i = 0
      BY <2>1, <3>1 DEF FoldingFollows
    <3>2. CASE i # 0
      <4>1. i \in 1..n
        BY <1>2, <3>2
      <4> QED
        BY <2>1, <3>2, <4>1 DEF FoldingFollows
    <3> QED
      BY <3>1, <3>2
  <2>4. f = Body(f)
    BY <2>2, <2>3
  <2> QED
    BY <2>4
<1>4. after = Body(after)
  BY <1>3
<1> HIDE DEF after
<1>5. \A i \in 0..n : after[i] = IF i = 0 THEN known ELSE Fold(after[i - 1], events[from + i])
  BY <1>4
<1>6. after[0] = known /\ \A i \in 1..n : after[i] = Fold(after[i - 1], events[from + i])
  <2>1. 0 \in 0..n /\ \A i \in 1..n : i \in 0..n /\ i # 0
    BY <1>2
  <2> QED
    BY <1>5, <2>1
<1>7. after = [i \in 0..n |-> after[i]]
  BY <1>4
<1> HIDE DEF Body, n
<1>8. FoldingFollows(after, known, events, from, n)
  BY <1>6, <1>7 DEF FoldingFollows
<1> QED
  BY <1>1, <1>8 DEF n

LEMMA FoldNextKnows ==
  ASSUME NEW events, IsIntel(events), NEW c \in Nat, NEW m \in Nat, c + m <= Len(events),
         NEW known, KnownBy(known, events, c)
  PROVE  KnownBy(FoldNext(known, events, c, m), events, c + m)
<1>1. PICK f : FoldingFollows(f, known, events, c, m) /\ FoldNext(known, events, c, m) = f[m]
  BY FoldingUnfolds
<1> DEFINE T == {k \in Nat : k <= m => KnownBy(f[k], events, c + k)}
<1>2. 0 \in T
  <2>1. f[0] = known /\ c + 0 = c
    BY <1>1 DEF FoldingFollows
  <2> QED
    BY <2>1
<1>3. ASSUME NEW k \in Nat, k \in T PROVE k + 1 \in T
  <2> SUFFICES ASSUME k + 1 <= m PROVE KnownBy(f[k + 1], events, c + (k + 1))
    OBVIOUS
  <2>1. k + 1 \in 1..m /\ (k + 1) - 1 = k /\ k <= m
    OBVIOUS
  <2>2. KnownBy(f[k], events, c + k)
    BY <1>3, <2>1
  <2>3. f[k + 1] = Fold(f[k], events[c + (k + 1)])
    BY <1>1, <2>1 DEF FoldingFollows
  <2>4. c + k \in Nat /\ (c + k) + 1 <= Len(events) /\ c + (k + 1) = (c + k) + 1
    BY <2>1, LengthIsNatural DEF IsIntel
  <2>5. KnownBy(Fold(f[k], events[(c + k) + 1]), events, (c + k) + 1)
    BY <2>2, <2>4, FoldOne
  <2> QED
    BY <2>3, <2>4, <2>5
<1> HIDE DEF T
<1>4. Nat \subseteq T
  BY <1>2, <1>3, SetInduction
<1>5. m \in T
  BY <1>4
<1> QED
  BY <1>1, <1>5 DEF T

-----------------------------------------------------------------------------
(* Timelines *)

(* A timeline over the events of all: they are in time order, and what is  *)
(* known is what those before the cursor say.                              *)
TimelineOf(timeline, all) ==
  /\ timeline = [cursor |-> timeline.cursor, events |-> timeline.events, known |-> timeline.known]
  /\ IsIntel(timeline.events) /\ InTimeOrder(timeline.events)
  /\ ToSet(timeline.events) = ToSet(all)
  /\ timeline.cursor \in 0..Len(timeline.events)
  /\ KnownBy(timeline.known, timeline.events, timeline.cursor)

(* It stands at moment h. *)
StandsAt(timeline, h) ==
  \A i \in 1..Len(timeline.events) : i <= timeline.cursor <=> timeline.events[i].ts <= h

(* r is timeline moved on to a moment. *)
MovedOn(r, timeline, now) ==
  /\ r.events = timeline.events
  /\ \A i \in 1..Len(timeline.events) :
       i <= r.cursor <=> (i <= timeline.cursor \/ timeline.events[i].ts <= now)

LEMMA NewTimelineIsTimeline ==
  ASSUME NEW all, IsIntel(all)
  PROVE  TimelineOf(NewTimeline(all), all) /\ NewTimeline(all).cursor = 0
<1> DEFINE t == NewTimeline(all)
<1>1. t = [cursor |-> 0, events |-> SortedByTime(all), known |-> << >>]
  BY DEF NewTimeline
<1> HIDE DEF t
<1>2. t.cursor = 0 /\ t.events = SortedByTime(all) /\ t.known = << >>
      /\ t = [cursor |-> t.cursor, events |-> t.events, known |-> t.known]
  BY <1>1
<1>3. IsIntel(t.events) /\ InTimeOrder(t.events) /\ ToSet(t.events) = ToSet(all)
  BY <1>2, SortedByTimeIsSorted
<1>4. 0 \in 0..Len(t.events)
  BY <1>3, LengthIsNatural DEF IsIntel
<1>5. KnownBy(<< >>, t.events, 0)
  <2>1. DOMAIN << >> = {}
    OBVIOUS
  <2> QED
    BY <2>1 DEF KnownBy
<1> QED
  BY <1>2, <1>3, <1>4, <1>5 DEF TimelineOf, t

LEMMA AdvanceMovesOn ==
  ASSUME NEW timeline, NEW all, TimelineOf(timeline, all), NEW now \in Int
  PROVE  /\ TimelineOf(AdvanceTo(timeline, now), all)
         /\ MovedOn(AdvanceTo(timeline, now), timeline, now)
<1> DEFINE from == timeline.cursor
           events == timeline.events
           n == Len(events)
           due == {i \in from + 1 .. n : \A j \in from + 1 .. i : events[j].ts <= now}
           last == Max({from} \cup due)
           known == FoldNext(timeline.known, events, from, last - from)
           r == AdvanceTo(timeline, now)
<1>1. /\ timeline = [cursor |-> from, events |-> events, known |-> timeline.known]
      /\ IsIntel(events) /\ InTimeOrder(events) /\ ToSet(events) = ToSet(all)
      /\ from \in 0..n /\ KnownBy(timeline.known, events, from)
  BY DEF TimelineOf
<1>2. n \in Nat /\ \A i \in 1..n : events[i].ts \in Int
  BY <1>1, LengthIsNatural DEF IsIntel
<1>3. \A i, j \in 1..n : i <= j => events[i].ts <= events[j].ts
  BY <1>1 DEF InTimeOrder
<1>4. r = [timeline EXCEPT !.cursor = last, !.known = known]
  BY DEF AdvanceTo
<1> HIDE DEF from, events, n, r, known
<1>5. last \in {from} \cup due /\ \A x \in {from} \cup due : x <= last
  <2>1. {from} \cup due \in SUBSET (0..n) /\ {from} \cup due # {}
    BY <1>1, <1>2
  <2> HIDE DEF due
  <2> QED
    BY <1>2, <2>1, MaxExists
<1> HIDE DEF last
<1>6. from \in Nat /\ last \in 0..n /\ from <= last /\ last - from \in Nat
      /\ from + (last - from) = last
  BY <1>1, <1>2, <1>5
<1>7. KnownBy(known, events, last)
  BY <1>1, <1>2, <1>6, FoldNextKnows DEF known, n
<1>8. r.cursor = last /\ r.events = events /\ r.known = known
      /\ r = [cursor |-> r.cursor, events |-> r.events, known |-> r.known]
  <2>1. PICK k : k = timeline.known
    OBVIOUS
  <2>2. timeline = [cursor |-> from, events |-> events, known |-> k]
    BY <1>1, <2>1
  <2>3. r = [cursor |-> last, events |-> events, known |-> known]
    BY <1>4, <2>2
  <2> QED
    BY <2>3
<1>9. TimelineOf(r, all)
  BY <1>1, <1>6, <1>7, <1>8 DEF TimelineOf, n
<1>10. ASSUME NEW i \in 1..n PROVE i <= last <=> (i <= from \/ events[i].ts <= now)
  <2>1. CASE i <= from
    BY <1>2, <1>6, <2>1
  <2>2. CASE i > from /\ i <= last
    <3>1. last \in due
      BY <1>2, <1>5, <1>6, <2>2
    <3>2. i \in from + 1 .. last
      BY <1>2, <1>6, <2>2
    <3> QED
      BY <2>2, <3>1, <3>2
  <2>3. CASE i > last
    <3>1. ~(i <= from) /\ i \in from + 1 .. n /\ i \notin due
      BY <1>2, <1>5, <1>6, <2>3
    <3>2. PICK j \in from + 1 .. i : ~(events[j].ts <= now)
      BY <3>1
    <3>3. j \in 1..n /\ j <= i
      BY <1>2, <1>6, <3>1, <3>2
    <3>4. events[j].ts <= events[i].ts
      BY <1>3, <3>3
    <3>5. ~(events[i].ts <= now)
      BY <1>2, <3>2, <3>3, <3>4
    <3> QED
      BY <1>2, <1>6, <2>3, <3>1, <3>5
  <2> QED
    BY <1>2, <1>6, <2>1, <2>2, <2>3
<1>11. MovedOn(r, timeline, now)
  BY <1>8, <1>10 DEF MovedOn, n, from, events
<1> QED
  BY <1>9, <1>11 DEF r

(* A timeline that stands at a moment tells exactly what was asserted by   *)
(* then.                                                                   *)
LEMMA LookupTellsWhatWasAsserted ==
  ASSUME NEW all, IsIntel(all), NEW h \in Int,
         NEW timeline, TimelineOf(timeline, all), StandsAt(timeline, h), NEW p
  PROVE  Lookup(timeline, p) = AssertedBy(all, p, h)
<1> DEFINE events == timeline.events
           c == timeline.cursor
           known == timeline.known
           about == {all[i].hop : i \in {k \in DOMAIN all : all[k].payee = p /\ all[k].ts <= h}}
<1>1. /\ IsIntel(events) /\ ToSet(events) = ToSet(all) /\ c \in 0..Len(events)
      /\ KnownBy(known, events, c)
  BY DEF TimelineOf
<1>2. \A i \in 1..Len(events) : i <= c <=> events[i].ts <= h
  BY DEF StandsAt
<1>3. Len(events) \in Nat /\ DOMAIN events = 1..Len(events) /\ DOMAIN all = 1..Len(all)
  BY <1>1, LengthIsNatural DEF IsIntel
<1> HIDE DEF events, c, known
<1>4. ASSUME NEW x
      PROVE  x \in about <=> \E i \in 1..c : events[i].payee = p /\ events[i].hop = x
  <2>1. ASSUME NEW i \in 1..c, events[i].payee = p, events[i].hop = x PROVE x \in about
    <3>1. i \in 1..Len(events) /\ events[i].ts <= h
      BY <1>1, <1>2, <1>3
    <3>2. PICK k \in DOMAIN all : all[k] = events[i]
      BY <1>1, <1>3, <3>1 DEF ToSet
    <3> QED
      BY <2>1, <3>1, <3>2
  <2>2. ASSUME x \in about PROVE \E i \in 1..c : events[i].payee = p /\ events[i].hop = x
    <3>1. PICK k \in DOMAIN all : all[k].payee = p /\ all[k].ts <= h /\ all[k].hop = x
      BY <2>2
    <3>2. PICK i \in 1..Len(events) : events[i] = all[k]
      BY <1>1, <1>3, <3>1 DEF ToSet
    <3>3. i \in 1..c
      BY <1>1, <1>2, <1>3, <3>1, <3>2
    <3> QED
      BY <3>1, <3>2, <3>3
  <2> QED
    BY <2>1, <2>2
<1>5. AssertedBy(all, p, h) =
        [confirmed |-> 0 \in about, hop |-> IF about = {} \/ 0 \in about THEN -1 ELSE Min(about)]
  BY DEF AssertedBy
<1> HIDE DEF about
<1>6. CASE p \notin DOMAIN known
  <2>1. about = {}
    BY <1>1, <1>4, <1>6 DEF KnownBy
  <2>2. Lookup(timeline, p) = Unknown
    BY <1>6 DEF Lookup, known
  <2>3. (0 \in about) = FALSE
    BY <2>1
  <2>4. AssertedBy(all, p, h) = [confirmed |-> FALSE, hop |-> -1]
    BY <1>5, <2>1, <2>3
  <2> QED
    BY <2>2, <2>4 DEF Unknown
<1>7. CASE p \in DOMAIN known
  <2>1. PICK k : k = known[p]
    OBVIOUS
  <2>2. /\ k.confirmed = (\E i \in 1..c : events[i].payee = p /\ events[i].hop = 0)
        /\ \E i \in 1..c : events[i].payee = p /\ events[i].hop = k.hop
        /\ \A i \in 1..c : events[i].payee = p => k.hop <= events[i].hop
    BY <1>1, <1>7, <2>1, Zenon DEF KnownBy
  <2>3. k.confirmed = (0 \in about)
    <3>1. (\E i \in 1..c : events[i].payee = p /\ events[i].hop = 0) <=> 0 \in about
      BY <1>4
    <3>2. (0 \in about) = (\E i \in 1..c : events[i].payee = p /\ events[i].hop = 0)
      <4>1. CASE 0 \in about
        BY <3>1, <4>1, Zenon
      <4>2. CASE 0 \notin about
        <5>1. (0 \in about) = FALSE
          BY <4>2
        <5>2. (\E i \in 1..c : events[i].payee = p /\ events[i].hop = 0) = FALSE
          BY <3>1, <4>2
        <5> QED
          BY <5>1, <5>2, Zenon
      <4> QED
        BY <4>1, <4>2
    <3> QED
      BY <2>2, <3>2, Zenon
  <2>4. k.hop \in about /\ \A x \in about : k.hop <= x
    BY <1>4, <2>2
  <2>5. k.hop \in Nat /\ \A x \in about : x \in Nat
    <3>1. \A i \in 1..c : events[i].hop \in Nat
      BY <1>1, <1>3 DEF IsIntel
    <3> QED
      BY <1>4, <2>4, <3>1
  <2>6. Min(about) = k.hop
    <3>1. Min(about) \in about /\ \A x \in about : Min(about) <= x
      BY <2>4 DEF Min
    <3> QED
      BY <2>4, <2>5, <3>1
  <2>7. k.hop = 0 <=> 0 \in about
    BY <2>4, <2>5
  <2>8. Lookup(timeline, p) = [confirmed |-> k.confirmed, hop |-> IF k.hop = 0 THEN -1 ELSE k.hop]
    BY <1>7, <2>1 DEF Lookup, known
  <2>9. (IF k.hop = 0 THEN -1 ELSE k.hop) = (IF about = {} \/ 0 \in about THEN -1 ELSE Min(about))
    BY <2>4, <2>6, <2>7
  <2> QED
    BY <1>5, <2>3, <2>8, <2>9
<1> QED
  BY <1>6, <1>7

=============================================================================
