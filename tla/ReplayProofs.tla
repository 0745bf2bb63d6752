---------------------------- MODULE ReplayProofs ----------------------------
(***************************************************************************)
(* Proofs about the two walks over a corpus: what a payment is scored with *)
(* is its past and nothing later, and the engine measures what the model   *)
(* was fitted from.  For any corpus, however long, any windows, any        *)
(* intelligence and any start of the engine's replay.                      *)
(***************************************************************************)
EXTENDS Replay, SharedFacts, FiniteSetTheorems

-----------------------------------------------------------------------------
(* Sequences as they grow *)

LEMMA FrontAndLast ==
  ASSUME NEW S, NEW q \in Seq(S), NEW k \in Nat, Len(q) = k + 1
  PROVE  /\ SubSeq(q, 1, k) \in Seq(S) /\ Len(SubSeq(q, 1, k)) = k
         /\ q[k + 1] \in S
         /\ q = Append(SubSeq(q, 1, k), q[k + 1])
<1>1. SubSeq(q, 1, k) \in Seq(S) /\ Len(SubSeq(q, 1, k)) = k
      /\ \A i \in 1..k : SubSeq(q, 1, k)[i] = q[i]
  OBVIOUS
<1>2. q[k + 1] \in S
  OBVIOUS
<1>3. q = Append(SubSeq(q, 1, k), q[k + 1])
  BY <1>1, <1>2
<1> QED
  BY <1>1, <1>2, <1>3

LEMMA SameSequence ==
  ASSUME NEW S, NEW a \in Seq(S), NEW b \in Seq(S), Len(a) = Len(b),
         \A i \in 1..Len(a) : a[i] = b[i]
  PROVE  a = b
OBVIOUS

(* The partial results f of a filter of xs by the places in I. *)
FillingFollows(f, xs, I, n) ==
  /\ f = [i \in 0..n |-> f[i]]
  /\ f[0] = << >>
  /\ \A i \in 1..n : f[i] = IF i \in I THEN Append(f[i - 1], xs[i]) ELSE f[i - 1]

LEMMA FillingExists ==
  ASSUME NEW xs, NEW I, NEW n \in Nat
  PROVE  \E f : FillingFollows(f, xs, I, n)
<1> DEFINE T == {k \in Nat : \E f : FillingFollows(f, xs, I, k)}
<1>1. 0 \in T
  <2> DEFINE f == [i \in 0..0 |-> << >>]
  <2>1. f[0] = << >> /\ f = [i \in 0..0 |-> f[i]]
    OBVIOUS
  <2> HIDE DEF f
  <2>2. FillingFollows(f, xs, I, 0)
    BY <2>1 DEF FillingFollows
  <2> QED
    BY <2>2
<1>2. ASSUME NEW k \in Nat, k \in T PROVE k + 1 \in T
  <2>1. PICK f : FillingFollows(f, xs, I, k)
    BY <1>2
  <2> DEFINE last == IF k + 1 \in I THEN Append(f[k], xs[k + 1]) ELSE f[k]
             g == [i \in 0..(k + 1) |-> IF i = k + 1 THEN last ELSE f[i]]
  <2>2. g[k + 1] = last /\ \A i \in 0..k : g[i] = f[i]
    OBVIOUS
  <2>3. g = [i \in 0..(k + 1) |-> g[i]]
    OBVIOUS
  <2>4. g[0] = << >> /\ \A i \in 1..k : i - 1 \in 0..k /\ i \in 0..k
    BY <2>1, <2>2 DEF FillingFollows
  <2>5. (k + 1) - 1 = k /\ \A i \in 1..(k + 1) : i \in 1..k \/ i = k + 1
    OBVIOUS
  <2> HIDE DEF g
  <2>6. ASSUME NEW i \in 1..(k + 1)
        PROVE  g[i] = IF i \in I THEN Append(g[i - 1], xs[i]) ELSE g[i - 1]
    <3>1. CASE i = k + 1
      BY <2>2, <2>5, <3>1
    <3>2. CASE i \in 1..k
      <4>1. g[i] = f[i] /\ g[i - 1] = f[i - 1]
        BY <2>2, <2>4, <3>2
      <4>2. f[i] = IF i \in I THEN Append(f[i - 1], xs[i]) ELSE f[i - 1]
        BY <2>1, <3>2 DEF FillingFollows
      <4> QED
        BY <4>1, <4>2
    <3> QED
      BY <2>5, <3>1, <3>2
  <2>7. FillingFollows(g, xs, I, k + 1)
    BY <2>3, <2>4, <2>6 DEF FillingFollows
  <2> QED
    BY <2>7
<1> HIDE DEF T
<1>3. Nat \subseteq T
  BY <1>1, <1>2, SetInduction
<1>4. n \in T
  BY <1>3
<1> QED
  BY <1>4 DEF T

LEMMA EntriesUnfolds ==
  ASSUME NEW xs, NEW I, Len(xs) \in Nat
  PROVE  \E f : FillingFollows(f, xs, I, Len(xs)) /\ Entries(xs, I) = f[Len(xs)]
<1> DEFINE n == Len(xs)
           Body(g) == [i \in 0..n |-> IF i = 0 THEN << >>
                                      ELSE IF i \in I THEN Append(g[i - 1], xs[i]) ELSE g[i - 1]]
           after == CHOOSE g : g = Body(g)
<1>1. Entries(xs, I) = after[n]
  BY DEF Entries
<1>2. n \in Nat
  OBVIOUS
<1>3. \E g : g = Body(g)
  <2>1. PICK f : FillingFollows(f, xs, I, n)
    BY <1>2, FillingExists
  <2>2. f = [i \in 0..n |-> f[i]]
    BY <2>1 DEF FillingFollows
  <2>3. \A i \in 0..n : f[i] = IF i = 0 THEN << >>
                               ELSE IF i \in I THEN Append(f[i - 1], xs[i]) ELSE f[i - 1]
    <3> TAKE i \in 0..n
    <3>1. CASE i = 0
      BY <2>1, <3>1 DEF FillingFollows
    <3>2. CASE i # 0
      <4>1. i \in 1..n
        BY <1>2, <3>2
      <4> QED
        BY <2>1, <3>2, <4>1 DEF FillingFollows
    <3> QED
      BY <3>1, <3>2
  <2>4. f = Body(f)
    BY <2>2, <2>3
  <2> QED
    BY <2>4
<1>4. after = Body(after)
  BY <1>3
<1> HIDE DEF after
<1>5. \A i \in 0..n : after[i] = IF i = 0 THEN << >>
                                 ELSE IF i \in I THEN Append(after[i - 1], xs[i]) ELSE after[i - 1]
  BY <1>4
<1>6. /\ after[0] = << >>
      /\ \A i \in 1..n : after[i] = IF i \in I THEN Append(after[i - 1], xs[i]) ELSE after[i - 1]
  <2>1. 0 \in 0..n /\ \A i \in 1..n : i \in 0..n /\ i # 0
    BY <1>2
  <2> QED
    BY <1>5, <2>1
<1>7. after = [i \in 0..n |-> after[i]]
  BY <1>4
<1> HIDE DEF Body, n
<1>8. FillingFollows(after, xs, I, n)
  BY <1>6, <1>7 DEF FillingFollows
<1> QED
  BY <1>1, <1>8 DEF n

(* Two fillings that read the same entries at the same places agree. *)
AgreeTo(xs, ys, I, J, k) == \A i \in 1..k : xs[i] = ys[i] /\ (i \in I <=> i \in J)

LEMMA FillingsAgree ==
  ASSUME NEW xs, NEW ys, NEW I, NEW J, NEW m \in Nat, NEW n \in Nat, NEW k \in Nat, k <= m, k <= n,
         NEW f, FillingFollows(f, xs, I, m), NEW g, FillingFollows(g, ys, J, n),
         AgreeTo(xs, ys, I, J, k)
  PROVE  f[k] = g[k]
<1> DEFINE T == {i \in Nat : i <= k => f[i] = g[i]}
<1> USE DEF AgreeTo
<1>1. 0 \in T
  BY DEF FillingFollows
<1>2. ASSUME NEW i \in Nat, i \in T PROVE i + 1 \in T
  <2> SUFFICES ASSUME i + 1 <= k PROVE f[i + 1] = g[i + 1]
    OBVIOUS
  <2>1. i + 1 \in 1..k /\ i + 1 \in 1..m /\ i + 1 \in 1..n /\ (i + 1) - 1 = i /\ f[i] = g[i]
    BY <1>2
  <2>2. f[i + 1] = IF i + 1 \in I THEN Append(f[i], xs[i + 1]) ELSE f[i]
    BY <2>1 DEF FillingFollows
  <2>3. g[i + 1] = IF i + 1 \in J THEN Append(g[i], ys[i + 1]) ELSE g[i]
    BY <2>1 DEF FillingFollows
  <2> QED
    BY <2>1, <2>2, <2>3
<1>3. k \in T
  <2> HIDE DEF T
  <2> QED
    BY <1>1, <1>2, SetInduction
<1> QED
  BY <1>3

LEMMA EntriesSame ==
  ASSUME NEW xs, Len(xs) \in Nat, NEW I, NEW J, \A i \in 1..Len(xs) : i \in I <=> i \in J
  PROVE  Entries(xs, I) = Entries(xs, J)
<1>1. PICK f : FillingFollows(f, xs, I, Len(xs)) /\ Entries(xs, I) = f[Len(xs)]
  BY EntriesUnfolds
<1>2. PICK g : FillingFollows(g, xs, J, Len(xs)) /\ Entries(xs, J) = g[Len(xs)]
  BY EntriesUnfolds
<1> DEFINE n == Len(xs)
<1> HIDE DEF n
<1>0. n \in Nat /\ n <= n /\ AgreeTo(xs, xs, I, J, n)
  BY DEF n, AgreeTo
<1>4. FillingFollows(f, xs, I, n) /\ FillingFollows(g, xs, J, n)
  BY <1>1, <1>2 DEF n
<1>5. f[n] = g[n]
  BY <1>0, <1>4, FillingsAgree
<1>3. f[Len(xs)] = g[Len(xs)]
  BY <1>5 DEF n
<1> QED
  BY <1>1, <1>2, <1>3

LEMMA EntriesOfNone ==
  ASSUME NEW I
  PROVE  Entries(<< >>, I) = << >>
<1>1. Len(<< >>) = 0 /\ 0 \in Nat
  OBVIOUS
<1>2. PICK f : FillingFollows(f, << >>, I, 0) /\ Entries(<< >>, I) = f[0]
  BY <1>1, EntriesUnfolds
<1> QED
  BY <1>2 DEF FillingFollows

(* One more entry is in or out. *)
LEMMA EntriesAppend ==
  ASSUME NEW S, NEW xs \in Seq(S), NEW e \in S, NEW I
  PROVE  Entries(Append(xs, e), I) = IF Len(xs) + 1 \in I THEN Append(Entries(xs, I), e)
                                     ELSE Entries(xs, I)
<1> DEFINE n == Len(xs)
           ys == Append(xs, e)
<1>1. n \in Nat /\ Len(ys) = n + 1 /\ n + 1 \in Nat /\ ys[n + 1] = e /\ \A i \in 1..n : ys[i] = xs[i]
  OBVIOUS
<1> HIDE DEF ys, n
<1>2. PICK f : FillingFollows(f, xs, I, n) /\ Entries(xs, I) = f[n]
  BY <1>1, EntriesUnfolds DEF n
<1>3. PICK g : FillingFollows(g, ys, I, n + 1) /\ Entries(ys, I) = g[n + 1]
  BY <1>1, EntriesUnfolds
<1>7. n <= n /\ n <= n + 1 /\ AgreeTo(xs, ys, I, I, n)
  BY <1>1 DEF AgreeTo
<1>8. FillingFollows(f, xs, I, n) /\ FillingFollows(g, ys, I, n + 1)
  BY <1>2, <1>3
<1>9. n + 1 \in Nat
  BY <1>1
<1>4. f[n] = g[n]
  BY <1>1, <1>7, <1>8, <1>9, FillingsAgree
<1>5. n + 1 \in 1..(n + 1) /\ (n + 1) - 1 = n
  BY <1>1
<1>6. g[n + 1] = IF n + 1 \in I THEN Append(g[n], ys[n + 1]) ELSE g[n]
  BY <1>3, <1>5 DEF FillingFollows
<1> QED
  BY <1>1, <1>2, <1>3, <1>4, <1>6 DEF ys, n

LEMMA EntriesType ==
  ASSUME NEW S, NEW xs \in Seq(S), NEW I
  PROVE  Entries(xs, I) \in Seq(S) /\ Len(Entries(xs, I)) <= Len(xs)
<1> DEFINE n == Len(xs)
<1>1. n \in Nat
  OBVIOUS
<1>2. PICK f : FillingFollows(f, xs, I, n) /\ Entries(xs, I) = f[n]
  BY <1>1, EntriesUnfolds
<1> DEFINE T == {i \in Nat : i <= n => f[i] \in Seq(S) /\ Len(f[i]) <= i}
<1>3. 0 \in T
  BY <1>2 DEF FillingFollows
<1>4. ASSUME NEW i \in Nat, i \in T PROVE i + 1 \in T
  <2> SUFFICES ASSUME i + 1 <= n PROVE f[i + 1] \in Seq(S) /\ Len(f[i + 1]) <= i + 1
    OBVIOUS
  <2>1. i + 1 \in 1..n /\ (i + 1) - 1 = i /\ f[i] \in Seq(S) /\ Len(f[i]) <= i /\ xs[i + 1] \in S
    BY <1>4
  <2>2. f[i + 1] = IF i + 1 \in I THEN Append(f[i], xs[i + 1]) ELSE f[i]
    BY <1>2, <2>1 DEF FillingFollows
  <2> QED
    BY <2>1, <2>2
<1>5. n \in T
  <2> HIDE DEF T
  <2> QED
    BY <1>1, <1>3, <1>4, SetInduction
<1> QED
  BY <1>2, <1>5

-----------------------------------------------------------------------------
(* What is kept of a day *)

LEMMA SinceOfNone ==
  ASSUME NEW c
  PROVE  Since(<< >>, c) = << >>
BY EntriesOfNone DEF Since

LEMMA SinceType ==
  ASSUME NEW S, NEW xs \in Seq(S), NEW c
  PROVE  Since(xs, c) \in Seq(S) /\ Len(Since(xs, c)) <= Len(xs)
BY EntriesType DEF Since

LEMMA SinceAppend ==
  ASSUME NEW S, NEW xs \in Seq(S), NEW e \in S, NEW c
  PROVE  Since(Append(xs, e), c) = IF e.ts >= c THEN Append(Since(xs, c), e) ELSE Since(xs, c)
<1> DEFINE n == Len(xs)
           ys == Append(xs, e)
           I == {i \in DOMAIN xs : xs[i].ts >= c}
           J == {i \in DOMAIN ys : ys[i].ts >= c}
<1>1. /\ n \in Nat /\ DOMAIN xs = 1..n /\ DOMAIN ys = 1..(n + 1)
      /\ ys[n + 1] = e /\ \A i \in 1..n : ys[i] = xs[i]
  OBVIOUS
<1>2. Entries(ys, J) = IF n + 1 \in J THEN Append(Entries(xs, J), e) ELSE Entries(xs, J)
  <2> HIDE DEF J
  <2> QED
    BY EntriesAppend
<1>3. n + 1 \in J <=> e.ts >= c
  BY <1>1
<1>4. \A i \in 1..n : i \in I <=> i \in J
  BY <1>1
<1>5. Entries(xs, I) = Entries(xs, J)
  <2> HIDE DEF I, J
  <2> QED
    BY <1>1, <1>4, EntriesSame
<1> QED
  BY <1>2, <1>3, <1>5 DEF Since

(* A second look from a later moment sees what a first one would have.     *)
LEMMA SinceSince ==
  ASSUME NEW S, \A e \in S : e.ts \in Int, NEW c \in Int, NEW d \in Int, c <= d,
         NEW q \in Seq(S)
  PROVE  Since(Since(q, c), d) = Since(q, d)
<1> DEFINE T == {k \in Nat : \A xs \in Seq(S) : Len(xs) = k => Since(Since(xs, c), d) = Since(xs, d)}
<1>1. 0 \in T
  <2> SUFFICES ASSUME NEW xs \in Seq(S), Len(xs) = 0 PROVE Since(Since(xs, c), d) = Since(xs, d)
    OBVIOUS
  <2>1. xs = << >>
    OBVIOUS
  <2> QED
    BY <2>1, SinceOfNone
<1>2. ASSUME NEW k \in Nat, k \in T PROVE k + 1 \in T
  <2> SUFFICES ASSUME NEW ys \in Seq(S), Len(ys) = k + 1 PROVE Since(Since(ys, c), d) = Since(ys, d)
    OBVIOUS
  <2> DEFINE xs == SubSeq(ys, 1, k)
             e == ys[k + 1]
  <2>1. xs \in Seq(S) /\ Len(xs) = k /\ e \in S /\ ys = Append(xs, e)
    BY FrontAndLast
  <2>2. Since(Since(xs, c), d) = Since(xs, d)
    BY <1>2, <2>1
  <2>3. e.ts \in Int
    BY <2>1
  <2> HIDE DEF xs, e, T
  <2>4. Since(ys, c) = IF e.ts >= c THEN Append(Since(xs, c), e) ELSE Since(xs, c)
    BY <2>1, SinceAppend
  <2>5. Since(ys, d) = IF e.ts >= d THEN Append(Since(xs, d), e) ELSE Since(xs, d)
    BY <2>1, SinceAppend
  <2>6. Since(xs, c) \in Seq(S)
    BY <2>1, SinceType
  <2>7. Since(Append(Since(xs, c), e), d)
          = IF e.ts >= d THEN Append(Since(Since(xs, c), d), e) ELSE Since(Since(xs, c), d)
    BY <2>1, <2>6, SinceAppend
  <2>8. CASE e.ts >= c
    BY <2>2, <2>4, <2>5, <2>7, <2>8
  <2>9. CASE ~(e.ts >= c)
    <3>1. ~(e.ts >= d)
      BY <2>3, <2>9
    <3> QED
      BY <2>2, <2>4, <2>5, <2>9, <3>1
  <2> QED
    BY <2>8, <2>9
<1> HIDE DEF T
<1>3. Nat \subseteq T
  BY <1>1, <1>2, SetInduction
<1>4. Len(q) \in T
  BY <1>3
<1> QED
  BY <1>4 DEF T

(* In time order, what is since a moment is the end of the sequence.       *)
LEMMA SinceIsTheEnd ==
  ASSUME NEW S, NEW q \in Seq(S), NEW c, NEW m \in 1..(Len(q) + 1),
         \A i \in 1..Len(q) : q[i].ts >= c <=> i >= m
  PROVE  Since(q, c) = SubSeq(q, m, Len(q))
<1> DEFINE T == {k \in Nat : \A xs \in Seq(S) : \A p \in 1..(k + 1) :
                   (Len(xs) = k /\ \A i \in 1..k : xs[i].ts >= c <=> i >= p)
                      => Since(xs, c) = SubSeq(xs, p, k)}
<1>1. 0 \in T
  <2> SUFFICES ASSUME NEW xs \in Seq(S), NEW p \in 1..(0 + 1), Len(xs) = 0
               PROVE  Since(xs, c) = SubSeq(xs, p, 0)
    OBVIOUS
  <2>1. xs = << >> /\ p = 1 /\ SubSeq(<< >>, 1, 0) = << >>
    OBVIOUS
  <2>2. Since(<< >>, c) = << >>
    BY SinceOfNone
  <2> QED
    BY <2>1, <2>2
<1>2. ASSUME NEW k \in Nat, k \in T PROVE k + 1 \in T
  <2> SUFFICES ASSUME NEW ys \in Seq(S), NEW p \in 1..((k + 1) + 1), Len(ys) = k + 1,
                      \A i \in 1..(k + 1) : ys[i].ts >= c <=> i >= p
               PROVE  Since(ys, c) = SubSeq(ys, p, k + 1)
    OBVIOUS
  <2> DEFINE xs == SubSeq(ys, 1, k)
             e == ys[k + 1]
  <2>1. xs \in Seq(S) /\ Len(xs) = k /\ e \in S /\ ys = Append(xs, e)
    BY FrontAndLast
  <2>2. \A i \in 1..k : xs[i] = ys[i] /\ i \in 1..(k + 1)
    OBVIOUS
  <2>0. k + 1 \in 1..(k + 1) /\ (e.ts >= c <=> k + 1 >= p)
    OBVIOUS
  <2>3. Since(ys, c) = IF e.ts >= c THEN Append(Since(xs, c), e) ELSE Since(xs, c)
    <3> HIDE DEF xs, e
    <3> QED
      BY <2>1, SinceAppend
  <2>4. CASE p = k + 2
    <3>1. \A i \in 1..k : xs[i].ts >= c <=> i >= k + 1
      BY <2>2, <2>4
    <3>2. k + 1 \in 1..(k + 1)
      OBVIOUS
    <3>3. Since(xs, c) = SubSeq(xs, k + 1, k)
      <4> HIDE DEF xs
      <4> QED
        BY <1>2, <2>1, <3>1, <3>2
    <3>4. SubSeq(xs, k + 1, k) = << >> /\ SubSeq(ys, p, k + 1) = << >>
      <4> HIDE DEF xs
      <4> QED
        BY <2>1, <2>4
    <3>5. ~(e.ts >= c)
      BY <2>0, <2>4
    <3> QED
      BY <2>3, <3>3, <3>4, <3>5
  <2>5. CASE p \in 1..(k + 1)
    <3>1. \A i \in 1..k : xs[i].ts >= c <=> i >= p
      BY <2>2
    <3>2. Since(xs, c) = SubSeq(xs, p, k)
      <4> HIDE DEF xs
      <4> QED
        BY <1>2, <2>1, <2>5, <3>1
    <3>3. e.ts >= c
      BY <2>0, <2>5
    <3>4. Append(SubSeq(xs, p, k), e) = SubSeq(ys, p, k + 1)
      <4>1. SubSeq(xs, p, k) = SubSeq(ys, p, k)
        BY <2>2, <2>5
      <4>2. SubSeq(ys, p, k) \in Seq(S) /\ Len(SubSeq(ys, p, k)) = k - p + 1
            /\ \A i \in 1..(k - p + 1) : SubSeq(ys, p, k)[i] = ys[p + i - 1]
        BY <2>5
      <4>3. SubSeq(ys, p, k + 1) \in Seq(S) /\ Len(SubSeq(ys, p, k + 1)) = k - p + 2
            /\ \A i \in 1..(k - p + 2) : SubSeq(ys, p, k + 1)[i] = ys[p + i - 1]
        BY <2>5
      <4> DEFINE a == SubSeq(ys, p, k)
                 b == SubSeq(ys, p, k + 1)
      <4>4. a \in Seq(S) /\ Append(a, e) \in Seq(S) /\ b \in Seq(S)
        BY <2>1, <4>2, <4>3
      <4> HIDE DEF xs, e, a, b
      <4>5. Len(Append(a, e)) = k - p + 2 /\ Len(b) = k - p + 2
        BY <2>5, <4>2, <4>3, <4>4 DEF a, b
      <4>6. ASSUME NEW i \in 1..(k - p + 2) PROVE Append(a, e)[i] = b[i]
        <5>1. CASE i = k - p + 2
          BY <2>5, <4>2, <4>3, <4>4, <5>1 DEF a, b, e
        <5>2. CASE i \in 1..(k - p + 1)
          BY <2>5, <4>2, <4>3, <4>4, <5>2 DEF a, b
        <5>3. k \in Int /\ p \in Int
          BY <2>5
        <5>4. i = k - p + 2 \/ i \in 1..(k - p + 1)
          BY <5>3
        <5> QED
          BY <5>1, <5>2, <5>4
      <4>7. Append(a, e) = b
        <5>1. \A i \in 1..(k - p + 2) : Append(a, e)[i] = b[i]
          BY <4>6
        <5> DEFINE w == Append(a, e)
        <5>2. w \in Seq(S) /\ b \in Seq(S) /\ Len(w) = Len(b) /\ \A i \in 1..Len(w) : w[i] = b[i]
          BY <4>4, <4>5, <5>1
        <5> HIDE DEF w
        <5>3. w = b
          BY <5>2, SameSequence
        <5> QED
          BY <5>3 DEF w
      <4> QED
        BY <4>1, <4>7 DEF a, b
    <3> QED
      BY <2>3, <3>2, <3>3, <3>4
  <2> QED
    BY <2>4, <2>5
<1> HIDE DEF T
<1>3. Nat \subseteq T
  BY <1>1, <1>2, SetInduction
<1>4. Len(q) \in T
  BY <1>3
<1> QED
  BY <1>4 DEF T

(* The end of a sequence that Keep keeps, place by place.                  *)
LEMMA KeepIsTheEnd ==
  ASSUME NEW S, NEW q \in Seq(S), NEW n \in Nat
  PROVE  /\ Keep(q, n) \in Seq(S)
         /\ Len(Keep(q, n)) = IF Len(q) > n THEN n ELSE Len(q)
         /\ \A i \in 1..Len(Keep(q, n)) : Keep(q, n)[i] = q[Len(q) - Len(Keep(q, n)) + i]
<1>1. CASE Len(q) > n
  <2> DEFINE r == SubSeq(q, Len(q) - n + 1, Len(q))
  <2>1. Keep(q, n) = r
    BY <1>1 DEF Keep
  <2>2. r \in Seq(S) /\ Len(r) = n /\ \A i \in 1..n : r[i] = q[Len(q) - n + 1 + i - 1]
    BY <1>1
  <2>3. \A i \in 1..n : Len(q) - n + 1 + i - 1 = Len(q) - n + i
    OBVIOUS
  <2> HIDE DEF r
  <2> QED
    BY <1>1, <2>1, <2>2, <2>3
<1>2. CASE ~(Len(q) > n)
  <2>1. Keep(q, n) = q /\ \A i \in 1..Len(q) : Len(q) - Len(q) + i = i
    BY <1>2 DEF Keep
  <2> QED
    BY <1>2, <2>1
<1> QED
  BY <1>1, <1>2

(* Keeping after every payment is keeping once at the end. *)
LEMMA KeepAppend ==
  ASSUME NEW S, NEW q \in Seq(S), NEW e \in S, NEW n \in Nat \ {0}
  PROVE  Keep(Append(Keep(q, n), e), n) = Keep(Append(q, e), n)
<1> DEFINE l == Len(q)
           k == Keep(q, n)
           a == Append(k, e)
           b == Append(q, e)
           u == Keep(a, n)
           v == Keep(b, n)
<1>1. k \in Seq(S) /\ Len(k) = (IF l > n THEN n ELSE l) /\ \A i \in 1..Len(k) : k[i] = q[l - Len(k) + i]
  BY KeepIsTheEnd
<1>2. l \in Nat /\ b \in Seq(S) /\ Len(b) = l + 1 /\ b[l + 1] = e /\ \A i \in 1..l : b[i] = q[i]
  OBVIOUS
<1> HIDE DEF k
<1>3. a \in Seq(S) /\ Len(a) = Len(k) + 1 /\ a[Len(k) + 1] = e /\ \A i \in 1..Len(k) : a[i] = k[i]
  BY <1>1
<1> HIDE DEF a, b
<1>4. u \in Seq(S) /\ Len(u) = (IF Len(a) > n THEN n ELSE Len(a))
      /\ \A i \in 1..Len(u) : u[i] = a[Len(a) - Len(u) + i]
  BY <1>3, KeepIsTheEnd
<1>5. v \in Seq(S) /\ Len(v) = (IF Len(b) > n THEN n ELSE Len(b))
      /\ \A i \in 1..Len(v) : v[i] = b[Len(b) - Len(v) + i]
  BY <1>2, KeepIsTheEnd
<1> HIDE DEF u, v, l
<1>6. Len(u) = Len(v) /\ Len(u) \in Nat /\ Len(k) \in Nat /\ Len(u) <= Len(a) /\ Len(v) <= Len(b)
  BY <1>1, <1>2, <1>3, <1>4, <1>5
<1>7. ASSUME NEW i \in 1..Len(u) PROVE u[i] = v[i]
  <2>1. u[i] = a[Len(a) - Len(u) + i] /\ v[i] = b[Len(b) - Len(v) + i]
    BY <1>4, <1>5, <1>6
  <2>2. CASE i = Len(u)
    <3>1. Len(a) - Len(u) + i = Len(k) + 1 /\ Len(b) - Len(v) + i = l + 1
      BY <1>2, <1>3, <1>6, <2>2
    <3> QED
      BY <1>2, <1>3, <2>1, <3>1
  <2>3. CASE i # Len(u)
    <3> DEFINE j == Len(a) - Len(u) + i
               h == Len(b) - Len(v) + i
    <3>1. j \in 1..Len(k) /\ h \in 1..l /\ l - Len(k) + j = h
      BY <1>1, <1>2, <1>3, <1>6, <2>3
    <3>2. a[j] = q[h]
      BY <1>1, <1>3, <3>1
    <3>3. b[h] = q[h]
      BY <1>2, <3>1
    <3> QED
      BY <2>1, <3>2, <3>3
  <2> QED
    BY <2>2, <2>3
<1>8. u = v
  BY <1>4, <1>5, <1>6, <1>7, SameSequence
<1> QED
  BY <1>8 DEF u, v, a, b, k

(* Where, in time order, the entries since a moment begin. *)
CutAt(q, c, m) == m \in 1..(Len(q) + 1) /\ \A i \in 1..Len(q) : q[i].ts >= c <=> i >= m

Dated(S) == \A e \in S : e.ts \in Int

LEMMA CutExists ==
  ASSUME NEW S, Dated(S), NEW q \in Seq(S), InTimeOrder(q), NEW c \in Int
  PROVE  \E m : CutAt(q, c, m)
<1> DEFINE n == Len(q)
           T == {m \in 1..(n + 1) : \A i \in 1..n : i >= m => q[i].ts >= c}
<1>1. n \in Nat /\ \A i \in 1..n : q[i].ts \in Int
  BY DEF Dated
<1>2. \A i, j \in 1..n : i <= j => q[i].ts <= q[j].ts
  BY DEF InTimeOrder
<1> HIDE DEF n
<1>3. n + 1 \in T /\ T \in SUBSET Nat
  BY <1>1
<1>4. PICK m \in T : \A x \in T : m <= x
  BY <1>3, LeastExists
<1>5. m \in 1..(n + 1) /\ \A i \in 1..n : i >= m => q[i].ts >= c
  BY <1>4
<1>6. ASSUME NEW i \in 1..n, q[i].ts >= c PROVE i >= m
  <2>1. \A j \in 1..n : j >= i => q[j].ts >= c
    BY <1>1, <1>2, <1>6
  <2>2. i \in 1..(n + 1)
    BY <1>1
  <2>3. i \in T
    BY <2>1, <2>2
  <2> QED
    BY <1>1, <1>4, <1>5, <2>3
<1>7. \A i \in 1..n : q[i].ts >= c <=> i >= m
  BY <1>5, <1>6
<1>8. CutAt(q, c, m)
  BY <1>5, <1>7 DEF CutAt, n
<1> QED
  BY <1>8

(* What is retained holds the whole of a day that is not longer. *)
LEMMA SinceKeep ==
  ASSUME NEW S, Dated(S), NEW q \in Seq(S), InTimeOrder(q), NEW c \in Int, NEW n \in Nat,
         Len(Since(q, c)) <= n
  PROVE  Since(Keep(q, n), c) = Since(q, c)
<1> DEFINE k == Keep(q, n)
           l == Len(q)
           s == l - Len(k)
<1>1. k \in Seq(S) /\ Len(k) = (IF l > n THEN n ELSE l) /\ \A i \in 1..Len(k) : k[i] = q[s + i]
  BY KeepIsTheEnd
<1>2. PICK m : CutAt(q, c, m)
  BY CutExists
<1>3. l \in Nat /\ m \in 1..(l + 1) /\ \A i \in 1..l : q[i].ts >= c <=> i >= m
  BY <1>2 DEF CutAt
<1>4. Since(q, c) = SubSeq(q, m, l)
  BY <1>2, SinceIsTheEnd DEF CutAt
<1>5. SubSeq(q, m, l) \in Seq(S) /\ Len(SubSeq(q, m, l)) = l - m + 1
      /\ \A i \in 1..(l - m + 1) : SubSeq(q, m, l)[i] = q[m + i - 1]
  BY <1>3
<1> HIDE DEF k, l
<1>6. Len(k) \in Nat /\ s \in Nat /\ s + Len(k) = l /\ m - s \in 1..(Len(k) + 1)
  <2>1. l - m + 1 <= n
    BY <1>4, <1>5
  <2> QED
    BY <1>1, <1>3, <2>1
<1>7. \A i \in 1..Len(k) : k[i].ts >= c <=> i >= m - s
  <2> TAKE i \in 1..Len(k)
  <2>1. s + i \in 1..l /\ (s + i >= m <=> i >= m - s)
    BY <1>3, <1>6
  <2> QED
    BY <1>1, <1>3, <2>1
<1> DEFINE p == m - s
<1> HIDE DEF s
<1>8. Since(k, c) = SubSeq(k, p, Len(k))
  <2>1. p \in 1..(Len(k) + 1) /\ \A i \in 1..Len(k) : k[i].ts >= c <=> i >= p
    BY <1>6, <1>7
  <2> HIDE DEF p
  <2> QED
    BY <1>1, <2>1, SinceIsTheEnd
<1>9. SubSeq(k, p, Len(k)) = SubSeq(q, m, l)
  <2> DEFINE u == SubSeq(k, p, Len(k))
             v == SubSeq(q, m, l)
  <2>1. u \in Seq(S) /\ Len(u) = Len(k) - p + 1 /\ \A i \in 1..(Len(k) - p + 1) : u[i] = k[p + i - 1]
    <3>1. p \in 1..(Len(k) + 1) /\ k \in Seq(S) /\ Len(k) \in Nat
      BY <1>1, <1>6
    <3> HIDE DEF p
    <3> QED
      BY <3>1
  <2>2. Len(k) - p + 1 = l - m + 1
    BY <1>3, <1>6
  <2>3. ASSUME NEW i \in 1..(l - m + 1) PROVE u[i] = v[i]
    <3>1. p + i - 1 \in 1..Len(k) /\ s + (p + i - 1) = m + i - 1
      <4>1. /\ Len(k) \in Nat /\ l \in Nat /\ s \in Nat /\ m \in Int /\ i \in Int /\ p = m - s
            /\ s + Len(k) = l /\ 1 <= p /\ 1 <= i /\ i <= l - m + 1
        BY <1>3, <1>6
      <4> HIDE DEF p, u, v
      <4>2. s + (p + i - 1) = m + i - 1 /\ p + i - 1 \in Int /\ p + i - 1 <= Len(k)
        BY <4>1
      <4>3. 1 <= p + i - 1
        BY <4>1
      <4> QED
        BY <4>1, <4>2, <4>3
    <3> QED
      BY <1>1, <1>5, <2>1, <2>2, <3>1
  <2> HIDE DEF u, v
  <2>4. u \in Seq(S) /\ v \in Seq(S) /\ Len(u) = Len(v) /\ \A i \in 1..Len(u) : u[i] = v[i]
    BY <1>5, <2>1, <2>2, <2>3 DEF v
  <2>5. u = v
    BY <2>4, SameSequence
  <2> QED
    BY <2>5 DEF u, v
<1> QED
  BY <1>4, <1>8, <1>9 DEF k, p

-----------------------------------------------------------------------------
(* Totals *)

(* The partial sums f of xs. *)
SummingFollows(f, xs, n) ==
  /\ f = [i \in 0..n |-> f[i]]
  /\ f[0] = 0
  /\ \A i \in 1..n : f[i] = f[i - 1] + xs[i]

LEMMA SummingExists ==
  ASSUME NEW xs, NEW n \in Nat
  PROVE  \E f : SummingFollows(f, xs, n)
<1> DEFINE T == {k \in Nat : \E f : SummingFollows(f, xs, k)}
<1>1. 0 \in T
  <2> DEFINE f == [i \in 0..0 |-> 0]
  <2>1. f[0] = 0 /\ f = [i \in 0..0 |-> f[i]]
    OBVIOUS
  <2> HIDE DEF f
  <2>2. SummingFollows(f, xs, 0)
    BY <2>1 DEF SummingFollows
  <2> QED
    BY <2>2
<1>2. ASSUME NEW k \in Nat, k \in T PROVE k + 1 \in T
  <2>1. PICK f : SummingFollows(f, xs, k)
    BY <1>2
  <2> DEFINE last == f[k] + xs[k + 1]
             g == [i \in 0..(k + 1) |-> IF i = k + 1 THEN last ELSE f[i]]
  <2>2. g[k + 1] = last /\ \A i \in 0..k : g[i] = f[i]
    OBVIOUS
  <2>3. g = [i \in 0..(k + 1) |-> g[i]]
    OBVIOUS
  <2>4. g[0] = 0 /\ \A i \in 1..k : i - 1 \in 0..k /\ i \in 0..k
    BY <2>1, <2>2 DEF SummingFollows
  <2>5. (k + 1) - 1 = k /\ \A i \in 1..(k + 1) : i \in 1..k \/ i = k + 1
    OBVIOUS
  <2> HIDE DEF g
  <2>6. ASSUME NEW i \in 1..(k + 1) PROVE g[i] = g[i - 1] + xs[i]
    <3>1. CASE i = k + 1
      <4>1. k \in 0..k
        OBVIOUS
      <4>2. g[i] = last /\ i - 1 = k /\ g[k] = f[k]
        BY <2>2, <2>5, <3>1, <4>1
      <4>3. g[i - 1] + xs[i] = f[k] + xs[k + 1]
        BY <3>1, <4>2
      <4> QED
        BY <4>2, <4>3
    <3>2. CASE i \in 1..k
      <4>1. g[i] = f[i] /\ g[i - 1] = f[i - 1]
        BY <2>2, <2>4, <3>2
      <4>2. f[i] = f[i - 1] + xs[i]
        BY <2>1, <3>2 DEF SummingFollows
      <4> QED
        BY <4>1, <4>2
    <3> QED
      BY <2>5, <3>1, <3>2
  <2>7. SummingFollows(g, xs, k + 1)
    BY <2>3, <2>4, <2>6 DEF SummingFollows
  <2> QED
    BY <2>7
<1> HIDE DEF T
<1>3. Nat \subseteq T
  BY <1>1, <1>2, SetInduction
<1>4. n \in T
  BY <1>3
<1> QED
  BY <1>4 DEF T

LEMMA TotalUnfolds ==
  ASSUME NEW xs, Len(xs) \in Nat
  PROVE  \E f : SummingFollows(f, xs, Len(xs)) /\ Total(xs) = f[Len(xs)]
<1> DEFINE n == Len(xs)
           Body(g) == [i \in 0..n |-> IF i = 0 THEN 0 ELSE g[i - 1] + xs[i]]
           after == CHOOSE g : g = Body(g)
<1>1. Total(xs) = after[n]
  BY DEF Total
<1>2. n \in Nat
  OBVIOUS
<1>3. \E g : g = Body(g)
  <2>1. PICK f : SummingFollows(f, xs, n)
    BY <1>2, SummingExists
  <2>2. f = [i \in 0..n |-> f[i]]
    BY <2>1 DEF SummingFollows
  <2>3. \A i \in 0..n : f[i] = IF i = 0 THEN 0 ELSE f[i - 1] + xs[i]
    <3> TAKE i \in 0..n
    <3>1. CASE i = 0
      BY <2>1, <3>1 DEF SummingFollows
    <3>2. CASE i # 0
      <4>1. i \in 1..n
        BY <1>2, <3>2
      <4> QED
        BY <2>1, <3>2, <4>1 DEF SummingFollows
    <3> QED
      BY <3>1, <3>2
  <2>4. f = Body(f)
    BY <2>2, <2>3
  <2> QED
    BY <2>4
<1>4. after = Body(after)
  BY <1>3
<1> HIDE DEF after
<1>5. \A i \in 0..n : after[i] = IF i = 0 THEN 0 ELSE after[i - 1] + xs[i]
  BY <1>4
<1>6. after[0] = 0 /\ \A i \in 1..n : after[i] = after[i - 1] + xs[i]
  <2>1. 0 \in 0..n /\ \A i \in 1..n : i \in 0..n /\ i # 0
    BY <1>2
  <2> QED
    BY <1>5, <2>1
<1>7. after = [i \in 0..n |-> after[i]]
  BY <1>4
<1> HIDE DEF Body, n
<1>8. SummingFollows(after, xs, n)
  BY <1>6, <1>7 DEF SummingFollows
<1> QED
  BY <1>1, <1>8 DEF n

LEMMA TotalOfNone == Total(<< >>) = 0
<1>1. Len(<< >>) = 0 /\ 0 \in Nat
  OBVIOUS
<1>2. PICK f : SummingFollows(f, << >>, 0) /\ Total(<< >>) = f[0]
  BY <1>1, TotalUnfolds
<1> QED
  BY <1>2 DEF SummingFollows

LEMMA TotalAppend ==
  ASSUME NEW xs \in Seq(Nat), NEW e \in Nat
  PROVE  Total(Append(xs, e)) = Total(xs) + e /\ Total(xs) \in Nat
<1> DEFINE n == Len(xs)
           ys == Append(xs, e)
<1>1. n \in Nat /\ Len(ys) = n + 1 /\ n + 1 \in Nat /\ ys[n + 1] = e
      /\ \A i \in 1..n : ys[i] = xs[i] /\ xs[i] \in Nat
  OBVIOUS
<1> HIDE DEF ys, n
<1>2. PICK f : SummingFollows(f, xs, n) /\ Total(xs) = f[n]
  BY <1>1, TotalUnfolds DEF n
<1>3. PICK g : SummingFollows(g, ys, n + 1) /\ Total(ys) = g[n + 1]
  BY <1>1, TotalUnfolds
<1> DEFINE T == {k \in Nat : k <= n => f[k] = g[k] /\ f[k] \in Nat}
<1>4. 0 \in T
  BY <1>2, <1>3 DEF SummingFollows
<1>5. ASSUME NEW k \in Nat, k \in T PROVE k + 1 \in T
  <2> SUFFICES ASSUME k + 1 <= n PROVE f[k + 1] = g[k + 1] /\ f[k + 1] \in Nat
    OBVIOUS
  <2>1. /\ k + 1 \in 1..n /\ k + 1 \in 1..(n + 1) /\ (k + 1) - 1 = k
        /\ f[k] = g[k] /\ f[k] \in Nat
    BY <1>1, <1>5
  <2>2. f[k + 1] = f[k] + xs[k + 1]
    BY <1>2, <2>1 DEF SummingFollows
  <2>3. g[k + 1] = g[k] + ys[k + 1]
    BY <1>3, <2>1 DEF SummingFollows
  <2>4. ys[k + 1] = xs[k + 1] /\ xs[k + 1] \in Nat
    BY <1>1, <2>1
  <2> QED
    BY <2>1, <2>2, <2>3, <2>4
<1>6. n \in T
  <2> HIDE DEF T
  <2> QED
    BY <1>1, <1>4, <1>5, SetInduction
<1>7. f[n] = g[n] /\ f[n] \in Nat
  BY <1>1, <1>6
<1>8. n + 1 \in 1..(n + 1) /\ (n + 1) - 1 = n
  BY <1>1
<1>9. g[n + 1] = g[n] + ys[n + 1]
  BY <1>3, <1>8 DEF SummingFollows
<1> QED
  BY <1>1, <1>2, <1>3, <1>7, <1>9 DEF ys

LEMMA TotalPrepend ==
  ASSUME NEW e \in Nat, NEW q \in Seq(Nat)
  PROVE  Total(<< e >> \o q) = e + Total(q)
<1> DEFINE T == {k \in Nat : \A xs \in Seq(Nat) : Len(xs) = k => Total(<< e >> \o xs) = e + Total(xs)}
<1>1. 0 \in T
  <2> SUFFICES ASSUME NEW xs \in Seq(Nat), Len(xs) = 0 PROVE Total(<< e >> \o xs) = e + Total(xs)
    OBVIOUS
  <2>1. xs = << >> /\ << e >> \o xs = Append(<< >>, e) /\ << >> \in Seq(Nat)
    OBVIOUS
  <2>2. Total(Append(<< >>, e)) = Total(<< >>) + e
    BY <2>1, TotalAppend
  <2> QED
    BY <2>1, <2>2, TotalOfNone
<1>2. ASSUME NEW k \in Nat, k \in T PROVE k + 1 \in T
  <2> SUFFICES ASSUME NEW ys \in Seq(Nat), Len(ys) = k + 1 PROVE Total(<< e >> \o ys) = e + Total(ys)
    OBVIOUS
  <2> DEFINE xs == SubSeq(ys, 1, k)
             l == ys[k + 1]
  <2>1. xs \in Seq(Nat) /\ Len(xs) = k /\ l \in Nat /\ ys = Append(xs, l)
    BY FrontAndLast
  <2>2. Total(<< e >> \o xs) = e + Total(xs)
    BY <1>2, <2>1
  <2> HIDE DEF xs, l, T
  <2>3. << e >> \o Append(xs, l) = Append(<< e >> \o xs, l) /\ << e >> \o xs \in Seq(Nat)
    BY <2>1
  <2>4. Total(Append(<< e >> \o xs, l)) = Total(<< e >> \o xs) + l
    BY <2>1, <2>3, TotalAppend
  <2>5. Total(Append(xs, l)) = Total(xs) + l /\ Total(xs) \in Nat
    BY <2>1, TotalAppend
  <2>6. Total(<< e >> \o ys) = Total(<< e >> \o xs) + l
    BY <2>1, <2>3, <2>4
  <2>7. Total(ys) = Total(xs) + l
    BY <2>1, <2>5
  <2> QED
    BY <2>1, <2>2, <2>5, <2>6, <2>7
<1> HIDE DEF T
<1>3. Nat \subseteq T
  BY <1>1, <1>2, SetInduction
<1>4. Len(q) \in T
  BY <1>3
<1> QED
  BY <1>4 DEF T

(* A sum does not depend on which end it starts at. *)
LEMMA TotalReverse ==
  ASSUME NEW q \in Seq(Nat)
  PROVE  Total(Reverse(q)) = Total(q)
<1> DEFINE T == {k \in Nat : \A xs \in Seq(Nat) : Len(xs) = k => Total(Reverse(xs)) = Total(xs)}
<1>1. 0 \in T
  <2> SUFFICES ASSUME NEW xs \in Seq(Nat), Len(xs) = 0 PROVE Total(Reverse(xs)) = Total(xs)
    OBVIOUS
  <2>1. xs = << >> /\ Reverse(<< >>) = << >>
    BY DEF Reverse
  <2> QED
    BY <2>1
<1>2. ASSUME NEW k \in Nat, k \in T PROVE k + 1 \in T
  <2> SUFFICES ASSUME NEW ys \in Seq(Nat), Len(ys) = k + 1 PROVE Total(Reverse(ys)) = Total(ys)
    OBVIOUS
  <2> DEFINE xs == SubSeq(ys, 1, k)
             l == ys[k + 1]
             u == Reverse(xs)
             v == << l >> \o u
             w == Reverse(ys)
  <2>1. xs \in Seq(Nat) /\ Len(xs) = k /\ l \in Nat /\ ys = Append(xs, l)
    BY FrontAndLast
  <2>2. Total(Reverse(xs)) = Total(xs)
    BY <1>2, <2>1
  <2>3. Total(Append(xs, l)) = Total(xs) + l /\ Total(xs) \in Nat
    <3> HIDE DEF xs, l, T
    <3> QED
      BY <2>1, TotalAppend
  <2>4. \A i \in 1..k : xs[i] = ys[i]
    OBVIOUS
  <2>5. u \in Seq(Nat) /\ Len(u) = k /\ \A i \in 1..k : u[i] = xs[k - i + 1]
    <3> HIDE DEF xs
    <3>1. \A i \in 1..k : k - i + 1 \in 1..k /\ xs[k - i + 1] \in Nat
      BY <2>1
    <3>2. u = [i \in 1..k |-> xs[k - i + 1]]
      BY <2>1 DEF Reverse
    <3> QED
      BY <3>1, <3>2
  <2>6. w \in Seq(Nat) /\ Len(w) = k + 1 /\ \A i \in 1..(k + 1) : w[i] = ys[(k + 1) - i + 1]
    <3>1. \A i \in 1..(k + 1) : (k + 1) - i + 1 \in 1..(k + 1) /\ ys[(k + 1) - i + 1] \in Nat
      OBVIOUS
    <3>2. w = [i \in 1..(k + 1) |-> ys[(k + 1) - i + 1]]
      BY DEF Reverse
    <3> QED
      BY <3>1, <3>2
  <2> HIDE DEF xs, u, w, T
  <2>7. v \in Seq(Nat) /\ Len(v) = k + 1 /\ v[1] = l /\ \A i \in 2..(k + 1) : v[i] = u[i - 1]
    BY <2>1, <2>5
  <2> HIDE DEF v
  <2>8. ASSUME NEW i \in 1..(k + 1) PROVE w[i] = v[i]
    <3>1. CASE i = 1
      <4>1. (k + 1) - i + 1 = k + 1
        BY <3>1
      <4> QED
        BY <2>6, <2>7, <3>1, <4>1
    <3>2. CASE i # 1
      <4>1. i \in 2..(k + 1) /\ i - 1 \in 1..k /\ k - (i - 1) + 1 \in 1..k
            /\ (k + 1) - i + 1 = k - (i - 1) + 1
        BY <3>2
      <4> QED
        BY ZenonT(40), <2>4, <2>5, <2>6, <2>7, <4>1
    <3> QED
      BY <3>1, <3>2
  <2>9. w = v
    BY <2>6, <2>7, <2>8, SameSequence
  <2>10. Total(v) = l + Total(u)
    <3> HIDE DEF l
    <3> QED
      BY <2>1, <2>5, TotalPrepend DEF v
  <2> HIDE DEF l
  <2> QED
    BY <2>1, <2>2, <2>3, <2>9, <2>10 DEF w, u
<1> HIDE DEF T
<1>3. Nat \subseteq T
  BY <1>1, <1>2, SetInduction
<1>4. Len(q) \in T
  BY <1>3
<1> QED
  BY <1>4 DEF T

-----------------------------------------------------------------------------
(* Payments, and whose they are *)

Payments ==
  [id : Nat, payer : {k.payer : k \in Kinds}, payee : {k.payee : k \in Kinds}, amount : Nat,
   device : {k.device : k \in Kinds}, session : {k.session : k \in Kinds},
   addedAt : {k.addedAt : k \in Kinds}, ts : Nat]
Inbounds == [payer : {k.payer : k \in Kinds}, ts : Nat, amount : Nat]

LEMMA PaymentsAreDated == Dated(Payments) /\ Dated(Inbounds)
BY DEF Dated, Payments, Inbounds

OfIn(past, payer) == Entries(past, {i \in DOMAIN past : past[i].payer = payer})
ToIn(past, payee) == Entries(past, {i \in DOMAIN past : past[i].payee = payee})

LEMMA OfAppend ==
  ASSUME NEW S, NEW past \in Seq(S), NEW txn \in S, NEW x
  PROVE  OfIn(Append(past, txn), x) = IF txn.payer = x THEN Append(OfIn(past, x), txn) ELSE OfIn(past, x)
<1> DEFINE n == Len(past)
           ys == Append(past, txn)
           I == {i \in DOMAIN past : past[i].payer = x}
           J == {i \in DOMAIN ys : ys[i].payer = x}
<1>1. /\ n \in Nat /\ DOMAIN past = 1..n /\ DOMAIN ys = 1..(n + 1)
      /\ ys[n + 1] = txn /\ \A i \in 1..n : ys[i] = past[i]
  OBVIOUS
<1>2. Entries(ys, J) = IF n + 1 \in J THEN Append(Entries(past, J), txn) ELSE Entries(past, J)
  <2> HIDE DEF J
  <2> QED
    BY EntriesAppend
<1>3. n + 1 \in J <=> txn.payer = x
  BY <1>1
<1>4. \A i \in 1..n : i \in I <=> i \in J
  BY <1>1
<1>5. Entries(past, I) = Entries(past, J)
  <2> HIDE DEF I, J
  <2> QED
    BY <1>1, <1>4, EntriesSame
<1> QED
  BY <1>2, <1>3, <1>5 DEF OfIn

LEMMA ToAppend ==
  ASSUME NEW S, NEW past \in Seq(S), NEW txn \in S, NEW x
  PROVE  ToIn(Append(past, txn), x) = IF txn.payee = x THEN Append(ToIn(past, x), txn) ELSE ToIn(past, x)
<1> DEFINE n == Len(past)
           ys == Append(past, txn)
           I == {i \in DOMAIN past : past[i].payee = x}
           J == {i \in DOMAIN ys : ys[i].payee = x}
<1>1. /\ n \in Nat /\ DOMAIN past = 1..n /\ DOMAIN ys = 1..(n + 1)
      /\ ys[n + 1] = txn /\ \A i \in 1..n : ys[i] = past[i]
  OBVIOUS
<1>2. Entries(ys, J) = IF n + 1 \in J THEN Append(Entries(past, J), txn) ELSE Entries(past, J)
  <2> HIDE DEF J
  <2> QED
    BY EntriesAppend
<1>3. n + 1 \in J <=> txn.payee = x
  BY <1>1
<1>4. \A i \in 1..n : i \in I <=> i \in J
  BY <1>1
<1>5. Entries(past, I) = Entries(past, J)
  <2> HIDE DEF I, J
  <2> QED
    BY <1>1, <1>4, EntriesSame
<1> QED
  BY <1>2, <1>3, <1>5 DEF ToIn

LEMMA OfAndToType ==
  ASSUME NEW S, NEW past \in Seq(S), NEW x
  PROVE  OfIn(past, x) \in Seq(S) /\ ToIn(past, x) \in Seq(S)
BY EntriesType DEF OfIn, ToIn

LEMMA OfAndToNone ==
  ASSUME NEW x
  PROVE  OfIn(<< >>, x) = << >> /\ ToIn(<< >>, x) = << >>
BY EntriesOfNone DEF OfIn, ToIn

(* A payment as its beneficiary's window records it. *)
Inbound(txn)   == [payer |-> txn.payer, ts |-> txn.ts, amount |-> txn.amount]
InboundOf(txns) == [i \in DOMAIN txns |-> Inbound(txns[i])]

LEMMA InboundType ==
  ASSUME NEW q \in Seq(Payments)
  PROVE  InboundOf(q) \in Seq(Inbounds) /\ Len(InboundOf(q)) = Len(q)
<1>1. \A i \in 1..Len(q) : q[i] \in Payments /\ Inbound(q[i]) \in Inbounds
  <2> TAKE i \in 1..Len(q)
  <2>1. q[i] \in Payments
    OBVIOUS
  <2> QED
    BY <2>1 DEF Inbound, Inbounds, Payments
<1>2. InboundOf(q) = [i \in 1..Len(q) |-> Inbound(q[i])]
  BY DEF InboundOf
<1> HIDE DEF Inbound
<1> QED
  BY <1>1, <1>2

LEMMA InboundAppend ==
  ASSUME NEW q \in Seq(Payments), NEW e \in Payments
  PROVE  InboundOf(Append(q, e)) = Append(InboundOf(q), Inbound(e)) /\ Inbound(e) \in Inbounds
<1> DEFINE n == Len(q)
           w == Append(q, e)
           u == InboundOf(w)
           v == Append(InboundOf(q), Inbound(e))
<1>1. Inbound(e) \in Inbounds
  BY DEF Inbound, Inbounds, Payments
<1>2. n \in Nat /\ w \in Seq(Payments) /\ Len(w) = n + 1 /\ w[n + 1] = e /\ \A i \in 1..n : w[i] = q[i]
  OBVIOUS
<1>3. InboundOf(q) \in Seq(Inbounds) /\ Len(InboundOf(q)) = n /\ \A i \in 1..n : InboundOf(q)[i] = Inbound(q[i])
  BY InboundType DEF InboundOf
<1>4. v \in Seq(Inbounds) /\ Len(v) = n + 1 /\ v[n + 1] = Inbound(e) /\ \A i \in 1..n : v[i] = Inbound(q[i])
  BY <1>1, <1>3
<1> HIDE DEF w, v, n
<1>5. u \in Seq(Inbounds) /\ Len(u) = n + 1
  BY <1>2, InboundType
<1>6. \A i \in 1..(n + 1) : u[i] = Inbound(w[i])
  BY <1>2 DEF InboundOf
<1>7. \A i \in 1..(n + 1) : u[i] = v[i]
  <2> TAKE i \in 1..(n + 1)
  <2>1. i = n + 1 \/ i \in 1..n
    BY <1>2
  <2> QED
    BY <1>2, <1>4, <1>6, <2>1
<1>8. u = v
  BY <1>4, <1>5, <1>7, SameSequence
<1> QED
  BY <1>1, <1>8 DEF v, w

(* The window of a day's payments is the day of the window. *)
LEMMA InboundSince ==
  ASSUME NEW q \in Seq(Payments), NEW c
  PROVE  InboundOf(Since(q, c)) = Since(InboundOf(q), c)
<1> DEFINE T == {k \in Nat : \A xs \in Seq(Payments) :
                   Len(xs) = k => InboundOf(Since(xs, c)) = Since(InboundOf(xs), c)}
<1>1. 0 \in T
  <2> SUFFICES ASSUME NEW xs \in Seq(Payments), Len(xs) = 0
               PROVE  InboundOf(Since(xs, c)) = Since(InboundOf(xs), c)
    OBVIOUS
  <2>1. xs = << >> /\ InboundOf(<< >>) = << >>
    BY DEF InboundOf
  <2> QED
    BY <2>1, SinceOfNone
<1>2. ASSUME NEW k \in Nat, k \in T PROVE k + 1 \in T
  <2> SUFFICES ASSUME NEW ys \in Seq(Payments), Len(ys) = k + 1
               PROVE  InboundOf(Since(ys, c)) = Since(InboundOf(ys), c)
    OBVIOUS
  <2> DEFINE xs == SubSeq(ys, 1, k)
             e == ys[k + 1]
  <2>1. xs \in Seq(Payments) /\ Len(xs) = k /\ e \in Payments /\ ys = Append(xs, e)
    BY FrontAndLast
  <2>2. InboundOf(Since(xs, c)) = Since(InboundOf(xs), c)
    BY <1>2, <2>1
  <2> HIDE DEF xs, e, T
  <2>3. Since(ys, c) = IF e.ts >= c THEN Append(Since(xs, c), e) ELSE Since(xs, c)
    BY <2>1, SinceAppend
  <2>4. InboundOf(ys) = Append(InboundOf(xs), Inbound(e)) /\ Inbound(e) \in Inbounds
    BY <2>1, InboundAppend
  <2>5. InboundOf(xs) \in Seq(Inbounds) /\ Inbound(e).ts = e.ts
    BY <2>1, InboundType DEF Inbound
  <2>6. Since(InboundOf(ys), c) = IF e.ts >= c THEN Append(Since(InboundOf(xs), c), Inbound(e))
                                  ELSE Since(InboundOf(xs), c)
    BY <2>4, <2>5, SinceAppend
  <2>7. Since(xs, c) \in Seq(Payments)
    BY <2>1, SinceType
  <2>8. InboundOf(Append(Since(xs, c), e)) = Append(InboundOf(Since(xs, c)), Inbound(e))
    BY <2>1, <2>7, InboundAppend
  <2> QED
    BY <2>2, <2>3, <2>6, <2>8
<1> HIDE DEF T
<1>3. Nat \subseteq T
  BY <1>1, <1>2, SetInduction
<1>4. Len(q) \in T
  BY <1>3
<1> QED
  BY <1>4 DEF T

(* Read back from the newest, a day is the whole of it. *)
LEMMA RecentIsReversed ==
  ASSUME NEW store, NEW x, NEW c \in Int, NEW all \in Seq(Payments), InTimeOrder(all),
         At(store.txns, x, << >>) = all
  PROVE  RecentPayerTxns(store, x, c) = Reverse(Since(all, c))
<1> DEFINE n == Len(all)
           run == {i \in DOMAIN all : \A j \in i..n : all[j].ts >= c}
           ends == {n + 1} \cup run
<1>1. RecentPayerTxns(store, x, c) = Reverse(SubSeq(all, Min(ends), n))
  BY DEF RecentPayerTxns
<1>2. PICK m : CutAt(all, c, m)
  BY CutExists, PaymentsAreDated
<1>3. n \in Nat /\ DOMAIN all = 1..n /\ m \in 1..(n + 1) /\ \A i \in 1..n : all[i].ts >= c <=> i >= m
  BY <1>2 DEF CutAt
<1>4. \A i \in 1..n : i \in run <=> i >= m
  <2> TAKE i \in 1..n
  <2>1. ASSUME i >= m PROVE i \in run
    <3>1. \A j \in i..n : j \in 1..n /\ j >= m
      BY <1>3, <2>1
    <3> QED
      BY <1>3, <3>1
  <2>2. ASSUME i \in run PROVE i >= m
    <3>1. i \in i..n
      BY <1>3
    <3> QED
      BY <1>3, <2>2, <3>1
  <2> QED
    BY <2>1, <2>2
<1>5. run \subseteq 1..n
  BY <1>3
<1> HIDE DEF run, n
<1>6. m \in ends /\ \A i \in ends : m <= i /\ i \in Int
  BY <1>3, <1>4, <1>5
<1> HIDE DEF ends
<1>7. Min(ends) = m
  <2>1. Min(ends) \in ends /\ \A i \in ends : Min(ends) <= i
    BY <1>6 DEF Min
  <2> QED
    BY <1>6, <2>1
<1>8. Since(all, c) = SubSeq(all, m, n)
  BY <1>2, SinceIsTheEnd DEF CutAt, n
<1> QED
  BY <1>1, <1>7, <1>8

-----------------------------------------------------------------------------
(* The days a profile keeps *)

Days(past)        == {IstDay(past[i].ts) : i \in DOMAIN past}
LaterDays(days, d) == {e \in days : e > d}
KeptDays(days)    == {d \in days : Cardinality(LaterDays(days, d)) < DayWindow}
OnDay(past, d)    == {i \in DOMAIN past : IstDay(past[i].ts) = d}

LEMMA DaysRise ==
  ASSUME NEW s \in Nat, NEW t \in Nat, s <= t
  PROVE  IstDay(s) \in Nat /\ IstDay(s) <= IstDay(t)
BY DEF IstDay, Ist, Day, Hour

LEMMA DaysAppend ==
  ASSUME NEW past \in Seq(Payments), NEW txn \in Payments, \A i \in 1..Len(past) : past[i].ts <= txn.ts
  PROVE  /\ Days(Append(past, txn)) = Days(past) \cup {IstDay(txn.ts)}
         /\ IstDay(txn.ts) \in Nat
         /\ Days(past) \in SUBSET Nat /\ IsFiniteSet(Days(past))
         /\ \A d \in Days(past) : d <= IstDay(txn.ts)
<1> DEFINE n == Len(past)
           ys == Append(past, txn)
<1>1. /\ n \in Nat /\ DOMAIN past = 1..n /\ DOMAIN ys = 1..(n + 1)
      /\ ys[n + 1] = txn /\ \A i \in 1..n : ys[i] = past[i]
  OBVIOUS
<1>2. txn.ts \in Nat /\ \A i \in 1..n : past[i].ts \in Nat
  <2>1. \A i \in 1..n : past[i] \in Payments
    OBVIOUS
  <2> QED
    BY <2>1 DEF Payments
<1> HIDE DEF ys, n
<1>3. IstDay(txn.ts) \in Nat /\ \A i \in 1..n : IstDay(past[i].ts) \in Nat /\ IstDay(past[i].ts) <= IstDay(txn.ts)
  BY <1>2, DaysRise DEF n
<1>4. Days(ys) = Days(past) \cup {IstDay(txn.ts)}
  <2>1. \A d : d \in Days(ys) <=> \E i \in 1..(n + 1) : d = IstDay(ys[i].ts)
    BY <1>1 DEF Days
  <2>2. \A d : d \in Days(past) <=> \E i \in 1..n : d = IstDay(past[i].ts)
    BY <1>1 DEF Days
  <2>3. \A i : i \in 1..(n + 1) <=> (i \in 1..n \/ i = n + 1)
    BY <1>1
  <2> QED
    BY <1>1, <2>1, <2>2, <2>3
<1>5. Days(past) \in SUBSET Nat /\ \A d \in Days(past) : d <= IstDay(txn.ts)
  BY <1>1, <1>3 DEF Days
<1>6. IsFiniteSet(Days(past))
  BY <1>3, <1>5, FS_BoundedSetOfNaturals
<1> QED
  BY <1>3, <1>4, <1>5, <1>6 DEF ys

(* Keeping the latest days day after day is keeping them once at the end. *)
LEMMA KeptDaysAdd ==
  ASSUME NEW days \in SUBSET Nat, IsFiniteSet(days), NEW D \in Nat, \A d \in days : d <= D
  PROVE  /\ KeptDays(KeptDays(days) \cup {D}) = KeptDays(days \cup {D})
         /\ KeptDays(days \cup {D}) \subseteq KeptDays(days) \cup {D}
         /\ D \in KeptDays(days \cup {D}) /\ (D \in days => D \in KeptDays(days))
<1> DEFINE kept == KeptDays(days)
           some == kept \cup {D}
           all  == days \cup {D}
<1> USE WindowsArePositive
<1>1. kept \subseteq days /\ all \in SUBSET Nat /\ IsFiniteSet(all)
  BY FS_AddElement DEF KeptDays
<1>2. ASSUME NEW s \in SUBSET Nat, \A d \in s : d <= D PROVE Cardinality(LaterDays(s, D)) = 0
  <2>1. ASSUME NEW e \in s PROVE ~(e > D)
    <3>1. e \in Nat /\ e <= D
      BY <1>2
    <3> QED
      BY <3>1
  <2>2. LaterDays(s, D) = {}
    BY <2>1 DEF LaterDays
  <2> QED
    BY <2>2, FS_EmptySet
<1>3. D \in KeptDays(all) /\ D \in KeptDays(some) /\ (D \in days => D \in kept)
  <2>1. Cardinality(LaterDays(all, D)) = 0 /\ Cardinality(LaterDays(some, D)) = 0
        /\ Cardinality(LaterDays(days, D)) = 0
    BY <1>1, <1>2
  <2> HIDE DEF kept
  <2>2. D \in KeptDays(all) /\ D \in KeptDays(some)
    BY <2>1 DEF KeptDays
  <2>3. D \in days => D \in kept
    BY <2>1 DEF KeptDays, kept
  <2> QED
    BY <2>2, <2>3
<1>4. ASSUME NEW d \in kept PROVE LaterDays(some, d) = LaterDays(all, d)
  <2>1. d \in days /\ Cardinality(LaterDays(days, d)) < DayWindow
    BY DEF KeptDays
  <2>2. ASSUME NEW e \in days, e > d PROVE e \in kept
    <3>1. LaterDays(days, e) \subseteq LaterDays(days, d)
      <4>1. ASSUME NEW x \in days, x > e PROVE x > d
        <5>1. x \in Nat /\ e \in Nat /\ d \in Nat
          BY <2>1
        <5> QED
          BY <2>2, <4>1, <5>1
      <4> QED
        BY <4>1 DEF LaterDays
    <3>2. IsFiniteSet(LaterDays(days, d)) /\ LaterDays(days, d) \in SUBSET days
      BY FS_Subset DEF LaterDays
    <3>3. Cardinality(LaterDays(days, e)) <= Cardinality(LaterDays(days, d))
          /\ IsFiniteSet(LaterDays(days, e))
      BY <3>1, <3>2, FS_Subset
    <3>4. Cardinality(LaterDays(days, e)) \in Nat /\ Cardinality(LaterDays(days, d)) \in Nat
      BY <3>2, <3>3, FS_CardinalityType
    <3>5. Cardinality(LaterDays(days, e)) < DayWindow
      BY <2>1, <3>3, <3>4
    <3> QED
      BY <3>5 DEF KeptDays
  <2> HIDE DEF kept
  <2> QED
    BY <1>1, <2>2 DEF LaterDays
<1>5. ASSUME NEW d \in KeptDays(all), d # D PROVE d \in kept
  <2>1. d \in days /\ Cardinality(LaterDays(all, d)) < DayWindow
    BY <1>5 DEF KeptDays
  <2>2. LaterDays(days, d) \subseteq LaterDays(all, d) /\ LaterDays(all, d) \in SUBSET all
    BY DEF LaterDays
  <2>3. IsFiniteSet(LaterDays(all, d))
    BY <1>1, <2>2, FS_Subset
  <2>4. Cardinality(LaterDays(days, d)) <= Cardinality(LaterDays(all, d)) /\ IsFiniteSet(LaterDays(days, d))
    BY <2>2, <2>3, FS_Subset
  <2>5. Cardinality(LaterDays(days, d)) \in Nat /\ Cardinality(LaterDays(all, d)) \in Nat
    BY <2>3, <2>4, FS_CardinalityType
  <2>6. Cardinality(LaterDays(days, d)) < DayWindow
    BY <2>1, <2>4, <2>5
  <2> QED
    BY <2>1, <2>6 DEF KeptDays
<1> HIDE DEF kept
<1>6. \A d : d \in KeptDays(some) <=> d \in KeptDays(all)
  <2> TAKE d
  <2>1. CASE d = D
    BY <1>3, <2>1
  <2>2. CASE d # D
    <3>1. d \in KeptDays(some) <=> d \in kept /\ Cardinality(LaterDays(some, d)) < DayWindow
      BY <2>2 DEF KeptDays
    <3>2. d \in KeptDays(all) <=> d \in kept /\ Cardinality(LaterDays(all, d)) < DayWindow
      <4>1. d \in KeptDays(all) <=> d \in days /\ Cardinality(LaterDays(all, d)) < DayWindow
        BY <2>2 DEF KeptDays
      <4> QED
        BY <1>1, <1>5, <2>2, <4>1
    <3> QED
      BY <1>4, <3>1, <3>2
  <2> QED
    BY <2>1, <2>2
<1>7. KeptDays(some) = KeptDays(all)
  BY <1>6
<1>8. KeptDays(all) \subseteq some
  BY <1>5
<1> QED
  BY <1>3, <1>7, <1>8 DEF kept

LEMMA KeptDaysAreFew ==
  ASSUME NEW days \in SUBSET Nat, IsFiniteSet(days)
  PROVE  Cardinality(KeptDays(days)) <= DayWindow
<1> USE WindowsArePositive
<1> DEFINE kept == KeptDays(days)
<1>1. kept \in SUBSET days /\ kept \in SUBSET Nat
  BY DEF KeptDays
<1>2. IsFiniteSet(kept)
  BY <1>1, FS_Subset
<1> HIDE DEF kept
<1>3. CASE kept = {}
  BY <1>3, FS_EmptySet DEF kept
<1>4. CASE kept # {}
  <2>1. PICK m \in kept : \A x \in kept : m <= x
    BY <1>1, <1>4, LeastExists
  <2>2. kept \ {m} \subseteq LaterDays(days, m)
    <3> SUFFICES ASSUME NEW x \in kept, x # m PROVE x \in LaterDays(days, m)
      OBVIOUS
    <3>1. x \in days /\ x > m
      BY <1>1, <2>1
    <3> QED
      BY <3>1 DEF LaterDays
  <2>3. LaterDays(days, m) \in SUBSET days
    BY DEF LaterDays
  <2>4. IsFiniteSet(LaterDays(days, m))
    BY <2>3, FS_Subset
  <2>5. Cardinality(kept \ {m}) <= Cardinality(LaterDays(days, m))
    BY <2>2, <2>4, FS_Subset
  <2>6. Cardinality(kept \ {m}) = Cardinality(kept) - 1
    BY <1>2, <2>1, FS_RemoveElement
  <2>7. Cardinality(kept) \in Nat /\ Cardinality(LaterDays(days, m)) \in Nat
    BY <1>2, <2>4, FS_CardinalityType
  <2>8. Cardinality(LaterDays(days, m)) < DayWindow
    BY <2>1 DEF KeptDays, kept
  <2>9. Cardinality(kept) <= DayWindow
    BY <2>5, <2>6, <2>7, <2>8
  <2> QED
    BY <2>9 DEF kept
<1> QED
  BY <1>3, <1>4

LEMMA OnDayAppend ==
  ASSUME NEW past \in Seq(Payments), NEW txn \in Payments, NEW d
  PROVE  /\ Cardinality(OnDay(Append(past, txn), d))
              = IF IstDay(txn.ts) = d THEN Cardinality(OnDay(past, d)) + 1 ELSE Cardinality(OnDay(past, d))
         /\ (d \notin Days(past) => Cardinality(OnDay(past, d)) = 0)
<1> DEFINE n == Len(past)
           ys == Append(past, txn)
           old == OnDay(past, d)
<1>1. /\ n \in Nat /\ DOMAIN past = 1..n /\ DOMAIN ys = 1..(n + 1)
      /\ ys[n + 1] = txn /\ \A i \in 1..n : ys[i] = past[i]
  OBVIOUS
<1> HIDE DEF ys, n
<1>2. IsFiniteSet(old) /\ n + 1 \notin old
  <2>1. old \in SUBSET (1..n) /\ IsFiniteSet(1..n)
    BY <1>1, FS_Interval DEF OnDay
  <2>2. n + 1 \notin 1..n
    BY <1>1
  <2> HIDE DEF old
  <2> QED
    BY <2>1, <2>2, FS_Subset
<1>3. OnDay(ys, d) = IF IstDay(txn.ts) = d THEN old \cup {n + 1} ELSE old
  <2>1. \A i : i \in 1..(n + 1) <=> (i \in 1..n \/ i = n + 1)
    BY <1>1
  <2>2. \A i : i \in OnDay(ys, d) <=> (i \in 1..(n + 1) /\ IstDay(ys[i].ts) = d)
    BY <1>1 DEF OnDay
  <2>3. \A i : i \in old <=> (i \in 1..n /\ IstDay(past[i].ts) = d)
    BY <1>1 DEF OnDay
  <2> HIDE DEF old
  <2>4. CASE IstDay(txn.ts) = d
    <3>1. \A i : i \in OnDay(ys, d) <=> i \in old \cup {n + 1}
      BY <1>1, <2>1, <2>2, <2>3, <2>4
    <3> QED
      BY <2>4, <3>1
  <2>5. CASE IstDay(txn.ts) # d
    <3>1. \A i : i \in OnDay(ys, d) <=> i \in old
      BY <1>1, <2>1, <2>2, <2>3, <2>5
    <3> QED
      BY <2>5, <3>1
  <2> QED
    BY <2>4, <2>5
<1>4. d \notin Days(past) => old = {}
  BY DEF Days, OnDay
<1> HIDE DEF old
<1>5. Cardinality(old \cup {n + 1}) = Cardinality(old) + 1
  BY <1>2, FS_AddElement
<1>6. d \notin Days(past) => Cardinality(old) = 0
  BY <1>4, FS_EmptySet
<1> QED
  BY <1>3, <1>5, <1>6 DEF old, ys

-----------------------------------------------------------------------------
(* A profile is what its payer's payments come to *)

IsPayer(p) ==
  DOMAIN p = {"firstSeen", "lastSeen", "txnCount", "maxAmount", "totalValue", "logAmounts",
              "hourCounts", "dailyCounts", "knownPayees", "knownDevices", "observedBalance"}

AmountsOf(past)    == [i \in DOMAIN past |-> past[i].amount]
LogsOf(past)       == [i \in DOMAIN past |-> LogOf[past[i].amount]]
PayeesOf(past)     == {past[i].payee : i \in DOMAIN past}
TimesTo(past, b)   == {past[i].ts : i \in {k \in DOMAIN past : past[k].payee = b}}
AmountSet(past)    == {0} \cup {past[i].amount : i \in DOMAIN past}

LEMMA ComesToUnfolds ==
  ASSUME NEW p, NEW past, NEW opened
  PROVE  ComesTo(p, past, opened) <=>
           /\ p.txnCount = Len(past)
           /\ p.firstSeen = IF past = << >> THEN opened ELSE past[1].ts
           /\ p.totalValue = Total(AmountsOf(past))
           /\ p.maxAmount = Max(AmountSet(past))
           /\ p.logAmounts = Keep(LogsOf(past), AmountWindow)
           /\ p.dailyCounts = [d \in KeptDays(Days(past)) |-> Cardinality(OnDay(past, d))]
           /\ p.knownPayees = [b \in PayeesOf(past) |-> Min(TimesTo(past, b))]
BY Zenon DEF ComesTo, AmountsOf, LogsOf, PayeesOf, TimesTo, AmountSet, KeptDays, LaterDays, Days, OnDay

LEMMA UpdatedFields ==
  ASSUME NEW p, IsPayer(p), NEW txn
  PROVE  LET u == UpdatePayerProfile(p, txn)
             D == IstDay(txn.ts)
         IN  /\ IsPayer(u)
             /\ u.firstSeen = p.firstSeen
             /\ u.txnCount = p.txnCount + 1
             /\ u.maxAmount = IF txn.amount > p.maxAmount THEN txn.amount ELSE p.maxAmount
             /\ u.totalValue = p.totalValue + txn.amount
             /\ u.logAmounts = Keep(Append(p.logAmounts, LogOf[txn.amount]), AmountWindow)
             /\ u.dailyCounts = LatestDays(Put(p.dailyCounts, D, At(p.dailyCounts, D, 0) + 1))
             /\ u.knownPayees = Put(p.knownPayees, txn.payee, At(p.knownPayees, txn.payee, txn.ts))
<1> DEFINE u == UpdatePayerProfile(p, txn)
           D == IstDay(txn.ts)
<1>1. IsPayer(u) /\ u.firstSeen = p.firstSeen
  BY DEF UpdatePayerProfile, IsPayer
<1>2. u.txnCount = p.txnCount + 1
  BY DEF UpdatePayerProfile, IsPayer
<1>3. u.maxAmount = IF txn.amount > p.maxAmount THEN txn.amount ELSE p.maxAmount
  BY DEF UpdatePayerProfile, IsPayer
<1>4. u.totalValue = p.totalValue + txn.amount
  BY DEF UpdatePayerProfile, IsPayer
<1>5. u.logAmounts = Keep(Append(p.logAmounts, LogOf[txn.amount]), AmountWindow)
  BY DEF UpdatePayerProfile, IsPayer
<1>6. u.dailyCounts = LatestDays(Put(p.dailyCounts, D, At(p.dailyCounts, D, 0) + 1))
  BY DEF UpdatePayerProfile, IsPayer
<1>7. u.knownPayees = Put(p.knownPayees, txn.payee, At(p.knownPayees, txn.payee, txn.ts))
  BY DEF UpdatePayerProfile, IsPayer
<1> QED
  BY <1>1, <1>2, <1>3, <1>4, <1>5, <1>6, <1>7

LEMMA EmptyPayerComesToNothing ==
  ASSUME NEW now
  PROVE  IsPayer(EmptyPayerProfile(now)) /\ ComesTo(EmptyPayerProfile(now), << >>, now)
<1> DEFINE p == EmptyPayerProfile(now)
<1>1. /\ IsPayer(p) /\ p.firstSeen = now /\ p.txnCount = 0 /\ p.maxAmount = 0 /\ p.totalValue = 0
      /\ p.logAmounts = << >> /\ p.dailyCounts = << >> /\ p.knownPayees = << >>
  BY DEF EmptyPayerProfile, IsPayer
<1> HIDE DEF p
<1>2. AmountsOf(<< >>) = << >> /\ LogsOf(<< >>) = << >> /\ Len(<< >>) = 0
  BY DEF AmountsOf, LogsOf
<1>3. AmountSet(<< >>) = {0}
  BY DEF AmountSet
<1>4. Max({0}) = 0
  BY DEF Max
<1>5. Keep(<< >>, AmountWindow) = << >>
  BY <1>2, WindowsArePositive DEF Keep
<1>6. Days(<< >>) = {} /\ PayeesOf(<< >>) = {}
  BY DEF Days, PayeesOf
<1>7. KeptDays({}) = {}
  BY DEF KeptDays
<1>8. << >> = [d \in KeptDays(Days(<< >>)) |-> Cardinality(OnDay(<< >>, d))]
  <2>1. KeptDays(Days(<< >>)) = {}
    BY <1>6, <1>7
  <2> QED
    BY <2>1
<1>9. << >> = [b \in PayeesOf(<< >>) |-> Min(TimesTo(<< >>, b))]
  BY <1>6
<1>10. ComesTo(p, << >>, now)
  BY <1>1, <1>2, <1>3, <1>4, <1>5, <1>8, <1>9, TotalOfNone, ComesToUnfolds
<1> QED
  BY <1>1, <1>10 DEF p

LEMMA ListsAppend ==
  ASSUME NEW past \in Seq(Payments), NEW txn \in Payments
  PROVE  /\ AmountsOf(past) \in Seq(Nat) /\ AmountsOf(Append(past, txn)) = Append(AmountsOf(past), txn.amount)
         /\ LogsOf(past) \in Seq({LogOf[a] : a \in Nat})
         /\ LogsOf(Append(past, txn)) = Append(LogsOf(past), LogOf[txn.amount])
<1> DEFINE n == Len(past)
           ys == Append(past, txn)
           G == {LogOf[a] : a \in Nat}
<1>1. /\ n \in Nat /\ DOMAIN past = 1..n /\ DOMAIN ys = 1..(n + 1)
      /\ ys[n + 1] = txn /\ \A i \in 1..n : ys[i] = past[i] /\ past[i] \in Payments
  OBVIOUS
<1>2. txn.amount \in Nat /\ \A i \in 1..n : past[i].amount \in Nat
  BY <1>1 DEF Payments
<1> HIDE DEF ys, n
<1>3. AmountsOf(past) = [i \in 1..n |-> past[i].amount] /\ AmountsOf(ys) = [i \in 1..(n + 1) |-> ys[i].amount]
  BY <1>1 DEF AmountsOf
<1>4. LogsOf(past) = [i \in 1..n |-> LogOf[past[i].amount]] /\ LogsOf(ys) = [i \in 1..(n + 1) |-> LogOf[ys[i].amount]]
  BY <1>1 DEF LogsOf
<1>5. \A i \in 1..(n + 1) : i = n + 1 \/ i \in 1..n
  BY <1>1
<1>6. \A i \in 1..(n + 1) : ys[i].amount \in Nat
  BY <1>1, <1>2, <1>5
<1>7. AmountsOf(past) \in Seq(Nat) /\ AmountsOf(ys) = Append(AmountsOf(past), txn.amount)
  <2> DEFINE a == AmountsOf(past)
             b == AmountsOf(ys)
             c == Append(a, txn.amount)
  <2>1. a \in Seq(Nat) /\ Len(a) = n /\ \A i \in 1..n : a[i] = past[i].amount
    BY <1>1, <1>2, <1>3
  <2>2. b \in Seq(Nat) /\ Len(b) = n + 1 /\ \A i \in 1..(n + 1) : b[i] = ys[i].amount
    BY <1>1, <1>3, <1>6
  <2> HIDE DEF a, b
  <2>3. c \in Seq(Nat) /\ Len(c) = n + 1 /\ c[n + 1] = txn.amount /\ \A i \in 1..n : c[i] = a[i]
    BY <1>1, <1>2, <2>1
  <2> HIDE DEF c
  <2>4. ASSUME NEW i \in 1..(n + 1) PROVE b[i] = c[i]
    <3>1. CASE i = n + 1
      <4>1. ys[i] = txn
        BY <1>1, <3>1
      <4> QED
        BY <2>2, <2>3, <3>1, <4>1
    <3>2. CASE i # n + 1
      <4>1. i \in 1..n
        BY <1>1, <3>2
      <4>2. ys[i] = past[i]
        BY <1>1, <4>1
      <4>3. b[i] = ys[i].amount
        BY <2>2
      <4> QED
        BY <2>1, <2>3, <4>1, <4>2, <4>3
    <3> QED
      BY <3>1, <3>2
  <2>5. b = c
    BY <2>2, <2>3, <2>4, SameSequence
  <2> QED
    BY <2>1, <2>5 DEF a, b, c
<1>8. LogsOf(past) \in Seq(G) /\ LogsOf(ys) = Append(LogsOf(past), LogOf[txn.amount])
  <2> DEFINE a == LogsOf(past)
             b == LogsOf(ys)
             c == Append(a, LogOf[txn.amount])
  <2>0. LogOf[txn.amount] \in G /\ (\A i \in 1..n : LogOf[past[i].amount] \in G)
        /\ \A i \in 1..(n + 1) : LogOf[ys[i].amount] \in G
    BY <1>2, <1>6
  <2> HIDE DEF G
  <2>1. a \in Seq(G) /\ Len(a) = n /\ \A i \in 1..n : a[i] = LogOf[past[i].amount]
    BY <1>1, <1>4, <2>0
  <2>2. b \in Seq(G) /\ Len(b) = n + 1 /\ \A i \in 1..(n + 1) : b[i] = LogOf[ys[i].amount]
    BY <1>1, <1>4, <2>0
  <2> HIDE DEF a, b
  <2>3. c \in Seq(G) /\ Len(c) = n + 1 /\ c[n + 1] = LogOf[txn.amount] /\ \A i \in 1..n : c[i] = a[i]
    BY <1>1, <2>0, <2>1
  <2> HIDE DEF c
  <2>4. ASSUME NEW i \in 1..(n + 1) PROVE b[i] = c[i]
    <3>1. CASE i = n + 1
      <4>1. ys[i] = txn
        BY <1>1, <3>1
      <4> QED
        BY <2>2, <2>3, <3>1, <4>1
    <3>2. CASE i # n + 1
      <4>1. i \in 1..n
        BY <1>1, <3>2
      <4>2. ys[i] = past[i]
        BY <1>1, <4>1
      <4>3. b[i] = LogOf[ys[i].amount]
        BY <2>2
      <4> QED
        BY <2>1, <2>3, <4>1, <4>2, <4>3
    <3> QED
      BY <3>1, <3>2
  <2>5. b = c
    BY <2>2, <2>3, <2>4, SameSequence
  <2> QED
    BY <2>1, <2>5 DEF a, b, c
<1> QED
  BY <1>7, <1>8 DEF ys

(* The largest so far, or the new one. *)
LEMMA MaxAppend ==
  ASSUME NEW past \in Seq(Payments), NEW txn \in Payments
  PROVE  LET m == Max(AmountSet(past))
         IN  Max(AmountSet(Append(past, txn))) = IF txn.amount > m THEN txn.amount ELSE m
<1> DEFINE n == Len(past)
           ys == Append(past, txn)
           A == AmountSet(past)
           B == AmountSet(ys)
<1>1. /\ n \in Nat /\ DOMAIN past = 1..n /\ DOMAIN ys = 1..(n + 1)
      /\ ys[n + 1] = txn /\ \A i \in 1..n : ys[i] = past[i] /\ past[i] \in Payments
  OBVIOUS
<1>2. txn.amount \in Nat /\ \A i \in 1..n : past[i].amount \in Nat
  BY <1>1 DEF Payments
<1> HIDE DEF ys, n
<1>3. B = A \cup {txn.amount}
  <2>1. \A x : x \in A <=> (x = 0 \/ \E i \in 1..n : x = past[i].amount)
    BY <1>1 DEF AmountSet
  <2>2. \A x : x \in B <=> (x = 0 \/ \E i \in 1..(n + 1) : x = ys[i].amount)
    BY <1>1 DEF AmountSet
  <2>3. \A i : i \in 1..(n + 1) <=> (i \in 1..n \/ i = n + 1)
    BY <1>1
  <2> HIDE DEF A, B
  <2> QED
    BY <1>1, <2>1, <2>2, <2>3
<1>4. A \in SUBSET Nat /\ 0 \in A
  BY <1>1, <1>2 DEF AmountSet
<1>5. \E m \in A : \A x \in A : m >= x
  <2> DEFINE Tops(m, k) == /\ (m = 0 \/ \E i \in 1..k : m = past[i].amount)
                           /\ \A i \in 1..k : m >= past[i].amount
             T == {k \in Nat : k <= n => \E m \in Nat : Tops(m, k)}
  <2>0. Tops(0, 0)
    OBVIOUS
  <2> HIDE DEF Tops
  <2>1. 0 \in T
    BY <2>0
  <2>2. ASSUME NEW k \in Nat, k \in T PROVE k + 1 \in T
    <3> SUFFICES ASSUME k + 1 <= n PROVE \E m \in Nat : Tops(m, k + 1)
      OBVIOUS
    <3>1. PICK m \in Nat : Tops(m, k)
      BY <1>1, <2>2
    <3>2. k + 1 \in 1..n /\ k + 1 \in 1..(k + 1) /\ past[k + 1].amount \in Nat
      BY <1>1, <1>2
    <3>3. \A i \in 1..(k + 1) : i \in 1..n /\ (i \in 1..k \/ i = k + 1)
      BY <1>1
    <3>4. \A i \in 1..k : i \in 1..(k + 1) /\ past[i].amount \in Nat
      BY <1>2, <3>3
    <3>5. CASE past[k + 1].amount > m
      <4>1. \A i \in 1..(k + 1) : past[k + 1].amount >= past[i].amount
        BY <3>1, <3>2, <3>3, <3>4, <3>5 DEF Tops
      <4>2. Tops(past[k + 1].amount, k + 1)
        BY <3>2, <4>1 DEF Tops
      <4> QED
        BY <3>2, <4>2
    <3>6. CASE ~(past[k + 1].amount > m)
      <4>1. \A i \in 1..(k + 1) : m >= past[i].amount
        BY <3>1, <3>2, <3>3, <3>6 DEF Tops
      <4>2. m = 0 \/ \E i \in 1..(k + 1) : m = past[i].amount
        BY <3>1, <3>4 DEF Tops
      <4>3. Tops(m, k + 1)
        BY <4>1, <4>2 DEF Tops
      <4> QED
        BY <4>3
    <3> QED
      BY <3>5, <3>6
  <2>3. n \in T
    <3> HIDE DEF T
    <3> QED
      BY <1>1, <2>1, <2>2, SetInduction
  <2>4. PICK m \in Nat : Tops(m, n)
    BY <1>1, <2>3
  <2>5. \A x : x \in A <=> (x = 0 \/ \E i \in 1..n : x = past[i].amount)
    BY <1>1 DEF AmountSet
  <2> HIDE DEF A
  <2>6. m \in A /\ \A x \in A : m >= x
    BY <2>4, <2>5 DEF Tops
  <2> QED
    BY <2>6
<1> HIDE DEF A, B
<1>6. Max(A) \in A /\ \A x \in A : Max(A) >= x
  BY <1>5 DEF Max
<1> DEFINE m == Max(A)
           w == IF txn.amount > m THEN txn.amount ELSE m
<1> HIDE DEF m
<1>7. m \in Nat /\ m \in A /\ \A x \in A : m >= x
  BY <1>4, <1>6 DEF m
<1>8. w \in B /\ \A x \in B : w >= x /\ x \in Nat
  BY <1>2, <1>3, <1>4, <1>7
<1> HIDE DEF w
<1>9. Max(B) \in B /\ \A x \in B : Max(B) >= x
  BY <1>8 DEF Max
<1>10. Max(B) = w
  BY <1>8, <1>9
<1> QED
  BY <1>10 DEF w, m, A, B, ys

LEMMA PutAt ==
  ASSUME NEW f, NEW x, NEW v, NEW y, NEW d
  PROVE  At(Put(f, x, v), y, d) = IF y = x THEN v ELSE At(f, y, d)
BY DEF Put, At

LEMMA PutTwice ==
  ASSUME NEW f, NEW x, NEW w, NEW v
  PROVE  Put(Put(f, x, w), x, v) = Put(f, x, v)
<1>1. DOMAIN Put(f, x, w) \cup {x} = DOMAIN f \cup {x}
  BY DEF Put
<1>2. \A y \in DOMAIN f \cup {x} : y # x => Put(f, x, w)[y] = f[y]
  BY DEF Put
<1>3. Put(Put(f, x, w), x, v) = [y \in DOMAIN f \cup {x} |-> IF y = x THEN v ELSE Put(f, x, w)[y]]
  BY <1>1 DEF Put
<1>4. [y \in DOMAIN f \cup {x} |-> IF y = x THEN v ELSE Put(f, x, w)[y]]
        = [y \in DOMAIN f \cup {x} |-> IF y = x THEN v ELSE f[y]]
  BY <1>2
<1> QED
  BY <1>3, <1>4 DEF Put

(* The days of one more payment. *)
LEMMA DaysUpdated ==
  ASSUME NEW past \in Seq(Payments), NEW txn \in Payments, \A i \in 1..Len(past) : past[i].ts <= txn.ts,
         NEW counts, counts = [d \in KeptDays(Days(past)) |-> Cardinality(OnDay(past, d))]
  PROVE  LET D == IstDay(txn.ts)
             new == Append(past, txn)
         IN  LatestDays(Put(counts, D, At(counts, D, 0) + 1))
               = [d \in KeptDays(Days(new)) |-> Cardinality(OnDay(new, d))]
<1> DEFINE D == IstDay(txn.ts)
           new == Append(past, txn)
           days == Days(past)
           kept == KeptDays(days)
           more == At(counts, D, 0) + 1
           put == Put(counts, D, more)
           all == KeptDays(days \cup {D})
<1>1. /\ Days(new) = days \cup {D} /\ D \in Nat
      /\ days \in SUBSET Nat /\ IsFiniteSet(days) /\ \A d \in days : d <= D
  BY DaysAppend
<1>2. \A d : /\ Cardinality(OnDay(new, d))
                  = IF D = d THEN Cardinality(OnDay(past, d)) + 1 ELSE Cardinality(OnDay(past, d))
             /\ (d \notin days => Cardinality(OnDay(past, d)) = 0)
  BY OnDayAppend
<1> HIDE DEF D, new, days
<1>3. KeptDays(kept \cup {D}) = all /\ all \subseteq kept \cup {D} /\ (D \in days => D \in kept)
  BY <1>1, KeptDaysAdd
<1>4. counts = [d \in kept |-> Cardinality(OnDay(past, d))]
  BY DEF days
<1> HIDE DEF kept, all
<1>5. DOMAIN counts = kept /\ \A d \in kept : counts[d] = Cardinality(OnDay(past, d))
  BY <1>4
<1>6. At(counts, D, 0) = Cardinality(OnDay(past, D))
  BY <1>2, <1>3, <1>5 DEF At
<1>7. DOMAIN put = kept \cup {D} /\ put[D] = Cardinality(OnDay(past, D)) + 1
      /\ \A d \in kept : d # D => put[d] = Cardinality(OnDay(past, d))
  <2>1. more = Cardinality(OnDay(past, D)) + 1
    BY <1>6
  <2> HIDE DEF more
  <2>2. DOMAIN put = DOMAIN counts \cup {D} /\ put[D] = more /\ \A d \in DOMAIN counts : d # D => put[d] = counts[d]
    BY DEF Put
  <2> HIDE DEF put
  <2> QED
    BY <1>5, <2>1, <2>2
<1> HIDE DEF put
<1>8. \A d \in all : put[d] = Cardinality(OnDay(new, d))
  BY <1>2, <1>3, <1>7
<1>9. LatestDays(put) = [d \in KeptDays(DOMAIN put) |-> put[d]]
  BY Zenon DEF LatestDays, KeptDays, LaterDays
<1>10. LatestDays(put) = [d \in all |-> put[d]]
  BY <1>3, <1>7, <1>9
<1>11. [d \in all |-> put[d]] = [d \in all |-> Cardinality(OnDay(new, d))]
  BY <1>8
<1>12. all = KeptDays(Days(new))
  BY <1>1 DEF all
<1> QED
  BY <1>10, <1>11, <1>12 DEF put, D, new

(* The acquaintances after one more payment. *)
LEMMA PayeesUpdated ==
  ASSUME NEW past \in Seq(Payments), NEW txn \in Payments, \A i \in 1..Len(past) : past[i].ts <= txn.ts,
         NEW known, known = [b \in PayeesOf(past) |-> Min(TimesTo(past, b))]
  PROVE  LET new == Append(past, txn)
         IN  Put(known, txn.payee, At(known, txn.payee, txn.ts))
               = [b \in PayeesOf(new) |-> Min(TimesTo(new, b))]
<1> DEFINE n == Len(past)
           new == Append(past, txn)
           put == Put(known, txn.payee, At(known, txn.payee, txn.ts))
           old == PayeesOf(past)
<1>1. /\ n \in Nat /\ DOMAIN past = 1..n /\ DOMAIN new = 1..(n + 1)
      /\ new[n + 1] = txn /\ \A i \in 1..n : new[i] = past[i] /\ past[i] \in Payments
  OBVIOUS
<1>2. txn.ts \in Nat /\ \A i \in 1..n : past[i].ts \in Nat /\ past[i].ts <= txn.ts
  BY <1>1 DEF Payments
<1> HIDE DEF new, n
<1>3. \A i : i \in 1..(n + 1) <=> (i \in 1..n \/ i = n + 1)
  BY <1>1
<1>4. PayeesOf(new) = old \cup {txn.payee}
  <2>1. \A b : b \in PayeesOf(new) <=> \E i \in 1..(n + 1) : b = new[i].payee
    BY <1>1 DEF PayeesOf
  <2>2. \A b : b \in old <=> \E i \in 1..n : b = past[i].payee
    BY <1>1 DEF PayeesOf
  <2> HIDE DEF old
  <2> QED
    BY <1>1, <1>3, <2>1, <2>2
<1>5. ASSUME NEW b PROVE /\ b # txn.payee => TimesTo(new, b) = TimesTo(past, b)
                         /\ b = txn.payee => TimesTo(new, b) = TimesTo(past, b) \cup {txn.ts}
                         /\ \A t \in TimesTo(past, b) : t \in Nat /\ t <= txn.ts
                         /\ (b \in old <=> TimesTo(past, b) # {})
  <2>1. \A t : t \in TimesTo(new, b) <=> \E i \in 1..(n + 1) : new[i].payee = b /\ t = new[i].ts
    BY <1>1 DEF TimesTo
  <2>2. \A t : t \in TimesTo(past, b) <=> \E i \in 1..n : past[i].payee = b /\ t = past[i].ts
    BY <1>1 DEF TimesTo
  <2>3. b \in old <=> \E i \in 1..n : past[i].payee = b
    BY <1>1 DEF PayeesOf
  <2> HIDE DEF old
  <2>4. b # txn.payee => \A t : t \in TimesTo(new, b) <=> t \in TimesTo(past, b)
    BY <1>1, <1>3, <2>1, <2>2
  <2>5. b = txn.payee => \A t : t \in TimesTo(new, b) <=> t \in TimesTo(past, b) \cup {txn.ts}
    BY <1>1, <1>3, <2>1, <2>2
  <2>6. \A t \in TimesTo(past, b) : t \in Nat /\ t <= txn.ts
    BY <1>2, <2>2
  <2>7. b \in old <=> TimesTo(past, b) # {}
    BY <2>2, <2>3
  <2> QED
    BY <2>4, <2>5, <2>6, <2>7
<1> HIDE DEF old
<1>6. DOMAIN known = old /\ \A b \in old : known[b] = Min(TimesTo(past, b))
  BY DEF old
<1>7. At(known, txn.payee, txn.ts) = Min(TimesTo(new, txn.payee))
  <2> DEFINE s == TimesTo(past, txn.payee)
             t == txn.ts
  <2>1. TimesTo(new, txn.payee) = s \cup {t} /\ (\A x \in s : x \in Nat /\ x <= t)
        /\ (txn.payee \in old <=> s # {})
    BY <1>5
  <2>2. CASE txn.payee \notin old
    <3>1. s \cup {t} = {t} /\ At(known, txn.payee, txn.ts) = t
      BY <1>6, <2>1, <2>2 DEF At
    <3> HIDE DEF t
    <3>2. t \in Nat
      BY <1>2 DEF t
    <3>3. Min({t}) = t
      BY <3>2 DEF Min
    <3> QED
      BY <2>1, <3>1, <3>3
  <2>3. CASE txn.payee \in old
    <3>1. At(known, txn.payee, txn.ts) = Min(s)
      BY <1>6, <2>3 DEF At
    <3> HIDE DEF s, t
    <3>2. s \in SUBSET Nat /\ s # {} /\ t \in Nat
      BY <1>2, <2>1, <2>3 DEF t
    <3>3. PICK l \in s : \A x \in s : l <= x
      BY <3>2, LeastExists
    <3>4. Min(s) \in s /\ \A x \in s : Min(s) <= x
      BY <3>3 DEF Min
    <3> DEFINE m == Min(s)
    <3>5. m \in s \cup {t} /\ \A x \in s \cup {t} : m <= x /\ x \in Nat
      BY <2>1, <3>2, <3>4
    <3> HIDE DEF m
    <3>6. Min(s \cup {t}) \in s \cup {t} /\ \A x \in s \cup {t} : Min(s \cup {t}) <= x
      BY <3>5 DEF Min
    <3> DEFINE z == Min(s \cup {t})
    <3>7. z = m
      <4>1. z \in s \cup {t} /\ \A x \in s \cup {t} : z <= x
        BY <3>6
      <4> HIDE DEF z
      <4>2. z \in Nat /\ m \in Nat /\ m <= z /\ z <= m
        BY <3>5, <4>1
      <4> QED
        BY <4>2
    <3> QED
      BY <2>1, <3>1, <3>7 DEF m
  <2> QED
    BY <2>2, <2>3
<1>8. put = [b \in old \cup {txn.payee} |-> IF b = txn.payee THEN At(known, txn.payee, txn.ts) ELSE known[b]]
  BY <1>6 DEF Put
<1>9. \A b \in old \cup {txn.payee} :
        (IF b = txn.payee THEN At(known, txn.payee, txn.ts) ELSE known[b]) = Min(TimesTo(new, b))
  BY <1>5, <1>6, <1>7
<1>10. put = [b \in old \cup {txn.payee} |-> Min(TimesTo(new, b))]
  <2>1. [b \in old \cup {txn.payee} |-> IF b = txn.payee THEN At(known, txn.payee, txn.ts) ELSE known[b]]
          = [b \in old \cup {txn.payee} |-> Min(TimesTo(new, b))]
    BY <1>9
  <2> HIDE DEF put
  <2> QED
    BY <1>8, <2>1
<1> QED
  BY <1>4, <1>10 DEF put, new

(* One payment more, and the profile still comes to what it was shown. *)
LEMMA ProfileUpdated ==
  ASSUME NEW past \in Seq(Payments), NEW txn \in Payments, \A i \in 1..Len(past) : past[i].ts <= txn.ts,
         NEW p, IsPayer(p), NEW opened, ComesTo(p, past, opened), past = << >> => opened = txn.ts,
         NEW o
  PROVE  IsPayer(UpdatePayerProfile(p, txn)) /\ ComesTo(UpdatePayerProfile(p, txn), Append(past, txn), o)
<1> DEFINE u == UpdatePayerProfile(p, txn)
           D == IstDay(txn.ts)
           new == Append(past, txn)
<1>1. /\ p.txnCount = Len(past)
      /\ p.firstSeen = IF past = << >> THEN opened ELSE past[1].ts
      /\ p.totalValue = Total(AmountsOf(past))
      /\ p.maxAmount = Max(AmountSet(past))
      /\ p.logAmounts = Keep(LogsOf(past), AmountWindow)
      /\ p.dailyCounts = [d \in KeptDays(Days(past)) |-> Cardinality(OnDay(past, d))]
      /\ p.knownPayees = [b \in PayeesOf(past) |-> Min(TimesTo(past, b))]
  BY ComesToUnfolds
<1>2. /\ IsPayer(u)
      /\ u.firstSeen = p.firstSeen
      /\ u.txnCount = p.txnCount + 1
      /\ u.maxAmount = IF txn.amount > p.maxAmount THEN txn.amount ELSE p.maxAmount
      /\ u.totalValue = p.totalValue + txn.amount
      /\ u.logAmounts = Keep(Append(p.logAmounts, LogOf[txn.amount]), AmountWindow)
      /\ u.dailyCounts = LatestDays(Put(p.dailyCounts, D, At(p.dailyCounts, D, 0) + 1))
      /\ u.knownPayees = Put(p.knownPayees, txn.payee, At(p.knownPayees, txn.payee, txn.ts))
  BY UpdatedFields
<1> HIDE DEF u
<1>3. u.txnCount = Len(new)
  BY <1>1, <1>2
<1>4. u.firstSeen = IF new = << >> THEN o ELSE new[1].ts
  <2>0. Len(new) = Len(past) + 1 /\ Len(past) \in Nat
    OBVIOUS
  <2>1. new # << >> /\ (past = << >> => new[1] = txn) /\ (past # << >> => new[1] = past[1])
    <3>1. new # << >>
      BY <2>0
    <3>2. CASE past = << >>
      BY <3>1, <3>2
    <3>3. CASE past # << >>
      <4>1. 1 \in 1..Len(past)
        BY <3>3
      <4>2. new[1] = past[1]
        BY <4>1
      <4> HIDE DEF new
      <4> QED
        BY <3>1, <3>3, <4>2
    <3> QED
      BY <3>2, <3>3
  <2> HIDE DEF new
  <2> QED
    BY <1>1, <1>2, <2>1
<1>5. u.totalValue = Total(AmountsOf(new))
  <2>1. txn.amount \in Nat
    BY DEF Payments
  <2>2. AmountsOf(past) \in Seq(Nat) /\ AmountsOf(new) = Append(AmountsOf(past), txn.amount)
    BY ListsAppend
  <2> HIDE DEF new
  <2> QED
    BY <1>1, <1>2, <2>1, <2>2, TotalAppend
<1>6. u.maxAmount = Max(AmountSet(new))
  BY <1>1, <1>2, MaxAppend
<1>7. u.logAmounts = Keep(LogsOf(new), AmountWindow)
  <2> DEFINE G == {LogOf[a] : a \in Nat}
  <2>1. LogsOf(past) \in Seq(G) /\ LogsOf(new) = Append(LogsOf(past), LogOf[txn.amount])
    BY ListsAppend
  <2>2. LogOf[txn.amount] \in G
    BY DEF Payments
  <2> HIDE DEF G, new
  <2>3. Keep(Append(Keep(LogsOf(past), AmountWindow), LogOf[txn.amount]), AmountWindow)
          = Keep(Append(LogsOf(past), LogOf[txn.amount]), AmountWindow)
    BY <2>1, <2>2, KeepAppend, WindowsArePositive
  <2> QED
    BY <1>1, <1>2, <2>1, <2>3
<1>8. u.dailyCounts = [d \in KeptDays(Days(new)) |-> Cardinality(OnDay(new, d))]
  <2> DEFINE counts == p.dailyCounts
  <2>1. counts = [d \in KeptDays(Days(past)) |-> Cardinality(OnDay(past, d))]
    BY <1>1
  <2> HIDE DEF counts
  <2>2. LatestDays(Put(counts, D, At(counts, D, 0) + 1))
               = [d \in KeptDays(Days(new)) |-> Cardinality(OnDay(new, d))]
    BY <2>1, DaysUpdated
  <2> QED
    BY <1>2, <2>2 DEF counts
<1>9. u.knownPayees = [b \in PayeesOf(new) |-> Min(TimesTo(new, b))]
  <2> DEFINE known == p.knownPayees
  <2>1. known = [b \in PayeesOf(past) |-> Min(TimesTo(past, b))]
    BY <1>1
  <2> HIDE DEF known
  <2>2. Put(known, txn.payee, At(known, txn.payee, txn.ts)) = [b \in PayeesOf(new) |-> Min(TimesTo(new, b))]
    BY <2>1, PayeesUpdated
  <2> QED
    BY <1>2, <2>2 DEF known
<1> HIDE DEF new
<1>10. ComesTo(u, new, o)
  BY <1>3, <1>4, <1>5, <1>6, <1>7, <1>8, <1>9, ComesToUnfolds
<1> QED
  BY <1>2, <1>10 DEF u, new

-----------------------------------------------------------------------------
(* What a walk's store comes to *)

(* Payments not later than h, each payer's in time order. *)
PastSound(past, h) ==
  /\ past \in Seq(Payments)
  /\ \A i \in 1..Len(past) : past[i].ts <= h
  /\ \A x : /\ InTimeOrder(OfIn(past, x))
            /\ \A i \in 1..Len(OfIn(past, x)) : OfIn(past, x)[i].ts <= h

LEMMA PastOfNone ==
  ASSUME NEW h
  PROVE  PastSound(<< >>, h)
<1>1. << >> \in Seq(Payments) /\ Len(<< >>) = 0
  OBVIOUS
<1>2. \A x : OfIn(<< >>, x) = << >>
  BY OfAndToNone
<1> QED
  BY <1>1, <1>2 DEF PastSound, InTimeOrder

LEMMA OrderAppend ==
  ASSUME NEW q \in Seq(Payments), NEW txn \in Payments, InTimeOrder(q),
         \A i \in 1..Len(q) : q[i].ts <= txn.ts
  PROVE  InTimeOrder(Append(q, txn)) /\ \A i \in 1..Len(Append(q, txn)) : Append(q, txn)[i].ts <= txn.ts
<1> DEFINE n == Len(q)
           w == Append(q, txn)
<1>1. n \in Nat /\ Len(w) = n + 1 /\ w[n + 1] = txn /\ \A i \in 1..n : w[i] = q[i]
  OBVIOUS
<1>2. txn.ts \in Nat
  BY DEF Payments
<1> HIDE DEF n, w
<1>3. \A i \in 1..(n + 1) : i = n + 1 \/ i \in 1..n
  BY <1>1
<1>4. \A i \in 1..(n + 1) : w[i].ts <= txn.ts
  BY <1>1, <1>2, <1>3 DEF n
<1>5. ASSUME NEW i \in 1..(n + 1), NEW j \in 1..(n + 1), i <= j PROVE w[i].ts <= w[j].ts
  <2>1. CASE j = n + 1
    BY <1>1, <1>4, <2>1
  <2>2. CASE j \in 1..n
    <3>1. i \in 1..n
      BY <1>1, <1>5, <2>2
    <3> QED
      BY <1>1, <1>5, <2>2, <3>1 DEF InTimeOrder, n
  <2> QED
    BY <1>3, <2>1, <2>2
<1> QED
  BY <1>1, <1>4, <1>5 DEF InTimeOrder, w

LEMMA PastGrows ==
  ASSUME NEW h \in Nat, NEW past, PastSound(past, h), NEW txn \in Payments, h <= txn.ts
  PROVE  PastSound(past, txn.ts) /\ PastSound(Append(past, txn), txn.ts)
<1>1. txn.ts \in Nat /\ past \in Seq(Payments)
  BY DEF Payments, PastSound
<1>2. \A q \in Seq(Payments) : (\A i \in 1..Len(q) : q[i].ts <= h) => \A i \in 1..Len(q) : q[i].ts <= txn.ts
  <2> TAKE q \in Seq(Payments)
  <2>1. \A i \in 1..Len(q) : q[i].ts \in Nat
    <3>1. \A i \in 1..Len(q) : q[i] \in Payments
      OBVIOUS
    <3> QED
      BY <3>1 DEF Payments
  <2> QED
    BY <1>1, <2>1
<1>3. PastSound(past, txn.ts)
  <2>1. \A i \in 1..Len(past) : past[i].ts <= txn.ts
    BY <1>1, <1>2 DEF PastSound
  <2>2. \A x : OfIn(past, x) \in Seq(Payments)
    BY <1>1, OfAndToType
  <2>3. \A x : \A i \in 1..Len(OfIn(past, x)) : OfIn(past, x)[i].ts <= txn.ts
    BY <1>2, <2>2 DEF PastSound
  <2> QED
    BY <1>1, <2>1, <2>3 DEF PastSound
<1>4. PastSound(Append(past, txn), txn.ts)
  <2> DEFINE new == Append(past, txn)
  <2>1. new \in Seq(Payments)
    BY <1>1
  <2>2. \A i \in 1..Len(new) : new[i].ts <= txn.ts
    <3>1. \A i \in 1..Len(past) : past[i].ts <= txn.ts
      BY <1>3 DEF PastSound
    <3>2. Len(new) = Len(past) + 1 /\ new[Len(past) + 1] = txn /\ \A i \in 1..Len(past) : new[i] = past[i]
      BY <1>1
    <3>3. \A i \in 1..(Len(past) + 1) : i = Len(past) + 1 \/ i \in 1..Len(past)
      BY <1>1
    <3> HIDE DEF new
    <3> QED
      BY <1>1, <3>1, <3>2, <3>3
  <2>3. ASSUME NEW x PROVE /\ InTimeOrder(OfIn(new, x))
                           /\ \A i \in 1..Len(OfIn(new, x)) : OfIn(new, x)[i].ts <= txn.ts
    <3> DEFINE q == OfIn(past, x)
    <3>1. OfIn(new, x) = IF txn.payer = x THEN Append(q, txn) ELSE q
      BY <1>1, OfAppend
    <3>2. q \in Seq(Payments)
      BY <1>1, OfAndToType
    <3>3. InTimeOrder(q) /\ \A i \in 1..Len(q) : q[i].ts <= txn.ts
      BY <1>3 DEF PastSound
    <3> HIDE DEF q
    <3>4. InTimeOrder(Append(q, txn)) /\ \A i \in 1..Len(Append(q, txn)) : Append(q, txn)[i].ts <= txn.ts
      BY <3>2, <3>3, OrderAppend
    <3> QED
      BY <3>1, <3>3, <3>4
  <2> HIDE DEF new
  <2>4. PastSound(new, txn.ts)
    BY <2>1, <2>2, <2>3 DEF PastSound
  <2> QED
    BY <2>4 DEF new
<1> QED
  BY <1>3, <1>4

IsStore(store) == store = [payers |-> store.payers, payees |-> store.payees, txns |-> store.txns]
IsPayee(q) ==
  /\ DOMAIN q = {"firstSeen", "window", "distinctPayersAllTime", "velocity", "confirmed", "hop"}
  /\ q.window \in Seq(Inbounds)

WindowIn(store, id) == IF id \in DOMAIN store.payees THEN store.payees[id].window ELSE << >>

(* From h on, a window read back is the day of the payments received. *)
WindowsOf(store, past, h) ==
  \A id : \A t \in Int : h <= t => Trailing(WindowIn(store, id), t) = Trailing(InboundOf(ToIn(past, id)), t)

ProfilesOf(store, past) ==
  /\ \A id : id \notin DOMAIN store.payers => OfIn(past, id) = << >>
  /\ \A id \in DOMAIN store.payers : /\ OfIn(past, id) # << >>
                                     /\ IsPayer(store.payers[id])
                                     /\ ComesTo(store.payers[id], OfIn(past, id), 0)

TxnsOf(store, past) == \A id : At(store.txns, id, << >>) = Keep(OfIn(past, id), Retention)

StoreOf(store, past, h) ==
  /\ IsStore(store)
  /\ \A id \in DOMAIN store.payees : IsPayee(store.payees[id])
  /\ WindowsOf(store, past, h)
  /\ ProfilesOf(store, past)
  /\ TxnsOf(store, past)

(* What Learn leaves: the profiles p and q of the two sides, updated. *)
Learnt(store, p, q, txn) ==
  [payers |-> Put(store.payers, txn.payer, UpdatePayerProfile(p, txn)),
   payees |-> Put(store.payees, txn.payee, UpdatePayeeProfile(q, txn)),
   txns   |-> Put(store.txns, txn.payer, Keep(Append(At(store.txns, txn.payer, << >>), txn), Retention))]

LEMMA EmptyStoreIsOfNone ==
  ASSUME NEW h
  PROVE  StoreOf(EmptyStore, << >>, h)
<1>1. IsStore(EmptyStore) /\ EmptyStore.payers = << >> /\ EmptyStore.payees = << >> /\ EmptyStore.txns = << >>
  BY DEF EmptyStore, IsStore
<1>2. DOMAIN << >> = {}
  OBVIOUS
<1>3. \A id : OfIn(<< >>, id) = << >> /\ ToIn(<< >>, id) = << >>
  BY OfAndToNone
<1>4. WindowsOf(EmptyStore, << >>, h)
  <2>1. InboundOf(<< >>) = << >>
    BY DEF InboundOf
  <2>2. \A id : WindowIn(EmptyStore, id) = << >>
    BY <1>1, <1>2 DEF WindowIn
  <2> QED
    BY <1>3, <2>1, <2>2 DEF WindowsOf
<1>5. Keep(<< >>, Retention) = << >>
  BY WindowsArePositive DEF Keep
<1>6. TxnsOf(EmptyStore, << >>)
  BY <1>1, <1>2, <1>3, <1>5 DEF TxnsOf, At
<1>7. ProfilesOf(EmptyStore, << >>)
  BY <1>1, <1>2, <1>3 DEF ProfilesOf
<1> QED
  BY <1>1, <1>2, <1>4, <1>6, <1>7 DEF StoreOf

LEMMA PayeeUpdated ==
  ASSUME NEW q, IsPayee(q), NEW txn \in Payments
  PROVE  /\ IsPayee(UpdatePayeeProfile(q, txn))
         /\ UpdatePayeeProfile(q, txn).window = Append(Trailing(q.window, txn.ts), Inbound(txn))
<1> DEFINE w == Append(Trailing(q.window, txn.ts), [payer |-> txn.payer, ts |-> txn.ts, amount |-> txn.amount])
<1>1. w = Append(Trailing(q.window, txn.ts), Inbound(txn))
  BY DEF Inbound
<1>2. Inbound(txn) \in Inbounds
  BY DEF Inbound, Inbounds, Payments
<1>3. Trailing(q.window, txn.ts) \in Seq(Inbounds)
  BY SinceType DEF Trailing, IsPayee
<1>4. w \in Seq(Inbounds)
  <2> DEFINE a == Trailing(q.window, txn.ts)
             b == Inbound(txn)
  <2> HIDE DEF a, b
  <2>1. Append(a, b) \in Seq(Inbounds)
    BY <1>2, <1>3 DEF a, b
  <2> QED
    BY <1>1, <2>1 DEF a, b
<1>5. UpdatePayeeProfile(q, txn) = [q EXCEPT !.window = w, !.distinctPayersAllTime = Max({@, Cardinality(Payers(w))})]
  BY Zenon DEF UpdatePayeeProfile
<1> HIDE DEF w
<1> QED
  BY <1>1, <1>4, <1>5 DEF IsPayee

(* The windows after one more payment. *)
LEMMA WindowsUpdated ==
  ASSUME NEW h \in Nat, NEW past \in Seq(Payments), NEW txn \in Payments, h <= txn.ts,
         NEW store, WindowsOf(store, past, h), \A id \in DOMAIN store.payees : IsPayee(store.payees[id]),
         NEW q, IsPayee(q), Trailing(q.window, txn.ts) = Trailing(WindowIn(store, txn.payee), txn.ts),
         NEW new, new.payees = Put(store.payees, txn.payee, UpdatePayeeProfile(q, txn))
  PROVE  WindowsOf(new, Append(past, txn), txn.ts)
<1>1. txn.ts \in Nat
  BY DEF Payments
<1> SUFFICES ASSUME NEW id, NEW t \in Int, txn.ts <= t
             PROVE  Trailing(WindowIn(new, id), t) = Trailing(InboundOf(ToIn(Append(past, txn), id)), t)
  BY DEF WindowsOf
<1>2. ToIn(Append(past, txn), id) = IF txn.payee = id THEN Append(ToIn(past, id), txn) ELSE ToIn(past, id)
  BY ToAppend
<1>3. Trailing(WindowIn(store, id), t) = Trailing(InboundOf(ToIn(past, id)), t)
  BY <1>1 DEF WindowsOf
<1>4. CASE txn.payee # id
  <2>1. WindowIn(new, id) = WindowIn(store, id)
    BY <1>4 DEF WindowIn, Put
  <2> QED
    BY <1>2, <1>3, <1>4, <2>1
<1>5. CASE txn.payee = id
  <2> DEFINE w == WindowIn(store, id)
             e == Inbound(txn)
             r == InboundOf(ToIn(past, id))
             c == txn.ts - Day
             d == t - Day
  <2>1. WindowIn(new, id) = Append(Since(w, c), e)
    <3>1. UpdatePayeeProfile(q, txn).window = Append(Trailing(q.window, txn.ts), Inbound(txn))
      BY PayeeUpdated
    <3>2. WindowIn(new, id) = UpdatePayeeProfile(q, txn).window
      BY <1>5 DEF WindowIn, Put
    <3> QED
      BY <1>5, <3>1, <3>2 DEF Trailing
  <2>2. w \in Seq(Inbounds)
    BY DEF WindowIn, IsPayee
  <2>3. ToIn(past, id) \in Seq(Payments)
    BY OfAndToType
  <2>4. InboundOf(Append(ToIn(past, id), txn)) = Append(r, e) /\ e \in Inbounds /\ r \in Seq(Inbounds)
    BY <2>3, InboundAppend, InboundType
  <2>5. c \in Int /\ d \in Int /\ c <= d
    BY <1>1 DEF Day, Hour
  <2>6. Since(w, d) = Since(r, d)
    BY <1>3 DEF Trailing
  <2> HIDE DEF w, e, r, c, d
  <2>7. Since(w, c) \in Seq(Inbounds)
    BY <2>2, SinceType
  <2>8. Since(Since(w, c), d) = Since(w, d)
    BY <2>2, <2>5, SinceSince, PaymentsAreDated DEF Dated
  <2>9. Since(Append(Since(w, c), e), d) = IF e.ts >= d THEN Append(Since(Since(w, c), d), e)
                                           ELSE Since(Since(w, c), d)
    BY <2>4, <2>7, SinceAppend
  <2>10. Since(Append(r, e), d) = IF e.ts >= d THEN Append(Since(r, d), e) ELSE Since(r, d)
    BY <2>4, SinceAppend
  <2>11. Since(Append(Since(w, c), e), d) = Since(Append(r, e), d)
    BY <2>6, <2>8, <2>9, <2>10
  <2>12. InboundOf(ToIn(Append(past, txn), id)) = Append(r, e)
    BY <1>2, <1>5, <2>4
  <2> QED
    BY <2>1, <2>11, <2>12 DEF Trailing, d
<1> QED
  BY <1>4, <1>5

(* A payment learnt from, the store comes to one payment more. *)
LEMMA StoreLearns ==
  ASSUME NEW h \in Nat, NEW past, PastSound(past, h), NEW txn \in Payments, h <= txn.ts,
         NEW store, StoreOf(store, past, h),
         NEW q, IsPayee(q), Trailing(q.window, txn.ts) = Trailing(WindowIn(store, txn.payee), txn.ts)
  PROVE  StoreOf(Learnt(store, At(store.payers, txn.payer, EmptyPayerProfile(txn.ts)), q, txn),
                 Append(past, txn), txn.ts)
<1> DEFINE x == txn.payer
           p == At(store.payers, x, EmptyPayerProfile(txn.ts))
           new == Learnt(store, p, q, txn)
           all == Append(past, txn)
<1>0. past \in Seq(Payments) /\ PastSound(past, txn.ts)
  BY PastGrows DEF PastSound
<1>1. IsStore(new) /\ new.payers = Put(store.payers, x, UpdatePayerProfile(p, txn))
      /\ new.payees = Put(store.payees, txn.payee, UpdatePayeeProfile(q, txn))
      /\ new.txns = Put(store.txns, x, Keep(Append(At(store.txns, x, << >>), txn), Retention))
  BY DEF Learnt, IsStore
<1> HIDE DEF new
<1>2. WindowsOf(new, all, txn.ts)
  BY <1>0, <1>1, WindowsUpdated DEF StoreOf
<1>3. \A id \in DOMAIN new.payees : IsPayee(new.payees[id])
  BY <1>1, PayeeUpdated DEF StoreOf, Put
<1>4. \A id : OfIn(all, id) = IF x = id THEN Append(OfIn(past, id), txn) ELSE OfIn(past, id)
  BY <1>0, OfAppend
<1>5. TxnsOf(new, all)
  <2> SUFFICES ASSUME NEW id PROVE At(new.txns, id, << >>) = Keep(OfIn(all, id), Retention)
    BY DEF TxnsOf
  <2>1. At(store.txns, id, << >>) = Keep(OfIn(past, id), Retention)
    BY DEF StoreOf, TxnsOf
  <2>2. At(new.txns, id, << >>) = IF id = x THEN Keep(Append(At(store.txns, x, << >>), txn), Retention)
                                  ELSE At(store.txns, id, << >>)
    BY <1>1, PutAt
  <2>3. OfIn(past, id) \in Seq(Payments)
    BY <1>0, OfAndToType
  <2>4. Keep(Append(Keep(OfIn(past, id), Retention), txn), Retention)
          = Keep(Append(OfIn(past, id), txn), Retention)
    BY <2>3, KeepAppend, WindowsArePositive
  <2> QED
    BY <1>4, <2>1, <2>2, <2>4
<1>6. IsPayer(UpdatePayerProfile(p, txn)) /\ ComesTo(UpdatePayerProfile(p, txn), Append(OfIn(past, x), txn), 0)
  <2> DEFINE mine == OfIn(past, x)
             opened == IF x \in DOMAIN store.payers THEN 0 ELSE txn.ts
  <2>1. mine \in Seq(Payments) /\ \A i \in 1..Len(mine) : mine[i].ts <= txn.ts
    BY <1>0, OfAndToType DEF PastSound
  <2>2. ProfilesOf(store, past)
    BY DEF StoreOf
  <2>3. IsPayer(p) /\ ComesTo(p, mine, opened) /\ (mine = << >> => opened = txn.ts)
    <3>1. CASE x \in DOMAIN store.payers
      <4>1. p = store.payers[x] /\ opened = 0
        BY <3>1 DEF At
      <4> HIDE DEF p, opened
      <4> QED
        BY <2>2, <3>1, <4>1 DEF ProfilesOf
    <3>2. CASE x \notin DOMAIN store.payers
      <4>1. p = EmptyPayerProfile(txn.ts) /\ opened = txn.ts /\ mine = << >>
        BY <2>2, <3>2 DEF At, ProfilesOf
      <4> HIDE DEF p, opened, mine
      <4> QED
        BY <4>1, EmptyPayerComesToNothing
    <3> QED
      BY <3>1, <3>2
  <2> HIDE DEF mine, opened, p
  <2>4. IsPayer(UpdatePayerProfile(p, txn)) /\ ComesTo(UpdatePayerProfile(p, txn), Append(mine, txn), 0)
    BY <2>1, <2>3, ProfileUpdated
  <2> QED
    BY <2>4 DEF mine
<1>7. ProfilesOf(new, all)
  <2>1. ProfilesOf(store, past)
    BY DEF StoreOf
  <2>2. DOMAIN new.payers = DOMAIN store.payers \cup {x} /\ new.payers[x] = UpdatePayerProfile(p, txn)
        /\ \A id \in DOMAIN store.payers : id # x => new.payers[id] = store.payers[id]
    <3> DEFINE v == UpdatePayerProfile(p, txn)
    <3>1. new.payers = Put(store.payers, x, v)
      BY <1>1
    <3> HIDE DEF v, x
    <3>2. DOMAIN new.payers = DOMAIN store.payers \cup {x} /\ new.payers[x] = v
          /\ \A id \in DOMAIN store.payers : id # x => new.payers[id] = store.payers[id]
      BY <3>1 DEF Put
    <3> QED
      BY <3>2 DEF v
  <2>3. OfIn(past, x) \in Seq(Payments) /\ Append(OfIn(past, x), txn) # << >>
    <3>1. OfIn(past, x) \in Seq(Payments)
      BY <1>0, OfAndToType
    <3> QED
      BY <3>1
  <2> HIDE DEF x, p, all
  <2>4. \A id : id \notin DOMAIN new.payers => OfIn(all, id) = << >>
    BY <1>4, <2>1, <2>2 DEF ProfilesOf
  <2>5. ASSUME NEW id \in DOMAIN new.payers
        PROVE  OfIn(all, id) # << >> /\ IsPayer(new.payers[id]) /\ ComesTo(new.payers[id], OfIn(all, id), 0)
    <3>1. CASE id = x
      BY <1>4, <1>6, <2>2, <2>3, <3>1
    <3>2. CASE id # x
      BY <1>4, <2>1, <2>2, <3>2 DEF ProfilesOf
    <3> QED
      BY <3>1, <3>2
  <2> QED
    BY <2>4, <2>5 DEF ProfilesOf
<1> QED
  BY <1>1, <1>2, <1>3, <1>5, <1>7 DEF StoreOf, new, p, x, all

-----------------------------------------------------------------------------
(* What a step of a walk does to its store *)

Profile(store, txn)     == At(store.payers, txn.payer, EmptyPayerProfile(txn.ts))
Beneficiary(store, txn) == At(store.payees, txn.payee, EmptyPayeeProfile(txn.ts))
Told(store, timeline, txn) ==
  Attached(RefreshPayeeWindow(Beneficiary(store, txn), txn.ts), txn.payee, timeline)
Measured(store, timeline, txn, holds) ==
  [payer       |-> Profile(store, txn),
   payee       |-> Told(store, timeline, txn),
   recent      |-> RecentPayerTxns(store, txn.payer, txn.ts - Day),
   activeHolds |-> holds,
   now         |-> txn.ts]

(* A store that differs from another only in the two sides of a payment.   *)
Near(other, store, txn) ==
  /\ IsStore(other)
  /\ other.txns = store.txns
  /\ \A v : /\ Put(other.payers, txn.payer, v) = Put(store.payers, txn.payer, v)
            /\ Put(other.payees, txn.payee, v) = Put(store.payees, txn.payee, v)

LEMMA PayerEnsured ==
  ASSUME NEW base, NEW store, NEW txn, Near(store, base, txn)
  PROVE  LET a == EnsurePayer(store, txn.payer, txn.ts)
         IN  /\ Near(a, base, txn)
             /\ a.payers[txn.payer] = Profile(store, txn)
             /\ a.payees = store.payees /\ a.txns = store.txns
<1> DEFINE a == EnsurePayer(store, txn.payer, txn.ts)
           e == EmptyPayerProfile(txn.ts)
<1>1. IsStore(store) /\ store = [payers |-> store.payers, payees |-> store.payees, txns |-> store.txns]
  BY DEF Near, IsStore
<1>2. CASE txn.payer \in DOMAIN store.payers
  <2>1. a = store
    BY <1>2 DEF EnsurePayer
  <2> HIDE DEF a
  <2>2. a.payers[txn.payer] = Profile(store, txn)
    BY <1>2, <2>1 DEF Profile, At
  <2> QED
    BY <2>1, <2>2 DEF a
<1>3. CASE txn.payer \notin DOMAIN store.payers
  <2> DEFINE new == Put(store.payers, txn.payer, e)
  <2>1. a = [store EXCEPT !.payers = new]
    BY <1>3 DEF EnsurePayer
  <2>2. new[txn.payer] = e /\ Profile(store, txn) = e
    BY <1>3 DEF Put, Profile, At
  <2>3. \A v : Put(new, txn.payer, v) = Put(store.payers, txn.payer, v)
    <3> TAKE v
    <3> HIDE DEF e
    <3> QED
      BY PutTwice
  <2> HIDE DEF new, a, e
  <2>4. a.payers = new /\ a.payees = store.payees /\ a.txns = store.txns /\ IsStore(a)
    BY <1>1, <2>1 DEF IsStore
  <2>5. Near(a, base, txn)
    BY <2>3, <2>4 DEF Near
  <2> QED
    BY <2>2, <2>4, <2>5 DEF a
<1> QED
  BY <1>2, <1>3

LEMMA PayeeEnsured ==
  ASSUME NEW base, NEW store, NEW txn, Near(store, base, txn)
  PROVE  LET a == EnsurePayee(store, txn.payee, txn.ts)
         IN  /\ Near(a, base, txn)
             /\ a.payees[txn.payee] = Beneficiary(store, txn)
             /\ a.payers = store.payers /\ a.txns = store.txns
<1> DEFINE a == EnsurePayee(store, txn.payee, txn.ts)
           e == EmptyPayeeProfile(txn.ts)
<1>1. IsStore(store) /\ store = [payers |-> store.payers, payees |-> store.payees, txns |-> store.txns]
  BY DEF Near, IsStore
<1>2. CASE txn.payee \in DOMAIN store.payees
  <2>1. a = store
    BY <1>2 DEF EnsurePayee
  <2> HIDE DEF a
  <2>2. a.payees[txn.payee] = Beneficiary(store, txn)
    BY <1>2, <2>1 DEF Beneficiary, At
  <2> QED
    BY <2>1, <2>2 DEF a
<1>3. CASE txn.payee \notin DOMAIN store.payees
  <2> DEFINE new == Put(store.payees, txn.payee, e)
  <2>1. a = [store EXCEPT !.payees = new]
    BY <1>3 DEF EnsurePayee
  <2>2. new[txn.payee] = e /\ Beneficiary(store, txn) = e
    BY <1>3 DEF Put, Beneficiary, At
  <2>3. \A v : Put(new, txn.payee, v) = Put(store.payees, txn.payee, v)
    <3> TAKE v
    <3> HIDE DEF e
    <3> QED
      BY PutTwice
  <2> HIDE DEF new, a, e
  <2>4. a.payees = new /\ a.payers = store.payers /\ a.txns = store.txns /\ IsStore(a)
    BY <1>1, <2>1 DEF IsStore
  <2>5. Near(a, base, txn)
    BY <2>3, <2>4 DEF Near
  <2> QED
    BY <2>2, <2>4, <2>5 DEF a
<1> QED
  BY <1>2, <1>3

LEMMA PayeePut ==
  ASSUME NEW base, NEW store, NEW txn, Near(store, base, txn), NEW q
  PROVE  LET a == PutPayee(store, txn.payee, q)
         IN  /\ Near(a, base, txn)
             /\ a.payees = Put(store.payees, txn.payee, q) /\ a.payees[txn.payee] = q
             /\ a.payers = store.payers /\ a.txns = store.txns
<1> DEFINE a == PutPayee(store, txn.payee, q)
           new == Put(store.payees, txn.payee, q)
<1>1. IsStore(store) /\ store = [payers |-> store.payers, payees |-> store.payees, txns |-> store.txns]
  BY DEF Near, IsStore
<1>2. new[txn.payee] = q
  BY DEF Put
<1>3. \A v : Put(new, txn.payee, v) = Put(store.payees, txn.payee, v)
  BY PutTwice
<1>4. a = [store EXCEPT !.payees = new]
  BY DEF PutPayee
<1> HIDE DEF new, a
<1>5. a.payees = new /\ a.payers = store.payers /\ a.txns = store.txns /\ IsStore(a)
  BY <1>1, <1>4 DEF IsStore
<1>6. Near(a, base, txn)
  BY <1>3, <1>5 DEF Near
<1> QED
  BY <1>2, <1>5, <1>6 DEF a, new

(* Whatever the sides were before, Learn overwrites them. *)
LEMMA LearnNear ==
  ASSUME NEW base, NEW store, NEW txn, Near(store, base, txn), NEW p, NEW q
  PROVE  Learn(store, p, q, txn) = Learnt(base, p, q, txn)
<1> DEFINE u == UpdatePayerProfile(p, txn)
           v == UpdatePayeeProfile(q, txn)
           a == PutPayer(store, txn.payer, u)
           b == PutPayee(a, txn.payee, v)
           w == Keep(Append(At(b.txns, txn.payer, << >>), txn), Retention)
<1>1. IsStore(store) /\ store = [payers |-> store.payers, payees |-> store.payees, txns |-> store.txns]
  BY DEF Near, IsStore
<1>2. a = [payers |-> Put(store.payers, txn.payer, u), payees |-> store.payees, txns |-> store.txns]
  <2> DEFINE new == Put(store.payers, txn.payer, u)
  <2>1. a = [store EXCEPT !.payers = new]
    BY DEF PutPayer
  <2> HIDE DEF new, a
  <2> QED
    BY <1>1, <2>1 DEF new
<1>3. b = [payers |-> Put(store.payers, txn.payer, u), payees |-> Put(store.payees, txn.payee, v), txns |-> store.txns]
  <2> DEFINE new == Put(a.payees, txn.payee, v)
             old == Put(store.payers, txn.payer, u)
  <2>1. b = [a EXCEPT !.payees = new]
    BY DEF PutPayee
  <2> HIDE DEF new, a, b, old
  <2>2. a = [payers |-> old, payees |-> store.payees, txns |-> store.txns]
    BY <1>2 DEF old
  <2>3. b = [payers |-> old, payees |-> new, txns |-> store.txns]
    BY <2>1, <2>2
  <2>4. new = Put(store.payees, txn.payee, v)
    BY <2>2 DEF new
  <2> QED
    BY <2>3, <2>4 DEF old
<1>4. Learn(store, p, q, txn) = [b EXCEPT !.txns = Put(@, txn.payer, w)]
  BY DEF Learn, RecordTransaction
<1> HIDE DEF u, v, a, b
<1>5. Put(store.payers, txn.payer, u) = Put(base.payers, txn.payer, u)
      /\ Put(store.payees, txn.payee, v) = Put(base.payees, txn.payee, v)
      /\ store.txns = base.txns
  BY DEF Near
<1>6. b.txns = store.txns
  BY <1>3
<1>7. Learn(store, p, q, txn)
        = [payers |-> Put(base.payers, txn.payer, u), payees |-> Put(base.payees, txn.payee, v),
           txns |-> Put(base.txns, txn.payer, w)]
  <2> DEFINE new == Put(b.txns, txn.payer, w)
             l == Put(store.payers, txn.payer, u)
             r == Put(store.payees, txn.payee, v)
  <2>1. Learn(store, p, q, txn) = [b EXCEPT !.txns = new] /\ b = [payers |-> l, payees |-> r, txns |-> store.txns]
    BY <1>3, <1>4
  <2>2. new = Put(base.txns, txn.payer, w)
    BY <1>5, <1>6
  <2> HIDE DEF new, l, r
  <2>3. Learn(store, p, q, txn) = [payers |-> l, payees |-> r, txns |-> new]
    BY <2>1
  <2> QED
    BY <1>5, <2>2, <2>3 DEF l, r
<1>8. w = Keep(Append(At(base.txns, txn.payer, << >>), txn), Retention)
  BY <1>5, <1>6
<1> QED
  BY <1>7, <1>8 DEF Learnt, u, v

LEMMA EmptyPayeeIsPayee ==
  ASSUME NEW now
  PROVE  IsPayee(EmptyPayeeProfile(now)) /\ EmptyPayeeProfile(now).window = << >>
BY DEF EmptyPayeeProfile, IsPayee

LEMMA RefreshFacts ==
  ASSUME NEW q, IsPayee(q), NEW now
  PROVE  LET r == RefreshPayeeWindow(q, now)
         IN  /\ IsPayee(r) /\ r.window = Trailing(q.window, now)
             /\ r.firstSeen = q.firstSeen /\ r.velocity = q.velocity
             /\ r.distinctPayersAllTime = q.distinctPayersAllTime
<1>1. Trailing(q.window, now) \in Seq(Inbounds)
  BY SinceType DEF IsPayee, Trailing
<1> QED
  BY <1>1 DEF IsPayee, RefreshPayeeWindow

LEMMA AttachedFacts ==
  ASSUME NEW q, IsPayee(q), NEW x, NEW timeline
  PROVE  LET r == Attached(q, x, timeline)
             given == At(Attributes, x, [firstSeen |-> q.firstSeen, velocity |-> q.velocity])
         IN  /\ IsPayee(r) /\ r.window = q.window
             /\ r.confirmed = Lookup(timeline, x).confirmed /\ r.hop = Lookup(timeline, x).hop
             /\ r.firstSeen = given.firstSeen /\ r.velocity = given.velocity
             /\ r.distinctPayersAllTime = q.distinctPayersAllTime
<1> DEFINE given == At(Attributes, x, [firstSeen |-> q.firstSeen, velocity |-> q.velocity])
           known == Lookup(timeline, x)
           r == Attached(q, x, timeline)
<1>1. r = [q EXCEPT !.firstSeen = given.firstSeen, !.velocity = given.velocity,
                    !.confirmed = known.confirmed, !.hop = known.hop]
  BY DEF Attached
<1> HIDE DEF given, known, r
<1> QED
  BY <1>1 DEF IsPayee, given, known, r

LEMMA AttachedTells ==
  ASSUME NEW q, IsPayee(q), NEW x, NEW timeline
  PROVE  /\ IsPayee(Attached(q, x, timeline)) /\ Attached(q, x, timeline).window = q.window
         /\ Attached(q, x, timeline).confirmed = Lookup(timeline, x).confirmed
         /\ Attached(q, x, timeline).hop = Lookup(timeline, x).hop
<1> DEFINE given == At(Attributes, x, [firstSeen |-> q.firstSeen, velocity |-> q.velocity])
           known == Lookup(timeline, x)
           r == Attached(q, x, timeline)
<1>1. r = [q EXCEPT !.firstSeen = given.firstSeen, !.velocity = given.velocity,
                    !.confirmed = known.confirmed, !.hop = known.hop]
  BY DEF Attached
<1> HIDE DEF given, known, r
<1>2. IsPayee(r) /\ r.window = q.window /\ r.confirmed = known.confirmed /\ r.hop = known.hop
  BY <1>1 DEF IsPayee
<1> QED
  BY <1>2 DEF known, r

(* Two profiles of a beneficiary with the same fields are the same. *)
LEMMA SamePayee ==
  ASSUME NEW f, NEW g, IsPayee(f), IsPayee(g), f = [x \in DOMAIN f |-> f[x]], g = [x \in DOMAIN g |-> g[x]],
         f.firstSeen = g.firstSeen, f.window = g.window, f.velocity = g.velocity,
         f.distinctPayersAllTime = g.distinctPayersAllTime, f.confirmed = g.confirmed, f.hop = g.hop
  PROVE  f = g
<1>1. \A x \in DOMAIN f : f[x] = g[x]
  BY DEF IsPayee
<1>2. DOMAIN f = DOMAIN g
  BY DEF IsPayee
<1> QED
  BY <1>1, <1>2

LEMMA RefreshAndAttach ==
  ASSUME NEW q, IsPayee(q), NEW x, NEW timeline, NEW now
  PROVE  RefreshPayeeWindow(Attached(q, x, timeline), now) = Attached(RefreshPayeeWindow(q, now), x, timeline)
<1> DEFINE a == Attached(q, x, timeline)
           f == RefreshPayeeWindow(a, now)
           r == RefreshPayeeWindow(q, now)
           g == Attached(r, x, timeline)
           w == Trailing(q.window, now)
           known == Lookup(timeline, x)
           given == At(Attributes, x, [firstSeen |-> q.firstSeen, velocity |-> q.velocity])
<1>1. /\ IsPayee(a) /\ a.window = q.window
      /\ a.confirmed = known.confirmed /\ a.hop = known.hop
      /\ a.firstSeen = given.firstSeen /\ a.velocity = given.velocity
      /\ a.distinctPayersAllTime = q.distinctPayersAllTime
  BY AttachedFacts
<1>2. /\ IsPayee(r) /\ r.window = w /\ r.firstSeen = q.firstSeen /\ r.velocity = q.velocity
      /\ r.distinctPayersAllTime = q.distinctPayersAllTime
  BY RefreshFacts
<1>3. f = [a EXCEPT !.window = Trailing(@, now)]
  BY DEF RefreshPayeeWindow
<1>4. /\ IsPayee(f) /\ f.window = Trailing(a.window, now)
      /\ f.firstSeen = a.firstSeen /\ f.velocity = a.velocity /\ f.distinctPayersAllTime = a.distinctPayersAllTime
  <2> HIDE DEF a
  <2> QED
    BY <1>1, RefreshFacts
<1>5. f.confirmed = a.confirmed /\ f.hop = a.hop /\ f = [y \in DOMAIN f |-> f[y]]
  <2> HIDE DEF a, f
  <2> QED
    BY <1>1, <1>3 DEF IsPayee
<1>6. At(Attributes, x, [firstSeen |-> r.firstSeen, velocity |-> r.velocity]) = given
  BY <1>2
<1>7. /\ IsPayee(g) /\ g.window = r.window
      /\ g.confirmed = known.confirmed /\ g.hop = known.hop
      /\ g.firstSeen = given.firstSeen /\ g.velocity = given.velocity
      /\ g.distinctPayersAllTime = r.distinctPayersAllTime
  <2> HIDE DEF r, given
  <2> QED
    BY <1>2, <1>6, AttachedFacts
<1>8. g = [y \in DOMAIN g |-> g[y]]
  <2>1. \E u, v, s, t : g = [r EXCEPT !.firstSeen = u, !.velocity = v, !.confirmed = s, !.hop = t]
    BY DEF Attached
  <2> HIDE DEF g
  <2> QED
    BY <2>1
<1> HIDE DEF a, f, r, g, given, known, w
<1>9. f = g
  <2>1. f.firstSeen = g.firstSeen /\ f.window = g.window /\ f.velocity = g.velocity
        /\ f.distinctPayersAllTime = g.distinctPayersAllTime /\ f.confirmed = g.confirmed /\ f.hop = g.hop
    BY <1>1, <1>2, <1>4, <1>5, <1>7 DEF w
  <2> QED
    BY <1>4, <1>5, <1>7, <1>8, <2>1, SamePayee
<1> QED
  BY <1>9 DEF f, g, a, r

(* Updating prunes the window whether or not it was read before. *)
LEMMA RefreshThenUpdate ==
  ASSUME NEW q, IsPayee(q), NEW txn \in Payments
  PROVE  /\ Trailing(Trailing(q.window, txn.ts), txn.ts) = Trailing(q.window, txn.ts)
         /\ UpdatePayeeProfile(RefreshPayeeWindow(q, txn.ts), txn) = UpdatePayeeProfile(q, txn)
<1> DEFINE r == RefreshPayeeWindow(q, txn.ts)
           c == txn.ts - Day
           w == Append(Trailing(q.window, txn.ts), [payer |-> txn.payer, ts |-> txn.ts, amount |-> txn.amount])
           n == Max({q.distinctPayersAllTime, Cardinality(Payers(w))})
<1>1. c \in Int
  BY DEF Payments, Day, Hour
<1>2. Since(Since(q.window, c), c) = Since(q.window, c)
  <2> HIDE DEF c
  <2>1. c <= c /\ q.window \in Seq(Inbounds)
    BY <1>1 DEF IsPayee
  <2> QED
    BY <1>1, <2>1, SinceSince, PaymentsAreDated DEF Dated
<1>3. Trailing(Trailing(q.window, txn.ts), txn.ts) = Trailing(q.window, txn.ts)
  BY <1>2 DEF Trailing
<1>4. IsPayee(r) /\ r.window = Trailing(q.window, txn.ts) /\ r.distinctPayersAllTime = q.distinctPayersAllTime
      /\ r = [q EXCEPT !.window = Trailing(q.window, txn.ts)]
  BY RefreshFacts DEF RefreshPayeeWindow
<1> HIDE DEF r
<1>5. UpdatePayeeProfile(q, txn) = [q EXCEPT !.window = w, !.distinctPayersAllTime = n]
  BY Zenon DEF UpdatePayeeProfile
<1>6. w = Append(Trailing(r.window, txn.ts), [payer |-> txn.payer, ts |-> txn.ts, amount |-> txn.amount])
  BY <1>3, <1>4
<1>7. UpdatePayeeProfile(r, txn) = [r EXCEPT !.window = w, !.distinctPayersAllTime = n]
  <2> DEFINE z == Append(Trailing(r.window, txn.ts), [payer |-> txn.payer, ts |-> txn.ts, amount |-> txn.amount])
             k == Max({r.distinctPayersAllTime, Cardinality(Payers(z))})
  <2>1. UpdatePayeeProfile(r, txn) = [r EXCEPT !.window = z, !.distinctPayersAllTime = k]
    BY Zenon DEF UpdatePayeeProfile
  <2>2. z = w /\ k = n
    BY <1>4, <1>6
  <2> QED
    BY <2>1, <2>2
<1> HIDE DEF w, n
<1> DEFINE old == Trailing(q.window, txn.ts)
<1>8. [r EXCEPT !.window = w, !.distinctPayersAllTime = n] = [q EXCEPT !.window = w, !.distinctPayersAllTime = n]
  <2>1. r = [q EXCEPT !.window = old]
    BY <1>4
  <2> HIDE DEF old
  <2> QED
    BY <2>1
<1> QED
  BY <1>3, <1>5, <1>7, <1>8 DEF r

LEMMA NearItself ==
  ASSUME NEW store, IsStore(store), NEW txn
  PROVE  Near(store, store, txn)
BY DEF Near

(* The feature walk measures in Measured, and learns. *)
LEMMA FeatureIs ==
  ASSUME NEW walk, IsStore(walk.store), NEW txn
  PROVE  LET timeline == AdvanceTo(walk.timeline, txn.ts)
             ctx == Measured(walk.store, timeline, txn, {})
             step == FeatureStep(walk, txn)
         IN  /\ step.walk = [store |-> Learnt(walk.store, ctx.payer, ctx.payee, txn), timeline |-> timeline]
             /\ step.row = [id |-> txn.id, ctx |-> ctx, raw |-> Extract(txn, ctx)]
<1> DEFINE timeline == AdvanceTo(walk.timeline, txn.ts)
           base == walk.store
           one == EnsurePayer(base, txn.payer, txn.ts)
           store == EnsurePayee(one, txn.payee, txn.ts)
           payee == Attached(RefreshPayeeWindow(store.payees[txn.payee], txn.ts), txn.payee, timeline)
           ctx == Measured(base, timeline, txn, {})
<1>1. Near(base, base, txn)
  BY NearItself
<1>2. Near(one, base, txn) /\ one.payers[txn.payer] = Profile(base, txn) /\ one.payees = base.payees
  BY <1>1, PayerEnsured
<1>3. /\ Near(store, base, txn) /\ store.payees[txn.payee] = Beneficiary(one, txn)
      /\ store.payers = one.payers
  <2> HIDE DEF one
  <2> QED
    BY <1>2, PayeeEnsured
<1>4. Beneficiary(one, txn) = Beneficiary(base, txn)
  BY <1>2 DEF Beneficiary
<1>5. Ensured(base, txn) = store
  BY DEF Ensured
<1>6. payee = Told(base, timeline, txn)
  BY <1>3, <1>4 DEF Told
<1>7. RecentPayerTxns(store, txn.payer, txn.ts - Day) = RecentPayerTxns(base, txn.payer, txn.ts - Day)
  <2>1. store.txns = base.txns
    BY <1>3 DEF Near
  <2> HIDE DEF store, base
  <2> QED
    BY <2>1 DEF RecentPayerTxns
<1>8. FeatureStep(walk, txn)
        = [walk |-> [store |-> Learn(store, Context(store, payee, {}, txn).payer, payee, txn), timeline |-> timeline],
           row  |-> [id |-> txn.id, ctx |-> Context(store, payee, {}, txn),
                     raw |-> Extract(txn, Context(store, payee, {}, txn))]]
  BY Zenon, <1>5 DEF FeatureStep
<1> HIDE DEF store, payee, timeline, one
<1>9. Context(store, payee, {}, txn) = ctx /\ ctx.payer = Profile(base, txn) /\ ctx.payee = payee
  BY <1>2, <1>3, <1>6, <1>7 DEF Context, Measured
<1> HIDE DEF ctx
<1>10. Learn(store, ctx.payer, payee, txn) = Learnt(base, ctx.payer, ctx.payee, txn)
  <2>1. Learn(store, ctx.payer, payee, txn) = Learnt(base, ctx.payer, payee, txn)
    <3> HIDE DEF base
    <3> QED
      BY <1>3, LearnNear
  <2> QED
    BY <1>9, <2>1
<1> QED
  BY <1>8, <1>9, <1>10 DEF ctx, timeline

IsWalk(walk) == walk = [store |-> walk.store, timeline |-> walk.timeline, holds |-> walk.holds]

(* What the engine is told before either branch. *)
LEMMA SuppliedIs ==
  ASSUME NEW walk, IsWalk(walk), IsStore(walk.store), NEW txn
  PROVE  LET w == Supplied(walk, txn)
             timeline == AdvanceTo(walk.timeline, txn.ts)
             q == Attached(Beneficiary(walk.store, txn), txn.payee, timeline)
         IN  /\ IsWalk(w) /\ w.timeline = timeline /\ w.holds = walk.holds
             /\ Near(w.store, walk.store, txn)
             /\ w.store.payers = walk.store.payers /\ w.store.txns = walk.store.txns
             /\ w.store.payees = Put(walk.store.payees, txn.payee, q)
             /\ w.store.payees[txn.payee] = q
<1> DEFINE base == walk.store
           timeline == AdvanceTo(walk.timeline, txn.ts)
           one == EnsurePayee(base, txn.payee, txn.ts)
           q == Attached(one.payees[txn.payee], txn.payee, timeline)
           two == PutPayee(one, txn.payee, q)
           w == Supplied(walk, txn)
<1>1. Near(base, base, txn)
  BY NearItself
<1>2. /\ Near(one, base, txn) /\ one.payees[txn.payee] = Beneficiary(base, txn)
      /\ one.payers = base.payers /\ one.txns = base.txns
  BY <1>1, PayeeEnsured
<1>3. /\ Near(two, base, txn) /\ two.payees = Put(one.payees, txn.payee, q) /\ two.payees[txn.payee] = q
      /\ two.payers = one.payers /\ two.txns = one.txns
  <2> HIDE DEF one, q
  <2> QED
    BY <1>2, PayeePut
<1>4. Put(one.payees, txn.payee, q) = Put(base.payees, txn.payee, q)
  <2> HIDE DEF one, q
  <2> QED
    BY <1>2 DEF Near
<1>5. w = [walk EXCEPT !.timeline = timeline, !.store = two]
  BY DEF Supplied
<1> HIDE DEF one, two, w, timeline
<1>6. IsWalk(w) /\ w.timeline = timeline /\ w.holds = walk.holds /\ w.store = two
  BY <1>5 DEF IsWalk
<1> HIDE DEF base
<1>7. q = Attached(Beneficiary(base, txn), txn.payee, timeline)
  BY <1>2
<1> HIDE DEF q
<1> QED
  BY <1>2, <1>3, <1>4, <1>6, <1>7 DEF w, base, timeline

(* Warming learns the same, its window pruned on the way in. *)
LEMMA WarmIs ==
  ASSUME NEW walk, IsWalk(walk), IsStore(walk.store), NEW txn
  PROVE  LET w == WarmStep(Supplied(walk, txn), txn)
             timeline == AdvanceTo(walk.timeline, txn.ts)
             q == Attached(Beneficiary(walk.store, txn), txn.payee, timeline)
         IN  /\ IsWalk(w) /\ w.timeline = timeline /\ w.holds = walk.holds
             /\ w.store = Learnt(walk.store, Profile(walk.store, txn), q, txn)
<1> DEFINE base == walk.store
           timeline == AdvanceTo(walk.timeline, txn.ts)
           q == Attached(Beneficiary(base, txn), txn.payee, timeline)
           s == Supplied(walk, txn)
           one == EnsurePayer(s.store, txn.payer, txn.ts)
           w == WarmStep(s, txn)
<1>1. /\ IsWalk(s) /\ s.timeline = timeline /\ s.holds = walk.holds
      /\ Near(s.store, base, txn) /\ s.store.payers = base.payers /\ s.store.payees[txn.payee] = q
  BY SuppliedIs
<1> HIDE DEF s, q, timeline, base
<1>2. /\ Near(one, base, txn) /\ one.payers[txn.payer] = Profile(s.store, txn)
      /\ one.payees = s.store.payees
  BY <1>1, PayerEnsured
<1>3. Profile(s.store, txn) = Profile(base, txn)
  BY <1>1 DEF Profile
<1>4. w = [s EXCEPT !.store = Learn(one, one.payers[txn.payer], one.payees[txn.payee], txn)]
  BY DEF WarmStep
<1>5. one.payers[txn.payer] = Profile(base, txn) /\ one.payees[txn.payee] = q
  BY <1>1, <1>2, <1>3
<1> HIDE DEF one, w
<1>6. Learn(one, Profile(base, txn), q, txn) = Learnt(base, Profile(base, txn), q, txn)
  BY <1>2, LearnNear
<1> DEFINE new == Learnt(base, Profile(base, txn), q, txn)
<1>7. w = [s EXCEPT !.store = new]
  BY <1>4, <1>5, <1>6
<1> HIDE DEF new
<1>8. IsWalk(w) /\ w.timeline = timeline /\ w.holds = walk.holds /\ w.store = new
  BY <1>1, <1>7 DEF IsWalk
<1> QED
  BY <1>8 DEF w, new, s, q, timeline, base

(* The holds when a payment is scored: the payer's aged, the attempt       *)
(* registered against those it relates to.                                 *)
AgedHolds(holds, txn) == {IF h.payerId = txn.payer THEN ExpireIfDue(h, txn.ts) ELSE h : h \in holds}
LinkedHolds(holds, txn) == {h \in AgedHolds(holds, txn) : h.payerId = txn.payer /\ Related(h, Attempt(txn))}
RegisteredHolds(holds, txn) ==
  (AgedHolds(holds, txn) \ LinkedHolds(holds, txn))
    \cup {RegisterAttempt(h, Attempt(txn)) : h \in LinkedHolds(holds, txn)}
StandingHolds(holds, txn) == {h \in RegisteredHolds(holds, txn) : h.payerId = txn.payer /\ IsOpen(h)}

LEMMA AssessedIs ==
  ASSUME NEW walk, IsWalk(walk), IsStore(walk.store), NEW txn,
         \A id \in DOMAIN walk.store.payees : IsPayee(walk.store.payees[id])
  PROVE  LET a == Assessed(Supplied(walk, txn), txn)
             timeline == AdvanceTo(walk.timeline, txn.ts)
         IN  /\ Near(a.store, walk.store, txn)
             /\ a.holds = RegisteredHolds(walk.holds, txn) /\ a.linked = LinkedHolds(walk.holds, txn)
             /\ a.ctx = Measured(walk.store, timeline, txn, StandingHolds(walk.holds, txn))
<1> DEFINE base == walk.store
           timeline == AdvanceTo(walk.timeline, txn.ts)
           q == Attached(Beneficiary(base, txn), txn.payee, timeline)
           s == Supplied(walk, txn)
           one == EnsurePayer(s.store, txn.payer, txn.ts)
           two == EnsurePayee(one, txn.payee, txn.ts)
           r == RefreshPayeeWindow(two.payees[txn.payee], txn.ts)
           three == PutPayee(two, txn.payee, r)
           standing == StandingHolds(walk.holds, txn)
           a == Assessed(s, txn)
<1>0. IsPayee(Beneficiary(base, txn))
  BY EmptyPayeeIsPayee DEF Beneficiary, At
<1>1. /\ IsWalk(s) /\ s.timeline = timeline /\ s.holds = walk.holds
      /\ Near(s.store, base, txn) /\ s.store.payers = base.payers /\ s.store.txns = base.txns
      /\ s.store.payees = Put(base.payees, txn.payee, q) /\ s.store.payees[txn.payee] = q
  BY SuppliedIs
<1> HIDE DEF s
<1>2. /\ Near(one, base, txn) /\ one.payers[txn.payer] = Profile(s.store, txn)
      /\ one.payees = s.store.payees /\ one.txns = s.store.txns
  <2> HIDE DEF base
  <2> QED
    BY <1>1, PayerEnsured
<1> HIDE DEF one
<1>3. /\ Near(two, base, txn) /\ two.payees[txn.payee] = Beneficiary(one, txn)
      /\ two.payers = one.payers /\ two.txns = one.txns
  <2> HIDE DEF base
  <2> QED
    BY <1>2, PayeeEnsured
<1>4. Beneficiary(one, txn) = q
  <2>1. txn.payee \in DOMAIN one.payees /\ one.payees[txn.payee] = q
    <3> HIDE DEF q
    <3> QED
      BY <1>1, <1>2 DEF Put
  <2> HIDE DEF q
  <2> QED
    BY <2>1 DEF Beneficiary, At
<1> HIDE DEF two
<1>5. r = Told(base, timeline, txn)
  <2>1. RefreshPayeeWindow(q, txn.ts)
          = Attached(RefreshPayeeWindow(Beneficiary(base, txn), txn.ts), txn.payee, timeline)
    <3> DEFINE b == Beneficiary(base, txn)
    <3> HIDE DEF b, timeline
    <3>1. RefreshPayeeWindow(Attached(b, txn.payee, timeline), txn.ts)
            = Attached(RefreshPayeeWindow(b, txn.ts), txn.payee, timeline)
      BY <1>0, RefreshAndAttach DEF b
    <3> QED
      BY <3>1 DEF b
  <2> QED
    BY <1>3, <1>4, <2>1 DEF Told
<1> HIDE DEF r, q, base
<1>6. /\ Near(three, base, txn) /\ three.payers = two.payers /\ three.txns = two.txns
      /\ three.payees[txn.payee] = r
  BY <1>3, PayeePut
<1> HIDE DEF three
<1>7. three.payers[txn.payer] = Profile(base, txn)
  BY <1>1, <1>2, <1>3, <1>6 DEF Profile
<1>8. RecentPayerTxns(three, txn.payer, txn.ts - Day) = RecentPayerTxns(base, txn.payer, txn.ts - Day)
  <2>1. three.txns = base.txns
    BY <1>1, <1>2, <1>3, <1>6
  <2> QED
    BY <2>1 DEF RecentPayerTxns
<1>9. Ensured(s.store, txn) = two
  BY DEF Ensured, two, one
<1>10. a = [store |-> three, holds |-> RegisteredHolds(s.holds, txn), linked |-> LinkedHolds(s.holds, txn),
            ctx |-> Context(three, r, StandingHolds(s.holds, txn), txn)]
  BY Zenon, <1>9 DEF Assessed, RegisteredHolds, LinkedHolds, AgedHolds, StandingHolds, r, three
<1> HIDE DEF standing, a
<1>11. a = [store |-> three, holds |-> RegisteredHolds(walk.holds, txn), linked |-> LinkedHolds(walk.holds, txn),
            ctx |-> Context(three, r, standing, txn)]
  BY <1>1, <1>10 DEF standing
<1>12. Context(three, r, standing, txn) = Measured(base, timeline, txn, standing)
  BY <1>5, <1>7, <1>8 DEF Context, Measured
<1>13. a.store = three /\ a.holds = RegisteredHolds(walk.holds, txn) /\ a.linked = LinkedHolds(walk.holds, txn)
       /\ a.ctx = Context(three, r, standing, txn)
  BY <1>11
<1> QED
  BY <1>6, <1>12, <1>13 DEF a, s, base, standing

-----------------------------------------------------------------------------
(* What a payment is measured in *)

LEMMA FanInMeasured ==
  ASSUME NEW h \in Nat, NEW past, PastSound(past, h), NEW txn \in Payments, h <= txn.ts,
         NEW store, StoreOf(store, past, h), NEW timeline, NEW holds
  PROVE  /\ IsPayee(Told(store, timeline, txn))
         /\ Measured(store, timeline, txn, holds).payee.window
              = InboundOf(Since(ToIn(past, txn.payee), txn.ts - Day))
<1> DEFINE b == Beneficiary(store, txn)
           r == RefreshPayeeWindow(b, txn.ts)
           q == Attached(r, txn.payee, timeline)
<1>1. IsPayee(b) /\ b.window = WindowIn(store, txn.payee)
  <2>1. \A id \in DOMAIN store.payees : IsPayee(store.payees[id])
    BY DEF StoreOf
  <2>2. CASE txn.payee \in DOMAIN store.payees
    <3>1. b = store.payees[txn.payee]
      BY <2>2 DEF Beneficiary, At
    <3> HIDE DEF b
    <3> QED
      BY <2>1, <2>2, <3>1 DEF WindowIn
  <2>3. CASE txn.payee \notin DOMAIN store.payees
    <3>1. b = EmptyPayeeProfile(txn.ts)
      BY <2>3 DEF Beneficiary, At
    <3> HIDE DEF b
    <3> QED
      BY <2>3, <3>1, EmptyPayeeIsPayee DEF WindowIn
  <2> QED
    BY <2>2, <2>3
<1> HIDE DEF b
<1>2. IsPayee(r) /\ r.window = Trailing(b.window, txn.ts)
  BY <1>1, RefreshFacts
<1> HIDE DEF r
<1>3. IsPayee(q) /\ q.window = r.window
  BY <1>2, AttachedTells
<1> HIDE DEF q
<1>4. txn.ts \in Int /\ past \in Seq(Payments)
  BY DEF Payments, PastSound
<1>5. Trailing(WindowIn(store, txn.payee), txn.ts) = Trailing(InboundOf(ToIn(past, txn.payee)), txn.ts)
  BY <1>4 DEF StoreOf, WindowsOf
<1>6. ToIn(past, txn.payee) \in Seq(Payments)
  BY <1>4, OfAndToType
<1>7. Trailing(InboundOf(ToIn(past, txn.payee)), txn.ts) = InboundOf(Since(ToIn(past, txn.payee), txn.ts - Day))
  BY <1>6, InboundSince DEF Trailing
<1>8. Told(store, timeline, txn) = q
  BY DEF Told, q, r, b
<1>9. Measured(store, timeline, txn, holds).payee = Told(store, timeline, txn)
  BY DEF Measured
<1> QED
  BY <1>1, <1>2, <1>3, <1>5, <1>7, <1>8, <1>9

LEMMA RecentMeasured ==
  ASSUME NEW h \in Nat, NEW past, PastSound(past, h), NEW txn \in Payments, h <= txn.ts,
         NEW store, StoreOf(store, past, h), NEW timeline, NEW holds
  PROVE  Measured(store, timeline, txn, holds).recent
           = Reverse(Since(Keep(OfIn(past, txn.payer), Retention), txn.ts - Day))
<1> DEFINE mine == OfIn(past, txn.payer)
           all == Keep(mine, Retention)
           c == txn.ts - Day
<1>1. mine \in Seq(Payments) /\ InTimeOrder(mine)
  BY OfAndToType DEF PastSound
<1>2. c \in Int
  BY DEF Payments, Day, Hour
<1>3. At(store.txns, txn.payer, << >>) = all
  BY DEF StoreOf, TxnsOf
<1> HIDE DEF mine, c
<1>4. all \in Seq(Payments) /\ (Len(all) = IF Len(mine) > Retention THEN Retention ELSE Len(mine))
      /\ \A i \in 1..Len(all) : all[i] = mine[Len(mine) - Len(all) + i]
  BY <1>1, KeepIsTheEnd, WindowsArePositive
<1> HIDE DEF all
<1>5. InTimeOrder(all)
  <2> SUFFICES ASSUME NEW i \in 1..Len(all), NEW j \in 1..Len(all), i <= j PROVE all[i].ts <= all[j].ts
    BY DEF InTimeOrder
  <2> DEFINE s == Len(mine) - Len(all)
  <2>1. s \in Nat /\ s + Len(all) = Len(mine) /\ Len(all) \in Nat
    BY <1>1, <1>4, WindowsArePositive
  <2>2. s + i \in 1..Len(mine) /\ s + j \in 1..Len(mine) /\ s + i <= s + j
    BY <2>1
  <2> HIDE DEF s
  <2>3. mine[s + i].ts <= mine[s + j].ts
    BY <1>1, <2>2 DEF InTimeOrder
  <2> QED
    BY <1>4, <2>3 DEF s
<1>6. RecentPayerTxns(store, txn.payer, c) = Reverse(Since(all, c))
  BY <1>2, <1>3, <1>4, <1>5, RecentIsReversed
<1>7. Measured(store, timeline, txn, holds).recent = RecentPayerTxns(store, txn.payer, c)
  BY DEF Measured, c
<1> QED
  BY <1>6, <1>7 DEF all, mine, c

LEMMA BaselineMeasured ==
  ASSUME NEW h, NEW past, NEW txn, NEW store, StoreOf(store, past, h), NEW timeline, NEW holds
  PROVE  ComesTo(Measured(store, timeline, txn, holds).payer, OfIn(past, txn.payer), txn.ts)
<1> DEFINE p == Measured(store, timeline, txn, holds).payer
           x == txn.payer
<1>1. p = Profile(store, txn)
  BY DEF Measured
<1>2. ProfilesOf(store, past)
  BY DEF StoreOf
<1> HIDE DEF p, x
<1>3. CASE x \in DOMAIN store.payers
  <2>1. p = store.payers[x]
    BY <1>1, <1>3 DEF Profile, At, x
  <2>2. OfIn(past, x) # << >> /\ ComesTo(p, OfIn(past, x), 0)
    BY <1>2, <1>3, <2>1 DEF ProfilesOf
  <2>3. ComesTo(p, OfIn(past, x), txn.ts)
    BY <2>2, ComesToUnfolds
  <2> QED
    BY <2>3 DEF p, x
<1>4. CASE x \notin DOMAIN store.payers
  <2>1. p = EmptyPayerProfile(txn.ts)
    BY <1>1, <1>4 DEF Profile, At, x
  <2>2. OfIn(past, x) = << >>
    BY <1>2, <1>4 DEF ProfilesOf
  <2>3. ComesTo(p, OfIn(past, x), txn.ts)
    BY <2>1, <2>2, EmptyPayerComesToNothing
  <2> QED
    BY <2>3 DEF p, x
<1> QED
  BY <1>3, <1>4

(* A timeline not ahead of h tells, moved on to now, what was asserted.    *)
NotAhead(timeline, h) == \A i \in 1..timeline.cursor : timeline.events[i].ts <= h

LEMMA IntelMeasured ==
  ASSUME NEW all, IsIntel(all), NEW timeline, TimelineOf(timeline, all), NEW h \in Int, NEW now \in Int, h <= now,
         NotAhead(timeline, h), NEW x
  PROVE  /\ TimelineOf(AdvanceTo(timeline, now), all) /\ NotAhead(AdvanceTo(timeline, now), now)
         /\ Lookup(AdvanceTo(timeline, now), x) = AssertedBy(all, x, now)
<1> DEFINE r == AdvanceTo(timeline, now)
<1>1. TimelineOf(r, all) /\ MovedOn(r, timeline, now)
  BY AdvanceMovesOn
<1> HIDE DEF r
<1>2. IsIntel(r.events) /\ r.cursor \in 0..Len(r.events) /\ timeline.cursor \in 0..Len(timeline.events)
      /\ r.events = timeline.events
  BY <1>1 DEF TimelineOf, MovedOn
<1>3. Len(r.events) \in Nat /\ \A i \in 1..Len(r.events) : r.events[i].ts \in Int
  BY <1>2, LengthIsNatural DEF IsIntel
<1>4. StandsAt(r, now)
  <2> SUFFICES ASSUME NEW i \in 1..Len(r.events) PROVE i <= r.cursor <=> r.events[i].ts <= now
    BY DEF StandsAt
  <2>1. i <= r.cursor <=> (i <= timeline.cursor \/ timeline.events[i].ts <= now)
    BY <1>1, <1>2 DEF MovedOn
  <2>2. i <= timeline.cursor => i \in 1..timeline.cursor
    BY <1>2, <1>3
  <2>3. i <= timeline.cursor => timeline.events[i].ts <= now
    BY <1>2, <1>3, <2>2 DEF NotAhead
  <2> QED
    BY <1>2, <2>1, <2>3
<1>5. NotAhead(r, now)
  <2> SUFFICES ASSUME NEW i \in 1..r.cursor PROVE r.events[i].ts <= now
    BY DEF NotAhead
  <2>1. i \in 1..Len(r.events) /\ i <= r.cursor
    BY <1>2, <1>3
  <2> QED
    BY <1>4, <2>1 DEF StandsAt
<1>6. Lookup(r, x) = AssertedBy(all, x, now)
  BY <1>1, <1>4, LookupTellsWhatWasAsserted
<1> QED
  BY <1>1, <1>5, <1>6 DEF r

(* What a context says of the beneficiary is what was asserted by then. *)
Asserted(ctx, all, txn) ==
  [confirmed |-> ctx.payee.confirmed, hop |-> ctx.payee.hop] = AssertedBy(all, txn.payee, txn.ts)

LEMMA IntelTold ==
  ASSUME NEW h \in Nat, NEW past, PastSound(past, h), NEW txn \in Payments, h <= txn.ts,
         NEW store, StoreOf(store, past, h), NEW holds,
         NEW all, IsIntel(all), NEW timeline, TimelineOf(timeline, all), NotAhead(timeline, h)
  PROVE  Asserted(Measured(store, AdvanceTo(timeline, txn.ts), txn, holds), all, txn)
<1> DEFINE t == AdvanceTo(timeline, txn.ts)
           r == RefreshPayeeWindow(Beneficiary(store, txn), txn.ts)
           q == Attached(r, txn.payee, t)
<1>1. txn.ts \in Nat
  BY DEF Payments
<1>2. Lookup(t, txn.payee) = AssertedBy(all, txn.payee, txn.ts)
  BY <1>1, IntelMeasured
<1>3. Measured(store, t, txn, holds).payee = q
  BY DEF Measured, Told
<1>4. IsPayee(Beneficiary(store, txn))
  BY EmptyPayeeIsPayee DEF Beneficiary, At, StoreOf
<1>5. IsPayee(r)
  BY <1>4, RefreshFacts
<1> HIDE DEF t, r
<1>6. q.confirmed = Lookup(t, txn.payee).confirmed /\ q.hop = Lookup(t, txn.payee).hop
  BY <1>5, AttachedTells
<1> HIDE DEF q
<1>7. AssertedBy(all, txn.payee, txn.ts)
        = [confirmed |-> AssertedBy(all, txn.payee, txn.ts).confirmed, hop |-> AssertedBy(all, txn.payee, txn.ts).hop]
  BY DEF AssertedBy
<1> DEFINE ctx == Measured(store, t, txn, holds)
<1>8. ctx.payee = q
  BY <1>3
<1> HIDE DEF ctx
<1>9. Asserted(ctx, all, txn)
  BY <1>2, <1>6, <1>7, <1>8 DEF Asserted
<1> QED
  BY <1>9 DEF ctx, t

-----------------------------------------------------------------------------
(* The structuring index *)

LEMMA SinceOfAll ==
  ASSUME NEW S, NEW q \in Seq(S), NEW c, \A i \in 1..Len(q) : q[i].ts >= c
  PROVE  Since(q, c) = q
<1>1. 1 \in 1..(Len(q) + 1) /\ \A i \in 1..Len(q) : q[i].ts >= c <=> i >= 1
  OBVIOUS
<1>2. Since(q, c) = SubSeq(q, 1, Len(q))
  BY <1>1, SinceIsTheEnd
<1> QED
  BY <1>2

LEMMA SinceIsSince ==
  ASSUME NEW S, Dated(S), NEW q \in Seq(S), InTimeOrder(q), NEW c \in Int
  PROVE  \A i \in 1..Len(Since(q, c)) : Since(q, c)[i].ts >= c
<1>1. PICK m : CutAt(q, c, m)
  BY CutExists
<1>2. m \in 1..(Len(q) + 1) /\ \A i \in 1..Len(q) : q[i].ts >= c <=> i >= m
  BY <1>1 DEF CutAt
<1>3. Since(q, c) = SubSeq(q, m, Len(q))
  BY <1>2, SinceIsTheEnd
<1> SUFFICES ASSUME NEW i \in 1..Len(SubSeq(q, m, Len(q))) PROVE SubSeq(q, m, Len(q))[i].ts >= c
  BY <1>3
<1>4. SubSeq(q, m, Len(q))[i] = q[m + i - 1] /\ m + i - 1 \in 1..Len(q) /\ m + i - 1 >= m
  BY <1>2
<1> QED
  BY <1>2, <1>4

LEMMA ReverseFacts ==
  ASSUME NEW S, NEW q \in Seq(S)
  PROVE  /\ Reverse(q) \in Seq(S) /\ Len(Reverse(q)) = Len(q)
         /\ \A i \in 1..Len(q) : Reverse(q)[i] = q[Len(q) - i + 1] /\ Len(q) - i + 1 \in 1..Len(q)
<1>1. \A i \in 1..Len(q) : Len(q) - i + 1 \in 1..Len(q) /\ q[Len(q) - i + 1] \in S
  OBVIOUS
<1>2. Reverse(q) = [i \in 1..Len(q) |-> q[Len(q) - i + 1]]
  BY DEF Reverse
<1> QED
  BY <1>1, <1>2

(* The index but for the hold that may stand. *)
OfDay(txn, recent, now) ==
  LET day  == Since(recent, now - Day)
      all  == << txn >> \o day
      near == Cardinality({i \in DOMAIN all : WithinBelow(all[i].amount, 12, 100)})
  IN  (IF WithinBelow(txn.amount, 5, 100) THEN 90
       ELSE IF WithinBelow(txn.amount, 12, 100) THEN 45 ELSE 0)
        + (IF near >= 2 THEN 30 * Min({near - 1, 3}) ELSE 0)
        + (IF CrossesTogether(txn, day) THEN 90 ELSE 0)

LEMMA StructuringIs ==
  ASSUME NEW txn \in Payments, NEW ctx, ctx.recent \in Seq(Payments)
  PROVE  /\ OfDay(txn, ctx.recent, ctx.now) \in Nat
         /\ Structuring(txn, ctx) = OfDay(txn, ctx.recent, ctx.now) + (IF HeldAlready(txn, ctx) THEN 3 * Point ELSE 0)
         /\ CrossesTogether(txn, Since(ctx.recent, ctx.now - Day)) => OfDay(txn, ctx.recent, ctx.now) >= 90
<1> DEFINE day == Since(ctx.recent, ctx.now - Day)
           all == << txn >> \o day
           near == Cardinality({i \in DOMAIN all : WithinBelow(all[i].amount, 12, 100)})
           a == IF WithinBelow(txn.amount, 5, 100) THEN 90
                ELSE IF WithinBelow(txn.amount, 12, 100) THEN 45 ELSE 0
           b == IF near >= 2 THEN 30 * Min({near - 1, 3}) ELSE 0
           c == IF CrossesTogether(txn, day) THEN 90 ELSE 0
           d == IF HeldAlready(txn, ctx) THEN 3 * Point ELSE 0
<1>1. OfDay(txn, ctx.recent, ctx.now) = a + b + c
  BY DEF OfDay
<1>2. Structuring(txn, ctx) = a + b + c + d
  BY Zenon DEF Structuring
<1>3. near \in Nat
  <2>1. day \in Seq(Payments)
    BY SinceType
  <2> HIDE DEF day
  <2>2. DOMAIN all = 1..(Len(day) + 1) /\ Len(day) + 1 \in Int
    BY <2>1
  <2>3. IsFiniteSet(DOMAIN all)
    BY <2>2, FS_Interval
  <2> HIDE DEF all
  <2>4. IsFiniteSet({i \in DOMAIN all : WithinBelow(all[i].amount, 12, 100)})
    <3> DEFINE T == {i \in DOMAIN all : WithinBelow(all[i].amount, 12, 100)}
    <3>1. T \in SUBSET DOMAIN all
      OBVIOUS
    <3> HIDE DEF T
    <3>2. IsFiniteSet(T)
      BY <2>3, <3>1, FS_Subset
    <3> QED
      BY <3>2 DEF T
  <2> QED
    BY <2>4, FS_CardinalityType
<1> HIDE DEF near
<1>4. a \in Nat
  <2> QED
    OBVIOUS
<1>5. b \in Nat
  <2>1. CASE near >= 2
    <3> DEFINE m == near - 1
    <3>1. m \in Nat
      BY <1>3, <2>1
    <3> HIDE DEF m
    <3>2. Min({m, 3}) \in Nat
      <4>1. Min({m, 3}) = IF m <= 3 THEN m ELSE 3
        BY <3>1, MinOfTwo
      <4> QED
        BY <3>1, <4>1
    <3>3. b = 30 * Min({m, 3})
      BY <2>1 DEF m
    <3> HIDE DEF b
    <3> QED
      BY <3>2, <3>3
  <2>2. CASE ~(near >= 2)
    BY <2>2
  <2> QED
    BY <2>1, <2>2
<1>6. c \in Nat /\ (CrossesTogether(txn, day) => c = 90)
  OBVIOUS
<1> HIDE DEF a, b, c, d, day
<1>7. a + b + c \in Nat /\ (c = 90 => a + b + c >= 90)
  BY <1>4, <1>5, <1>6
<1> QED
  BY <1>1, <1>2, <1>6, <1>7 DEF d, day

(* Split payments cross together whichever way the day is read.            *)
LEMMA SplitsCross ==
  ASSUME NEW txn \in Payments, NEW day \in Seq(Payments), NEW t \in AmountThresholds,
         \A i \in DOMAIN Append(day, txn) : Append(day, txn)[i].amount < t,
         Total(AmountsOf(Append(day, txn))) >= t
  PROVE  CrossesTogether(txn, Reverse(day))
<1> DEFINE n == Len(day)
           all == << txn >> \o Reverse(day)
           new == Append(day, txn)
           r == Reverse(day)
<1>1. r \in Seq(Payments) /\ Len(r) = n
      /\ \A i \in 1..n : r[i] = day[n - i + 1] /\ n - i + 1 \in 1..n
  BY ReverseFacts
<1>2. n \in Nat /\ Len(new) = n + 1 /\ DOMAIN new = 1..(n + 1) /\ new[n + 1] = txn /\ \A i \in 1..n : new[i] = day[i]
  OBVIOUS
<1>3. txn.amount \in Nat /\ \A i \in 1..n : day[i].amount \in Nat
  <2>1. \A i \in 1..n : day[i] \in Payments
    OBVIOUS
  <2> QED
    BY <2>1 DEF Payments
<1> HIDE DEF r
<1>4. /\ << txn >> \o r \in Seq(Payments) /\ Len(<< txn >> \o r) = n + 1 /\ DOMAIN (<< txn >> \o r) = 1..(n + 1)
      /\ (<< txn >> \o r)[1] = txn /\ \A i \in 2..(n + 1) : (<< txn >> \o r)[i] = r[i - 1]
  BY <1>1
<1>5. all = << txn >> \o r
  BY DEF r
<1> HIDE DEF all, new, n
<1>6. /\ all \in Seq(Payments) /\ Len(all) = n + 1 /\ DOMAIN all = 1..(n + 1)
      /\ all[1] = txn /\ \A i \in 2..(n + 1) : all[i] = r[i - 1]
  BY <1>4, <1>5
<1>7. \A i \in DOMAIN all : all[i].amount < t
  <2> TAKE i \in DOMAIN all
  <2>1. \A j \in 1..(n + 1) : new[j].amount < t
    BY <1>2 DEF new
  <2>2. CASE i = 1
    <3>1. n + 1 \in 1..(n + 1)
      BY <1>2
    <3> QED
      BY <1>2, <1>6, <2>1, <2>2, <3>1
  <2>3. CASE i # 1
    <3>1. i \in 2..(n + 1) /\ i - 1 \in 1..n
      BY <1>2, <1>6, <2>3
    <3> DEFINE j == n - (i - 1) + 1
    <3>2. all[i] = day[j] /\ j \in 1..n
      BY <1>1, <1>6, <3>1
    <3> HIDE DEF j
    <3>3. j \in 1..(n + 1) /\ new[j] = day[j]
      BY <1>2, <3>2
    <3> QED
      BY <2>1, <3>2, <3>3
  <2> QED
    BY <2>2, <2>3
<1> DEFINE d == AmountsOf(day)
           e == txn.amount
           w == << e >> \o Reverse(d)
           v == AmountsOf(all)
<1>8. d \in Seq(Nat) /\ AmountsOf(new) = Append(d, e) /\ Len(d) = n /\ \A i \in 1..n : d[i] = day[i].amount
  <2>1. AmountsOf(day) \in Seq(Nat) /\ AmountsOf(Append(day, txn)) = Append(AmountsOf(day), txn.amount)
    BY ListsAppend
  <2>2. AmountsOf(day) = [i \in 1..n |-> day[i].amount]
    BY DEF AmountsOf, n
  <2> QED
    BY <1>2, <2>1, <2>2 DEF new
<1>9. v = w
  <2>1. Reverse(d) \in Seq(Nat) /\ Len(Reverse(d)) = n /\ \A i \in 1..n : Reverse(d)[i] = d[n - i + 1]
    <3> HIDE DEF d
    <3> QED
      BY <1>8, ReverseFacts
  <2> DEFINE x == Reverse(d)
  <2>2. x \in Seq(Nat) /\ Len(x) = n /\ \A i \in 1..n : x[i] = day[n - i + 1].amount
    <3> HIDE DEF d
    <3> QED
      BY <1>1, <1>8, <2>1
  <2> HIDE DEF x
  <2>3. << e >> \o x \in Seq(Nat) /\ Len(<< e >> \o x) = n + 1 /\ (<< e >> \o x)[1] = e
        /\ \A i \in 2..(n + 1) : (<< e >> \o x)[i] = x[i - 1]
    BY <1>2, <1>3, <2>2
  <2>4. w = << e >> \o x
    BY DEF x
  <2>5. \A i \in 1..(n + 1) : all[i] \in Payments
    BY <1>6
  <2>6. v \in Seq(Nat) /\ Len(v) = n + 1 /\ \A i \in 1..(n + 1) : v[i] = all[i].amount
    <3>1. v = [i \in 1..(n + 1) |-> all[i].amount]
      BY <1>6 DEF AmountsOf
    <3>2. \A i \in 1..(n + 1) : all[i].amount \in Nat
      BY <2>5 DEF Payments
    <3> QED
      BY <1>2, <3>1, <3>2
  <2> HIDE DEF v, w
  <2>7. ASSUME NEW i \in 1..(n + 1) PROVE v[i] = w[i]
    <3>1. CASE i = 1
      BY <1>6, <2>3, <2>4, <2>6, <3>1
    <3>2. CASE i # 1
      <4>1. i \in 2..(n + 1) /\ i - 1 \in 1..n
        BY <1>2, <3>2
      <4>2. v[i] = r[i - 1].amount /\ w[i] = x[i - 1]
        BY <1>6, <2>3, <2>4, <2>6, <4>1
      <4> QED
        BY <1>1, <2>2, <4>1, <4>2
    <3> QED
      BY <3>1, <3>2
  <2>8. w \in Seq(Nat) /\ Len(w) = n + 1
    BY <2>3, <2>4
  <2> QED
    BY <2>6, <2>7, <2>8, SameSequence
<1>10. Total(w) = e + Total(Reverse(d)) /\ Total(Reverse(d)) = Total(d) /\ Total(Append(d, e)) = Total(d) + e
       /\ Total(d) \in Nat
  <2>1. Reverse(d) \in Seq(Nat)
    <3> HIDE DEF d
    <3> QED
      BY <1>8, ReverseFacts
  <2> HIDE DEF d, e
  <2>2. e \in Nat
    BY <1>3 DEF e
  <2>3. Total(Reverse(d)) = Total(d)
    BY <1>8, TotalReverse
  <2>4. Total(Append(d, e)) = Total(d) + e /\ Total(d) \in Nat
    BY <1>8, <2>2, TotalAppend
  <2> DEFINE x == Reverse(d)
  <2> HIDE DEF x
  <2>5. Total(<< e >> \o x) = e + Total(x)
    BY <2>1, <2>2, TotalPrepend DEF x
  <2> QED
    BY <2>3, <2>4, <2>5 DEF x
<1>11. Value(all) = Total(v)
  BY DEF Value, AmountsOf
<1>12. Value(all) >= t
  <2> HIDE DEF v, w, d
  <2>1. Value(all) = e + Total(d) /\ Total(AmountsOf(new)) = Total(d) + e
    BY <1>8, <1>9, <1>10, <1>11
  <2> HIDE DEF e
  <2>2. e \in Nat /\ Total(d) \in Nat
    BY <1>3, <1>10 DEF e
  <2>3. Total(AmountsOf(new)) >= t
    BY DEF new
  <2> QED
    BY <2>1, <2>2, <2>3
<1> QED
  BY <1>7, <1>12 DEF CrossesTogether, all

(* A day that is kept in full and crosses is seen. *)
LEMMA SplitMeasured ==
  ASSUME NEW h \in Nat, NEW past, PastSound(past, h), NEW txn \in Payments, h <= txn.ts,
         NEW store, StoreOf(store, past, h), NEW timeline, NEW holds
  PROVE  LET ctx == Measured(store, timeline, txn, holds)
             day == Since(OfIn(past, txn.payer), txn.ts - Day)
             new == Append(day, txn)
         IN  /\ ctx.recent \in Seq(Payments)
             /\ (/\ Len(new) <= Retention + 1
                 /\ \E t \in AmountThresholds : /\ \A i \in DOMAIN new : new[i].amount < t
                                                /\ Total(AmountsOf(new)) >= t)
                => OfDay(txn, ctx.recent, ctx.now) >= 90
<1> DEFINE mine == OfIn(past, txn.payer)
           c == txn.ts - Day
           day == Since(mine, c)
           kept == Since(Keep(mine, Retention), c)
           ctx == Measured(store, timeline, txn, holds)
           new == Append(day, txn)
<1>1. mine \in Seq(Payments) /\ InTimeOrder(mine)
  BY OfAndToType DEF PastSound
<1>2. c \in Int
  BY DEF Payments, Day, Hour
<1>3. ctx.recent = Reverse(kept) /\ ctx.now = txn.ts
  BY RecentMeasured DEF Measured
<1> HIDE DEF mine, c
<1>4. Keep(mine, Retention) \in Seq(Payments)
  BY <1>1, KeepIsTheEnd, WindowsArePositive
<1>5. kept \in Seq(Payments) /\ day \in Seq(Payments)
  BY <1>1, <1>4, SinceType
<1>6. ctx.recent \in Seq(Payments)
  <2> HIDE DEF kept, ctx
  <2> QED
    BY <1>3, <1>5, ReverseFacts
<1>7. ASSUME Len(new) <= Retention + 1,
             NEW t \in AmountThresholds, \A i \in DOMAIN new : new[i].amount < t, Total(AmountsOf(new)) >= t
      PROVE  OfDay(txn, ctx.recent, ctx.now) >= 90
  <2>1. Len(day) <= Retention
    <3> HIDE DEF day
    <3>1. Len(new) = Len(day) + 1 /\ Len(day) \in Nat
      BY <1>5
    <3> QED
      BY <1>7, <3>1, WindowsArePositive
  <2>2. kept = day
    BY <1>1, <1>2, <2>1, SinceKeep, PaymentsAreDated, WindowsArePositive
  <2>3. \A i \in 1..Len(day) : day[i].ts >= c
    BY <1>1, <1>2, SinceIsSince, PaymentsAreDated
  <2> HIDE DEF day, kept, ctx
  <2>4. Reverse(day) \in Seq(Payments) /\ Len(Reverse(day)) = Len(day)
        /\ \A i \in 1..Len(day) : Reverse(day)[i] = day[Len(day) - i + 1] /\ Len(day) - i + 1 \in 1..Len(day)
    BY <1>5, ReverseFacts
  <2> DEFINE r == Reverse(day)
  <2>5. \A i \in 1..Len(r) : r[i].ts >= c
    BY <2>3, <2>4
  <2>6. Since(r, c) = r
    <3>1. r \in Seq(Payments)
      BY <2>4
    <3> HIDE DEF r
    <3> QED
      BY <2>5, <3>1, SinceOfAll
  <2>7. CrossesTogether(txn, r)
    BY <1>5, <1>7, SplitsCross
  <2> HIDE DEF r
  <2>8. ctx.recent = r /\ Since(ctx.recent, ctx.now - Day) = r
    BY <1>3, <2>2, <2>6 DEF r, c
  <2> HIDE DEF new
  <2> QED
    BY <1>6, <2>7, <2>8, StructuringIs
<1> QED
  BY <1>6, <1>7 DEF ctx, day, mine, c

-----------------------------------------------------------------------------
(* The holds of the engine's walk *)

HoldSound(h) ==
  /\ DOMAIN h = {"txnId", "payerId", "payeeId", "state", "challenge", "expiresAt",
                 "attemptsUsed", "attemptBudget", "linked"}
  /\ h.state \in HoldStates
  /\ h.expiresAt \in Nat /\ h.attemptsUsed \in Nat /\ h.attemptBudget \in Nat

(* g is h after something that leaves its parties and its terms. *)
SameTerms(g, h) ==
  /\ g.payerId = h.payerId /\ g.payeeId = h.payeeId
  /\ g.expiresAt = h.expiresAt /\ g.attemptBudget = h.attemptBudget

LEMMA ResolvedHold ==
  ASSUME NEW h, HoldSound(h), NEW o
  PROVE  LET g == ResolveHold(h, o)
         IN  HoldSound(g) /\ SameTerms(g, h) /\ g.attemptsUsed = h.attemptsUsed /\ ~IsOpen(g)
<1> DEFINE g == ResolveHold(h, o)
           s == StateOf(o)
<1>1. s \in ResolvedStates
  BY DEF StateOf, ResolvedStates
<1> HIDE DEF s
<1>2. CASE ~IsOpen(h)
  <2>1. g = h
    BY <1>2 DEF ResolveHold
  <2> QED
    BY <1>2, <2>1 DEF SameTerms
<1>3. CASE IsOpen(h)
  <2>1. g = [h EXCEPT !.state = s]
    BY <1>3 DEF ResolveHold, s
  <2> HIDE DEF g
  <2>2. DOMAIN g = DOMAIN h /\ g.state = s /\ SameTerms(g, h) /\ g.attemptsUsed = h.attemptsUsed
    BY <2>1 DEF HoldSound, SameTerms
  <2>3. HoldSound(g)
    BY <1>1, <2>2 DEF HoldSound, SameTerms, HoldStates
  <2>4. ~IsOpen(g)
    BY <1>1, <2>2 DEF IsOpen, OpenStates, ResolvedStates
  <2> QED
    BY <2>2, <2>3, <2>4 DEF g
<1> QED
  BY <1>2, <1>3

LEMMA ExpiredHold ==
  ASSUME NEW h, HoldSound(h), NEW now \in Nat
  PROVE  LET g == ExpireIfDue(h, now)
         IN  /\ HoldSound(g) /\ SameTerms(g, h) /\ g.attemptsUsed = h.attemptsUsed
             /\ IsOpen(g) <=> IsOpen(h) /\ now < h.expiresAt
<1>1. CASE Due(h, now)
  <2>1. ExpireIfDue(h, now) = ResolveHold(h, "expired")
    BY <1>1 DEF ExpireIfDue
  <2>2. ~(now < h.expiresAt)
    BY <1>1 DEF Due, HoldSound
  <2> QED
    BY <2>1, <2>2, ResolvedHold
<1>2. CASE ~Due(h, now)
  <2>1. ExpireIfDue(h, now) = h
    BY <1>2 DEF ExpireIfDue
  <2>2. IsOpen(h) => now < h.expiresAt
    BY <1>2 DEF Due, HoldSound
  <2> QED
    BY <2>1, <2>2 DEF SameTerms
<1> QED
  BY <1>1, <1>2

LEMMA RegisteredHold ==
  ASSUME NEW h, HoldSound(h), NEW pay
  PROVE  LET g == RegisterAttempt(h, pay)
         IN  /\ HoldSound(g) /\ SameTerms(g, h)
             /\ Related(h, pay) => (IsOpen(g) <=> ~pay.context.isNewDevice /\ h.attemptsUsed < h.attemptBudget)
<1> DEFINE g == RegisterAttempt(h, pay)
           a == AttemptDisposition(h, pay)
           l == Append(h.linked, pay.txnId)
           u == IF pay.context.isNewDevice THEN h.attemptsUsed ELSE h.attemptsUsed + 1
           s == IF a = "ESCALATED" THEN "ESCALATED_REVIEW" ELSE h.state
<1>1. CASE ~Related(h, pay)
  <2>1. g = h
    BY <1>1 DEF RegisterAttempt, AttemptDisposition
  <2> QED
    BY <1>1, <2>1 DEF SameTerms
<1>2. CASE Related(h, pay)
  <2>1. a = IF pay.context.isNewDevice \/ ExceedsBudget(h) THEN "ESCALATED" ELSE "LINKED_TO_HOLD"
    BY <1>2 DEF AttemptDisposition
  <2>2. g = [h EXCEPT !.linked = l, !.attemptsUsed = u, !.state = s]
    BY <2>1 DEF RegisterAttempt
  <2>3. ExceedsBudget(h) <=> ~(h.attemptsUsed < h.attemptBudget)
    BY DEF ExceedsBudget, HoldSound
  <2>4. u \in Nat
    BY DEF HoldSound
  <2>5. h.state \in OpenStates
    BY <1>2 DEF Related, IsOpen
  <2>6. /\ s \in HoldStates
        /\ s \in OpenStates <=> ~pay.context.isNewDevice /\ h.attemptsUsed < h.attemptBudget
    BY <2>1, <2>3, <2>5 DEF HoldStates, OpenStates, ResolvedStates
  <2> HIDE DEF g, u, l, s, a
  <2>7. DOMAIN g = DOMAIN h /\ g.state = s /\ SameTerms(g, h) /\ g.attemptsUsed = u
    BY <2>2 DEF HoldSound, SameTerms
  <2>8. HoldSound(g)
    BY <2>4, <2>6, <2>7 DEF HoldSound, SameTerms
  <2>9. IsOpen(g) <=> ~pay.context.isNewDevice /\ h.attemptsUsed < h.attemptBudget
    BY <2>6, <2>7 DEF IsOpen
  <2> QED
    BY <2>7, <2>8, <2>9 DEF g
<1> QED
  BY <1>1, <1>2

LEMMA OpenedHold ==
  ASSUME NEW txn \in Payments
  PROVE  HoldSound(OpenHold(Attempt(txn), HoldPolicy))
<1>1. HoldPolicy.holdWindow \in Nat /\ HoldPolicy.attemptBudget \in Nat
  BY ReplayAssumption
<1>2. Attempt(txn).ts = txn.ts /\ txn.ts \in Nat
  BY DEF Attempt, Payments
<1> DEFINE pay == Attempt(txn)
           c == SelectChallenge(pay.context)
           e == pay.ts + HoldPolicy.holdWindow
<1>3. OpenHold(pay, HoldPolicy)
        = [txnId |-> pay.txnId, payerId |-> pay.payerId, payeeId |-> pay.payeeId, state |-> "CHALLENGE_ISSUED",
           challenge |-> c, expiresAt |-> e, attemptsUsed |-> 0,
           attemptBudget |-> HoldPolicy.attemptBudget, linked |-> << >>]
  BY DEF OpenHold
<1>4. e \in Nat
  BY <1>1, <1>2
<1> HIDE DEF pay, c, e
<1> QED
  BY <1>1, <1>3, <1>4 DEF HoldSound, HoldStates, OpenStates, pay

LEMMA AttemptTells ==
  ASSUME NEW txn \in Payments
  PROVE  /\ Attempt(txn).payeeId = txn.payee
         /\ txn.session.isNewDevice \in BOOLEAN
         /\ Attempt(txn).context.isNewDevice = txn.session.isNewDevice
<1>1. txn.session.isNewDevice \in BOOLEAN
  BY ReplayAssumption DEF Payments
<1> DEFINE S == IF txn.session.isNewDevice THEN {"isNewDevice"} ELSE {}
<1>2. "isNewDevice" \in S <=> txn.session.isNewDevice
  OBVIOUS
<1>3. Attempt(txn).context = ContextWith(S) /\ Attempt(txn).payeeId = txn.payee
  BY DEF Attempt
<1> HIDE DEF S
<1>4. ContextWith(S)["isNewDevice"] = ("isNewDevice" \in S)
  BY DEF ContextWith, ContextFlags
<1> QED
  BY <1>1, <1>2, <1>3, <1>4

LEMMA RegisteredAreSound ==
  ASSUME NEW holds, \A h \in holds : HoldSound(h), NEW txn \in Payments
  PROVE  /\ \A g \in AgedHolds(holds, txn) : HoldSound(g)
         /\ \A g \in RegisteredHolds(holds, txn) : HoldSound(g)
<1>1. txn.ts \in Nat
  BY DEF Payments
<1>2. ASSUME NEW g \in AgedHolds(holds, txn) PROVE HoldSound(g)
  <2>1. PICK h \in holds : g = IF h.payerId = txn.payer THEN ExpireIfDue(h, txn.ts) ELSE h
    BY DEF AgedHolds
  <2> QED
    BY <1>1, <2>1, ExpiredHold
<1>3. ASSUME NEW g \in RegisteredHolds(holds, txn) PROVE HoldSound(g)
  <2>1. CASE g \in AgedHolds(holds, txn)
    BY <1>2, <2>1
  <2>2. CASE \E h \in LinkedHolds(holds, txn) : g = RegisterAttempt(h, Attempt(txn))
    <3>1. PICK h \in LinkedHolds(holds, txn) : g = RegisterAttempt(h, Attempt(txn))
      BY <2>2
    <3>2. HoldSound(h)
      BY <1>2 DEF LinkedHolds
    <3> QED
      BY <3>1, <3>2, RegisteredHold
  <2> QED
    BY <2>1, <2>2 DEF RegisteredHolds
<1> QED
  BY <1>2, <1>3

(* A hold against the beneficiary is among those the payment is scored     *)
(* with when one stood before it: still open, its window not elapsed, its  *)
(* budget not used up.                                                     *)
LEMMA StandingIsHeld ==
  ASSUME NEW holds, \A h \in holds : HoldSound(h), NEW txn \in Payments
  PROVE  (\E g \in StandingHolds(holds, txn) : g.payeeId = txn.payee) <=> (\E h \in holds : Stands(h, txn))
<1>1. txn.ts \in Nat
  BY DEF Payments
<1>2. ASSUME NEW h \in holds, Stands(h, txn) PROVE \E g \in StandingHolds(holds, txn) : g.payeeId = txn.payee
  <2> DEFINE a == ExpireIfDue(h, txn.ts)
             g == RegisterAttempt(a, Attempt(txn))
  <2>1. /\ IsOpen(h) /\ h.payerId = txn.payer /\ h.payeeId = txn.payee /\ txn.ts < h.expiresAt
        /\ ~txn.session.isNewDevice /\ h.attemptsUsed < h.attemptBudget
    BY <1>2 DEF Stands
  <2>2. HoldSound(a) /\ SameTerms(a, h) /\ a.attemptsUsed = h.attemptsUsed /\ IsOpen(a)
    BY <1>1, <2>1, ExpiredHold
  <2>3. a \in AgedHolds(holds, txn)
    BY <2>1 DEF AgedHolds
  <2> HIDE DEF a
  <2>4. Related(a, Attempt(txn)) /\ a.payerId = txn.payer
    BY <2>1, <2>2, AttemptTells DEF Related, SameTerms
  <2>5. a \in LinkedHolds(holds, txn)
    BY <2>3, <2>4 DEF LinkedHolds
  <2>6. g \in RegisteredHolds(holds, txn)
    BY <2>5 DEF RegisteredHolds
  <2>7. IsOpen(g) /\ SameTerms(g, a)
    BY <2>1, <2>2, <2>4, AttemptTells, RegisteredHold DEF SameTerms
  <2> HIDE DEF g
  <2>8. g \in StandingHolds(holds, txn) /\ g.payeeId = txn.payee
    BY <2>1, <2>2, <2>4, <2>6, <2>7 DEF StandingHolds, SameTerms
  <2> QED
    BY <2>8
<1>3. ASSUME NEW g \in StandingHolds(holds, txn), g.payeeId = txn.payee PROVE \E h \in holds : Stands(h, txn)
  <2>1. g \in RegisteredHolds(holds, txn) /\ g.payerId = txn.payer /\ IsOpen(g)
    BY DEF StandingHolds
  <2>2. g \notin AgedHolds(holds, txn) \ LinkedHolds(holds, txn)
    BY <1>3, <2>1, AttemptTells DEF LinkedHolds, Related
  <2>3. PICK a \in LinkedHolds(holds, txn) : g = RegisterAttempt(a, Attempt(txn))
    BY <2>1, <2>2 DEF RegisteredHolds
  <2>4. a \in AgedHolds(holds, txn) /\ a.payerId = txn.payer /\ Related(a, Attempt(txn))
    BY DEF LinkedHolds
  <2>5. PICK h \in holds : a = IF h.payerId = txn.payer THEN ExpireIfDue(h, txn.ts) ELSE h
    BY <2>4 DEF AgedHolds
  <2>6. h.payerId = txn.payer /\ a = ExpireIfDue(h, txn.ts)
    BY <2>4, <2>5
  <2>7. SameTerms(a, h) /\ a.attemptsUsed = h.attemptsUsed /\ HoldSound(a)
        /\ (IsOpen(a) <=> IsOpen(h) /\ txn.ts < h.expiresAt)
    BY <1>1, <2>6, ExpiredHold
  <2>8. ~txn.session.isNewDevice /\ a.attemptsUsed < a.attemptBudget
    BY <2>1, <2>3, <2>4, <2>7, AttemptTells, RegisteredHold
  <2>9. IsOpen(a) /\ a.payeeId = txn.payee
    BY <2>4, AttemptTells DEF Related
  <2>10. Stands(h, txn)
    BY <2>6, <2>7, <2>8, <2>9 DEF Stands, SameTerms
  <2> QED
    BY <2>10
<1> QED
  BY <1>2, <1>3

-----------------------------------------------------------------------------
(* The engine's steps *)

(* What is learnt from a payment does not depend on what was decided. *)
LEMMA SettledIs ==
  ASSUME NEW walk, IsWalk(walk), NEW base, NEW txn \in Payments, NEW a, Near(a.store, base, txn),
         \A h \in a.holds : HoldSound(h), NEW stepUp \in BOOLEAN, NEW response
  PROVE  LET w == Settled(walk, txn, a, stepUp, response)
         IN  /\ IsWalk(w) /\ w.timeline = walk.timeline
             /\ w.store = Learnt(base, a.ctx.payer, a.ctx.payee, txn)
             /\ \A h \in w.holds : HoldSound(h)
<1> DEFINE pay    == Attempt(txn)
           opened == IF stepUp /\ a.linked = {} THEN {OpenHold(pay, HoldPolicy)} ELSE {}
           holds  == a.holds \cup opened
           own    == {h \in holds : h \in opened \/ h.txnId \in {l.txnId : l \in a.linked}}
           after  == IF response = "ignore" THEN holds
                     ELSE (holds \ own) \cup {ResolveHold(h, response) : h \in own}
           new    == Learn(a.store, a.ctx.payer, a.ctx.payee, txn)
           w      == Settled(walk, txn, a, stepUp, response)
<1>1. w = [walk EXCEPT !.store = new, !.holds = after]
  BY Zenon DEF Settled
<1>2. \A h \in opened : HoldSound(h)
  BY OpenedHold
<1> HIDE DEF opened
<1>3. \A h \in holds : HoldSound(h)
  BY <1>2
<1> HIDE DEF holds
<1>4. own \subseteq holds
  OBVIOUS
<1> HIDE DEF own
<1>5. ASSUME NEW h \in after PROVE HoldSound(h)
  <2>1. CASE h \in holds
    BY <1>3, <2>1
  <2>2. CASE h \in {ResolveHold(g, response) : g \in own}
    <3>1. PICK g \in own : h = ResolveHold(g, response)
      BY <2>2
    <3>2. HoldSound(g)
      BY <1>3, <1>4
    <3> QED
      BY <3>1, <3>2, ResolvedHold
  <2> QED
    BY <2>1, <2>2
<1> HIDE DEF after
<1>6. new = Learnt(base, a.ctx.payer, a.ctx.payee, txn)
  BY LearnNear
<1> HIDE DEF new, w
<1>7. IsWalk(w) /\ w.timeline = walk.timeline /\ w.store = new /\ w.holds = after
  BY <1>1 DEF IsWalk
<1> QED
  BY <1>5, <1>6, <1>7 DEF w

(* Told of a beneficiary, the store comes to the payments it came to. *)
LEMMA SuppliedKeepsStore ==
  ASSUME NEW h \in Nat, NEW past, PastSound(past, h), NEW txn \in Payments, h <= txn.ts,
         NEW walk, IsWalk(walk), StoreOf(walk.store, past, h)
  PROVE  StoreOf(Supplied(walk, txn).store, past, txn.ts)
<1> DEFINE base == walk.store
           timeline == AdvanceTo(walk.timeline, txn.ts)
           b == Beneficiary(base, txn)
           q == Attached(b, txn.payee, timeline)
           new == Supplied(walk, txn).store
<1>1. IsStore(base) /\ \A id \in DOMAIN base.payees : IsPayee(base.payees[id])
  BY DEF StoreOf
<1>2. IsPayee(b) /\ b.window = WindowIn(base, txn.payee)
  <2>1. CASE txn.payee \in DOMAIN base.payees
    <3>1. b = base.payees[txn.payee]
      BY <2>1 DEF Beneficiary, At
    <3> QED
      BY <1>1, <2>1, <3>1 DEF WindowIn
  <2>2. CASE txn.payee \notin DOMAIN base.payees
    <3>1. b = EmptyPayeeProfile(txn.ts)
      BY <2>2 DEF Beneficiary, At
    <3> QED
      BY <2>2, <3>1, EmptyPayeeIsPayee DEF WindowIn
  <2> QED
    BY <2>1, <2>2
<1>3. /\ Near(new, base, txn) /\ new.payers = base.payers /\ new.txns = base.txns
      /\ new.payees = Put(base.payees, txn.payee, q)
  BY <1>1, SuppliedIs
<1> HIDE DEF new, b, timeline
<1>4. IsPayee(q) /\ q.window = b.window
  BY <1>2, AttachedTells
<1> HIDE DEF q, base
<1>5. \A id \in DOMAIN new.payees : IsPayee(new.payees[id])
  BY <1>1, <1>3, <1>4 DEF Put
<1>6. ASSUME NEW id PROVE WindowIn(new, id) = WindowIn(base, id)
  <2>1. CASE id = txn.payee
    BY <1>2, <1>3, <1>4, <2>1 DEF WindowIn, Put
  <2>2. CASE id # txn.payee
    BY <1>3, <2>2 DEF WindowIn, Put
  <2> QED
    BY <2>1, <2>2
<1>7. WindowsOf(new, past, txn.ts)
  <2>1. h \in Int /\ txn.ts \in Int
    BY DEF Payments
  <2>2. WindowsOf(base, past, h)
    BY DEF StoreOf, base
  <2> QED
    BY <1>6, <2>1, <2>2 DEF WindowsOf
<1>8. ProfilesOf(new, past) /\ TxnsOf(new, past)
  <2>1. ProfilesOf(base, past) /\ TxnsOf(base, past)
    BY DEF StoreOf, base
  <2> QED
    BY <1>3, <2>1 DEF ProfilesOf, TxnsOf
<1>9. IsStore(new)
  BY <1>3 DEF Near
<1> QED
  BY <1>5, <1>7, <1>8, <1>9 DEF StoreOf, new

(* Warmed, the store has learnt the payment. *)
LEMMA WarmLearns ==
  ASSUME NEW h \in Nat, NEW past, PastSound(past, h), NEW txn \in Payments, h <= txn.ts,
         NEW walk, IsWalk(walk), StoreOf(walk.store, past, h)
  PROVE  StoreOf(WarmStep(Supplied(walk, txn), txn).store, Append(past, txn), txn.ts)
<1> DEFINE base == walk.store
           timeline == AdvanceTo(walk.timeline, txn.ts)
           b == Beneficiary(base, txn)
           q == Attached(b, txn.payee, timeline)
<1>1. IsStore(base) /\ \A id \in DOMAIN base.payees : IsPayee(base.payees[id])
  BY DEF StoreOf
<1>2. IsPayee(b) /\ b.window = WindowIn(base, txn.payee)
  <2>1. CASE txn.payee \in DOMAIN base.payees
    <3>1. b = base.payees[txn.payee]
      BY <2>1 DEF Beneficiary, At
    <3> QED
      BY <1>1, <2>1, <3>1 DEF WindowIn
  <2>2. CASE txn.payee \notin DOMAIN base.payees
    <3>1. b = EmptyPayeeProfile(txn.ts)
      BY <2>2 DEF Beneficiary, At
    <3> QED
      BY <2>2, <3>1, EmptyPayeeIsPayee DEF WindowIn
  <2> QED
    BY <2>1, <2>2
<1>3. WarmStep(Supplied(walk, txn), txn).store = Learnt(base, Profile(base, txn), q, txn)
  BY <1>1, WarmIs
<1> HIDE DEF b, timeline
<1>4. IsPayee(q) /\ q.window = b.window
  BY <1>2, AttachedTells
<1> HIDE DEF q
<1>5. Trailing(q.window, txn.ts) = Trailing(WindowIn(base, txn.payee), txn.ts)
  BY <1>2, <1>4
<1>6. StoreOf(Learnt(base, Profile(base, txn), q, txn), Append(past, txn), txn.ts)
  BY <1>4, <1>5, StoreLearns DEF Profile
<1> QED
  BY <1>3, <1>6

(* Measured and learnt, too: what was measured is what is updated. *)
LEMMA MeasuredIsLearnt ==
  ASSUME NEW h \in Nat, NEW past, PastSound(past, h), NEW txn \in Payments, h <= txn.ts,
         NEW store, StoreOf(store, past, h), NEW timeline, NEW holds
  PROVE  LET ctx == Measured(store, timeline, txn, holds)
         IN  StoreOf(Learnt(store, ctx.payer, ctx.payee, txn), Append(past, txn), txn.ts)
<1> DEFINE ctx == Measured(store, timeline, txn, holds)
           q == Told(store, timeline, txn)
           b == Beneficiary(store, txn)
           r == RefreshPayeeWindow(b, txn.ts)
<1>1. ctx.payer = Profile(store, txn) /\ ctx.payee = q
  BY DEF Measured
<1>2. IsPayee(b) /\ b.window = WindowIn(store, txn.payee)
  <2>1. CASE txn.payee \in DOMAIN store.payees
    <3>1. b = store.payees[txn.payee]
      BY <2>1 DEF Beneficiary, At
    <3> QED
      BY <2>1, <3>1 DEF WindowIn, StoreOf
  <2>2. CASE txn.payee \notin DOMAIN store.payees
    <3>1. b = EmptyPayeeProfile(txn.ts)
      BY <2>2 DEF Beneficiary, At
    <3> QED
      BY <2>2, <3>1, EmptyPayeeIsPayee DEF WindowIn
  <2> QED
    BY <2>1, <2>2
<1>3. IsPayee(r) /\ r.window = Trailing(b.window, txn.ts)
  BY <1>2, RefreshFacts
<1>4. IsPayee(q) /\ q.window = r.window
  BY <1>3, AttachedTells DEF Told
<1>5. Trailing(Trailing(b.window, txn.ts), txn.ts) = Trailing(b.window, txn.ts)
  BY <1>2, RefreshThenUpdate
<1> HIDE DEF b, r, q, ctx
<1>6. Trailing(q.window, txn.ts) = Trailing(WindowIn(store, txn.payee), txn.ts)
  BY <1>2, <1>3, <1>4, <1>5
<1>7. StoreOf(Learnt(store, Profile(store, txn), q, txn), Append(past, txn), txn.ts)
  BY <1>4, <1>6, StoreLearns DEF Profile
<1> QED
  BY <1>1, <1>7 DEF ctx

-----------------------------------------------------------------------------
(* What the holds change of the statistics *)

(* Two contexts that differ only in the holds standing. *)
SameButHolds(c, d) == c.payer = d.payer /\ c.payee = d.payee /\ c.recent = d.recent /\ c.now = d.now

LEMMA HoldsOnlyRestructure ==
  ASSUME NEW txn, NEW c, NEW d, SameButHolds(c, d)
  PROVE  Extract(txn, c) = [Extract(txn, d) EXCEPT !.STRUCTURING = Structuring(txn, c)]
<1> USE DEF SameButHolds
<1>1. PayeeNovelty(txn, c) = PayeeNovelty(txn, d)
  BY Zenon DEF PayeeNovelty
<1>2. AmountDeviation(txn, c) = AmountDeviation(txn, d)
  <2>1. LogAmountMedian2(c.payer) = LogAmountMedian2(d.payer) /\ LogAmountMad4(c.payer) = LogAmountMad4(d.payer)
    OBVIOUS
  <2> QED
    BY ONLY <2>1 DEF AmountDeviation
<1>3. TemporalAnomaly(txn, c) = TemporalAnomaly(txn, d)
  <2>1. HourShare(c.payer, IstHour(txn.ts)) = HourShare(d.payer, IstHour(txn.ts))
    OBVIOUS
  <2> QED
    BY ONLY <2>1 DEF TemporalAnomaly
<1>4. DeviceDrift(txn, c) = DeviceDrift(txn, d)
  BY Zenon DEF DeviceDrift
<1>5. PayeeFanIn(txn, c) = PayeeFanIn(txn, d)
  BY Zenon DEF PayeeFanIn
<1>6. PayeeAccountAge(txn, c) = PayeeAccountAge(txn, d)
  BY Zenon DEF PayeeAccountAge
<1>7. CallConcurrency(txn, c) = CallConcurrency(txn, d)
  BY Zenon DEF CallConcurrency
<1>8. SessionUrgency(txn, c) = SessionUrgency(txn, d)
  BY Zenon DEF SessionUrgency
<1>9. VelocityBurst(txn, c) = VelocityBurst(txn, d)
  BY Zenon DEF VelocityBurst
<1>10. DrainRatio(txn, c) = DrainRatio(txn, d)
  BY Zenon DEF DrainRatio
<1>11. MuleProximity(txn, c) = MuleProximity(txn, d)
  BY Zenon DEF MuleProximity
<1>12. [Extract(txn, d) EXCEPT !.STRUCTURING = Structuring(txn, c)]
         = [PAYEE_NOVELTY |-> PayeeNovelty(txn, d), AMOUNT_DEVIATION |-> AmountDeviation(txn, d),
            TEMPORAL_ANOMALY |-> TemporalAnomaly(txn, d), DEVICE_DRIFT |-> DeviceDrift(txn, d),
            PAYEE_FAN_IN |-> PayeeFanIn(txn, d), PAYEE_ACCOUNT_AGE |-> PayeeAccountAge(txn, d),
            CALL_CONCURRENCY |-> CallConcurrency(txn, d), SESSION_URGENCY |-> SessionUrgency(txn, d),
            STRUCTURING |-> Structuring(txn, c), VELOCITY_BURST |-> VelocityBurst(txn, d),
            DRAIN_RATIO |-> DrainRatio(txn, d), MULE_PROXIMITY |-> MuleProximity(txn, d)]
  BY DEF Extract
<1> QED
  BY <1>1, <1>2, <1>3, <1>4, <1>5, <1>6, <1>7, <1>8, <1>9, <1>10, <1>11, <1>12 DEF Extract

(* The engine, with the store and the timeline of the feature walk,        *)
(* measures the row but for three points while a hold stands.              *)
LEMMA MeasuredTheSame ==
  ASSUME NEW h \in Nat, NEW past, PastSound(past, h), NEW txn \in Payments, h <= txn.ts,
         NEW store, StoreOf(store, past, h), NEW timeline,
         NEW holds, \A g \in holds : HoldSound(g)
  PROVE  LET c == Measured(store, timeline, txn, StandingHolds(holds, txn))
             d == Measured(store, timeline, txn, {})
             extra == IF \E g \in holds : Stands(g, txn) THEN 3 * Point ELSE 0
         IN  Extract(txn, c) = [Extract(txn, d) EXCEPT !.STRUCTURING = @ + extra]
<1> DEFINE c == Measured(store, timeline, txn, StandingHolds(holds, txn))
           d == Measured(store, timeline, txn, {})
           extra == IF \E g \in holds : Stands(g, txn) THEN 3 * Point ELSE 0
           n == OfDay(txn, d.recent, d.now)
<1>1. SameButHolds(c, d) /\ c.activeHolds = StandingHolds(holds, txn) /\ d.activeHolds = {}
  BY DEF SameButHolds, Measured
<1>2. d.recent \in Seq(Payments)
  BY SplitMeasured
<1> HIDE DEF c, d
<1>3. /\ HeldAlready(txn, c) <=> \E g \in holds : Stands(g, txn)
      /\ ~HeldAlready(txn, d)
  BY <1>1, StandingIsHeld DEF HeldAlready
<1>4. c.recent = d.recent /\ c.now = d.now
  BY <1>1 DEF SameButHolds
<1>5. /\ n \in Nat
      /\ Structuring(txn, c) = n + (IF HeldAlready(txn, c) THEN 3 * Point ELSE 0)
      /\ Structuring(txn, d) = n + (IF HeldAlready(txn, d) THEN 3 * Point ELSE 0)
  BY <1>2, <1>4, StructuringIs
<1>6. Structuring(txn, c) = Structuring(txn, d) + extra
  <2>1. extra \in Nat
    BY DEF Point
  <2>2. Structuring(txn, d) = n
    BY <1>3, <1>5
  <2>3. Structuring(txn, c) = n + extra
    BY <1>3, <1>5
  <2> QED
    BY <2>2, <2>3
<1>7. Extract(txn, c) = [Extract(txn, d) EXCEPT !.STRUCTURING = Structuring(txn, c)]
  BY <1>1, HoldsOnlyRestructure
<1>8. Extract(txn, d).STRUCTURING = Structuring(txn, d)
  BY DEF Extract
<1> HIDE DEF extra
<1>9. Extract(txn, c) = [Extract(txn, d) EXCEPT !.STRUCTURING = @ + extra]
  <2> DEFINE x == Extract(txn, d)
             s == Structuring(txn, c)
  <2>1. s = x.STRUCTURING + extra
    BY <1>6, <1>8
  <2> QED
    BY <1>7, <2>1
<1> QED
  BY <1>9 DEF c, d, extra

-----------------------------------------------------------------------------
(* The inductive invariant *)

(* What a walk keeps stays within its bounds. *)
LEMMA StoreIsBounded ==
  ASSUME NEW h, NEW past, PastSound(past, h), NEW store, StoreOf(store, past, h)
  PROVE  /\ \A id \in DOMAIN store.payers : /\ Len(store.payers[id].logAmounts) <= AmountWindow
                                            /\ Cardinality(DOMAIN store.payers[id].dailyCounts) <= DayWindow
         /\ \A id \in DOMAIN store.txns : Len(store.txns[id]) <= Retention
<1>1. ASSUME NEW id \in DOMAIN store.payers
      PROVE  /\ Len(store.payers[id].logAmounts) <= AmountWindow
             /\ Cardinality(DOMAIN store.payers[id].dailyCounts) <= DayWindow
  <2> DEFINE own == OfIn(past, id)
             p == store.payers[id]
             days == Days(own)
             n == Len(own)
             txn == own[n]
  <2>1. own \in Seq(Payments) /\ InTimeOrder(own) /\ own # << >>
    BY OfAndToType DEF PastSound, StoreOf, ProfilesOf
  <2>2. ComesTo(p, own, 0)
    BY DEF StoreOf, ProfilesOf
  <2>3. p.logAmounts = Keep(LogsOf(own), AmountWindow)
        /\ p.dailyCounts = [d \in KeptDays(days) |-> Cardinality(OnDay(own, d))]
    BY <2>2, ComesToUnfolds
  <2> HIDE DEF own, p
  <2>4. txn \in Payments /\ \A i \in 1..n : own[i].ts <= txn.ts
    BY <2>1 DEF InTimeOrder
  <2> HIDE DEF txn, n
  <2>5. LogsOf(own) \in Seq({LogOf[a] : a \in Nat})
    BY <2>1, <2>4, ListsAppend
  <2>6. Len(p.logAmounts) <= AmountWindow
    BY <2>3, <2>5, KeepIsTheEnd, WindowsArePositive
  <2>7. days \in SUBSET Nat /\ IsFiniteSet(days)
    BY <2>1, <2>4, DaysAppend DEF n
  <2> HIDE DEF days
  <2>8. Cardinality(DOMAIN p.dailyCounts) <= DayWindow
    BY <2>3, <2>7, KeptDaysAreFew
  <2> QED
    BY <2>6, <2>8 DEF p
<1>2. ASSUME NEW id \in DOMAIN store.txns PROVE Len(store.txns[id]) <= Retention
  <2>1. store.txns[id] = Keep(OfIn(past, id), Retention)
    BY DEF StoreOf, TxnsOf, At
  <2>2. OfIn(past, id) \in Seq(Payments)
    BY OfAndToType DEF PastSound
  <2> QED
    BY <2>1, <2>2, KeepIsTheEnd, WindowsArePositive
<1> QED
  BY <1>1, <1>2

(* The intelligence of a corpus, as SharedFacts asks for it. *)
LEMMA IntelsAreIntel ==
  ASSUME NEW all \in Intels
  PROVE  IsIntel(all)
<1>1. all \in Seq(ToSet(all)) /\ \A e \in ToSet(all) : e.ts \in Int /\ e.hop \in Nat
  BY ReplayAssumption
<1>2. \A i \in 1..Len(all) : all[i] \in ToSet(all)
  BY <1>1
<1> QED
  BY <1>1, <1>2 DEF IsIntel, IsSequence

(* A walk stands at h: its store comes to the payments past, and its       *)
(* timeline has folded no event later than h.                              *)
StandsBy(walk, all, past, h) ==
  /\ StoreOf(walk.store, past, h)
  /\ TimelineOf(walk.timeline, all)
  /\ NotAhead(walk.timeline, h)

(* What a row says of its payment, the payments before it being past. *)
SeesSplit(r, past, txn) ==
  LET new == Append(Since(OfIn(past, txn.payer), txn.ts - Day), txn)
  IN  (/\ Len(new) <= Retention + 1
       /\ \E t \in AmountThresholds : /\ \A i \in DOMAIN new : new[i].amount < t
                                      /\ Total(AmountsOf(new)) >= t)
      => r.raw.STRUCTURING >= 90
Tells(r, all, past, txn) ==
  /\ r.ctx.payee.window = InboundOf(Since(ToIn(past, txn.payee), txn.ts - Day))
  /\ r.ctx.recent = Reverse(Since(Keep(OfIn(past, txn.payer), Retention), txn.ts - Day))
  /\ ComesTo(r.ctx.payer, OfIn(past, txn.payer), txn.ts)
  /\ Asserted(r.ctx, all, txn)
  /\ SeesSplit(r, past, txn)

(* The feature walk moves on, and its row tells. *)
LEMMA FeatureTells ==
  ASSUME NEW h \in Nat, NEW past, PastSound(past, h), NEW txn \in Payments, h <= txn.ts,
         NEW all, IsIntel(all), NEW walk, StandsBy(walk, all, past, h)
  PROVE  LET step == FeatureStep(walk, txn)
         IN  /\ StandsBy(step.walk, all, Append(past, txn), txn.ts)
             /\ step.row.id = txn.id
             /\ Tells(step.row, all, past, txn)
<1> DEFINE timeline == AdvanceTo(walk.timeline, txn.ts)
           ctx == Measured(walk.store, timeline, txn, {})
           step == FeatureStep(walk, txn)
           new == Learnt(walk.store, ctx.payer, ctx.payee, txn)
<1>1. StoreOf(walk.store, past, h) /\ TimelineOf(walk.timeline, all) /\ NotAhead(walk.timeline, h)
      /\ IsStore(walk.store)
  BY DEF StandsBy, StoreOf
<1>2. step.walk = [store |-> new, timeline |-> timeline]
      /\ step.row = [id |-> txn.id, ctx |-> ctx, raw |-> Extract(txn, ctx)]
  BY <1>1, FeatureIs
<1>3. h \in Int /\ txn.ts \in Int /\ past \in Seq(Payments)
  BY DEF Payments, PastSound
<1>4. TimelineOf(timeline, all) /\ NotAhead(timeline, txn.ts)
  BY <1>1, <1>3, IntelMeasured
<1>5. StoreOf(new, Append(past, txn), txn.ts)
  BY <1>1, MeasuredIsLearnt
<1>6. ctx.payee.window = InboundOf(Since(ToIn(past, txn.payee), txn.ts - Day))
  BY <1>1, FanInMeasured
<1>7. ctx.recent = Reverse(Since(Keep(OfIn(past, txn.payer), Retention), txn.ts - Day))
  BY <1>1, RecentMeasured
<1>8. ComesTo(ctx.payer, OfIn(past, txn.payer), txn.ts)
  BY <1>1, BaselineMeasured
<1>9. Asserted(ctx, all, txn)
  BY <1>1, IntelTold
<1>10. ctx.recent \in Seq(Payments) /\ ctx.activeHolds = {}
  BY <1>1, SplitMeasured DEF Measured
<1>11. SeesSplit(step.row, past, txn)
  <2> SUFFICES ASSUME NEW day, day = Append(Since(OfIn(past, txn.payer), txn.ts - Day), txn),
                      Len(day) <= Retention + 1,
                      \E t \in AmountThresholds : /\ \A i \in DOMAIN day : day[i].amount < t
                                                  /\ Total(AmountsOf(day)) >= t
               PROVE  step.row.raw.STRUCTURING >= 90
    BY DEF SeesSplit
  <2>1. OfDay(txn, ctx.recent, ctx.now) >= 90
    BY <1>1, SplitMeasured
  <2> HIDE DEF ctx
  <2>2. OfDay(txn, ctx.recent, ctx.now) \in Nat
        /\ Structuring(txn, ctx) = OfDay(txn, ctx.recent, ctx.now) + (IF HeldAlready(txn, ctx) THEN 3 * Point ELSE 0)
    BY <1>10, StructuringIs
  <2>3. Structuring(txn, ctx) >= 90
    BY <2>1, <2>2 DEF Point
  <2>4. step.row.raw = Extract(txn, ctx)
    BY <1>2
  <2> QED
    BY <2>3, <2>4 DEF Extract
<1> HIDE DEF ctx, timeline, new, step
<1>12. StandsBy(step.walk, all, Append(past, txn), txn.ts)
  BY <1>2, <1>4, <1>5 DEF StandsBy
<1>13. step.row.id = txn.id /\ step.row.ctx = ctx
  BY <1>2
<1>14. Tells(step.row, all, past, txn)
  BY <1>6, <1>7, <1>8, <1>9, <1>11, <1>13 DEF Tells
<1> QED
  BY <1>12, <1>13, <1>14 DEF step

(* The moment both walks have reached, and the window the engine scores.   *)
Latest == IF fed = << >> THEN Opening ELSE Last(fed).ts
Warmed == warmUp \/ \A i \in DOMAIN fed : fed[i].ts >= fromMs

CorpusSound ==
  /\ events \in Intels
  /\ fed \in Seq(Payments) /\ InTimeOrder(fed)
  /\ Latest \in Nat /\ PastSound(fed, Latest)
  /\ \A i \in 1..Len(fed) : fed[i].id = i
ScoredSound == scored = {i \in 1..Len(fed) : fed[i].ts >= fromMs}
StreamSound == StandsBy(stream, events, fed, Latest)
RowSound    == row.id = Len(fed) /\ (fed # << >> => Tells(row, events, Past, Now))

(* The engine may have learnt only some of the payments. *)
EngineSound ==
  /\ IsWalk(engine) /\ \A h \in engine.holds : HoldSound(h)
  /\ \E past : PastSound(past, Latest) /\ StandsBy(engine, events, past, Latest)
OutcomeSound == outcome # Nothing => fed # << >> /\ Asserted(outcome.ctx, events, Now)
WalksAgree   == Warmed => engine.store = stream.store /\ engine.timeline = stream.timeline

IInv == /\ CorpusSound /\ ScoredSound /\ StreamSound /\ RowSound
        /\ EngineSound /\ OutcomeSound /\ WalksAgree

LEMMA CorpusGrows ==
  ASSUME CorpusSound, NEW kind \in Kinds, NEW gap \in Gaps, NEW txn, txn = NextPayment(kind, gap)
  PROVE  /\ txn \in Payments /\ txn.id = Len(fed) + 1 /\ Latest \in Nat /\ Latest <= txn.ts
         /\ PastSound(fed, Latest)
         /\ LET new == Append(fed, txn)
            IN  /\ new \in Seq(Payments) /\ InTimeOrder(new) /\ PastSound(new, txn.ts)
                /\ Len(new) = Len(fed) + 1 /\ new # << >>
                /\ Last(new) = txn /\ SubSeq(new, 1, Len(new) - 1) = fed
                /\ new[Len(fed) + 1] = txn /\ \A i \in 1..Len(fed) : new[i] = fed[i]
                /\ \A i \in 1..Len(new) : new[i].id = i
<1> DEFINE new == Append(fed, txn)
           n == Len(fed)
<1>1. fed \in Seq(Payments) /\ n \in Nat /\ Latest \in Nat /\ PastSound(fed, Latest) /\ InTimeOrder(fed)
      /\ \A i \in 1..n : fed[i].id = i
  BY DEF CorpusSound
<1>2. txn = [id |-> n + 1, payer |-> kind.payer, payee |-> kind.payee, amount |-> kind.amount,
             device |-> kind.device, session |-> kind.session, addedAt |-> kind.addedAt, ts |-> gap + Latest]
  BY DEF NextPayment, Latest
<1>3. gap \in Nat /\ kind.amount \in Nat
  BY ReplayAssumption
<1>4. txn \in Payments
  BY <1>1, <1>2, <1>3 DEF Payments
<1>5. txn.id = n + 1 /\ txn.ts = gap + Latest
  BY <1>2
<1>6. Latest <= txn.ts
  BY <1>1, <1>3, <1>5
<1>7. PastSound(fed, txn.ts) /\ PastSound(new, txn.ts)
  BY <1>1, <1>4, <1>6, PastGrows
<1>8. new \in Seq(Payments) /\ Len(new) = n + 1 /\ new # << >>
      /\ new[n + 1] = txn /\ \A i \in 1..n : new[i] = fed[i]
  <2>1. new \in Seq(Payments) /\ Len(new) = n + 1 /\ new[n + 1] = txn /\ \A i \in 1..n : new[i] = fed[i]
    BY <1>1, <1>4
  <2>2. Len(new) # 0
    BY <1>1, <2>1
  <2> QED
    BY <2>1, <2>2
<1>9. InTimeOrder(new)
  BY <1>1, <1>4, <1>7, OrderAppend DEF PastSound
<1>10. Last(new) = txn
  BY <1>8 DEF Last
<1>11. SubSeq(new, 1, Len(new) - 1) = fed
  <2>1. new \in Seq(Payments) /\ Len(new) = n + 1 /\ n \in Nat
    BY <1>1, <1>8
  <2>2. /\ SubSeq(new, 1, n) \in Seq(Payments) /\ Len(SubSeq(new, 1, n)) = n
        /\ \A i \in 1..n : SubSeq(new, 1, n)[i] = new[i]
    <3> HIDE DEF new, n
    <3> QED
      BY <2>1
  <2> DEFINE front == SubSeq(new, 1, n)
  <2>3. front = fed
    <3> HIDE DEF front
    <3>1. front \in Seq(Payments) /\ Len(front) = Len(fed) /\ \A i \in 1..Len(front) : front[i] = fed[i]
      BY <1>8, <2>2 DEF front
    <3> QED
      BY <1>1, <3>1, SameSequence
  <2>4. Len(new) - 1 = n
    BY <1>1, <1>8
  <2> QED
    BY <2>3, <2>4
<1>12. \A i \in 1..Len(new) : new[i].id = i
  <2> TAKE i \in 1..Len(new)
  <2>1. i \in 1..n \/ i = n + 1
    BY <1>1, <1>8
  <2> QED
    BY <1>1, <1>5, <1>8, <2>1
<1> QED
  BY <1>1, <1>4, <1>5, <1>6, <1>7, <1>8, <1>9, <1>10, <1>11, <1>12

LEMMA InitIsSound ==
  Init => IInv
<1> SUFFICES ASSUME Init PROVE IInv
  OBVIOUS
<1> DEFINE start == NewTimeline(events)
<1>1. /\ events \in Intels /\ fed = << >> /\ scored = {} /\ row = Nothing /\ outcome = Nothing
      /\ stream = [store |-> EmptyStore, timeline |-> start]
      /\ engine = [store |-> EmptyStore, timeline |-> start, holds |-> {}]
  BY DEF Init
<1>2. Latest = Opening /\ Opening \in Nat
  BY <1>1, ReplayAssumption DEF Latest
<1>3. TimelineOf(start, events) /\ start.cursor = 0
  BY <1>1, IntelsAreIntel, NewTimelineIsTimeline
<1> HIDE DEF start
<1>4. NotAhead(start, Latest)
  BY <1>3 DEF NotAhead
<1>5. PastSound(fed, Latest) /\ fed \in Seq(Payments) /\ Len(fed) = 0
  BY <1>1, PastOfNone DEF PastSound
<1>6. StoreOf(EmptyStore, fed, Latest)
  BY <1>1, EmptyStoreIsOfNone
<1>7. CorpusSound
  BY <1>1, <1>2, <1>5 DEF CorpusSound, InTimeOrder
<1>8. ScoredSound
  BY <1>1, <1>5 DEF ScoredSound
<1>9. StreamSound
  BY <1>1, <1>3, <1>4, <1>6 DEF StreamSound, StandsBy
<1>10. RowSound
  BY <1>1, <1>5 DEF RowSound, Nothing
<1>11. EngineSound
  <2>1. IsWalk(engine) /\ engine.holds = {}
    BY <1>1 DEF IsWalk
  <2>2. StandsBy(engine, events, fed, Latest)
    BY <1>1, <1>3, <1>4, <1>6 DEF StandsBy
  <2> QED
    BY <1>5, <2>1, <2>2 DEF EngineSound
<1>12. OutcomeSound /\ WalksAgree
  BY <1>1 DEF OutcomeSound, WalksAgree
<1> QED
  BY <1>7, <1>8, <1>9, <1>10, <1>11, <1>12 DEF IInv

(* Whatever the engine does with a payment, the feature walk goes on. *)
LEMMA FeedKeeps ==
  ASSUME IInv, NEW kind \in Kinds, NEW gap \in Gaps, NEW txn, txn = NextPayment(kind, gap), Feed(txn)
  PROVE  /\ CorpusSound' /\ StreamSound' /\ RowSound'
         /\ Latest' = txn.ts /\ fed' # << >> /\ Now' = txn /\ Past' = fed
<1> DEFINE step == FeatureStep(stream, txn)
<1>1. /\ txn \in Payments /\ txn.id = Len(fed) + 1 /\ Latest \in Nat /\ Latest <= txn.ts /\ PastSound(fed, Latest)
      /\ LET new == Append(fed, txn)
         IN  /\ new \in Seq(Payments) /\ InTimeOrder(new) /\ PastSound(new, txn.ts)
             /\ Len(new) = Len(fed) + 1 /\ new # << >>
             /\ Last(new) = txn /\ SubSeq(new, 1, Len(new) - 1) = fed
             /\ \A i \in 1..Len(new) : new[i].id = i
  BY CorpusGrows DEF IInv
<1>2. /\ fed' = Append(fed, txn) /\ stream' = step.walk /\ row' = step.row
      /\ events' = events
  BY Zenon DEF Feed
<1>3. /\ fed' \in Seq(Payments) /\ InTimeOrder(fed') /\ PastSound(fed', txn.ts)
      /\ Len(fed') = Len(fed) + 1 /\ fed' # << >>
      /\ Last(fed') = txn /\ SubSeq(fed', 1, Len(fed') - 1) = fed
      /\ \A i \in 1..Len(fed') : fed'[i].id = i
  BY <1>1, <1>2
<1>4. Latest' = txn.ts /\ Now' = txn /\ Past' = fed
  BY <1>3 DEF Latest, Now, Past
<1>5. txn.ts \in Nat /\ events \in Intels
  BY <1>1 DEF Payments, IInv, CorpusSound
<1>6. CorpusSound'
  BY <1>2, <1>3, <1>4, <1>5 DEF CorpusSound
<1>7. StandsBy(step.walk, events, Append(fed, txn), txn.ts) /\ step.row.id = txn.id /\ Tells(step.row, events, fed, txn)
  <2>1. IsIntel(events) /\ StandsBy(stream, events, fed, Latest)
    BY <1>5, IntelsAreIntel DEF IInv, StreamSound
  <2> QED
    BY <1>1, <2>1, FeatureTells
<1> HIDE DEF step
<1>8. StreamSound'
  BY <1>2, <1>4, <1>7 DEF StreamSound
<1>9. RowSound'
  BY <1>1, <1>2, <1>3, <1>4, <1>7 DEF RowSound
<1> QED
  BY <1>3, <1>4, <1>6, <1>8, <1>9

(* Which payments are in the engine's window. *)
LEMMA FeedWindows ==
  ASSUME IInv, NEW kind \in Kinds, NEW gap \in Gaps, NEW txn, txn = NextPayment(kind, gap), Feed(txn)
  PROVE  /\ Warmed' => Warmed
         /\ Warmed' /\ ~warmUp => InWindow(txn)
         /\ {i \in 1..Len(fed') : fed'[i].ts >= fromMs'}
              = IF InWindow(txn) THEN scored \cup {txn.id} ELSE scored
<1> DEFINE n == Len(fed)
<1>1. /\ txn.id = n + 1 /\ Append(fed, txn) \in Seq(Payments) /\ Len(Append(fed, txn)) = n + 1
      /\ Append(fed, txn)[n + 1] = txn /\ \A i \in 1..n : Append(fed, txn)[i] = fed[i]
  BY CorpusGrows DEF IInv
<1>2. fed' = Append(fed, txn) /\ warmUp' = warmUp /\ fromMs' = fromMs
  BY Zenon DEF Feed
<1>3. n \in Nat /\ DOMAIN fed = 1..n /\ scored = {i \in 1..n : fed[i].ts >= fromMs}
  BY DEF IInv, CorpusSound, ScoredSound
<1>4. /\ DOMAIN fed' = 1..(n + 1) /\ Len(fed') = n + 1
      /\ fed'[n + 1] = txn /\ \A i \in 1..n : fed'[i] = fed[i]
  BY <1>1, <1>2, <1>3
<1> HIDE DEF n
<1>5. 1..(n + 1) = 1..n \cup {n + 1} /\ n + 1 \notin 1..n
  BY <1>3
<1>6. ASSUME Warmed' PROVE Warmed /\ (warmUp \/ InWindow(txn))
  <2>1. warmUp \/ \A i \in 1..(n + 1) : fed'[i].ts >= fromMs
    BY <1>2, <1>4, <1>6 DEF Warmed
  <2>2. warmUp \/ (txn.ts >= fromMs /\ \A i \in 1..n : fed[i].ts >= fromMs)
    BY <1>4, <1>5, <2>1
  <2> QED
    BY <1>3, <2>2 DEF Warmed, InWindow
<1> DEFINE A == {i \in 1..(n + 1) : fed'[i].ts >= fromMs}
           B == {i \in 1..n : fed[i].ts >= fromMs}
<1>7. \A i \in 1..n : i \in A <=> i \in B
  BY <1>4, <1>5
<1>8. n + 1 \in A <=> txn.ts >= fromMs
  BY <1>4, <1>5
<1>9. A \subseteq 1..n \cup {n + 1} /\ B \subseteq 1..n
  BY <1>5
<1> HIDE DEF A, B
<1>10. A = IF InWindow(txn) THEN B \cup {n + 1} ELSE B
  <2> DEFINE C == IF InWindow(txn) THEN B \cup {n + 1} ELSE B
  <2>1. n + 1 \in C <=> InWindow(txn)
    BY <1>5, <1>9
  <2>2. \A i \in 1..n : i \in C <=> i \in B
    BY <1>5
  <2>3. C \subseteq 1..n \cup {n + 1}
    BY <1>9
  <2>4. n + 1 \in A <=> InWindow(txn)
    BY <1>8 DEF InWindow
  <2> HIDE DEF C
  <2>5. ASSUME NEW x PROVE x \in A <=> x \in C
    <3>1. x \in A => x \in 1..n \/ x = n + 1
      BY ONLY <1>9
    <3>2. x \in C => x \in 1..n \/ x = n + 1
      BY ONLY <2>3
    <3>3. x \in 1..n => (x \in A <=> x \in C)
      BY ONLY <1>7, <2>2
    <3>4. x = n + 1 => (x \in A <=> x \in C)
      BY ONLY <2>1, <2>4
    <3> QED
      BY ONLY <3>1, <3>2, <3>3, <3>4
  <2>6. A = C
    BY ONLY <2>5, Zenon
  <2> QED
    BY <2>6 DEF C
<1> QED
  BY <1>1, <1>2, <1>3, <1>4, <1>6, <1>10 DEF A, B, n

(* The engine's timeline moves on with the payments. *)
LEMMA EngineIsTold ==
  ASSUME IInv, NEW txn \in Payments, Latest \in Nat, Latest <= txn.ts
  PROVE  /\ IsIntel(events) /\ IsWalk(engine) /\ IsStore(engine.store) /\ IsStore(stream.store)
         /\ \A id \in DOMAIN engine.store.payees : IsPayee(engine.store.payees[id])
         /\ TimelineOf(AdvanceTo(engine.timeline, txn.ts), events)
         /\ NotAhead(AdvanceTo(engine.timeline, txn.ts), txn.ts)
<1>1. IsIntel(events) /\ IsWalk(engine)
  BY IntelsAreIntel DEF IInv, CorpusSound, EngineSound
<1>2. PICK past : PastSound(past, Latest) /\ StandsBy(engine, events, past, Latest)
  BY DEF IInv, EngineSound
<1>3. /\ IsStore(engine.store) /\ \A id \in DOMAIN engine.store.payees : IsPayee(engine.store.payees[id])
      /\ TimelineOf(engine.timeline, events) /\ NotAhead(engine.timeline, Latest)
  BY <1>2 DEF StandsBy, StoreOf
<1>4. IsStore(stream.store)
  BY DEF IInv, StreamSound, StandsBy, StoreOf
<1>5. Latest \in Int /\ txn.ts \in Int
  BY DEF Payments
<1> QED
  BY <1>1, <1>3, <1>4, <1>5, IntelMeasured

LEMMA SkipKeeps ==
  ASSUME IInv, NEW kind \in Kinds, NEW gap \in Gaps, NEW txn, txn = NextPayment(kind, gap), Skip(txn)
  PROVE  IInv'
<1>1. /\ Feed(txn) /\ ~InWindow(txn) /\ ~warmUp
      /\ engine' = Supplied(engine, txn) /\ outcome' = Nothing /\ scored' = scored
  BY Zenon DEF Skip
<1>2. CorpusSound' /\ StreamSound' /\ RowSound' /\ Latest' = txn.ts
  BY <1>1, FeedKeeps
<1>3. txn \in Payments /\ Latest \in Nat /\ Latest <= txn.ts
  BY CorpusGrows DEF IInv
<1>4. ScoredSound'
  BY <1>1, FeedWindows DEF ScoredSound
<1>5. ~Warmed'
  BY <1>1, FeedWindows
<1> DEFINE timeline == AdvanceTo(engine.timeline, txn.ts)
<1>6. IsWalk(engine) /\ IsStore(engine.store) /\ TimelineOf(timeline, events) /\ NotAhead(timeline, txn.ts)
  BY <1>3, EngineIsTold
<1>7. IsWalk(engine') /\ engine'.timeline = timeline /\ engine'.holds = engine.holds
  BY <1>1, <1>6, SuppliedIs
<1> HIDE DEF timeline
<1>8. PICK past : PastSound(past, Latest) /\ StandsBy(engine, events, past, Latest)
  BY DEF IInv, EngineSound
<1>9. PastSound(past, txn.ts)
  BY <1>3, <1>8, PastGrows
<1>10. StoreOf(engine'.store, past, txn.ts)
  BY <1>1, <1>3, <1>6, <1>8, SuppliedKeepsStore DEF StandsBy
<1>11. events' = events
  BY <1>1, Zenon DEF Feed
<1>12. EngineSound'
  <2>1. StandsBy(engine', events, past, txn.ts)
    BY <1>6, <1>7, <1>10 DEF StandsBy
  <2>2. \A h \in engine'.holds : HoldSound(h)
    BY <1>7 DEF IInv, EngineSound
  <2> QED
    BY <1>2, <1>7, <1>9, <1>11, <2>1, <2>2 DEF EngineSound
<1> QED
  BY <1>1, <1>2, <1>4, <1>5, <1>12 DEF IInv, OutcomeSound, WalksAgree

LEMMA WarmKeeps ==
  ASSUME IInv, NEW kind \in Kinds, NEW gap \in Gaps, NEW txn, txn = NextPayment(kind, gap), Warm(txn)
  PROVE  IInv'
<1>1. /\ Feed(txn) /\ ~InWindow(txn)
      /\ engine' = WarmStep(Supplied(engine, txn), txn) /\ outcome' = Nothing /\ scored' = scored
  BY Zenon DEF Warm
<1>2. CorpusSound' /\ StreamSound' /\ RowSound' /\ Latest' = txn.ts
  BY <1>1, FeedKeeps
<1>3. txn \in Payments /\ Latest \in Nat /\ Latest <= txn.ts
  BY CorpusGrows DEF IInv
<1>4. ScoredSound'
  BY <1>1, FeedWindows DEF ScoredSound
<1> DEFINE timeline == AdvanceTo(engine.timeline, txn.ts)
           base == engine.store
           b == Beneficiary(base, txn)
           q == Attached(b, txn.payee, timeline)
<1>6. /\ IsWalk(engine) /\ IsStore(base) /\ TimelineOf(timeline, events) /\ NotAhead(timeline, txn.ts)
      /\ IsStore(stream.store) /\ \A id \in DOMAIN base.payees : IsPayee(base.payees[id])
  BY <1>3, EngineIsTold
<1>7. /\ IsWalk(engine') /\ engine'.timeline = timeline /\ engine'.holds = engine.holds
      /\ engine'.store = Learnt(base, Profile(base, txn), q, txn)
  BY <1>1, <1>6, WarmIs
<1>8. PICK past : PastSound(past, Latest) /\ StandsBy(engine, events, past, Latest)
  BY DEF IInv, EngineSound
<1>9. PastSound(Append(past, txn), txn.ts)
  BY <1>3, <1>8, PastGrows
<1>10. StoreOf(engine'.store, Append(past, txn), txn.ts)
  BY <1>1, <1>3, <1>6, <1>8, WarmLearns DEF StandsBy
<1>11. events' = events /\ stream' = FeatureStep(stream, txn).walk
  BY <1>1, Zenon DEF Feed
<1>12. EngineSound'
  <2>1. StandsBy(engine', events, Append(past, txn), txn.ts)
    BY <1>6, <1>7, <1>10 DEF StandsBy
  <2>2. \A h \in engine'.holds : HoldSound(h)
    BY <1>7 DEF IInv, EngineSound
  <2> QED
    BY <1>2, <1>7, <1>9, <1>11, <2>1, <2>2 DEF EngineSound
<1>13. ASSUME Warmed' PROVE engine'.store = stream'.store /\ engine'.timeline = stream'.timeline
  <2>1. base = stream.store /\ engine.timeline = stream.timeline
    BY <1>1, <1>13, FeedWindows DEF IInv, WalksAgree
  <2> DEFINE ctx == Measured(stream.store, AdvanceTo(stream.timeline, txn.ts), txn, {})
             t == Told(base, timeline, txn)
  <2>2. stream' = [store |-> Learnt(stream.store, ctx.payer, ctx.payee, txn),
                   timeline |-> AdvanceTo(stream.timeline, txn.ts)]
    BY <1>6, <1>11, FeatureIs
  <2>3. ctx.payer = Profile(base, txn) /\ ctx.payee = t
    BY <2>1 DEF Measured
  <2> HIDE DEF ctx
  <2>4. stream'.store = Learnt(base, Profile(base, txn), t, txn) /\ stream'.timeline = timeline
    BY <2>1, <2>2, <2>3
  <2>5. IsPayee(b)
    BY <1>6, EmptyPayeeIsPayee DEF Beneficiary, At
  <2> HIDE DEF b
  <2>6. IsPayee(q) /\ t = RefreshPayeeWindow(q, txn.ts)
    BY <2>5, AttachedTells, RefreshAndAttach DEF Told, b
  <2>7. UpdatePayeeProfile(t, txn) = UpdatePayeeProfile(q, txn)
    <3> HIDE DEF q, t
    <3> QED
      BY <1>3, <2>6, RefreshThenUpdate
  <2>8. Learnt(base, Profile(base, txn), t, txn) = Learnt(base, Profile(base, txn), q, txn)
    <3> HIDE DEF q, t, base
    <3> QED
      BY <2>7 DEF Learnt
  <2> QED
    BY <1>7, <2>4, <2>8
<1> QED
  BY <1>1, <1>2, <1>4, <1>12, <1>13 DEF IInv, OutcomeSound, WalksAgree

(* What the engine scores a payment in, and what it does with it. *)
LEMMA ScoreIs ==
  ASSUME IInv, NEW kind \in Kinds, NEW gap \in Gaps, NEW txn, txn = NextPayment(kind, gap), Score(txn)
  PROVE  LET timeline == AdvanceTo(engine.timeline, txn.ts)
             ctx == Measured(engine.store, timeline, txn, StandingHolds(engine.holds, txn))
         IN  /\ outcome' = [id |-> txn.id, ctx |-> ctx, raw |-> Extract(txn, ctx)]
             /\ IsWalk(engine') /\ engine'.timeline = timeline
             /\ engine'.store = Learnt(engine.store, ctx.payer, ctx.payee, txn)
             /\ \A h \in engine'.holds : HoldSound(h)
<1> DEFINE timeline == AdvanceTo(engine.timeline, txn.ts)
           ctx == Measured(engine.store, timeline, txn, StandingHolds(engine.holds, txn))
           walk == Supplied(engine, txn)
           a == Assessed(walk, txn)
<1>1. PICK stepUp \in BOOLEAN, response \in Responses : engine' = Settled(walk, txn, a, stepUp, response)
  BY Zenon DEF Score
<1>2. outcome' = [id |-> txn.id, ctx |-> a.ctx, raw |-> Extract(txn, a.ctx)]
  BY Zenon DEF Score
<1>3. txn \in Payments /\ Latest \in Nat /\ Latest <= txn.ts
  BY CorpusGrows DEF IInv
<1>4. /\ IsWalk(engine) /\ IsStore(engine.store)
      /\ \A id \in DOMAIN engine.store.payees : IsPayee(engine.store.payees[id])
  BY <1>3, EngineIsTold
<1>5. IsWalk(walk) /\ walk.timeline = timeline
  BY <1>4, SuppliedIs
<1>6. Near(a.store, engine.store, txn) /\ a.holds = RegisteredHolds(engine.holds, txn) /\ a.ctx = ctx
  BY <1>4, AssessedIs
<1> HIDE DEF walk, a, timeline
<1>7. \A h \in a.holds : HoldSound(h)
  BY <1>3, <1>6, RegisteredAreSound DEF IInv, EngineSound
<1> HIDE DEF ctx
<1>8. /\ IsWalk(engine') /\ engine'.timeline = timeline
      /\ engine'.store = Learnt(engine.store, ctx.payer, ctx.payee, txn)
      /\ \A h \in engine'.holds : HoldSound(h)
  <2> DEFINE base == engine.store
             w == Settled(walk, txn, a, stepUp, response)
  <2>1. Near(a.store, base, txn)
    BY <1>6
  <2> HIDE DEF base
  <2>2. /\ IsWalk(w) /\ w.timeline = walk.timeline
        /\ w.store = Learnt(base, a.ctx.payer, a.ctx.payee, txn)
        /\ \A h \in w.holds : HoldSound(h)
    BY <1>3, <1>5, <1>7, <2>1, SettledIs
  <2>3. engine' = w
    BY <1>1
  <2> HIDE DEF w
  <2> QED
    BY <1>5, <1>6, <2>2, <2>3 DEF base
<1>9. outcome' = [id |-> txn.id, ctx |-> ctx, raw |-> Extract(txn, ctx)]
  BY <1>2, <1>6
<1> QED
  BY <1>8, <1>9 DEF ctx, timeline

LEMMA ScoreKeeps ==
  ASSUME IInv, NEW kind \in Kinds, NEW gap \in Gaps, NEW txn, txn = NextPayment(kind, gap), Score(txn)
  PROVE  IInv'
<1> DEFINE timeline == AdvanceTo(engine.timeline, txn.ts)
           ctx == Measured(engine.store, timeline, txn, StandingHolds(engine.holds, txn))
<1>1. Feed(txn) /\ InWindow(txn) /\ scored' = scored \cup {txn.id}
  BY Zenon DEF Score
<1>2. CorpusSound' /\ StreamSound' /\ RowSound' /\ Latest' = txn.ts /\ fed' # << >> /\ Now' = txn
  BY <1>1, FeedKeeps
<1>3. txn \in Payments /\ Latest \in Nat /\ Latest <= txn.ts
  BY CorpusGrows DEF IInv
<1>4. ScoredSound'
  BY <1>1, FeedWindows DEF ScoredSound
<1>5. /\ IsIntel(events) /\ IsStore(stream.store)
      /\ TimelineOf(timeline, events) /\ NotAhead(timeline, txn.ts)
  BY <1>3, EngineIsTold
<1>6. /\ outcome' = [id |-> txn.id, ctx |-> ctx, raw |-> Extract(txn, ctx)]
      /\ IsWalk(engine') /\ engine'.timeline = timeline
      /\ engine'.store = Learnt(engine.store, ctx.payer, ctx.payee, txn)
      /\ \A h \in engine'.holds : HoldSound(h)
  BY ScoreIs
<1>7. PICK past : PastSound(past, Latest) /\ StandsBy(engine, events, past, Latest)
  BY DEF IInv, EngineSound
<1>8. StoreOf(engine.store, past, Latest) /\ TimelineOf(engine.timeline, events) /\ NotAhead(engine.timeline, Latest)
  BY <1>7 DEF StandsBy
<1>9. PastSound(Append(past, txn), txn.ts)
  BY <1>3, <1>7, PastGrows
<1>10. StoreOf(engine'.store, Append(past, txn), txn.ts)
  BY <1>3, <1>6, <1>7, <1>8, MeasuredIsLearnt
<1>11. Asserted(ctx, events, txn)
  BY <1>3, <1>5, <1>7, <1>8, IntelTold
<1>12. events' = events /\ stream' = FeatureStep(stream, txn).walk
  BY <1>1, Zenon DEF Feed
<1>13. EngineSound'
  <2>1. StandsBy(engine', events, Append(past, txn), txn.ts)
    BY <1>5, <1>6, <1>10 DEF StandsBy
  <2> QED
    BY <1>2, <1>6, <1>9, <1>12, <2>1 DEF EngineSound
<1>14. OutcomeSound'
  <2>1. outcome'.ctx = ctx
    BY <1>6
  <2> HIDE DEF ctx
  <2> QED
    BY <1>2, <1>11, <1>12, <2>1 DEF OutcomeSound
<1>15. ASSUME Warmed' PROVE engine'.store = stream'.store /\ engine'.timeline = stream'.timeline
  <2>1. engine.store = stream.store /\ engine.timeline = stream.timeline
    BY <1>1, <1>15, FeedWindows DEF IInv, WalksAgree
  <2> DEFINE other == Measured(stream.store, AdvanceTo(stream.timeline, txn.ts), txn, {})
  <2>2. stream' = [store |-> Learnt(stream.store, other.payer, other.payee, txn),
                   timeline |-> AdvanceTo(stream.timeline, txn.ts)]
    BY <1>5, <1>12, FeatureIs
  <2>3. ctx.payer = other.payer /\ ctx.payee = other.payee
    BY <2>1 DEF Measured
  <2> HIDE DEF ctx, other
  <2> QED
    BY <1>6, <2>1, <2>2, <2>3
<1> QED
  BY <1>2, <1>4, <1>13, <1>14, <1>15 DEF IInv, WalksAgree

LEMMA StepIsSound ==
  IInv /\ [Next]_vars => IInv'
<1> SUFFICES ASSUME IInv, [Next]_vars PROVE IInv'
  OBVIOUS
<1>1. ASSUME NEW kind \in Kinds, NEW gap \in Gaps, Skip(NextPayment(kind, gap)) PROVE IInv'
  BY <1>1, SkipKeeps
<1>2. ASSUME NEW kind \in Kinds, NEW gap \in Gaps, Warm(NextPayment(kind, gap)) PROVE IInv'
  BY <1>2, WarmKeeps
<1>3. ASSUME NEW kind \in Kinds, NEW gap \in Gaps, Score(NextPayment(kind, gap)) PROVE IInv'
  BY <1>3, ScoreKeeps
<1>4. CASE UNCHANGED vars
  <2>1. /\ events' = events /\ fromMs' = fromMs /\ warmUp' = warmUp /\ fed' = fed /\ stream' = stream
        /\ engine' = engine /\ row' = row /\ outcome' = outcome /\ scored' = scored
    BY <1>4 DEF vars
  <2>2. Latest' = Latest /\ Past' = Past /\ Now' = Now /\ Warmed' = Warmed
    BY <2>1 DEF Latest, Past, Now, Warmed
  <2>3. CorpusSound' /\ ScoredSound'
    BY <2>1, <2>2 DEF IInv, CorpusSound, ScoredSound
  <2>4. StreamSound' /\ RowSound'
    BY <2>1, <2>2 DEF IInv, StreamSound, RowSound
  <2>5. EngineSound' /\ OutcomeSound' /\ WalksAgree'
    BY <2>1, <2>2 DEF IInv, EngineSound, OutcomeSound, WalksAgree
  <2> QED
    BY <2>3, <2>4, <2>5 DEF IInv
<1> QED
  BY <1>1, <1>2, <1>3, <1>4 DEF Next

LEMMA AlwaysSound ==
  Spec => []IInv
BY InitIsSound, StepIsSound, PTL DEF Spec

LEMMA ShareIsLess ==
  ASSUME NEW n \in Nat, NEW a \in Nat, NEW b \in Nat, a < b
  PROVE  /\ (n * a) \div b \in Nat
         /\ n > 0 => (n * a) \div b < n
         /\ n = 0 => (n * a) \div b = 0
<1> DEFINE m == n * a
           k == m \div b
<1>1. m \in Nat /\ b > 0
  OBVIOUS
<1>2. n > 0 => m < b * n
  OBVIOUS
<1> HIDE DEF m
<1>3. k \in Int /\ b * k <= m
  BY <1>1
<1>4. k >= 0
  BY <1>1
<1> HIDE DEF k
<1>5. ASSUME n > 0 PROVE k < n
  <2>1. b * k < b * n
    BY <1>1, <1>2, <1>3, <1>5
  <2> QED
    BY <1>1, <1>3, <2>1
<1>6. ASSUME n = 0 PROVE k = 0
  <2>1. m = 0
    BY <1>6 DEF m
  <2> QED
    BY <1>1, <2>1 DEF k
<1> QED
  BY <1>3, <1>4, <1>5, <1>6 DEF k, m

(* Cut at its share, a corpus in time order is cut where it stands. *)
LEMMA SplitIsACut ==
  ASSUME NEW rows \in Seq(Payments), InTimeOrder(rows), \A i \in 1..Len(rows) : rows[i].id = i
  PROVE  LET cut == (Len(rows) * TrainOf[1]) \div TrainOf[2]
         IN  ChronologicalSplit(rows)
               = [train |-> SubSeq(rows, 1, cut), test |-> SubSeq(rows, cut + 1, Len(rows)),
                  splitAtMs |-> IF cut < Len(rows) THEN rows[cut + 1].ts ELSE 0]
<1> DEFINE n == Len(rows)
           before(i) == {j \in DOMAIN rows : Earlier(rows[j], rows[i])}
           place(i) == 1 + Cardinality(before(i))
           sorted == [m \in DOMAIN rows |-> rows[CHOOSE i \in DOMAIN rows : place(i) = m]]
           cut == (n * TrainOf[1]) \div TrainOf[2]
<1>1. n \in Nat /\ DOMAIN rows = 1..n
  OBVIOUS
<1>2. \A i \in 1..n : rows[i].ts \in Nat
  <2>1. \A i \in 1..n : rows[i] \in Payments
    OBVIOUS
  <2> QED
    BY <2>1 DEF Payments
<1>3. ASSUME NEW i \in 1..n PROVE place(i) = i
  <2>1. ASSUME NEW j \in 1..n PROVE Earlier(rows[j], rows[i]) <=> j < i
    <3>1. rows[i].id = i /\ rows[j].id = j /\ rows[i].ts \in Nat /\ rows[j].ts \in Nat
      BY <1>2
    <3>2. (j <= i => rows[j].ts <= rows[i].ts) /\ (i <= j => rows[i].ts <= rows[j].ts)
      BY DEF InTimeOrder
    <3> QED
      BY <1>1, <3>1, <3>2 DEF Earlier
  <2>2. before(i) = 1..(i - 1)
    BY <1>1, <2>1
  <2>3. Cardinality(1..(i - 1)) = i - 1
    <3>1. i - 1 \in Int /\ (1 > i - 1 => i - 1 = 0)
      BY <1>1
    <3> QED
      BY <3>1, FS_Interval
  <2> HIDE DEF before
  <2> QED
    BY <1>1, <2>2, <2>3
<1> HIDE DEF place
<1>4. sorted = rows
  <2>1. ASSUME NEW m \in 1..n PROVE rows[CHOOSE i \in DOMAIN rows : place(i) = m] = rows[m]
    <3>1. \E i \in DOMAIN rows : place(i) = m
      BY <1>1, <1>3
    <3> DEFINE c == CHOOSE i \in DOMAIN rows : place(i) = m
    <3>2. c \in DOMAIN rows /\ place(c) = m
      BY <3>1
    <3> HIDE DEF c
    <3>3. c = m
      BY <1>1, <1>3, <3>2
    <3> QED
      BY <3>3 DEF c
  <2>2. sorted = [m \in 1..n |-> rows[m]]
    BY <1>1, <2>1
  <2> QED
    BY <1>1, <2>2
<1>5. ChronologicalSplit(rows)
        = [train |-> SubSeq(sorted, 1, cut), test |-> SubSeq(sorted, cut + 1, n),
           splitAtMs |-> IF cut < n THEN sorted[cut + 1].ts ELSE 0]
  BY Zenon DEF ChronologicalSplit, place, before
<1> HIDE DEF sorted, n
<1> QED
  BY <1>4, <1>5 DEF n

(* The engine's window is the test window and the moment of the cut. *)
LEMMA TestWindowLemma ==
  ASSUME IInv
  PROVE  TestWindowIsScored
<1> DEFINE n == Len(fed)
           cut == (n * TrainOf[1]) \div TrainOf[2]
           split == ChronologicalSplit(fed)
<1>1. fed \in Seq(Payments) /\ InTimeOrder(fed) /\ n \in Nat /\ \A i \in 1..n : fed[i].id = i
  BY DEF IInv, CorpusSound
<1>2. scored = {i \in 1..n : fed[i].ts >= fromMs}
  BY DEF IInv, ScoredSound
<1>3. cut \in Nat /\ (n > 0 => cut < n) /\ (n = 0 => cut = 0)
  BY <1>1, ReplayAssumption, ShareIsLess
<1>4. split = [train |-> SubSeq(fed, 1, cut), test |-> SubSeq(fed, cut + 1, n),
               splitAtMs |-> IF cut < n THEN fed[cut + 1].ts ELSE 0]
  BY <1>1, SplitIsACut
<1> HIDE DEF cut, split
<1> SUFFICES ASSUME fromMs = split.splitAtMs
             PROVE  /\ \A i \in DOMAIN split.test : split.test[i].id \in scored
                    /\ \A i \in DOMAIN split.train : split.train[i].id \in scored => split.train[i].ts = fromMs
  BY Zenon DEF TestWindowIsScored, split
<1>5. \A i \in 1..n : fed[i].ts \in Nat
  <2>1. \A i \in 1..n : fed[i] \in Payments
    BY <1>1
  <2> QED
    BY <2>1 DEF Payments
<1>6. CASE n = 0
  <2>1. DOMAIN SubSeq(fed, 1, 0) = {} /\ DOMAIN SubSeq(fed, 1, n) = {}
    BY <1>1, <1>6
  <2>2. cut = 0
    BY <1>3, <1>6
  <2>3. DOMAIN split.train = {} /\ DOMAIN split.test = {}
    BY <1>4, <2>1, <2>2
  <2> QED
    BY <2>3
<1>7. CASE n > 0
  <2>1. cut < n /\ fromMs = fed[cut + 1].ts /\ cut + 1 \in 1..n
    BY <1>1, <1>3, <1>4, <1>7
  <2>2. /\ DOMAIN split.train = 1..cut /\ \A i \in 1..cut : split.train[i] = fed[i]
        /\ DOMAIN split.test = 1..(n - cut) /\ \A i \in 1..(n - cut) : split.test[i] = fed[cut + i]
    BY <1>1, <1>3, <1>4, <2>1
  <2>3. ASSUME NEW i \in DOMAIN split.test PROVE split.test[i].id \in scored
    <3>1. i \in 1..(n - cut) /\ cut + i \in 1..n /\ cut + 1 <= cut + i
      BY <1>1, <1>3, <2>1, <2>2
    <3>2. split.test[i].id = cut + i /\ fed[cut + 1].ts <= fed[cut + i].ts
      BY <1>1, <2>1, <2>2, <3>1 DEF InTimeOrder
    <3> QED
      BY <1>2, <1>5, <2>1, <3>1, <3>2
  <2>4. ASSUME NEW i \in DOMAIN split.train, split.train[i].id \in scored PROVE split.train[i].ts = fromMs
    <3>1. i \in 1..n /\ i <= cut + 1 /\ split.train[i] = fed[i]
      BY <1>1, <1>3, <2>1, <2>2
    <3>2. fed[i].ts >= fromMs
      BY <1>1, <1>2, <2>4, <3>1
    <3>3. fed[i].ts <= fed[cut + 1].ts
      BY <1>1, <2>1, <3>1 DEF InTimeOrder
    <3> QED
      BY <1>5, <2>1, <3>1, <3>2, <3>3
  <2> QED
    BY <2>3, <2>4
<1> QED
  BY <1>1, <1>6, <1>7

-----------------------------------------------------------------------------
(* The theorems *)

LEMMA WindowsLemma ==
  ASSUME IInv
  PROVE  WindowsAreTheLastDay
<1>1. /\ fed \in Seq(Payments) /\ row.id = Len(fed)
      /\ fed # << >> => Tells(row, events, Past, Now)
  BY DEF IInv, CorpusSound, RowSound
<1>2. TypeOK
  <2>1. scored \subseteq 1..Len(fed)
    BY DEF IInv, ScoredSound
  <2>2. PastSound(fed, Latest) /\ StoreOf(stream.store, fed, Latest)
    BY DEF IInv, CorpusSound, StreamSound, StandsBy
  <2>3. PICK past : PastSound(past, Latest) /\ StoreOf(engine.store, past, Latest)
    BY DEF IInv, EngineSound, StandsBy
  <2>4. \A h \in engine.holds : h.state \in HoldStates
    BY DEF IInv, EngineSound, HoldSound
  <2>5. ASSUME NEW walk \in {stream, engine}
        PROVE  /\ \A id \in DOMAIN walk.store.payers :
                    /\ Len(walk.store.payers[id].logAmounts) <= AmountWindow
                    /\ Cardinality(DOMAIN walk.store.payers[id].dailyCounts) <= DayWindow
               /\ \A id \in DOMAIN walk.store.txns : Len(walk.store.txns[id]) <= Retention
    <3>1. \E p : PastSound(p, Latest) /\ StoreOf(walk.store, p, Latest)
      BY <2>2, <2>3
    <3> QED
      BY <3>1, StoreIsBounded
  <2> QED
    BY <1>1, <2>1, <2>4, <2>5 DEF TypeOK
<1>3. FanInIsTheLastDay
  <2> SUFFICES ASSUME fed # << >>, NEW inbound, inbound = InTheDay(To(Now.payee))
               PROVE  row.ctx.payee.window
                        = [i \in DOMAIN inbound |-> [payer |-> inbound[i].payer, ts |-> inbound[i].ts,
                                                     amount |-> inbound[i].amount]]
    BY DEF FanInIsTheLastDay
  <2>1. inbound = Since(ToIn(Past, Now.payee), Now.ts - Day)
    BY DEF InTheDay, To, ToIn
  <2>2. row.ctx.payee.window = InboundOf(inbound)
    BY <1>1, <2>1 DEF Tells
  <2> QED
    BY <2>2 DEF InboundOf, Inbound
<1>4. RecentIsTheLastDay
  <2> SUFFICES ASSUME fed # << >> PROVE row.ctx.recent = Reverse(InTheDay(Keep(Of(Now.payer), Retention)))
    BY DEF RecentIsTheLastDay
  <2>1. Of(Now.payer) = OfIn(Past, Now.payer)
    BY DEF Of, OfIn
  <2> QED
    BY <1>1, <2>1 DEF Tells, InTheDay
<1>5. SplitPaymentsAreSeen
  <2> SUFFICES ASSUME fed # << >>, NEW day, day = Append(InTheDay(Of(Now.payer)), Now),
                      Len(day) <= Retention + 1,
                      \E t \in AmountThresholds : /\ \A i \in DOMAIN day : day[i].amount < t
                                                  /\ Total([i \in DOMAIN day |-> day[i].amount]) >= t
               PROVE  row.raw.STRUCTURING >= 90
    BY DEF SplitPaymentsAreSeen
  <2>1. day = Append(Since(OfIn(Past, Now.payer), Now.ts - Day), Now)
    BY DEF InTheDay, Of, OfIn
  <2>2. SeesSplit(row, Past, Now)
    BY <1>1 DEF Tells
  <2>3. AmountsOf(day) = [i \in DOMAIN day |-> day[i].amount]
    BY DEF AmountsOf
  <2> QED
    BY <2>1, <2>2, <2>3 DEF SeesSplit
<1> QED
  BY <1>2, <1>3, <1>4, <1>5 DEF WindowsAreTheLastDay

(* Whatever is read back over a window is the whole of the window and no   *)
(* more: a beneficiary's fan-in counts the inbound payments of the 24      *)
(* hours, the windowed signals see the payer's own as far as they are      *)
(* retained, and payments split under a monitored amount are seen.         *)
THEOREM WindowsAreTrue ==
  Spec => []WindowsAreTheLastDay
BY AlwaysSound, WindowsLemma, PTL

LEMMA ForesightLemma ==
  ASSUME IInv
  PROVE  NothingIsForeseen
<1>1. fed # << >> => Tells(row, events, Past, Now)
  BY DEF IInv, RowSound
<1>2. BaselineIsThePast
  <2> SUFFICES ASSUME fed # << >> PROVE ComesTo(row.ctx.payer, Of(Now.payer), Now.ts)
    BY DEF BaselineIsThePast
  <2>1. Of(Now.payer) = OfIn(Past, Now.payer)
    BY DEF Of, OfIn
  <2> QED
    BY <1>1, <2>1 DEF Tells
<1>3. IntelIsNotForeseen
  <2> DEFINE S == {row.ctx} \cup IF outcome = Nothing THEN {} ELSE {outcome.ctx}
  <2> SUFFICES ASSUME fed # << >>, NEW ctx \in S
               PROVE  [confirmed |-> ctx.payee.confirmed, hop |-> ctx.payee.hop]
                        = AssertedBy(events, Now.payee, Now.ts)
    BY DEF IntelIsNotForeseen
  <2>1. ctx = row.ctx \/ (outcome # Nothing /\ ctx = outcome.ctx)
    OBVIOUS
  <2>2. Asserted(row.ctx, events, Now)
    BY <1>1 DEF Tells
  <2>3. outcome # Nothing => Asserted(outcome.ctx, events, Now)
    BY DEF IInv, OutcomeSound
  <2>4. Asserted(ctx, events, Now)
    BY <2>1, <2>2, <2>3
  <2> QED
    BY <2>4, Zenon DEF Asserted
<1> QED
  BY <1>2, <1>3 DEF NothingIsForeseen

(* Nothing a payment is scored with is known only later: its baseline      *)
(* comes to the payer's payments before it, and the intelligence it is     *)
(* told, in both walks, is what was asserted by its moment.                *)
THEOREM NoForesight ==
  Spec => []NothingIsForeseen
BY AlwaysSound, ForesightLemma, PTL

LEMMA ScoreMeasures ==
  ASSUME IInv, NEW kind \in Kinds, NEW gap \in Gaps, NEW txn, txn = NextPayment(kind, gap), Score(txn)
  PROVE  MeasuredAsFitted
<1> DEFINE timeline == AdvanceTo(stream.timeline, txn.ts)
           extra == IF \E h \in engine.holds : Stands(h, txn) THEN 3 * Point ELSE 0
           c == Measured(stream.store, timeline, txn, StandingHolds(engine.holds, txn))
           d == Measured(stream.store, timeline, txn, {})
<1> SUFFICES ASSUME Warmed' PROVE outcome'.raw = [row'.raw EXCEPT !.STRUCTURING = @ + extra]
  <2>1. Feed(txn)
    BY Zenon DEF Score
  <2>2. Last(fed') = txn /\ warmUp' = warmUp /\ fromMs' = fromMs
    BY <2>1, CorpusGrows, ZenonT(40) DEF Feed, IInv
  <2> HIDE DEF extra
  <2> QED
    BY <2>2 DEF MeasuredAsFitted, Warmed, extra
<1>1. Feed(txn)
  BY Zenon DEF Score
<1>2. txn \in Payments /\ Latest \in Nat /\ Latest <= txn.ts /\ PastSound(fed, Latest)
  BY CorpusGrows DEF IInv
<1>3. engine.store = stream.store /\ engine.timeline = stream.timeline
  BY <1>1, FeedWindows DEF IInv, WalksAgree
<1>4. outcome'.raw = Extract(txn, c)
  BY <1>3, ScoreIs
<1>5. row'.raw = Extract(txn, d)
  <2>1. row' = FeatureStep(stream, txn).row
    BY <1>1, Zenon DEF Feed
  <2>2. IsStore(stream.store)
    BY <1>2, EngineIsTold
  <2>3. FeatureStep(stream, txn).row = [id |-> txn.id, ctx |-> d, raw |-> Extract(txn, d)]
    BY <2>2, FeatureIs
  <2> HIDE DEF d
  <2> QED
    BY <2>1, <2>3
<1>6. StoreOf(stream.store, fed, Latest) /\ \A h \in engine.holds : HoldSound(h)
  BY DEF IInv, StreamSound, StandsBy, EngineSound
<1>7. Extract(txn, c) = [Extract(txn, d) EXCEPT !.STRUCTURING = @ + extra]
  BY <1>2, <1>6, MeasuredTheSame
<1> HIDE DEF c, d, extra
<1> QED
  BY <1>4, <1>5, <1>7

LEMMA MeasuredStep ==
  IInv /\ [Next]_vars => [MeasuredAsFitted]_vars
<1> SUFFICES ASSUME IInv, Next PROVE MeasuredAsFitted
  BY Zenon
<1>1. PICK kind \in Kinds, gap \in Gaps :
        \/ Skip(NextPayment(kind, gap)) \/ Warm(NextPayment(kind, gap)) \/ Score(NextPayment(kind, gap))
  BY Zenon DEF Next
<1>2. CASE Skip(NextPayment(kind, gap)) \/ Warm(NextPayment(kind, gap))
  <2>1. outcome' = Nothing
    BY <1>2, Zenon DEF Skip, Warm
  <2> QED
    BY <2>1, Zenon DEF MeasuredAsFitted
<1>3. CASE Score(NextPayment(kind, gap))
  BY <1>3, ScoreMeasures
<1> QED
  BY <1>1, <1>2, <1>3

(* The engine, warmed up to its window, measures every payment exactly as  *)
(* the row the model was fitted from, but for a hold still standing; and a *)
(* replay from the cut of the split scores every test row and no training  *)
(* row but those of the very moment of the cut.                            *)
THEOREM EngineMeasuresAsFitted ==
  Spec => ScoredAsFitted
<1>1. IInv /\ IInv' /\ [MeasuredAsFitted]_vars => [MeasuredAsFitted /\ TestWindowIsScored']_vars
  <2>1. IInv => TestWindowIsScored
    BY TestWindowLemma
  <2> QED
    BY <2>1, PTL
<1> QED
  BY <1>1, AlwaysSound, MeasuredStep, PTL DEF Spec, ScoredAsFitted

(* While every payment so far is in the engine's window, or the engine is  *)
(* warmed, the two walks never part: one store, one timeline.              *)
THEOREM WalksStayTogether ==
  Spec => []WalksAgree
<1>1. IInv => WalksAgree
  BY DEF IInv
<1> QED
  BY <1>1, AlwaysSound, PTL
=============================================================================
