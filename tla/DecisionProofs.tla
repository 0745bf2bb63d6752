--------------------------- MODULE DecisionProofs ---------------------------
(***************************************************************************)
(* Proofs about the computations behind a decision (DecisionSpace).        *)
(***************************************************************************)
EXTENDS DecisionSpace, SharedFacts, FiniteSetTheorems

-----------------------------------------------------------------------------
(* The ledger's chain. *)

(* A sequence of records of whatever content. *)
IsCopy(q) ==
  /\ \E Z : q \in Seq(Z)
  /\ \A i \in 1..Len(q) :
       q[i] = [seq |-> q[i].seq, ts |-> q[i].ts, prevHash |-> q[i].prevHash,
               hash |-> q[i].hash, entry |-> q[i].entry]

(* What the digest of a record adds to those before it. *)
Content(r) == [seq |-> r.seq, ts |-> r.ts, entry |-> r.entry]

(* The digests of the first n records spell out their content. *)
Spells(q, n) ==
  \A i \in 1..n : q[i].hash = [j \in 1..i |-> Content(q[j])]

LEMMA CopyLength ==
  ASSUME NEW q, IsCopy(q)
  PROVE  Len(q) \in Nat /\ DOMAIN q = 1..Len(q)
BY DEF IsCopy

LEMMA AppendSpells ==
  ASSUME NEW n \in Nat, NEW f, NEW e
  PROVE  Append([j \in 1..n |-> f[j]], e) = [j \in 1..(n + 1) |-> IF j = n + 1 THEN e ELSE f[j]]
<1> DEFINE s == [j \in 1..n |-> f[j]]
<1>1. s \in Seq({f[j] : j \in 1..n} \cup {e}) /\ Len(s) = n
  OBVIOUS
<1> QED
  BY <1>1

LEMMA ValidMeansUnbroken ==
  ASSUME NEW q, L!Verify(q).valid
  PROVE  \A i \in DOMAIN q : ~L!Breaks(q, i)
BY DEF L!Verify

(* A chain that verifies spells itself out.                                *)
LEMMA UnbrokenSpells ==
  ASSUME NEW q, IsCopy(q), \A i \in 1..Len(q) : ~L!Breaks(q, i)
  PROVE  Spells(q, Len(q))
<1> DEFINE T == {k \in Nat : k <= Len(q) => Spells(q, k)}
<1>1. 0 \in T
  BY DEF Spells
<1>2. ASSUME NEW k \in Nat, k \in T PROVE k + 1 \in T
  <2> SUFFICES ASSUME k + 1 <= Len(q) PROVE Spells(q, k + 1)
    OBVIOUS
  <2>1. k + 1 \in 1..Len(q) /\ k <= Len(q)
    BY CopyLength
  <2>2. Spells(q, k)
    BY <1>2, <2>1
  <2>3. q[k + 1].hash = Append(q[k + 1].prevHash, Content(q[k + 1]))
    BY <2>1 DEF L!Breaks, L!Digest, Content
  <2>4. q[k + 1].prevHash = [j \in 1..k |-> Content(q[j])]
    <3>1. CASE k = 0
      BY <2>1, <3>1 DEF L!Breaks, L!GenesisHash
    <3>2. CASE k # 0
      <4>1. q[k + 1].prevHash = q[k].hash
        BY <2>1, <3>2 DEF L!Breaks
      <4> QED
        BY <2>2, <3>2, <4>1 DEF Spells
    <3> QED
      BY <3>1, <3>2
  <2> DEFINE f == [j \in 1..(k + 1) |-> Content(q[j])]
  <2>5. [j \in 1..k |-> Content(q[j])] = [j \in 1..k |-> f[j]]
    OBVIOUS
  <2>6. f = [j \in 1..(k + 1) |-> IF j = k + 1 THEN Content(q[k + 1]) ELSE f[j]]
    OBVIOUS
  <2> HIDE DEF f
  <2>9. Append([j \in 1..k |-> f[j]], Content(q[k + 1]))
          = [j \in 1..(k + 1) |-> IF j = k + 1 THEN Content(q[k + 1]) ELSE f[j]]
    BY AppendSpells
  <2>7. q[k + 1].hash = f
    BY <2>3, <2>4, <2>5, <2>6, <2>9
  <2>8. q[k + 1].hash = [j \in 1..(k + 1) |-> Content(q[j])]
    BY <2>7 DEF f
  <2> QED
    BY <2>2, <2>8 DEF Spells
<1> HIDE DEF T
<1>3. Nat \subseteq T
  BY <1>1, <1>2, SetInduction
<1> QED
  BY <1>3, CopyLength DEF T

(* Two chains that verify and have one head are one chain: the head        *)
(* commits to the whole history, whoever wrote the copy and however.       *)
LEMMA HeadCommits ==
  ASSUME NEW a, IsCopy(a), L!Verify(a).valid,
         NEW b, IsCopy(b), L!Verify(b).valid,
         L!Head_(a) = L!Head_(b)
  PROVE  a = b
<1> DEFINE m == Len(a)
           n == Len(b)
<1>1. m \in Nat /\ n \in Nat /\ DOMAIN a = 1..m /\ DOMAIN b = 1..n
  BY CopyLength
<1>2. Spells(a, m) /\ Spells(b, n)
  BY <1>1, UnbrokenSpells, ValidMeansUnbroken
<1>3. ASSUME NEW q, IsCopy(q), Spells(q, Len(q))
      PROVE  L!Head_(q) = [j \in 1..Len(q) |-> Content(q[j])]
  <2>1. Len(q) \in Nat /\ \E Z : q \in Seq(Z)
    BY <1>3, CopyLength DEF IsCopy
  <2>2. CASE q = << >>
    BY <2>2 DEF L!Head_, L!GenesisHash
  <2>3. CASE q # << >>
    <3>1. Len(q) \in 1..Len(q)
      BY <2>1, <2>3
    <3> QED
      BY <1>3, <2>3, <3>1 DEF L!Head_, L!Last, Spells
  <2> QED
    BY <2>2, <2>3
<1>4. [j \in 1..m |-> Content(a[j])] = [j \in 1..n |-> Content(b[j])]
  BY <1>2, <1>3
<1>5. m = n
  <2>1. DOMAIN [j \in 1..m |-> Content(a[j])] = 1..m /\ DOMAIN [j \in 1..n |-> Content(b[j])] = 1..n
    OBVIOUS
  <2>2. 1..m = 1..n
    BY <1>4, <2>1
  <2>3. (m = 0 \/ m \in 1..n) /\ (n = 0 \/ n \in 1..m)
    <3>1. (m = 0 \/ m \in 1..m) /\ (n = 0 \/ n \in 1..n)
      BY <1>1
    <3> QED
      BY <2>2, <3>1
  <2>4. m \in Nat /\ n \in Nat
    BY <1>1
  <2> HIDE DEF m, n
  <2> QED
    BY <2>3, <2>4
<1>6. ASSUME NEW i \in 1..m PROVE a[i] = b[i]
  <2>1. \A j \in 1..m : Content(a[j]) = Content(b[j])
    BY <1>4, <1>5
  <2>2. a[i].seq = b[i].seq /\ a[i].ts = b[i].ts /\ a[i].entry = b[i].entry
    BY <2>1 DEF Content
  <2>3. a[i].hash = [j \in 1..i |-> Content(a[j])] /\ b[i].hash = [j \in 1..i |-> Content(b[j])]
    BY <1>2, <1>5 DEF Spells
  <2>4. [j \in 1..i |-> Content(a[j])] = [j \in 1..i |-> Content(b[j])]
    BY <1>1, <2>1
  <2>5. a[i].hash = b[i].hash
    BY <2>3, <2>4
  <2>6. a[i].prevHash = b[i].prevHash
    <3>1. ~L!Breaks(a, i) /\ ~L!Breaks(b, i)
      BY <1>1, <1>5, ValidMeansUnbroken
    <3>2. CASE i = 1
      BY <3>1, <3>2 DEF L!Breaks
    <3>3. CASE i # 1
      <4>1. i - 1 \in 1..m /\ i - 1 \in 1..n /\ i \in Int
        BY <1>1, <1>5, <3>3
      <4>2. a[i].prevHash = a[i - 1].hash /\ b[i].prevHash = b[i - 1].hash
        BY <3>1, <3>3 DEF L!Breaks
      <4>3. a[i - 1].hash = [j \in 1..(i - 1) |-> Content(a[j])]
        BY <1>2, <4>1 DEF Spells
      <4>4. b[i - 1].hash = [j \in 1..(i - 1) |-> Content(b[j])]
        BY <1>2, <4>1 DEF Spells
      <4>5. [j \in 1..(i - 1) |-> Content(a[j])] = [j \in 1..(i - 1) |-> Content(b[j])]
        BY <1>1, <2>1, <4>1
      <4> QED
        BY <4>2, <4>3, <4>4, <4>5
    <3> QED
      BY <3>2, <3>3
  <2>7. a[i] = [seq |-> a[i].seq, ts |-> a[i].ts, prevHash |-> a[i].prevHash,
                hash |-> a[i].hash, entry |-> a[i].entry]
    BY DEF IsCopy
  <2>8. b[i] = [seq |-> b[i].seq, ts |-> b[i].ts, prevHash |-> b[i].prevHash,
                hash |-> b[i].hash, entry |-> b[i].entry]
    BY <1>5 DEF IsCopy
  <2> QED
    BY <2>2, <2>5, <2>6, <2>7, <2>8
<1>7. a = [i \in 1..m |-> a[i]] /\ b = [i \in 1..n |-> b[i]]
  BY <1>1 DEF IsCopy
<1> HIDE DEF m, n
<1> QED
  BY <1>5, <1>6, <1>7

(* What is sealed entry by entry. *)
SealingFollows(f, entries, n) ==
  /\ f = [i \in 0..n |-> f[i]]
  /\ f[0] = << >>
  /\ \A i \in 1..n : f[i] = L!AppendEntry(f[i - 1], entries[i].entry, entries[i].ts)

LEMMA SealingExists ==
  ASSUME NEW entries, NEW n \in Nat
  PROVE  \E f : SealingFollows(f, entries, n)
<1> DEFINE T == {k \in Nat : \E f : SealingFollows(f, entries, k)}
<1>1. 0 \in T
  <2> DEFINE f == [i \in 0..0 |-> << >>]
  <2>1. f[0] = << >> /\ f = [i \in 0..0 |-> f[i]]
    OBVIOUS
  <2> HIDE DEF f
  <2>2. SealingFollows(f, entries, 0)
    BY <2>1 DEF SealingFollows
  <2> QED
    BY <2>2
<1>2. ASSUME NEW k \in Nat, k \in T PROVE k + 1 \in T
  <2>1. PICK f : SealingFollows(f, entries, k)
    BY <1>2
  <2>2. PICK next : next = L!AppendEntry(f[k], entries[k + 1].entry, entries[k + 1].ts)
    OBVIOUS
  <2> DEFINE g == [i \in 0..(k + 1) |-> IF i <= k THEN f[i] ELSE next]
  <2>3. g = [i \in 0..(k + 1) |-> g[i]] /\ g[0] = << >>
    BY <2>1 DEF SealingFollows
  <2>4. ASSUME NEW i \in 1..(k + 1)
        PROVE  g[i] = L!AppendEntry(g[i - 1], entries[i].entry, entries[i].ts)
    <3>1. g[i - 1] = f[i - 1]
      OBVIOUS
    <3>2. CASE i <= k
      <4>1. i \in 1..k /\ g[i] = f[i]
        BY <3>2
      <4> QED
        BY <2>1, <3>1, <4>1 DEF SealingFollows
    <3>3. CASE ~(i <= k)
      <4>1. i = k + 1 /\ i - 1 = k /\ g[i] = next
        BY <3>3
      <4> QED
        BY <2>2, <3>1, <4>1
    <3> QED
      BY <3>2, <3>3
  <2> HIDE DEF g
  <2>5. SealingFollows(g, entries, k + 1)
    BY <2>3, <2>4 DEF SealingFollows
  <2> QED
    BY <2>5
<1> HIDE DEF T
<1>3. Nat \subseteq T
  BY <1>1, <1>2, SetInduction
<1> QED
  BY <1>3 DEF T

LEMMA SealUnfolds ==
  ASSUME NEW trail, Len(trail) \in Nat
  PROVE  \E f : SealingFollows(f, trail, Len(trail)) /\ Seal(trail) = f[Len(trail)]
<1> DEFINE n == Len(trail)
           Body(g) == [i \in 0..n |-> IF i = 0 THEN << >>
                         ELSE L!AppendEntry(g[i - 1], trail[i].entry, trail[i].ts)]
           sealed == CHOOSE g : g = Body(g)
<1>1. Seal(trail) = sealed[n]
  BY DEF Seal
<1>2. \E g : g = Body(g)
  <2>1. PICK f : SealingFollows(f, trail, n)
    BY SealingExists
  <2>2. f = [i \in 0..n |-> f[i]]
    BY <2>1 DEF SealingFollows
  <2>3. \A i \in 0..n : f[i] = IF i = 0 THEN << >>
                                 ELSE L!AppendEntry(f[i - 1], trail[i].entry, trail[i].ts)
    <3> TAKE i \in 0..n
    <3>1. CASE i = 0
      BY <2>1, <3>1 DEF SealingFollows
    <3>2. CASE i # 0
      <4>1. i \in 1..n
        BY <3>2
      <4> QED
        BY <2>1, <3>2, <4>1 DEF SealingFollows
    <3> QED
      BY <3>1, <3>2
  <2>4. f = Body(f)
    BY <2>2, <2>3
  <2> QED
    BY <2>4
<1>3. sealed = Body(sealed)
  BY <1>2
<1> HIDE DEF sealed
<1>4. \A i \in 0..n : sealed[i] = IF i = 0 THEN << >>
                                  ELSE L!AppendEntry(sealed[i - 1], trail[i].entry, trail[i].ts)
  BY <1>3
<1>5. /\ sealed[0] = << >>
      /\ \A i \in 1..n : sealed[i] = L!AppendEntry(sealed[i - 1], trail[i].entry, trail[i].ts)
  <2>1. 0 \in 0..n /\ \A i \in 1..n : i \in 0..n /\ i # 0
    OBVIOUS
  <2> QED
    BY <1>4, <2>1
<1>6. sealed = [i \in 0..n |-> sealed[i]]
  BY <1>3
<1> HIDE DEF Body, n
<1>7. SealingFollows(sealed, trail, n)
  BY <1>5, <1>6 DEF SealingFollows
<1> QED
  BY <1>1, <1>7 DEF n

(* What the engine seals verifies. *)
IsSealed(q) == IsCopy(q) /\ \A i \in 1..Len(q) : ~L!Breaks(q, i)

LEMMA AppendEntrySeals ==
  ASSUME NEW q, IsSealed(q), NEW entry, NEW ts
  PROVE  IsSealed(L!AppendEntry(q, entry, ts))
<1> DEFINE n == Len(q)
           r == [seq |-> n, ts |-> ts, prevHash |-> L!Head_(q),
                 hash |-> L!Digest(n, ts, L!Head_(q), entry), entry |-> entry]
           p == Append(q, r)
<1>1. L!AppendEntry(q, entry, ts) = p
  BY DEF L!AppendEntry
<1>2. PICK Z : q \in Seq(Z)
  BY DEF IsSealed, IsCopy
<1>3. n \in Nat
  BY <1>2
<1>4. r.seq = n /\ r.ts = ts /\ r.prevHash = L!Head_(q) /\ r.entry = entry
      /\ r.hash = L!Digest(n, ts, L!Head_(q), entry)
  OBVIOUS
<1>5. r = [seq |-> r.seq, ts |-> r.ts, prevHash |-> r.prevHash, hash |-> r.hash, entry |-> r.entry]
  OBVIOUS
<1>6. L!Head_(q) = IF n = 0 THEN << >> ELSE q[n].hash
  <2>1. q = << >> <=> n = 0
    BY <1>2
  <2> QED
    BY <2>1 DEF L!Head_, L!GenesisHash, L!Last
<1> HIDE DEF r
<1>7. p \in Seq(Z \cup {r}) /\ Len(p) = n + 1 /\ p[n + 1] = r /\ \A i \in 1..n : p[i] = q[i]
  BY <1>2
<1> HIDE DEF p, n
<1>8. IsCopy(p)
  <2>1. ASSUME NEW i \in 1..(n + 1)
        PROVE  p[i] = [seq |-> p[i].seq, ts |-> p[i].ts, prevHash |-> p[i].prevHash,
                       hash |-> p[i].hash, entry |-> p[i].entry]
    <3>1. CASE i = n + 1
      BY <1>5, <1>7, <3>1
    <3>2. CASE i # n + 1
      <4>1. i \in 1..n
        BY <1>3, <3>2
      <4>2. q[i] = [seq |-> q[i].seq, ts |-> q[i].ts, prevHash |-> q[i].prevHash,
                    hash |-> q[i].hash, entry |-> q[i].entry]
        BY <4>1 DEF IsSealed, IsCopy, n
      <4>3. p[i] = q[i]
        BY <1>7, <4>1
      <4> QED
        BY <4>2, <4>3
    <3> QED
      BY <3>1, <3>2
  <2> QED
    BY <1>7, <2>1 DEF IsCopy
<1>9. ASSUME NEW i \in 1..(n + 1) PROVE ~L!Breaks(p, i)
  <2>1. CASE i = n + 1
    <3>1. (IF i = 1 THEN L!GenesisHash ELSE p[i - 1].hash) = L!Head_(q)
      <4>1. CASE n = 0
        BY <1>6, <2>1, <4>1 DEF L!GenesisHash
      <4>2. CASE n # 0
        <5>1. i # 1 /\ i - 1 = n /\ n \in 1..n
          BY <1>3, <2>1, <4>2
        <5> QED
          BY <1>6, <1>7, <4>2, <5>1
      <4> QED
        BY <4>1, <4>2
    <3> QED
      BY <1>4, <1>7, <2>1, <3>1 DEF L!Breaks
  <2>2. CASE i # n + 1
    <3>1. i \in 1..n /\ p[i] = q[i]
      BY <1>3, <1>7, <2>2
    <3>2. i # 1 => p[i - 1] = q[i - 1]
      BY <1>3, <1>7, <3>1
    <3>3. ~L!Breaks(q, i)
      BY <3>1 DEF IsSealed, n
    <3> QED
      BY <3>1, <3>2, <3>3 DEF L!Breaks
  <2> QED
    BY <2>1, <2>2
<1> QED
  BY <1>1, <1>7, <1>8, <1>9 DEF IsSealed

LEMMA SealIsSealed ==
  ASSUME NEW trail, Len(trail) \in Nat
  PROVE  IsSealed(Seal(trail))
<1>1. PICK f : SealingFollows(f, trail, Len(trail)) /\ Seal(trail) = f[Len(trail)]
  BY SealUnfolds
<1> DEFINE T == {k \in Nat : k <= Len(trail) => IsSealed(f[k])}
<1>2. 0 \in T
  <2>1. << >> \in Seq({}) /\ Len(<< >>) = 0
    OBVIOUS
  <2>2. IsSealed(<< >>)
    BY <2>1 DEF IsSealed, IsCopy
  <2> QED
    BY <1>1, <2>2 DEF SealingFollows
<1>3. ASSUME NEW k \in Nat, k \in T PROVE k + 1 \in T
  <2> SUFFICES ASSUME k + 1 <= Len(trail) PROVE IsSealed(f[k + 1])
    OBVIOUS
  <2>1. k + 1 \in 1..Len(trail) /\ (k + 1) - 1 = k /\ k <= Len(trail)
    OBVIOUS
  <2>2. f[k + 1] = L!AppendEntry(f[k], trail[k + 1].entry, trail[k + 1].ts)
    BY <1>1, <2>1 DEF SealingFollows
  <2> QED
    BY <1>3, <2>1, <2>2, AppendEntrySeals
<1> HIDE DEF T
<1>4. Nat \subseteq T
  BY <1>2, <1>3, SetInduction
<1> QED
  BY <1>1, <1>4 DEF T

LEMMA SealedVerifies ==
  ASSUME NEW q, IsSealed(q)
  PROVE  L!Verify(q).valid
<1>1. DOMAIN q = 1..Len(q)
  BY CopyLength DEF IsSealed
<1>2. {i \in DOMAIN q : L!Breaks(q, i)} = {}
  BY <1>1 DEF IsSealed
<1> QED
  BY <1>2 DEF L!Verify

-----------------------------------------------------------------------------
(* The costs of the three actions. *)

GoodInputs(i) == i.amountPaise \in Nat /\ i.fraudProbability \in 0..Unit /\ i.recovery \in Int
GoodPolicy(p) ==
  /\ p.liabilityShare \in 0..Unit /\ p.stepUpCatchRate \in 0..Unit
  /\ p.stepUpAbandonmentRate \in 0..Unit /\ p.blockAbandonmentRate \in 0..Unit
  /\ p.stepUpFrictionPaise \in Nat /\ p.blockFrictionPaise \in Nat
  /\ p.customerLifetimeValuePaise \in Nat

(* What is at stake, the customers lost, and the two boundaries' fractions *)
(* before they are clamped.                                                *)
Exposure(i, p)  == i.amountPaise * LiabilityPerPaise(i.recovery, p)
LostHeld(p)     == p.stepUpAbandonmentRate * p.customerLifetimeValuePaise * Unit * Unit
LostGap(p)      == (p.blockAbandonmentRate - p.stepUpAbandonmentRate)
                     * p.customerLifetimeValuePaise * Unit * Unit
HoldNum(p)      == p.stepUpFrictionPaise * Unit * Unit * Unit + LostHeld(p)
HoldDen(X, p)   == X * p.stepUpCatchRate + LostHeld(p)
BlockNum(p)     == (p.blockFrictionPaise - p.stepUpFrictionPaise) * Unit * Unit * Unit + LostGap(p)
BlockDen(X, p)  == X * (Unit - p.stepUpCatchRate) + LostGap(p)

LEMMA UnitIsPositive == Unit \in Nat /\ Unit > 0
BY DecisionAssumption

LEMMA ProductIsNatural ==
  ASSUME NEW a \in Nat, NEW b \in Nat
  PROVE  a * b \in Nat
OBVIOUS

LEMMA ProductIsMonotone ==
  ASSUME NEW a \in Int, NEW b \in Int, NEW c \in Nat, a <= b
  PROVE  a * c <= b * c /\ c * a <= c * b
OBVIOUS

LEMMA ExposureIsNatural ==
  ASSUME NEW i, GoodInputs(i), NEW p, GoodPolicy(p)
  PROVE  LiabilityPerPaise(i.recovery, p) \in Nat /\ Exposure(i, p) \in Nat
<1>1. Unit - Clamp(i.recovery, 0, Unit) \in Nat
  BY UnitIsPositive DEF Clamp, GoodInputs
<1>2. LiabilityPerPaise(i.recovery, p) \in Nat
  <2>1. p.liabilityShare \in Nat
    BY UnitIsPositive DEF GoodPolicy
  <2> QED
    BY <1>1, <2>1, ProductIsNatural DEF LiabilityPerPaise
<1> QED
  BY <1>2, ProductIsNatural DEF Exposure, GoodInputs

LEMMA LostIsNatural ==
  ASSUME NEW p, GoodPolicy(p)
  PROVE  /\ LostHeld(p) \in Nat /\ HoldNum(p) \in Nat
         /\ LostGap(p) \in Int /\ BlockNum(p) \in Int
         /\ p.stepUpAbandonmentRate <= p.blockAbandonmentRate => LostGap(p) \in Nat
<1> DEFINE V == p.customerLifetimeValuePaise
<1>1. V \in Nat /\ Unit \in Nat /\ p.stepUpAbandonmentRate \in Nat /\ p.blockAbandonmentRate \in Nat
      /\ p.stepUpFrictionPaise \in Nat /\ p.blockFrictionPaise \in Nat
  BY UnitIsPositive DEF GoodPolicy
<1> HIDE DEF V
<1>2. ASSUME NEW a \in Nat PROVE a * V * Unit * Unit \in Nat
  BY <1>1, ProductIsNatural
<1>3. ASSUME NEW a \in Nat PROVE a * Unit * Unit * Unit \in Nat
  BY <1>1, ProductIsNatural
<1>4. LostHeld(p) \in Nat
  BY <1>1, <1>2 DEF LostHeld, V
<1>5. HoldNum(p) \in Nat
  BY <1>1, <1>3, <1>4 DEF HoldNum
<1>6. LostGap(p) \in Int
  BY <1>1 DEF LostGap, V
<1>7. BlockNum(p) \in Int
  BY <1>1, <1>6 DEF BlockNum
<1>8. ASSUME p.stepUpAbandonmentRate <= p.blockAbandonmentRate PROVE LostGap(p) \in Nat
  <2>1. p.blockAbandonmentRate - p.stepUpAbandonmentRate \in Nat
    BY <1>1, <1>8
  <2> QED
    BY <1>2, <2>1 DEF LostGap, V
<1> QED
  BY <1>4, <1>5, <1>6, <1>7, <1>8

LEMMA Identities ==
  ASSUME NEW U \in Int, NEW P \in Int, NEW c \in Int, NEW m \in Int, NEW l \in Int, NEW V \in Int,
         NEW f \in Int, NEW r \in Int, NEW g \in Int, NEW q \in Int
  PROVE  LET approve == P * U * m * l + (0 * (U * U * U * U) + (U - P) * 0 * V * U * U)
             hold    == P * (U - c) * m * l + (f * (U * U * U * U) + (U - P) * r * V * U * U)
             block   == P * 0 * m * l + (g * (U * U * U * U) + (U - P) * q * V * U * U)
         IN  /\ approve \in Int /\ hold \in Int /\ block \in Int
             /\ approve = P * (U * (m * l))
             /\ block = g * (U * U * U * U) + (U - P) * (q * V * U * U)
             /\ approve - hold = P * (m * l * c + r * V * U * U) - U * (f * U * U * U + r * V * U * U)
             /\ block - hold = U * ((g - f) * U * U * U + (q - r) * V * U * U)
                                 - P * (m * l * (U - c) + (q - r) * V * U * U)
OBVIOUS

(* The costs, and how they differ: approving from holding by the first     *)
(* boundary, holding from blocking by the second.                          *)
LEMMA CostsDiffer ==
  ASSUME NEW i, GoodInputs(i), NEW p, GoodPolicy(p)
  PROVE  LET X == Exposure(i, p)
             P == i.fraudProbability
             Cost(a) == CostOfAction(a, i, p)
         IN  /\ Cost("APPROVE") \in Int /\ Cost("STEP_UP") \in Int /\ Cost("BLOCK") \in Int
             /\ Cost("APPROVE") = P * (Unit * X)
             /\ Cost("BLOCK") = p.blockFrictionPaise * Whole
                                  + (Unit - P) * (p.blockAbandonmentRate * p.customerLifetimeValuePaise * Unit * Unit)
             /\ Cost("APPROVE") - Cost("STEP_UP") = P * HoldDen(X, p) - Unit * HoldNum(p)
             /\ Cost("BLOCK") - Cost("STEP_UP") = Unit * BlockNum(p) - P * BlockDen(X, p)
<1> DEFINE P == i.fraudProbability
           U == Unit
           c == p.stepUpCatchRate
           m == i.amountPaise
           l == LiabilityPerPaise(i.recovery, p)
           V == p.customerLifetimeValuePaise
           f == p.stepUpFrictionPaise
           r == p.stepUpAbandonmentRate
           g == p.blockFrictionPaise
           q == p.blockAbandonmentRate
<1>1. U \in Int /\ P \in Int /\ c \in Int /\ m \in Int /\ l \in Int /\ V \in Int
      /\ f \in Int /\ r \in Int /\ g \in Int /\ q \in Int /\ P \in 0..U
  BY UnitIsPositive, ExposureIsNatural DEF GoodInputs, GoodPolicy
<1>2. Clamp(P, 0, U) = P
  BY <1>1 DEF Clamp
<1>3. CostOfAction("APPROVE", i, p) = P * U * m * l + (0 * (U * U * U * U) + (U - P) * 0 * V * U * U)
  BY <1>2 DEF CostOfAction, Liability, Friction, Abandonment, Whole
<1>4. CostOfAction("STEP_UP", i, p) = P * (U - c) * m * l + (f * (U * U * U * U) + (U - P) * r * V * U * U)
  BY <1>2 DEF CostOfAction, Liability, Friction, Abandonment, Whole
<1>5. CostOfAction("BLOCK", i, p) = P * 0 * m * l + (g * (U * U * U * U) + (U - P) * q * V * U * U)
  BY <1>2 DEF CostOfAction, Liability, Friction, Abandonment, Whole
<1>6. /\ Exposure(i, p) = m * l /\ Whole = U * U * U * U
      /\ HoldNum(p) = f * U * U * U + r * V * U * U /\ HoldDen(m * l, p) = m * l * c + r * V * U * U
      /\ BlockNum(p) = (g - f) * U * U * U + (q - r) * V * U * U
      /\ BlockDen(m * l, p) = m * l * (U - c) + (q - r) * V * U * U
  BY DEF Exposure, Whole, HoldNum, HoldDen, BlockNum, BlockDen, LostHeld, LostGap
<1> HIDE DEF P, U, c, m, l, V, f, r, g, q
<1> QED
  BY <1>1, <1>3, <1>4, <1>5, <1>6, Identities DEF P, U, V, g, q

LEMMA ThreeActions ==
  /\ ToSet(Actions) = {"APPROVE", "STEP_UP", "BLOCK"}
  /\ Severity("APPROVE") = 1 /\ Severity("STEP_UP") = 2 /\ Severity("BLOCK") = 3
<1>1. Actions[1] = "APPROVE" /\ Actions[2] = "STEP_UP" /\ Actions[3] = "BLOCK" /\ DOMAIN Actions = 1..3
  BY DEF Actions
<1>2. 1..3 = {1, 2, 3}
  OBVIOUS
<1>3. ToSet(Actions) = {Actions[1], Actions[2], Actions[3]}
  BY <1>1, <1>2 DEF ToSet
<1>4. \A a \in ToSet(Actions) : Severity(a) \in DOMAIN Actions /\ Actions[Severity(a)] = a
  <2> TAKE a \in ToSet(Actions)
  <2>1. \E i \in DOMAIN Actions : Actions[i] = a
    BY <1>1, <1>2, <1>3
  <2> QED
    BY <2>1 DEF Severity
<1> QED
  BY <1>1, <1>2, <1>3, <1>4

(* The action chosen, by the costs. *)
LEMMA ChosenByCost ==
  ASSUME NEW i, GoodInputs(i), NEW p, GoodPolicy(p)
  PROVE  LET A == CostOfAction("APPROVE", i, p)
             Z == CostOfAction("STEP_UP", i, p)
             B == CostOfAction("BLOCK", i, p)
             chosen == Decide(i, p).chosen
         IN  /\ chosen = "APPROVE" <=> A <= Z /\ A <= B
             /\ chosen = "STEP_UP" <=> Z < A /\ Z <= B
             /\ chosen = "BLOCK"   <=> B < A /\ B < Z
             /\ chosen \in {"APPROVE", "STEP_UP", "BLOCK"}
<1> DEFINE cost == [a \in ToSet(Actions) |-> CostOfAction(a, i, p)]
           A == CostOfAction("APPROVE", i, p)
           Z == CostOfAction("STEP_UP", i, p)
           B == CostOfAction("BLOCK", i, p)
           acts == {"APPROVE", "STEP_UP", "BLOCK"}
           Least(a) == \A b \in acts : cost[a] < cost[b] \/ (cost[a] = cost[b] /\ Severity(a) <= Severity(b))
           chosen == CHOOSE a \in acts : Least(a)
<1>1. Decide(i, p).chosen = chosen
  <2>1. DOMAIN cost = acts
    BY ThreeActions
  <2> QED
    BY <2>1 DEF Decide, Cheapest
<1>2. A \in Int /\ Z \in Int /\ B \in Int
  BY CostsDiffer
<1>3. cost["APPROVE"] = A /\ cost["STEP_UP"] = Z /\ cost["BLOCK"] = B
  BY ThreeActions
<1> HIDE DEF cost, A, Z, B
<1>4. /\ Least("APPROVE") <=> A <= Z /\ A <= B
      /\ Least("STEP_UP") <=> Z < A /\ Z <= B
      /\ Least("BLOCK")   <=> B < A /\ B < Z
  BY <1>2, <1>3, ThreeActions
<1> HIDE DEF Least
<1>5. \E a \in acts : Least(a)
  BY <1>2, <1>4
<1>6. chosen \in acts /\ Least(chosen)
  BY <1>5
<1> HIDE DEF chosen
<1>7. chosen = "APPROVE" \/ chosen = "STEP_UP" \/ chosen = "BLOCK"
  BY <1>6
<1> QED
  BY <1>1, <1>2, <1>4, <1>6, <1>7 DEF A, Z, B

(* An action is chosen by where its probability lies between the two       *)
(* boundaries, if neither is clamped.                                      *)
LEMMA HeldBetween ==
  ASSUME NEW i, GoodInputs(i), NEW p, GoodPolicy(p)
  PROVE  LET X == Exposure(i, p)
             P == i.fraudProbability
         IN  Decide(i, p).chosen = "STEP_UP"
               <=> Unit * HoldNum(p) < P * HoldDen(X, p) /\ P * BlockDen(X, p) <= Unit * BlockNum(p)
<1> DEFINE X == Exposure(i, p)
           P == i.fraudProbability
           A == CostOfAction("APPROVE", i, p)
           Z == CostOfAction("STEP_UP", i, p)
           B == CostOfAction("BLOCK", i, p)
           a1 == P * HoldDen(X, p)
           a2 == Unit * HoldNum(p)
           b1 == Unit * BlockNum(p)
           b2 == P * BlockDen(X, p)
<1>1. A \in Int /\ Z \in Int /\ B \in Int /\ A - Z = a1 - a2 /\ B - Z = b1 - b2
  BY CostsDiffer
<1>2. a1 \in Int /\ a2 \in Int /\ b1 \in Int /\ b2 \in Int
  <2>1. X \in Int /\ P \in Int /\ Unit \in Int /\ HoldNum(p) \in Int /\ BlockNum(p) \in Int
        /\ LostHeld(p) \in Int /\ LostGap(p) \in Int /\ p.stepUpCatchRate \in Int
    BY ExposureIsNatural, LostIsNatural, UnitIsPositive DEF GoodInputs, GoodPolicy
  <2>2. HoldDen(X, p) \in Int /\ BlockDen(X, p) \in Int
    BY <2>1 DEF HoldDen, BlockDen
  <2> HIDE DEF X, P
  <2> QED
    BY <2>1, <2>2
<1>3. Decide(i, p).chosen = "STEP_UP" <=> Z < A /\ Z <= B
  BY ChosenByCost
<1> HIDE DEF A, Z, B, a1, a2, b1, b2
<1>4. Decide(i, p).chosen = "STEP_UP" <=> a2 < a1 /\ b2 <= b1
  BY <1>1, <1>2, <1>3
<1> QED
  BY <1>4 DEF a1, a2, b1, b2

(* The clamped boundaries draw that band.                                  *)
LEMMA ClampedBand ==
  ASSUME NEW U \in Nat, U > 0, NEW P \in 0..U,
         NEW n1 \in Nat, NEW d1 \in Nat, NEW n2 \in Nat, NEW d2 \in Nat
  PROVE  LET a1 == ClampFrac(n1, d1)
             a2 == ClampFrac(n2, d2)
             t2 == IF Le(a1, a2) THEN a2 ELSE a1
             p  == Frac(P, U)
             inside == U * n1 < P * d1 /\ P * d2 <= U * n2
         IN  /\ inside => ~Le(a2, a1) /\ Le(a1, p) /\ Le(p, t2)
             /\ ~Le(p, a1) /\ ~Le(t2, p) => inside
<1> DEFINE a1 == ClampFrac(n1, d1)
           a2 == ClampFrac(n2, d2)
           t2 == IF Le(a1, a2) THEN a2 ELSE a1
           p  == Frac(P, U)
<1>0. P \in Nat /\ P <= U
  OBVIOUS
<1>1. p.num = P /\ p.den = U
  BY DEF Frac
<1>2. \/ a1.num = 1 /\ a1.den = 1 /\ (d1 = 0 \/ n1 > d1)
      \/ a1.num = n1 /\ a1.den = d1 /\ d1 > 0 /\ n1 <= d1
  BY DEF ClampFrac, Frac
<1>3. \/ a2.num = 1 /\ a2.den = 1 /\ (d2 = 0 \/ n2 > d2)
      \/ a2.num = n2 /\ a2.den = d2 /\ d2 > 0 /\ n2 <= d2
  BY DEF ClampFrac, Frac
<1>4. \A x, y : Le(x, y) <=> x.num * y.den <= y.num * x.den
  BY DEF Le
<1> HIDE DEF a1, a2, p
<1>5. ASSUME U * n1 < P * d1, P * d2 <= U * n2
      PROVE  ~Le(a2, a1) /\ Le(a1, p) /\ Le(p, t2)
  <2>1. P * d1 <= U * d1
    BY <1>0, ProductIsMonotone
  <2>2. d1 > 0 /\ n1 < d1
    <3>1. U * n1 < U * d1
      BY <1>0, <1>5, <2>1
    <3>2. n1 < d1
      BY <3>1
    <3> QED
      BY <3>2
  <2>3. a1.num = n1 /\ a1.den = d1
    BY <1>2, <2>2
  <2>4. Le(a1, p)
    <3>1. n1 * U <= P * d1
      BY <1>0, <1>5
    <3> QED
      BY <1>1, <1>4, <2>3, <3>1
  <2>5. CASE a2.num = 1 /\ a2.den = 1
    <3>1. ~Le(a2, a1) /\ Le(a1, a2)
      BY <1>4, <2>2, <2>3, <2>5
    <3>2. Le(p, a2)
      BY <1>0, <1>1, <1>4, <2>5
    <3> QED
      BY <2>4, <3>1, <3>2
  <2>6. CASE a2.num = n2 /\ a2.den = d2 /\ d2 > 0
    <3>1. n1 * d2 < n2 * d1
      <4>1. (U * n1) * d2 < (P * d1) * d2
        BY <1>0, <1>5, <2>6
      <4>2. (P * d2) * d1 <= (U * n2) * d1
        BY <1>0, <1>5, ProductIsMonotone
      <4>3. (P * d1) * d2 = (P * d2) * d1 /\ (U * n1) * d2 = U * (n1 * d2) /\ (U * n2) * d1 = U * (n2 * d1)
        BY <1>0
      <4>4. U * (n1 * d2) < U * (n2 * d1)
        BY <1>0, <4>1, <4>2, <4>3
      <4> QED
        BY <4>4
    <3>2. ~Le(a2, a1) /\ Le(a1, a2)
      BY <1>4, <2>3, <2>6, <3>1
    <3>3. Le(p, a2)
      <4>1. P * d2 <= n2 * U
        BY <1>0, <1>5
      <4> QED
        BY <1>1, <1>4, <2>6, <4>1
    <3> QED
      BY <2>4, <3>2, <3>3
  <2> QED
    BY <1>3, <2>5, <2>6
<1>6. ASSUME ~Le(p, a1), ~Le(t2, p) PROVE U * n1 < P * d1 /\ P * d2 <= U * n2
  <2>1. U * n1 < P * d1
    <3>1. CASE a1.num = 1 /\ a1.den = 1
      BY <1>0, <1>1, <1>4, <1>6, <3>1
    <3>2. CASE a1.num = n1 /\ a1.den = d1 /\ d1 > 0
      <4>1. ~(P * d1 <= n1 * U)
        BY <1>1, <1>4, <1>6, <3>2
      <4> QED
        BY <1>0, <4>1
    <3> QED
      BY <1>2, <3>1, <3>2
  <2>2. t2 = a2
    <3>1. CASE t2 = a1
      <4>1. ~(P * a1.den <= a1.num * U) /\ ~(a1.num * U <= P * a1.den)
        BY <1>1, <1>4, <1>6, <3>1
      <4>2. a1.num \in Nat /\ a1.den \in Nat
        BY <1>2
      <4> QED
        BY <1>0, <4>1, <4>2
    <3> QED
      BY <3>1
  <2>3. P * d2 <= U * n2
    <3>1. CASE a2.num = 1 /\ a2.den = 1 /\ (d2 = 0 \/ n2 > d2)
      <4>1. d2 <= n2
        BY <3>1
      <4>2. P * d2 <= U * d2 /\ U * d2 <= U * n2
        BY <1>0, <4>1, ProductIsMonotone
      <4> QED
        BY <1>0, <4>2
    <3>2. CASE a2.num = n2 /\ a2.den = d2
      <4>1. ~(n2 * U <= P * d2)
        BY <1>1, <1>4, <1>6, <2>2, <3>2
      <4> QED
        BY <1>0, <4>1
    <3> QED
      BY <1>3, <3>1, <3>2
  <2> QED
    BY <2>1, <2>3
<1> QED
  BY <1>5, <1>6 DEF a1, a2, p

LEMMA BandIsExact ==
  ASSUME NEW i, GoodInputs(i), NEW p, GoodPolicy(p), PricesInOrder(p)
  PROVE  LET t == Thresholds(i.amountPaise, i.recovery, p)
             q == Frac(i.fraudProbability, Unit)
             chosen == Decide(i, p).chosen
         IN  /\ chosen = "STEP_UP" =>
                  ~t.stepUpDominated /\ Le(t.approveToStepUp, q) /\ Le(q, t.stepUpToBlock)
             /\ ~Le(q, t.approveToStepUp) /\ ~Le(t.stepUpToBlock, q) => chosen = "STEP_UP"
<1> DEFINE X  == Exposure(i, p)
           P  == i.fraudProbability
           t  == Thresholds(i.amountPaise, i.recovery, p)
           a1 == ClampFrac(HoldNum(p), HoldDen(X, p))
           a2 == ClampFrac(BlockNum(p), BlockDen(X, p))
<1>1. X \in Nat /\ P \in 0..Unit /\ p.stepUpCatchRate \in Nat /\ Unit - p.stepUpCatchRate \in Nat
  BY ExposureIsNatural, UnitIsPositive DEF GoodInputs, GoodPolicy
<1>2. LostHeld(p) \in Nat /\ HoldNum(p) \in Nat /\ LostGap(p) \in Nat
  BY LostIsNatural DEF PricesInOrder
<1>3. BlockNum(p) \in Nat
  <2>1. p.blockFrictionPaise - p.stepUpFrictionPaise \in Nat
    BY DEF PricesInOrder, GoodPolicy
  <2>2. (p.blockFrictionPaise - p.stepUpFrictionPaise) * Unit * Unit * Unit \in Nat
    BY <2>1, UnitIsPositive, ProductIsNatural
  <2> QED
    BY <1>2, <2>2 DEF BlockNum
<1>4. HoldDen(X, p) \in Nat /\ BlockDen(X, p) \in Nat
  BY <1>1, <1>2, ProductIsNatural DEF HoldDen, BlockDen
<1>5. t.approveToStepUp = a1 /\ t.stepUpToBlock = (IF Le(a1, a2) THEN a2 ELSE a1)
      /\ t.stepUpDominated = Le(a2, a1)
  <2>1. Clamp(p.stepUpCatchRate, 0, Unit) = p.stepUpCatchRate
    BY UnitIsPositive DEF Clamp, GoodPolicy
  <2>2. ApproveToStepUp(X, p) = a1 /\ StepUpToBlock(X, p) = a2
    BY <2>1 DEF ApproveToStepUp, StepUpToBlock, HoldNum, HoldDen, BlockNum, BlockDen, LostHeld, LostGap
  <2> HIDE DEF a1, a2
  <2> QED
    BY <2>2 DEF Thresholds, Exposure
<1>6. Decide(i, p).chosen = "STEP_UP"
        <=> Unit * HoldNum(p) < P * HoldDen(X, p) /\ P * BlockDen(X, p) <= Unit * BlockNum(p)
  BY HeldBetween
<1> HIDE DEF X, P, t
<1>7. /\ Unit * HoldNum(p) < P * HoldDen(X, p) /\ P * BlockDen(X, p) <= Unit * BlockNum(p)
           => ~Le(a2, a1) /\ Le(a1, Frac(P, Unit)) /\ Le(Frac(P, Unit), IF Le(a1, a2) THEN a2 ELSE a1)
      /\ ~Le(Frac(P, Unit), a1) /\ ~Le(IF Le(a1, a2) THEN a2 ELSE a1, Frac(P, Unit))
           => Unit * HoldNum(p) < P * HoldDen(X, p) /\ P * BlockDen(X, p) <= Unit * BlockNum(p)
  BY <1>1, <1>2, <1>3, <1>4, UnitIsPositive, ClampedBand
<1> HIDE DEF a1, a2
<1> QED
  BY <1>5, <1>6, <1>7 DEF P, t

-----------------------------------------------------------------------------
(* Neighbouring payments. *)

(* Holding and blocking, by the sign of what separates them.               *)
LEMMA SeverityByCost ==
  ASSUME NEW i, GoodInputs(i), NEW p, GoodPolicy(p)
  PROVE  LET X == Exposure(i, p)
             P == i.fraudProbability
             A == CostOfAction("APPROVE", i, p)
             B == CostOfAction("BLOCK", i, p)
             severity == Severity(Decide(i, p).chosen)
         IN  /\ severity \in 1..3
             /\ severity = 3 <=> B < A /\ Unit * BlockNum(p) < P * BlockDen(X, p)
             /\ severity = 1 <=> P * HoldDen(X, p) <= Unit * HoldNum(p) /\ A <= B
<1> DEFINE X == Exposure(i, p)
           P == i.fraudProbability
           A == CostOfAction("APPROVE", i, p)
           Z == CostOfAction("STEP_UP", i, p)
           B == CostOfAction("BLOCK", i, p)
           a1 == P * HoldDen(X, p)
           a2 == Unit * HoldNum(p)
           b1 == Unit * BlockNum(p)
           b2 == P * BlockDen(X, p)
           chosen == Decide(i, p).chosen
<1>1. A \in Int /\ Z \in Int /\ B \in Int /\ A - Z = a1 - a2 /\ B - Z = b1 - b2
  BY CostsDiffer
<1>2. a1 \in Int /\ a2 \in Int /\ b1 \in Int /\ b2 \in Int
  <2>1. X \in Int /\ P \in Int /\ Unit \in Int /\ HoldNum(p) \in Int /\ BlockNum(p) \in Int
        /\ LostHeld(p) \in Int /\ LostGap(p) \in Int /\ p.stepUpCatchRate \in Int
    BY ExposureIsNatural, LostIsNatural, UnitIsPositive DEF GoodInputs, GoodPolicy
  <2>2. HoldDen(X, p) \in Int /\ BlockDen(X, p) \in Int
    BY <2>1 DEF HoldDen, BlockDen
  <2> HIDE DEF X, P
  <2> QED
    BY <2>1, <2>2
<1>3. /\ chosen = "APPROVE" <=> A <= Z /\ A <= B
      /\ chosen = "BLOCK"   <=> B < A /\ B < Z
      /\ chosen \in {"APPROVE", "STEP_UP", "BLOCK"}
  BY ChosenByCost
<1> HIDE DEF A, Z, B, a1, a2, b1, b2, chosen
<1>4. /\ chosen = "APPROVE" <=> a1 <= a2 /\ A <= B
      /\ chosen = "BLOCK"   <=> B < A /\ b1 < b2
  BY <1>1, <1>2, <1>3
<1>5. Severity(chosen) \in 1..3 /\ (Severity(chosen) = 1 <=> chosen = "APPROVE")
      /\ (Severity(chosen) = 3 <=> chosen = "BLOCK")
  BY <1>3, ThreeActions
<1> QED
  BY <1>4, <1>5 DEF A, B, a1, a2, b1, b2, chosen

LEMMA MoreMoneySoftensNothing ==
  ASSUME NEW i, GoodInputs(i), NEW j, GoodInputs(j), NEW p, GoodPolicy(p),
         i.recovery = j.recovery, i.fraudProbability = j.fraudProbability,
         i.amountPaise <= j.amountPaise
  PROVE  Severity(Decide(j, p).chosen) >= Severity(Decide(i, p).chosen)
<1> DEFINE P == i.fraudProbability
           X == Exposure(i, p)
           Y == Exposure(j, p)
           l == LiabilityPerPaise(i.recovery, p)
           c == p.stepUpCatchRate
           A == CostOfAction("APPROVE", i, p)
           AA == CostOfAction("APPROVE", j, p)
           B == CostOfAction("BLOCK", i, p)
           b == Unit * BlockNum(p)
           h == Unit * HoldNum(p)
<1>1. /\ X \in Nat /\ Y \in Nat /\ l \in Nat /\ P \in Nat /\ c \in Nat /\ Unit - c \in Nat
      /\ LostHeld(p) \in Int /\ LostGap(p) \in Int /\ Unit \in Nat /\ b \in Int /\ h \in Int
  BY ExposureIsNatural, LostIsNatural, UnitIsPositive DEF GoodInputs, GoodPolicy
<1>2. X <= Y
  BY <1>1, ProductIsMonotone DEF Exposure, GoodInputs
<1>3. /\ A = P * (Unit * X) /\ AA = P * (Unit * Y)
      /\ B = CostOfAction("BLOCK", j, p) /\ B \in Int
  BY CostsDiffer
<1>4. LET s == Severity(Decide(i, p).chosen) IN
      /\ s \in 1..3
      /\ s = 3 <=> B < A /\ b < P * BlockDen(X, p)
      /\ s = 1 <=> P * HoldDen(X, p) <= h /\ A <= B
  BY SeverityByCost
<1>5. LET s == Severity(Decide(j, p).chosen) IN
      /\ s \in 1..3
      /\ s = 3 <=> B < AA /\ b < P * BlockDen(Y, p)
      /\ s = 1 <=> P * HoldDen(Y, p) <= h /\ AA <= B
  <2>1. j.fraudProbability = P
    OBVIOUS
  <2> QED
    BY <1>3, <2>1, SeverityByCost
<1>6. HoldDen(X, p) = X * c + LostHeld(p) /\ HoldDen(Y, p) = Y * c + LostHeld(p)
      /\ BlockDen(X, p) = X * (Unit - c) + LostGap(p) /\ BlockDen(Y, p) = Y * (Unit - c) + LostGap(p)
  BY DEF HoldDen, BlockDen
<1> HIDE DEF P, X, Y, l, c, A, AA, B, b, h
<1>7. HoldDen(X, p) <= HoldDen(Y, p) /\ BlockDen(X, p) <= BlockDen(Y, p)
      /\ HoldDen(X, p) \in Int /\ HoldDen(Y, p) \in Int /\ BlockDen(X, p) \in Int /\ BlockDen(Y, p) \in Int
  <2>1. X * c <= Y * c /\ X * (Unit - c) <= Y * (Unit - c)
    BY <1>1, <1>2, ProductIsMonotone
  <2> QED
    BY <1>1, <1>6, <2>1
<1>8. P * HoldDen(X, p) <= P * HoldDen(Y, p) /\ P * BlockDen(X, p) <= P * BlockDen(Y, p)
      /\ P * HoldDen(X, p) \in Int /\ P * HoldDen(Y, p) \in Int
      /\ P * BlockDen(X, p) \in Int /\ P * BlockDen(Y, p) \in Int
  BY <1>1, <1>7, ProductIsMonotone
<1>9. A <= AA /\ A \in Int /\ AA \in Int
  <2>1. Unit * X <= Unit * Y
    BY <1>1, <1>2, ProductIsMonotone
  <2>2. P * (Unit * X) <= P * (Unit * Y)
    BY <1>1, <2>1, ProductIsMonotone
  <2> QED
    BY <1>1, <1>3, <2>2
<1> QED
  BY <1>1, <1>3, <1>4, <1>5, <1>8, <1>9

LEMMA MoreRiskSoftensNothing ==
  ASSUME NEW i, GoodInputs(i), NEW j, GoodInputs(j), NEW p, GoodPolicy(p),
         i.recovery = j.recovery, i.amountPaise = j.amountPaise,
         i.fraudProbability <= j.fraudProbability,
         p.stepUpAbandonmentRate <= p.blockAbandonmentRate
  PROVE  Severity(Decide(j, p).chosen) >= Severity(Decide(i, p).chosen)
<1> DEFINE P == i.fraudProbability
           Q == j.fraudProbability
           X == Exposure(i, p)
           A == CostOfAction("APPROVE", i, p)
           AA == CostOfAction("APPROVE", j, p)
           B == CostOfAction("BLOCK", i, p)
           BB == CostOfAction("BLOCK", j, p)
           b == Unit * BlockNum(p)
           h == Unit * HoldNum(p)
           v == p.blockAbandonmentRate * p.customerLifetimeValuePaise * Unit * Unit
           f == p.blockFrictionPaise * Whole
           H == HoldDen(X, p)
           K == BlockDen(X, p)
<1>1. /\ X \in Nat /\ P \in Nat /\ Q \in Nat /\ P <= Q /\ p.stepUpCatchRate \in Nat
      /\ Unit - p.stepUpCatchRate \in Nat /\ LostHeld(p) \in Nat /\ LostGap(p) \in Nat
      /\ Unit \in Nat /\ b \in Int /\ h \in Int
  BY ExposureIsNatural, LostIsNatural, UnitIsPositive DEF GoodInputs, GoodPolicy
<1>2. Exposure(j, p) = X
  BY DEF Exposure
<1>3. v \in Nat /\ f \in Nat
  <2>1. p.blockAbandonmentRate \in Nat /\ p.customerLifetimeValuePaise \in Nat /\ p.blockFrictionPaise \in Nat
    BY UnitIsPositive DEF GoodPolicy
  <2>2. Whole \in Nat
    BY UnitIsPositive, ProductIsNatural DEF Whole
  <2> QED
    BY <1>1, <2>1, <2>2, ProductIsNatural
<1>4. /\ A = P * (Unit * X) /\ AA = Q * (Unit * X)
      /\ B = f + (Unit - P) * v /\ BB = f + (Unit - Q) * v
  BY <1>2, CostsDiffer
<1>5. LET s == Severity(Decide(i, p).chosen) IN
      /\ s \in 1..3
      /\ s = 3 <=> B < A /\ b < P * K
      /\ s = 1 <=> P * H <= h /\ A <= B
  BY SeverityByCost
<1>6. LET s == Severity(Decide(j, p).chosen) IN
      /\ s \in 1..3
      /\ s = 3 <=> BB < AA /\ b < Q * K
      /\ s = 1 <=> Q * H <= h /\ AA <= BB
  BY <1>2, SeverityByCost
<1>7. H \in Nat /\ K \in Nat
  BY <1>1, ProductIsNatural DEF HoldDen, BlockDen
<1> HIDE DEF P, Q, X, A, AA, B, BB, b, h, v, f, H, K
<1>8. P * H <= Q * H /\ P * K <= Q * K /\ P * H \in Int /\ Q * H \in Int /\ P * K \in Int /\ Q * K \in Int
  BY <1>1, <1>7, ProductIsMonotone
<1>9. A <= AA /\ A \in Int /\ AA \in Int
  <2>1. Unit * X \in Nat
    BY <1>1, ProductIsNatural
  <2> QED
    BY <1>1, <1>4, <2>1, ProductIsMonotone
<1>10. BB <= B /\ B \in Int /\ BB \in Int
  <2>1. (Unit - Q) * v <= (Unit - P) * v
    BY <1>1, <1>3, ProductIsMonotone
  <2> QED
    BY <1>1, <1>3, <1>4, <2>1
<1> QED
  BY <1>1, <1>5, <1>6, <1>8, <1>9, <1>10

-----------------------------------------------------------------------------
(* An edited copy is still a sequence of records. *)
IsRecord(r) ==
  r = [seq |-> r.seq, ts |-> r.ts, prevHash |-> r.prevHash, hash |-> r.hash, entry |-> r.entry]

LEMMA CopyByRecords ==
  ASSUME NEW n \in Nat, NEW q, q = [k \in 1..n |-> q[k]], \A k \in 1..n : IsRecord(q[k])
  PROVE  IsCopy(q)
<1>1. q \in Seq({q[k] : k \in 1..n}) /\ Len(q) = n
  <2> DEFINE Z == {q[k] : k \in 1..n}
  <2>1. q \in [1..n -> Z]
    OBVIOUS
  <2> HIDE DEF Z
  <2> QED
    BY <2>1
<1> QED
  BY <1>1 DEF IsCopy, IsRecord

LEMMA CopyReplaced ==
  ASSUME NEW q, IsCopy(q), NEW i \in DOMAIN q, NEW r, IsRecord(r)
  PROVE  IsCopy([q EXCEPT ![i] = r])
<1> DEFINE p == [q EXCEPT ![i] = r]
<1>1. Len(q) \in Nat /\ DOMAIN q = 1..Len(q)
  BY CopyLength
<1>2. p = [k \in 1..Len(q) |-> p[k]]
  BY <1>1
<1>3. \A k \in 1..Len(q) : p[k] = IF k = i THEN r ELSE q[k]
  BY <1>1
<1>4. \A k \in 1..Len(q) : IsRecord(q[k])
  BY DEF IsCopy, IsRecord
<1> HIDE DEF p
<1>5. \A k \in 1..Len(q) : IsRecord(p[k])
  BY <1>3, <1>4
<1>6. IsCopy(p)
  BY <1>1, <1>2, <1>5, CopyByRecords
<1> QED
  BY <1>6 DEF p

LEMMA Joined ==
  ASSUME NEW Z, NEW a \in Seq(Z), NEW b \in Seq(Z)
  PROVE  a \o b \in Seq(Z) /\ Len(a \o b) = Len(a) + Len(b)
OBVIOUS

LEMMA JoinedAt ==
  ASSUME NEW Z, NEW a \in Seq(Z), NEW b \in Seq(Z), NEW j \in 1..Len(b)
  PROVE  (a \o b)[Len(a) + j] = b[j]
OBVIOUS

LEMMA CopyShortened ==
  ASSUME NEW q, IsCopy(q), NEW i \in DOMAIN q
  PROVE  IsCopy(RemoveAt(q, i))
<1> DEFINE n == Len(q)
           p == RemoveAt(q, i)
<1>1. n \in Nat /\ DOMAIN q = 1..n /\ i \in 1..n
  BY CopyLength
<1>2. PICK Z : q \in Seq(Z)
  BY DEF IsCopy
<1>3. SubSeq(q, 1, i - 1) \in Seq(Z) /\ Len(SubSeq(q, 1, i - 1)) = i - 1
      /\ \A k \in 1..(i - 1) : SubSeq(q, 1, i - 1)[k] = q[k]
  BY <1>1, <1>2
<1>4. SubSeq(q, i + 1, n) \in Seq(Z) /\ Len(SubSeq(q, i + 1, n)) = n - i
      /\ \A k \in 1..(n - i) : SubSeq(q, i + 1, n)[k] = q[k + i]
  BY <1>1, <1>2
<1> DEFINE before == SubSeq(q, 1, i - 1)
           after  == SubSeq(q, i + 1, n)
<1>5. p \in Seq(Z) /\ Len(p) = n - 1
      /\ \A k \in 1..(n - 1) : p[k] = IF k <= i - 1 THEN q[k] ELSE q[k + 1]
  <2>1. p = before \o after
    BY DEF RemoveAt
  <2>2. /\ before \in Seq(Z) /\ Len(before) = i - 1 /\ \A k \in 1..(i - 1) : before[k] = q[k]
        /\ after \in Seq(Z) /\ Len(after) = n - i /\ \A k \in 1..(n - i) : after[k] = q[k + i]
    BY <1>3, <1>4
  <2> HIDE DEF p, n, before, after
  <2>5. p \in Seq(Z) /\ Len(p) = Len(before) + Len(after)
    BY <2>1, <2>2, Joined
  <2>3. p \in Seq(Z) /\ Len(p) = (i - 1) + (n - i)
    BY <2>2, <2>5
  <2>4. ASSUME NEW k \in 1..(n - 1) PROVE p[k] = IF k <= i - 1 THEN q[k] ELSE q[k + 1]
    <3>1. CASE k <= i - 1
      BY <1>1, <2>1, <2>2, <3>1
    <3>2. CASE ~(k <= i - 1)
      <4>1. k - (i - 1) \in 1..(n - i) /\ (k - (i - 1)) + i = k + 1 /\ k \in 1..((i - 1) + (n - i))
        BY <1>1, <3>2
      <4>2. p[k] = after[k - (i - 1)]
        <5>1. PICK j : j = k - (i - 1)
          OBVIOUS
        <5>2. j \in 1..(n - i) /\ (i - 1) + j = k
          BY <1>1, <4>1, <5>1
        <5>3. (before \o after)[Len(before) + j] = after[j]
          BY <2>2, <5>2, JoinedAt
        <5> QED
          BY <2>1, <2>2, <5>1, <5>2, <5>3
      <4> QED
        BY <2>2, <3>2, <4>1, <4>2
    <3> QED
      BY <3>1, <3>2
  <2> QED
    BY <1>1, <2>3, <2>4
<1>6. \A k \in 1..n : IsRecord(q[k])
  BY DEF IsCopy, IsRecord
<1> HIDE DEF n, p
<1>7. \A k \in 1..(n - 1) : IsRecord(p[k])
  <2> TAKE k \in 1..(n - 1)
  <2>1. k \in 1..n /\ k + 1 \in 1..n
    BY <1>1
  <2> QED
    BY <1>5, <1>6, <2>1
<1> QED
  BY <1>5, <1>7 DEF IsCopy, IsRecord, p

LEMMA CopyEdited ==
  ASSUME NEW q, IsCopy(q), NEW i \in DOMAIN q, NEW p \in Edited(q, i)
  PROVE  IsCopy(p)
<1>1. \A k \in DOMAIN q : IsRecord(q[k])
  BY CopyLength DEF IsCopy, IsRecord
<1>2. CASE p = RemoveAt(q, i)
  BY <1>2, CopyShortened
<1>3. ASSUME NEW j \in DOMAIN q \ {i}, p = [q EXCEPT ![i] = q[j], ![j] = q[i]]
      PROVE  IsCopy(p)
  <2>1. IsCopy([q EXCEPT ![i] = q[j]]) /\ DOMAIN [q EXCEPT ![i] = q[j]] = DOMAIN q
    BY <1>1, CopyReplaced
  <2> DEFINE o == [q EXCEPT ![i] = q[j]]
  <2>2. p = [o EXCEPT ![j] = q[i]]
    BY <1>3
  <2> HIDE DEF o
  <2>3. IsCopy(o) /\ j \in DOMAIN o
    BY <2>1 DEF o
  <2> QED
    BY <1>1, <2>2, <2>3, CopyReplaced
<1>4. CASE p = [q EXCEPT ![i].seq = @ + 1]
  <2>1. IsRecord([q[i] EXCEPT !.seq = @ + 1])
    BY <1>1 DEF IsRecord
  <2> QED
    BY <1>4, <2>1, CopyReplaced
<1>5. CASE p = [q EXCEPT ![i].ts = @ + 1]
  <2>1. IsRecord([q[i] EXCEPT !.ts = @ + 1])
    BY <1>1 DEF IsRecord
  <2> QED
    BY <1>5, <2>1, CopyReplaced
<1>6. ASSUME NEW j \in DOMAIN q, p = [q EXCEPT ![i].entry = q[j].entry]
      PROVE  IsCopy(p)
  <2>1. IsRecord([q[i] EXCEPT !.entry = q[j].entry])
    BY <1>1 DEF IsRecord
  <2> QED
    BY <1>6, <2>1, CopyReplaced
<1>7. CASE p = [q EXCEPT ![i].prevHash = L!GenesisHash]
  <2>1. IsRecord([q[i] EXCEPT !.prevHash = L!GenesisHash])
    BY <1>1 DEF IsRecord
  <2> QED
    BY <1>7, <2>1, CopyReplaced
<1>8. CASE p = [q EXCEPT ![i].hash = L!Digest(q[i].seq, q[i].ts, q[i].prevHash, q[i].entry)]
  <2>1. IsRecord([q[i] EXCEPT !.hash = L!Digest(q[i].seq, q[i].ts, q[i].prevHash, q[i].entry)])
    BY <1>1 DEF IsRecord
  <2> QED
    BY <1>8, <2>1, CopyReplaced
<1> QED
  BY <1>2, <1>3, <1>4, <1>5, <1>6, <1>7, <1>8 DEF Edited

-----------------------------------------------------------------------------
(* A portfolio under a price. *)

LEMMA PolicyIsGood ==
  ASSUME NEW p \in Policies
  PROVE  GoodPolicy(p)
BY DEF Policies, Rates, GoodPolicy

LEMMA SampleIsGood ==
  ASSUME NEW s \in Samples
  PROVE  GoodInputs(s)
BY UnitIsPositive DEF Samples, Rates, GoodInputs

Interrupted(q, p)      == {i \in DOMAIN q : Intervened(q[i], p)}
LegitInterrupted(q, p) == {i \in DOMAIN q : ~q[i].isFraud /\ Intervened(q[i], p)}
FraudInterrupted(q, p) == {i \in DOMAIN q : q[i].isFraud /\ Intervened(q[i], p)}
Legitimate(q)          == {i \in DOMAIN q : ~q[i].isFraud}

LEMMA PositionsAreFinite ==
  ASSUME NEW q \in Seq(Samples), NEW Z \in SUBSET DOMAIN q
  PROVE  IsFiniteSet(Z) /\ Cardinality(Z) \in Nat /\ Cardinality(Z) <= Len(q)
<1>1. Len(q) \in Nat /\ DOMAIN q = 1..Len(q)
  OBVIOUS
<1>2. IsFiniteSet(1..Len(q)) /\ Cardinality(1..Len(q)) = Len(q)
  <2>1. Cardinality(1..Len(q)) = IF 1 > Len(q) THEN 0 ELSE Len(q) - 1 + 1
    BY <1>1, FS_Interval
  <2> QED
    BY <1>1, <2>1, FS_Interval
<1> QED
  BY <1>1, <1>2, FS_Subset, FS_CardinalityType

LEMMA RatesCount ==
  ASSUME NEW q \in Seq(Samples), NEW p \in Policies
  PROVE  LET r == EvaluatePolicy(q, p)
         IN  /\ r.stepUp + r.block = Cardinality(Interrupted(q, p))
             /\ r.legitIntervened = Cardinality(LegitInterrupted(q, p))
             /\ r.fraudIntervened = Cardinality(FraudInterrupted(q, p))
             /\ r.screened = Len(q)
             /\ r.legit = Cardinality(Legitimate(q))
<1> DEFINE r == EvaluatePolicy(q, p)
           H == {i \in DOMAIN q : Chosen(q[i], p) = "STEP_UP"}
           B == {i \in DOMAIN q : Chosen(q[i], p) = "BLOCK"}
<1>1. /\ r.stepUp = Cardinality(H) /\ r.block = Cardinality(B)
      /\ r.legitIntervened = Cardinality(LegitInterrupted(q, p))
      /\ r.fraudIntervened = Cardinality(FraudInterrupted(q, p))
      /\ r.screened = Len(q)
      /\ r.legit = Cardinality(Legitimate(q))
  BY DEF EvaluatePolicy, Count, LegitInterrupted, FraudInterrupted, Legitimate
<1>2. \A i \in DOMAIN q : Chosen(q[i], p) \in {"APPROVE", "STEP_UP", "BLOCK"}
  <2> TAKE i \in DOMAIN q
  <2>1. q[i] \in Samples
    OBVIOUS
  <2> QED
    BY <2>1, PolicyIsGood, SampleIsGood, ChosenByCost DEF Chosen
<1>3. Interrupted(q, p) = H \cup B /\ H \cap B = {}
  BY <1>2 DEF Interrupted, Intervened
<1>4. IsFiniteSet(H) /\ IsFiniteSet(B) /\ Cardinality(H) \in Nat /\ Cardinality(B) \in Nat
  <2>1. H \in SUBSET DOMAIN q /\ B \in SUBSET DOMAIN q
    OBVIOUS
  <2> HIDE DEF H, B
  <2> QED
    BY <2>1, PositionsAreFinite
<1> HIDE DEF H, B, r
<1>5. Cardinality(H \cup B) = Cardinality(H) + Cardinality(B)
  <2>1. Cardinality(H \cup B) = Cardinality(H) + Cardinality(B) - Cardinality(H \cap B)
    BY <1>4, FS_Union
  <2>2. Cardinality(H \cap B) = 0
    BY <1>3, FS_EmptySet
  <2> QED
    BY <1>4, <2>1, <2>2
<1> QED
  BY <1>1, <1>3, <1>5 DEF r

(* p, with friction priced no lower. *)
Dearer(p, d) ==
  /\ d.liabilityShare = p.liabilityShare /\ d.stepUpCatchRate = p.stepUpCatchRate
  /\ d.stepUpAbandonmentRate = p.stepUpAbandonmentRate
  /\ d.blockAbandonmentRate = p.blockAbandonmentRate
  /\ d.customerLifetimeValuePaise = p.customerLifetimeValuePaise
  /\ p.stepUpFrictionPaise <= d.stepUpFrictionPaise
  /\ p.blockFrictionPaise <= d.blockFrictionPaise

LEMMA DearerApprovesMore ==
  ASSUME NEW s, GoodInputs(s), NEW p, GoodPolicy(p), NEW d, GoodPolicy(d), Dearer(p, d),
         Intervened(s, d)
  PROVE  Intervened(s, p)
<1>1. Whole \in Nat
  BY UnitIsPositive, ProductIsNatural DEF Whole
<1> DEFINE f == p.stepUpFrictionPaise * Whole
           ff == d.stepUpFrictionPaise * Whole
           g == p.blockFrictionPaise * Whole
           gg == d.blockFrictionPaise * Whole
           legit == Unit - Clamp(s.fraudProbability, 0, Unit)
           h == legit * p.stepUpAbandonmentRate * p.customerLifetimeValuePaise * Unit * Unit
           k == legit * p.blockAbandonmentRate * p.customerLifetimeValuePaise * Unit * Unit
           A(x) == CostOfAction("APPROVE", s, x)
           Z(x) == CostOfAction("STEP_UP", s, x)
           B(x) == CostOfAction("BLOCK", s, x)
<1>2. f <= ff /\ g <= gg /\ f \in Int /\ ff \in Int /\ g \in Int /\ gg \in Int
  BY <1>1, ProductIsMonotone DEF Dearer, GoodPolicy
<1>3. \A a : Liability(a, s, d) = Liability(a, s, p)
  BY DEF Liability, LiabilityPerPaise, Dearer
<1>4. Abandonment("APPROVE", p) = 0 /\ Abandonment("APPROVE", d) = 0
      /\ Abandonment("STEP_UP", p) = p.stepUpAbandonmentRate
      /\ Abandonment("STEP_UP", d) = p.stepUpAbandonmentRate
      /\ Abandonment("BLOCK", p) = p.blockAbandonmentRate
      /\ Abandonment("BLOCK", d) = p.blockAbandonmentRate
  BY DEF Abandonment, Dearer
<1>5. Friction("APPROVE", s, p) = Friction("APPROVE", s, d)
  BY <1>4 DEF Friction, Dearer
<1>6. Friction("STEP_UP", s, p) = f + h /\ Friction("STEP_UP", s, d) = ff + h
  BY <1>4 DEF Friction, Dearer
<1>7. Friction("BLOCK", s, p) = g + k /\ Friction("BLOCK", s, d) = gg + k
  BY <1>4 DEF Friction, Dearer
<1>8. h \in Int /\ k \in Int
  <2>1. legit \in Int /\ Unit \in Int /\ p.stepUpAbandonmentRate \in Int
        /\ p.blockAbandonmentRate \in Int /\ p.customerLifetimeValuePaise \in Int
    BY UnitIsPositive DEF GoodInputs, GoodPolicy, Clamp
  <2> HIDE DEF legit
  <2> QED
    BY <2>1
<1>9. /\ A(p) \in Int /\ Z(p) \in Int /\ B(p) \in Int
      /\ A(d) \in Int /\ Z(d) \in Int /\ B(d) \in Int
  BY CostsDiffer
<1>10. A(p) = A(d) /\ Z(p) = Liability("STEP_UP", s, p) + (f + h)
       /\ Z(d) = Liability("STEP_UP", s, p) + (ff + h)
       /\ B(p) = Liability("BLOCK", s, p) + (g + k) /\ B(d) = Liability("BLOCK", s, p) + (gg + k)
  BY <1>3, <1>5, <1>6, <1>7 DEF CostOfAction
<1>11. Liability("STEP_UP", s, p) \in Int /\ Liability("BLOCK", s, p) \in Int
  <2>1. LiabilityPerPaise(s.recovery, p) \in Int
    BY ExposureIsNatural
  <2>2. s.amountPaise \in Int /\ Clamp(s.fraudProbability, 0, Unit) \in Int /\ Unit \in Int
        /\ p.stepUpCatchRate \in Int
    BY UnitIsPositive DEF GoodInputs, GoodPolicy, Clamp
  <2> QED
    BY <2>1, <2>2 DEF Liability
<1> HIDE DEF f, ff, g, gg, h, k, A, Z, B
<1>12. Z(p) <= Z(d) /\ B(p) <= B(d)
  BY <1>2, <1>8, <1>10, <1>11
<1>13. ~(A(d) <= Z(d) /\ A(d) <= B(d))
  BY ChosenByCost DEF Intervened, Chosen, A, Z, B
<1>14. ~(A(p) <= Z(p) /\ A(p) <= B(p))
  BY <1>9, <1>10, <1>12, <1>13
<1> QED
  BY <1>14, ChosenByCost DEF Intervened, Chosen, A, Z, B

LEMMA PricedPolicy ==
  ASSUME NEW p \in Policies, NEW m \in Nat
  PROVE  /\ WithMultiplier(p, m) \in Policies
         /\ WithMultiplier(p, 2) = p
         /\ \A n \in Nat : m <= n => Dearer(WithMultiplier(p, m), WithMultiplier(p, n))
<1> DEFINE f == p.stepUpFrictionPaise
           g == p.blockFrictionPaise
           Priced(n) == [p EXCEPT !.stepUpFrictionPaise = RoundTo(f * n, 2),
                                  !.blockFrictionPaise  = RoundTo(g * n, 2)]
<1>1. f \in Nat /\ g \in Nat
  BY DEF Policies
<1>2. \A n : WithMultiplier(p, n) = Priced(n)
  BY DEF WithMultiplier
<1>3. ASSUME NEW x \in Nat PROVE RoundTo(x, 2) \in Nat
  BY DEF RoundTo
<1>4. ASSUME NEW x \in Nat, NEW y \in Nat, x <= y PROVE RoundTo(x, 2) <= RoundTo(y, 2)
  BY <1>4 DEF RoundTo
<1>5. ASSUME NEW x \in Nat PROVE RoundTo(x * 2, 2) = x
  BY DEF RoundTo
<1>6. ASSUME NEW n \in Nat PROVE Priced(n) \in Policies
  <2>1. f * n \in Nat /\ g * n \in Nat
    BY <1>1, ProductIsNatural
  <2>2. RoundTo(f * n, 2) \in Nat /\ RoundTo(g * n, 2) \in Nat
    BY <1>3, <2>1
  <2> QED
    BY <2>2 DEF Policies
<1>7. Priced(2) = p
  <2>1. RoundTo(f * 2, 2) = f /\ RoundTo(g * 2, 2) = g
    BY <1>1, <1>5
  <2> QED
    BY <2>1 DEF Policies
<1>8. ASSUME NEW n \in Nat, m <= n PROVE Dearer(Priced(m), Priced(n))
  <2>1. f * m \in Nat /\ g * m \in Nat /\ f * n \in Nat /\ g * n \in Nat /\ f * m <= f * n /\ g * m <= g * n
    BY <1>1, <1>8, ProductIsNatural, ProductIsMonotone
  <2>2. RoundTo(f * m, 2) <= RoundTo(f * n, 2) /\ RoundTo(g * m, 2) <= RoundTo(g * n, 2)
    BY <1>4, <2>1
  <2> QED
    BY <2>2 DEF Dearer, Policies
<1> HIDE DEF Priced
<1> QED
  BY <1>2, <1>6, <1>7, <1>8

(* Under dearer friction the interruptions are among those there were.     *)
LEMMA DearerInterruptsLess ==
  ASSUME NEW q \in Seq(Samples), NEW p \in Policies, NEW d \in Policies, Dearer(p, d)
  PROVE  LET now  == EvaluatePolicy(q, p)
             next == EvaluatePolicy(q, d)
         IN  /\ next.stepUp + next.block <= now.stepUp + now.block
             /\ next.legitIntervened <= now.legitIntervened
             /\ next.fraudIntervened <= now.fraudIntervened
             /\ next.screened = now.screened /\ next.legit = now.legit
             /\ {now.stepUp + now.block, next.stepUp + next.block, now.legitIntervened,
                 next.legitIntervened, now.screened, now.legit} \subseteq Nat
<1>1. \A i \in DOMAIN q : Intervened(q[i], d) => Intervened(q[i], p)
  <2> TAKE i \in DOMAIN q
  <2>1. q[i] \in Samples
    OBVIOUS
  <2> QED
    BY <2>1, PolicyIsGood, SampleIsGood, DearerApprovesMore
<1>2. /\ Interrupted(q, d) \subseteq Interrupted(q, p)
      /\ LegitInterrupted(q, d) \subseteq LegitInterrupted(q, p)
      /\ FraudInterrupted(q, d) \subseteq FraudInterrupted(q, p)
  BY <1>1 DEF Interrupted, LegitInterrupted, FraudInterrupted
<1>3. {Interrupted(q, p), LegitInterrupted(q, p), FraudInterrupted(q, p), Legitimate(q),
       Interrupted(q, d), LegitInterrupted(q, d), FraudInterrupted(q, d)} \subseteq SUBSET DOMAIN q
  BY DEF Interrupted, LegitInterrupted, FraudInterrupted, Legitimate
<1>4. ASSUME NEW T \in SUBSET DOMAIN q, NEW Z \in SUBSET T
      PROVE  Cardinality(Z) <= Cardinality(T) /\ Cardinality(Z) \in Nat /\ Cardinality(T) \in Nat
  BY PositionsAreFinite, FS_Subset
<1>5. /\ Cardinality(Interrupted(q, d)) <= Cardinality(Interrupted(q, p))
      /\ Cardinality(Interrupted(q, d)) \in Nat /\ Cardinality(Interrupted(q, p)) \in Nat
  BY <1>2, <1>3, <1>4
<1>6. /\ Cardinality(LegitInterrupted(q, d)) <= Cardinality(LegitInterrupted(q, p))
      /\ Cardinality(LegitInterrupted(q, d)) \in Nat /\ Cardinality(LegitInterrupted(q, p)) \in Nat
  BY <1>2, <1>3, <1>4
<1>7. Cardinality(FraudInterrupted(q, d)) <= Cardinality(FraudInterrupted(q, p))
  BY <1>2, <1>3, <1>4
<1>8. Cardinality(Legitimate(q)) \in Nat /\ Len(q) \in Nat
  BY <1>3, <1>4
<1> QED
  BY <1>5, <1>6, <1>7, <1>8, RatesCount

LEMMA ExceedsLess ==
  ASSUME NEW n \in Nat, NEW m \in Nat, n <= m, NEW N \in Nat, NEW cap \in Rates \cup {NoCap},
         Exceeds(n, N, cap)
  PROVE  Exceeds(m, N, cap)
<1>1. n * Unit <= m * Unit /\ n * Unit \in Int /\ m * Unit \in Int
  BY UnitIsPositive, ProductIsMonotone
<1>2. CASE cap = NoCap
  BY <1>2 DEF Exceeds
<1>3. CASE cap # NoCap
  <2>1. cap * N \in Int
    BY <1>3, UnitIsPositive DEF Rates
  <2> QED
    BY <1>1, <2>1 DEF Exceeds
<1> QED
  BY <1>2, <1>3

LEMMA DearerViolatesLess ==
  ASSUME NEW q \in Seq(Samples), NEW p \in Policies, NEW d \in Policies, Dearer(p, d),
         NEW caps \in Policies, Violates(EvaluatePolicy(q, d), caps)
  PROVE  Violates(EvaluatePolicy(q, p), caps)
<1> DEFINE now  == EvaluatePolicy(q, p)
           next == EvaluatePolicy(q, d)
<1>1. /\ next.stepUp + next.block <= now.stepUp + now.block
      /\ next.legitIntervened <= now.legitIntervened
      /\ next.screened = now.screened /\ next.legit = now.legit
      /\ {now.stepUp + now.block, next.stepUp + next.block, now.legitIntervened,
          next.legitIntervened, now.screened, now.legit} \subseteq Nat
  BY DearerInterruptsLess
<1>2. caps.maxStepUpRate \in Rates \cup {NoCap} /\ caps.maxFalsePositiveRate \in Rates \cup {NoCap}
  BY DEF Policies
<1> HIDE DEF now, next
<1>3. Exceeds(next.stepUp + next.block, now.screened, caps.maxStepUpRate)
        => Exceeds(now.stepUp + now.block, now.screened, caps.maxStepUpRate)
  BY <1>1, <1>2, ExceedsLess
<1>4. Exceeds(next.legitIntervened, now.legit, caps.maxFalsePositiveRate)
        => Exceeds(now.legitIntervened, now.legit, caps.maxFalsePositiveRate)
  BY <1>1, <1>2, ExceedsLess
<1>5. Violates(next, caps)
  BY DEF next
<1>6. Violates(now, caps)
  BY <1>1, <1>3, <1>4, <1>5 DEF Violates
<1> QED
  BY <1>6 DEF now

-----------------------------------------------------------------------------
(* The search for the price. *)

LEMMA PricesRise ==
  /\ Len(Multipliers) \in Nat /\ Len(Multipliers) >= 1 /\ DOMAIN Multipliers = 1..Len(Multipliers)
  /\ Multipliers[1] = 2
  /\ \A i \in 1..Len(Multipliers) : Multipliers[i] \in Nat /\ 2 <= Multipliers[i]
  /\ \A i, j \in 1..Len(Multipliers) : i <= j => Multipliers[i] <= Multipliers[j]
<1>1. Multipliers \in Seq(Nat) /\ Multipliers # << >> /\ Multipliers[1] = 2
      /\ \A i, j \in DOMAIN Multipliers : i <= j => Multipliers[i] <= Multipliers[j]
  BY DecisionAssumption DEF Rising
<1>2. /\ Len(Multipliers) \in Nat /\ Len(Multipliers) >= 1 /\ DOMAIN Multipliers = 1..Len(Multipliers)
      /\ \A i \in 1..Len(Multipliers) : Multipliers[i] \in Nat
  BY <1>1
<1>3. 1 \in 1..Len(Multipliers)
  BY <1>2
<1> QED
  BY SMTT(30), <1>1, <1>2, <1>3

(* A price that complies leaves every higher one complying.                *)
LEMMA HigherComplies ==
  ASSUME NEW q \in Seq(Samples), NEW p \in Policies,
         NEW i \in 1..Len(Multipliers), NEW j \in 1..Len(Multipliers), i <= j,
         PriceViolates(q, p, j)
  PROVE  PriceViolates(q, p, i)
<1>1. Multipliers[i] \in Nat /\ Multipliers[j] \in Nat /\ Multipliers[i] <= Multipliers[j]
  BY PricesRise
<1>2. /\ WithMultiplier(p, Multipliers[i]) \in Policies /\ WithMultiplier(p, Multipliers[j]) \in Policies
      /\ Dearer(WithMultiplier(p, Multipliers[i]), WithMultiplier(p, Multipliers[j]))
  BY <1>1, PricedPolicy
<1> QED
  BY <1>2, DearerViolatesLess DEF PriceViolates

HalvingFollows(f, q, p, n) ==
  /\ f = [k \in 0..n |-> f[k]]
  /\ f[0] = [lo |-> 1, hi |-> Len(Multipliers)]
  /\ \A k \in 1..n : f[k] = Halved(q, p, f[k - 1])

LEMMA HalvingExists ==
  ASSUME NEW q, NEW p, NEW n \in Nat
  PROVE  \E f : HalvingFollows(f, q, p, n)
<1> DEFINE T == {k \in Nat : \E f : HalvingFollows(f, q, p, k)}
<1>1. 0 \in T
  <2> DEFINE f == [k \in 0..0 |-> [lo |-> 1, hi |-> Len(Multipliers)]]
  <2>1. f[0] = [lo |-> 1, hi |-> Len(Multipliers)] /\ f = [k \in 0..0 |-> f[k]]
    OBVIOUS
  <2> HIDE DEF f
  <2>2. HalvingFollows(f, q, p, 0)
    BY <2>1 DEF HalvingFollows
  <2> QED
    BY <2>2
<1>2. ASSUME NEW k \in Nat, k \in T PROVE k + 1 \in T
  <2>1. PICK f : HalvingFollows(f, q, p, k)
    BY <1>2
  <2>2. PICK next : next = Halved(q, p, f[k])
    OBVIOUS
  <2> DEFINE g == [i \in 0..(k + 1) |-> IF i <= k THEN f[i] ELSE next]
  <2>3. g = [i \in 0..(k + 1) |-> g[i]] /\ g[0] = f[0]
    OBVIOUS
  <2>4. ASSUME NEW i \in 1..(k + 1) PROVE g[i] = Halved(q, p, g[i - 1])
    <3>1. g[i - 1] = f[i - 1]
      OBVIOUS
    <3>2. CASE i <= k
      <4>1. i \in 1..k /\ g[i] = f[i]
        BY <3>2
      <4> QED
        BY <2>1, <3>1, <4>1 DEF HalvingFollows
    <3>3. CASE ~(i <= k)
      <4>1. i = k + 1 /\ i - 1 = k /\ g[i] = next
        BY <3>3
      <4> QED
        BY <2>2, <3>1, <4>1
    <3> QED
      BY <3>2, <3>3
  <2> HIDE DEF g
  <2>5. HalvingFollows(g, q, p, k + 1)
    BY <2>1, <2>3, <2>4 DEF HalvingFollows
  <2> QED
    BY <2>5
<1> HIDE DEF T
<1>3. Nat \subseteq T
  BY <1>1, <1>2, SetInduction
<1> QED
  BY <1>3 DEF T

LEMMA BisectUnfolds ==
  ASSUME NEW q, NEW p
  PROVE  \E f : HalvingFollows(f, q, p, Len(Multipliers)) /\ Bisect(q, p) = f[Len(Multipliers)].hi
<1> DEFINE n == Len(Multipliers)
           Body(g) == [k \in 0..n |-> IF k = 0 THEN [lo |-> 1, hi |-> n] ELSE Halved(q, p, g[k - 1])]
           range == CHOOSE g : g = Body(g)
<1>1. Bisect(q, p) = range[n].hi
  BY DEF Bisect
<1>0. n \in Nat
  BY PricesRise
<1> HIDE DEF n
<1>2. \E g : g = Body(g)
  <2>1. PICK f : HalvingFollows(f, q, p, n)
    BY <1>0, HalvingExists
  <2>2. \A k \in 0..n : f[k] = IF k = 0 THEN [lo |-> 1, hi |-> n] ELSE Halved(q, p, f[k - 1])
    <3> TAKE k \in 0..n
    <3>1. CASE k = 0
      BY <2>1, <3>1 DEF HalvingFollows, n
    <3>2. CASE k # 0
      <4>1. k \in 1..n
        BY <3>2
      <4> QED
        BY <2>1, <3>2, <4>1 DEF HalvingFollows
    <3> QED
      BY <3>1, <3>2
  <2>3. f = [k \in 0..n |-> f[k]]
    BY <2>1 DEF HalvingFollows
  <2>4. f = Body(f)
    BY <2>2, <2>3
  <2> QED
    BY <2>4
<1>3. range = Body(range)
  BY <1>2
<1> HIDE DEF range
<1>4. \A k \in 0..n : range[k] = IF k = 0 THEN [lo |-> 1, hi |-> n] ELSE Halved(q, p, range[k - 1])
  BY <1>3
<1>5. range = [k \in 0..n |-> range[k]]
  BY <1>3
<1>6. range[0] = [lo |-> 1, hi |-> n] /\ \A k \in 1..n : range[k] = Halved(q, p, range[k - 1])
  <2>1. 0 \in 0..n /\ \A k \in 1..n : k \in 0..n /\ k # 0
    BY <1>0
  <2> QED
    BY <1>4, <2>1
<1> HIDE DEF Body
<1>7. HalvingFollows(range, q, p, n)
  BY <1>5, <1>6 DEF HalvingFollows, n
<1> QED
  BY <1>1, <1>7 DEF n

(* What the steps keep, and that they come to an end. *)
Brackets(r, q, p) ==
  /\ r = [lo |-> r.lo, hi |-> r.hi]
  /\ r.lo \in 1..Len(Multipliers) /\ r.hi \in 1..Len(Multipliers) /\ r.lo < r.hi
  /\ PriceViolates(q, p, r.lo) /\ ~PriceViolates(q, p, r.hi)

LEMMA HalvedBrackets ==
  ASSUME NEW q, NEW p, NEW r, Brackets(r, q, p)
  PROVE  LET h == Halved(q, p, r)
         IN  /\ Brackets(h, q, p)
             /\ h.hi - h.lo <= 1 \/ h.hi - h.lo < r.hi - r.lo
<1> DEFINE mid == (r.lo + r.hi) \div 2
<1>1. r.lo \in Nat /\ r.hi \in Nat /\ r.lo >= 1 /\ r.hi <= Len(Multipliers) /\ Len(Multipliers) \in Nat
  BY PricesRise DEF Brackets
<1>2. CASE r.hi - r.lo <= 1
  BY <1>2 DEF Halved
<1>3. CASE ~(r.hi - r.lo <= 1)
  <2>1. mid \in Nat /\ r.lo < mid /\ mid < r.hi
    BY <1>1, <1>3
  <2>2. mid \in 1..Len(Multipliers)
    BY <1>1, <2>1
  <2> HIDE DEF mid
  <2>3. CASE PriceViolates(q, p, mid)
    <3>1. Halved(q, p, r) = [lo |-> mid, hi |-> r.hi]
      BY <1>3, <2>3 DEF Halved, mid, Brackets
    <3> QED
      BY <1>1, <2>1, <2>2, <2>3, <3>1 DEF Brackets
  <2>4. CASE ~PriceViolates(q, p, mid)
    <3>1. Halved(q, p, r) = [lo |-> r.lo, hi |-> mid]
      BY <1>3, <2>4 DEF Halved, mid, Brackets
    <3> QED
      BY <1>1, <2>1, <2>2, <2>4, <3>1 DEF Brackets
  <2> QED
    BY <2>3, <2>4
<1> QED
  BY <1>2, <1>3

(* The search ends on the first price that complies. *)
LEMMA BisectFindsTheFirst ==
  ASSUME NEW q \in Seq(Samples), NEW p \in Policies,
         PriceViolates(q, p, 1), ~PriceViolates(q, p, Len(Multipliers))
  PROVE  /\ Bisect(q, p) \in 1..Len(Multipliers)
         /\ ~PriceViolates(q, p, Bisect(q, p))
         /\ \A i \in 1..Len(Multipliers) : i < Bisect(q, p) => PriceViolates(q, p, i)
<1> DEFINE n == Len(Multipliers)
<1>1. PICK f : HalvingFollows(f, q, p, n) /\ Bisect(q, p) = f[n].hi
  BY BisectUnfolds
<1>2. n \in Nat /\ n >= 1 /\ n # 1
  BY PricesRise
<1> DEFINE T == {k \in Nat : k <= n => /\ Brackets(f[k], q, p)
                                       /\ f[k].hi - f[k].lo <= 1 \/ f[k].hi - f[k].lo <= n - k}
<1>3. 0 \in T
  <2>1. f[0] = [lo |-> 1, hi |-> n]
    BY <1>1 DEF HalvingFollows
  <2> QED
    BY <1>2, <2>1 DEF Brackets
<1>4. ASSUME NEW k \in Nat, k \in T PROVE k + 1 \in T
  <2> SUFFICES ASSUME k + 1 <= n
               PROVE  /\ Brackets(f[k + 1], q, p)
                      /\ f[k + 1].hi - f[k + 1].lo <= 1 \/ f[k + 1].hi - f[k + 1].lo <= n - (k + 1)
    OBVIOUS
  <2>1. k + 1 \in 1..n /\ (k + 1) - 1 = k /\ k <= n
    BY <1>2
  <2>2. Brackets(f[k], q, p) /\ (f[k].hi - f[k].lo <= 1 \/ f[k].hi - f[k].lo <= n - k)
    BY <1>4, <2>1
  <2>3. f[k + 1] = Halved(q, p, f[k])
    BY <1>1, <2>1 DEF HalvingFollows
  <2> HIDE DEF n
  <2>4. /\ Brackets(f[k + 1], q, p)
        /\ f[k + 1].hi - f[k + 1].lo <= 1 \/ f[k + 1].hi - f[k + 1].lo < f[k].hi - f[k].lo
    BY <2>2, <2>3, HalvedBrackets
  <2>5. f[k].hi \in Int /\ f[k].lo \in Int /\ f[k + 1].hi \in Int /\ f[k + 1].lo \in Int
    BY <2>2, <2>4 DEF Brackets
  <2> QED
    BY SMTT(30), <1>2, <2>2, <2>4, <2>5
<1> HIDE DEF T
<1>5. n \in T
  BY <1>2, <1>3, <1>4, SetInduction
<1>6. /\ Brackets(f[n], q, p)
      /\ f[n].hi - f[n].lo <= 1 \/ f[n].hi - f[n].lo <= n - n
  BY <1>2, <1>5 DEF T
<1>7. f[n].lo \in 1..n /\ f[n].hi \in 1..n /\ f[n].hi = f[n].lo + 1
      /\ PriceViolates(q, p, f[n].lo) /\ ~PriceViolates(q, p, f[n].hi)
  BY <1>2, <1>6 DEF Brackets
<1>8. ASSUME NEW i \in 1..n, i < f[n].hi PROVE PriceViolates(q, p, i)
  <2>1. i <= f[n].lo
    BY <1>7, <1>8
  <2> QED
    BY <1>7, <2>1, HigherComplies
<1> QED
  BY <1>1, <1>7, <1>8

-----------------------------------------------------------------------------
(* Sums over a portfolio. *)
SumFollows(f, terms, n) ==
  /\ f = [k \in 0..n |-> f[k]]
  /\ f[0] = 0
  /\ \A k \in 1..n : f[k] = f[k - 1] + terms[k]

LEMMA SumExists ==
  ASSUME NEW terms, NEW n \in Nat
  PROVE  \E f : SumFollows(f, terms, n)
<1> DEFINE T == {k \in Nat : \E f : SumFollows(f, terms, k)}
<1>1. 0 \in T
  <2> DEFINE f == [k \in 0..0 |-> 0]
  <2>1. f[0] = 0 /\ f = [k \in 0..0 |-> f[k]]
    OBVIOUS
  <2> HIDE DEF f
  <2>2. SumFollows(f, terms, 0)
    BY <2>1 DEF SumFollows
  <2> QED
    BY <2>2
<1>2. ASSUME NEW k \in Nat, k \in T PROVE k + 1 \in T
  <2>1. PICK f : SumFollows(f, terms, k)
    BY <1>2
  <2>2. PICK next : next = f[k] + terms[k + 1]
    OBVIOUS
  <2> DEFINE g == [i \in 0..(k + 1) |-> IF i <= k THEN f[i] ELSE next]
  <2>3. g = [i \in 0..(k + 1) |-> g[i]] /\ g[0] = f[0]
    OBVIOUS
  <2>4. ASSUME NEW i \in 1..(k + 1) PROVE g[i] = g[i - 1] + terms[i]
    <3>1. g[i - 1] = f[i - 1]
      OBVIOUS
    <3>2. CASE i <= k
      <4>1. i \in 1..k /\ g[i] = f[i]
        BY <3>2
      <4>2. f[i] = f[i - 1] + terms[i]
        BY <2>1, <4>1 DEF SumFollows
      <4> HIDE DEF g
      <4> QED
        BY <3>1, <4>1, <4>2
    <3>3. CASE ~(i <= k)
      <4>1. i = k + 1 /\ i - 1 = k /\ g[i] = next
        BY <3>3
      <4> HIDE DEF g
      <4> QED
        BY <2>2, <3>1, <4>1
    <3> QED
      BY <3>2, <3>3
  <2> HIDE DEF g
  <2>5. SumFollows(g, terms, k + 1)
    BY <2>1, <2>3, <2>4 DEF SumFollows
  <2> QED
    BY <2>5
<1> HIDE DEF T
<1>3. Nat \subseteq T
  BY <1>1, <1>2, SetInduction
<1> QED
  BY <1>3 DEF T

LEMMA TotalUnfolds ==
  ASSUME NEW terms, NEW n \in Nat, Len(terms) = n
  PROVE  \E f : SumFollows(f, terms, n) /\ Total(terms) = f[n]
<1> DEFINE Body(g) == [k \in 0..n |-> IF k = 0 THEN 0 ELSE g[k - 1] + terms[k]]
           sum == CHOOSE g : g = Body(g)
<1>1. Total(terms) = sum[n]
  BY DEF Total
<1>2. \E g : g = Body(g)
  <2>1. PICK f : SumFollows(f, terms, n)
    BY SumExists
  <2>2. \A k \in 0..n : f[k] = IF k = 0 THEN 0 ELSE f[k - 1] + terms[k]
    <3> TAKE k \in 0..n
    <3>1. CASE k = 0
      BY <2>1, <3>1 DEF SumFollows
    <3>2. CASE k # 0
      <4>1. k \in 1..n
        BY <3>2
      <4>2. f[k] = f[k - 1] + terms[k]
        BY <2>1, <4>1 DEF SumFollows
      <4> QED
        BY <3>2, <4>2
    <3> QED
      BY <3>1, <3>2
  <2>3. f = [k \in 0..n |-> f[k]]
    BY <2>1 DEF SumFollows
  <2>4. f = Body(f)
    BY <2>2, <2>3
  <2> QED
    BY <2>4
<1>3. sum = Body(sum)
  BY <1>2
<1> HIDE DEF sum
<1>4. \A k \in 0..n : sum[k] = IF k = 0 THEN 0 ELSE sum[k - 1] + terms[k]
  BY <1>3
<1>5. sum = [k \in 0..n |-> sum[k]]
  BY <1>3
<1>6. sum[0] = 0 /\ \A k \in 1..n : sum[k] = sum[k - 1] + terms[k]
  <2>1. 0 \in 0..n /\ \A k \in 1..n : k \in 0..n /\ k # 0
    OBVIOUS
  <2> HIDE DEF Body
  <2> QED
    BY <1>4, <2>1
<1> HIDE DEF Body
<1>7. SumFollows(sum, terms, n)
  BY <1>5, <1>6 DEF SumFollows
<1> QED
  BY <1>1, <1>7

LEMMA TotalIsWhole ==
  ASSUME NEW n \in Nat, NEW a \in [1..n -> Int]
  PROVE  Total(a) \in Int
<1>1. Len(a) = n
  OBVIOUS
<1>2. PICK f : SumFollows(f, a, n) /\ Total(a) = f[n]
  BY <1>1, TotalUnfolds
<1> DEFINE T == {k \in Nat : k <= n => f[k] \in Int}
<1>3. 0 \in T
  BY <1>2 DEF SumFollows
<1>4. ASSUME NEW k \in Nat, k \in T PROVE k + 1 \in T
  <2> SUFFICES ASSUME k + 1 <= n PROVE f[k + 1] \in Int
    OBVIOUS
  <2>1. k + 1 \in 1..n /\ (k + 1) - 1 = k /\ k <= n
    OBVIOUS
  <2>2. f[k + 1] = f[k] + a[k + 1]
    BY <1>2, <2>1 DEF SumFollows
  <2>3. f[k] \in Int /\ a[k + 1] \in Int
    BY <1>4, <2>1
  <2> QED
    BY <2>2, <2>3
<1> HIDE DEF T
<1>5. n \in T
  BY <1>3, <1>4, SetInduction
<1> QED
  BY <1>2, <1>5 DEF T

LEMMA OneMoreTerm ==
  ASSUME NEW x \in Int, NEW y \in Int, NEW s \in Int, NEW t \in Int, NEW k \in Nat, NEW D \in Nat,
         2 * (x - y * D) <= k * D, -(2 * (x - y * D)) <= k * D,
         2 * (s - t * D) <= D, -(2 * (s - t * D)) <= D
  PROVE  /\ 2 * ((x + s) - (y + t) * D) <= (k + 1) * D
         /\ -(2 * ((x + s) - (y + t) * D)) <= (k + 1) * D
<1>1. (y + t) * D = y * D + t * D /\ (k + 1) * D = k * D + D
      /\ y * D \in Int /\ t * D \in Int /\ k * D \in Int
  OBVIOUS
<1> QED
  BY <1>1

(* Sums that differ by at most half a unit a term differ by at most half a *)
(* unit times the number of the terms.                                     *)
LEMMA TotalsWithin ==
  ASSUME NEW n \in Nat, NEW D \in Nat, NEW a \in [1..n -> Int], NEW b \in [1..n -> Int],
         \A i \in 1..n : 2 * (a[i] - b[i] * D) <= D /\ -(2 * (a[i] - b[i] * D)) <= D
  PROVE  LET gap == 2 * (Total(a) - Total(b) * D)
         IN  gap <= n * D /\ -gap <= n * D
<1>1. Len(a) = n /\ Len(b) = n
  OBVIOUS
<1>2. PICK f : SumFollows(f, a, n) /\ Total(a) = f[n]
  BY <1>1, TotalUnfolds
<1>3. PICK g : SumFollows(g, b, n) /\ Total(b) = g[n]
  BY <1>1, TotalUnfolds
<1> DEFINE Near(k) == /\ f[k] \in Int /\ g[k] \in Int
                      /\ 2 * (f[k] - g[k] * D) <= k * D /\ -(2 * (f[k] - g[k] * D)) <= k * D
           T == {k \in Nat : k <= n => Near(k)}
<1>4. 0 \in T
  <2>1. f[0] = 0 /\ g[0] = 0
    BY <1>2, <1>3 DEF SumFollows
  <2> QED
    BY <2>1
<1>5. ASSUME NEW k \in Nat, k \in T PROVE k + 1 \in T
  <2> SUFFICES ASSUME k + 1 <= n PROVE Near(k + 1)
    OBVIOUS
  <2>1. k + 1 \in 1..n /\ (k + 1) - 1 = k /\ k <= n
    OBVIOUS
  <2>2. Near(k)
    BY <1>5, <2>1
  <2>3. f[k + 1] = f[k] + a[k + 1] /\ g[k + 1] = g[k] + b[k + 1]
    BY <1>2, <1>3, <2>1 DEF SumFollows
  <2>4. a[k + 1] \in Int /\ b[k + 1] \in Int
        /\ 2 * (a[k + 1] - b[k + 1] * D) <= D /\ -(2 * (a[k + 1] - b[k + 1] * D)) <= D
    BY <2>1
  <2> DEFINE x == f[k]
             y == g[k]
             s == a[k + 1]
             t == b[k + 1]
  <2>5. /\ x \in Int /\ y \in Int /\ s \in Int /\ t \in Int
        /\ 2 * (x - y * D) <= k * D /\ -(2 * (x - y * D)) <= k * D
        /\ 2 * (s - t * D) <= D /\ -(2 * (s - t * D)) <= D
    BY <2>2, <2>4
  <2>6. f[k + 1] = x + s /\ g[k + 1] = y + t
    BY <2>3
  <2> HIDE DEF x, y, s, t
  <2>7. /\ 2 * ((x + s) - (y + t) * D) <= (k + 1) * D
        /\ -(2 * ((x + s) - (y + t) * D)) <= (k + 1) * D
    BY <2>5, OneMoreTerm
  <2>8. x + s \in Int /\ y + t \in Int
    BY <2>5
  <2> QED
    BY <2>6, <2>7, <2>8
<1> HIDE DEF T
<1>6. n \in T
  BY <1>4, <1>5, SetInduction
<1>7. Near(n)
  BY <1>6 DEF T
<1> QED
  BY <1>2, <1>3, <1>7

LEMMA Division ==
  ASSUME NEW a \in Int, NEW b \in Nat, b > 0
  PROVE  a \div b \in Int /\ b * (a \div b) <= a /\ a < b * (a \div b) + b
OBVIOUS

LEMMA RoundsToTheNearest ==
  ASSUME NEW x \in Int, NEW D \in Nat, D > 0
  PROVE  /\ RoundTo(x, D) \in Int
         /\ 2 * (x - RoundTo(x, D) * D) <= D /\ -(2 * (x - RoundTo(x, D) * D)) <= D
<1> DEFINE k == (2 * x + D) \div (2 * D)
<1>1. k \in Int /\ (2 * D) * k <= 2 * x + D /\ 2 * x + D < (2 * D) * k + 2 * D
  BY Division
<1>2. RoundTo(x, D) = k
  BY DEF RoundTo
<1> HIDE DEF k
<1>3. (2 * D) * k = 2 * (k * D) /\ k * D \in Int
  BY <1>1
<1> QED
  BY <1>1, <1>2, <1>3

(* What one payment adds to the frontier, and what is reported for it. *)
Reported(s, policy) ==
  IF ~s.isFraud THEN 0 ELSE LiabilityAvoided(s.amountPaise, s.recovery, policy, Chosen(s, policy))

LEMMA ReportedIsSaved ==
  ASSUME NEW s \in Samples, NEW p \in Policies
  PROVE  LET D == Unit * Unit * Unit
             a == SavedByIntervening(s, p)
             b == Reported(s, p)
         IN  /\ a \in Int /\ b \in Int
             /\ 2 * (a - b * D) <= D /\ -(2 * (a - b * D)) <= D
<1> DEFINE D == Unit * Unit * Unit
           l == Unit - s.recovery
           e == CASE Chosen(s, p) = "APPROVE" -> 0
                  [] Chosen(s, p) = "STEP_UP" -> p.stepUpCatchRate
                  [] Chosen(s, p) = "BLOCK"   -> Unit
           x == s.amountPaise * (l * p.liabilityShare) * e
<1>1. Chosen(s, p) \in {"APPROVE", "STEP_UP", "BLOCK"}
  BY PolicyIsGood, SampleIsGood, ChosenByCost DEF Chosen
<1>2. /\ s.amountPaise \in Int /\ l \in Int /\ p.liabilityShare \in Int /\ p.stepUpCatchRate \in Int
      /\ Unit \in Nat /\ Unit > 0 /\ s.recovery \in 0..Unit
  BY UnitIsPositive DEF Samples, Policies, Rates
<1>3. D \in Nat /\ D > 0
  <2>1. Unit * Unit \in Nat /\ Unit * Unit > 0
    BY <1>2
  <2> QED
    BY <1>2, <2>1
<1>4. LiabilityPerPaise(s.recovery, p) = l * p.liabilityShare
  BY <1>2 DEF LiabilityPerPaise, Clamp
<1>5. e \in Int
  <2>1. CASE Chosen(s, p) = "APPROVE"
    BY <2>1
  <2>2. CASE Chosen(s, p) = "STEP_UP"
    BY <1>2, <2>2
  <2>3. CASE Chosen(s, p) = "BLOCK"
    BY <1>2, <2>3
  <2> QED
    BY <1>1, <2>1, <2>2, <2>3
<1>6. x \in Int
  <2>1. s.amountPaise * (l * p.liabilityShare) \in Int
    BY <1>2
  <2> HIDE DEF e, l
  <2> QED
    BY <1>5, <2>1
<1>7. s.isFraud => Reported(s, p) = RoundTo(x, D)
  BY <1>4 DEF Reported, LiabilityAvoided
<1>8. s.isFraud => SavedByIntervening(s, p) = x
  <2>1. CASE Chosen(s, p) = "APPROVE"
    <3>1. e = 0
      BY <2>1
    <3> QED
      BY <1>2, <2>1, <3>1 DEF SavedByIntervening, Intervened
  <2>2. CASE Chosen(s, p) = "STEP_UP"
    <3>1. e = p.stepUpCatchRate
      BY <2>2
    <3> QED
      BY <1>2, <2>2, <3>1 DEF SavedByIntervening, Intervened
  <2>3. CASE Chosen(s, p) = "BLOCK"
    <3>1. e = Unit
      BY <2>3
    <3> QED
      BY <1>2, <2>3, <3>1 DEF SavedByIntervening, Intervened
  <2> QED
    BY <1>1, <2>1, <2>2, <2>3
<1>9. CASE s.isFraud
  <2> HIDE DEF D, x
  <2> QED
    BY <1>3, <1>6, <1>7, <1>8, <1>9, RoundsToTheNearest DEF D
<1>10. CASE ~s.isFraud
  <2>1. SavedByIntervening(s, p) = 0 /\ Reported(s, p) = 0
    BY <1>10 DEF SavedByIntervening, Reported
  <2> HIDE DEF D
  <2> QED
    BY <1>3, <2>1 DEF D
<1> QED
  BY <1>9, <1>10

-----------------------------------------------------------------------------
(* The cases a run can be in. *)
TrailSound ==
  case.kind = "trail" =>
    /\ case = [kind |-> "trail", published |-> case.published, copy |-> case.copy, edits |-> case.edits]
    /\ IsSealed(case.published)
    /\ IsCopy(case.copy)

PaymentSound ==
  case.kind = "payment" =>
    /\ case = [kind |-> "payment", policy |-> case.policy, size |-> case.size,
               inputs |-> [amountPaise      |-> Amounts[case.size],
                           fraudProbability |-> case.inputs.fraudProbability,
                           recovery         |-> case.inputs.recovery]]
    /\ case.policy \in Prices
    /\ case.size \in 1..Len(Amounts)
    /\ case.inputs.fraudProbability \in 0..Unit
    /\ case.inputs.recovery \in 0..Unit

ChallengeSound ==
  case.kind = "challenge" =>
    /\ case = [kind |-> "challenge", context |-> case.context]
    /\ case.context \in [ContextFlags -> BOOLEAN]

PortfolioSound ==
  case.kind = "portfolio" =>
    /\ case = [kind |-> "portfolio", samples |-> case.samples, price |-> case.price, policy |-> case.policy]
    /\ case.samples \in Seq(Samples)
    /\ case.price \in 1..Len(Multipliers)
    /\ case.policy \in Policies

CaseSound ==
  "kind" \in DOMAIN case /\ TrailSound /\ PaymentSound /\ ChallengeSound /\ PortfolioSound

LEMMA AmountsAreNatural ==
  Len(Amounts) \in Nat /\ DOMAIN Amounts = 1..Len(Amounts) /\ \A k \in DOMAIN Amounts : Amounts[k] \in Nat
BY DecisionAssumption

LEMMA PaymentIsGood ==
  ASSUME case.kind = "payment", PaymentSound
  PROVE  GoodInputs(case.inputs) /\ GoodPolicy(case.policy)
<1>1. GoodPolicy(case.policy)
  BY DecisionAssumption, PolicyIsGood DEF PaymentSound
<1>2. /\ case.inputs.amountPaise = Amounts[case.size]
      /\ case.inputs.fraudProbability \in 0..Unit /\ case.inputs.recovery \in 0..Unit
  BY DEF PaymentSound
<1>3. Amounts[case.size] \in Nat
  BY DecisionAssumption DEF PaymentSound
<1> QED
  BY <1>1, <1>2, <1>3, UnitIsPositive DEF GoodInputs

LEMMA CaseInitially == Init => CaseSound
<1> SUFFICES ASSUME Init PROVE CaseSound
  OBVIOUS
<1>1. CASE StartChallenge
  BY <1>1 DEF StartChallenge, ContextWith, CaseSound, TrailSound, PaymentSound, ChallengeSound, PortfolioSound
<1>2. CASE StartPayment
  <2>1. PICK policy \in Prices, recovery \in 0..Unit :
          case = [kind |-> "payment", policy |-> policy, size |-> 1,
                  inputs |-> [amountPaise |-> Amounts[1], fraudProbability |-> 0, recovery |-> recovery]]
    BY <1>2 DEF StartPayment
  <2>2. 1 \in 1..Len(Amounts)
    BY DecisionAssumption
  <2>3. 0 \in 0..Unit
    BY UnitIsPositive
  <2> QED
    BY <2>1, <2>2, <2>3 DEF CaseSound, TrailSound, PaymentSound, ChallengeSound, PortfolioSound
<1>3. CASE StartPortfolio
  <2>1. PICK samples \in Portfolios, policy \in BasePolicies, caps \in Ceilings :
          case = [kind |-> "portfolio", samples |-> samples, price |-> 1,
                  policy |-> [policy EXCEPT !.maxStepUpRate = caps[1], !.maxFalsePositiveRate = caps[2]]]
    BY <1>3 DEF StartPortfolio
  <2>2. policy \in Policies /\ samples \in Seq(Samples)
        /\ caps[1] \in Rates \cup {NoCap} /\ caps[2] \in Rates \cup {NoCap}
    BY DecisionAssumption
  <2>3. [policy EXCEPT !.maxStepUpRate = caps[1], !.maxFalsePositiveRate = caps[2]] \in Policies
    BY <2>2 DEF Policies
  <2>4. 1 \in 1..Len(Multipliers)
    BY PricesRise
  <2> QED
    BY <2>1, <2>2, <2>3, <2>4 DEF CaseSound, TrailSound, PaymentSound, ChallengeSound, PortfolioSound
<1>4. CASE StartEvidence
  BY <1>4 DEF StartEvidence, CaseSound, TrailSound, PaymentSound, ChallengeSound, PortfolioSound
<1>5. CASE StartChains
  BY <1>5 DEF StartChains, CaseSound, TrailSound, PaymentSound, ChallengeSound, PortfolioSound
<1>6. CASE StartTrail
  <2>1. PICK trail \in Trails :
          case = [kind |-> "trail", published |-> Seal(trail), copy |-> Seal(trail), edits |-> 0]
    BY <1>6 DEF StartTrail, L!FromJsonl
  <2>2. IsSealed(Seal(trail))
    BY DecisionAssumption, SealIsSealed
  <2> HIDE DEF Seal
  <2>3. IsCopy(Seal(trail))
    BY <2>2 DEF IsSealed
  <2> QED
    BY <2>1, <2>2, <2>3 DEF CaseSound, TrailSound, PaymentSound, ChallengeSound, PortfolioSound
<1>7. CASE StartEpisode
  BY <1>7 DEF StartEpisode, CaseSound, TrailSound, PaymentSound, ChallengeSound, PortfolioSound
<1> QED
  BY <1>1, <1>2, <1>3, <1>4, <1>5, <1>6, <1>7 DEF Init

LEMMA CaseStep == CaseSound /\ [Next]_vars => CaseSound'
<1> SUFFICES ASSUME CaseSound, [Next]_vars PROVE CaseSound'
  OBVIOUS
<1> USE DEF CaseSound, TrailSound, PaymentSound, ChallengeSound, PortfolioSound
<1>1. ASSUME NEW f \in ContextFlags, RaiseFlag(f) PROVE CaseSound'
  <2>1. case' = [kind |-> "challenge", context |-> [case.context EXCEPT ![f] = TRUE]]
    BY <1>1 DEF RaiseFlag
  <2>2. [case.context EXCEPT ![f] = TRUE] \in [ContextFlags -> BOOLEAN]
    BY <1>1 DEF RaiseFlag
  <2> QED
    BY <2>1, <2>2
<1>2. CASE RaiseRisk
  <2>1. case' = [kind |-> "payment", policy |-> case.policy, size |-> case.size,
                 inputs |-> [amountPaise      |-> Amounts[case.size],
                             fraudProbability |-> case.inputs.fraudProbability + 1,
                             recovery         |-> case.inputs.recovery]]
    BY <1>2 DEF RaiseRisk
  <2>2. case.inputs.fraudProbability + 1 \in 0..Unit
    BY <1>2, UnitIsPositive DEF RaiseRisk
  <2> QED
    BY <1>2, <2>1, <2>2 DEF RaiseRisk
<1>3. CASE RaiseAmount
  <2>1. case' = [kind |-> "payment", policy |-> case.policy, size |-> case.size + 1,
                 inputs |-> [amountPaise      |-> Amounts[case.size + 1],
                             fraudProbability |-> case.inputs.fraudProbability,
                             recovery         |-> case.inputs.recovery]]
    <3>1. case = [kind |-> "payment", policy |-> case.policy, size |-> case.size, inputs |-> case.inputs]
      BY <1>3 DEF RaiseAmount
    <3>2. case.inputs = [amountPaise      |-> Amounts[case.size],
                         fraudProbability |-> case.inputs.fraudProbability,
                         recovery         |-> case.inputs.recovery]
      BY <1>3 DEF RaiseAmount
    <3> HIDE DEF CaseSound, TrailSound, PaymentSound, ChallengeSound, PortfolioSound
    <3>3. case' = [kind |-> "payment", policy |-> case.policy, size |-> case.size + 1,
                   inputs |-> [case.inputs EXCEPT !.amountPaise = Amounts[case.size + 1]]]
      BY <1>3, <3>1 DEF RaiseAmount
    <3> QED
      BY <3>2, <3>3
  <2>2. case.size + 1 \in 1..Len(Amounts)
    BY <1>3, AmountsAreNatural DEF RaiseAmount
  <2>3. case.policy \in Prices /\ case.inputs.fraudProbability \in 0..Unit /\ case.inputs.recovery \in 0..Unit
    BY <1>3 DEF RaiseAmount
  <2>4. /\ "kind" \in DOMAIN case' /\ case'.kind = "payment" /\ case'.policy = case.policy
        /\ case'.size = case.size + 1
        /\ case'.inputs = [amountPaise      |-> Amounts[case.size + 1],
                           fraudProbability |-> case.inputs.fraudProbability,
                           recovery         |-> case.inputs.recovery]
    BY <2>1
  <2>5. PaymentSound'
    BY <2>1, <2>2, <2>3, <2>4
  <2> QED
    BY <2>4, <2>5
<1>4. CASE PriceFriction
  <2>1. case' = [kind |-> "portfolio", samples |-> case.samples, price |-> case.price + 1, policy |-> case.policy]
    BY <1>4 DEF PriceFriction
  <2>2. case.price + 1 \in 1..Len(Multipliers)
    BY <1>4, PricesRise DEF PriceFriction
  <2> QED
    BY <1>4, <2>1, <2>2 DEF PriceFriction
<1>5. CASE RaiseSignal
  BY <1>5 DEF RaiseSignal
<1>6. CASE Wait
  BY <1>6 DEF Wait
<1>7. CASE Alter
  <2>4. PICK i \in DOMAIN case.copy : \E copy \in Edited(case.copy, i) :
          case' = [case EXCEPT !.copy = copy, !.edits = @ + 1]
    BY <1>7 DEF Alter
  <2>1. PICK copy \in Edited(case.copy, i) :
          case' = [case EXCEPT !.copy = copy, !.edits = @ + 1]
    BY <2>4
  <2>2. IsCopy(copy)
    BY <1>7, CopyEdited DEF Alter
  <2>3. case' = [kind |-> "trail", published |-> case.published, copy |-> copy, edits |-> case.edits + 1]
    BY <1>7, <2>1 DEF Alter
  <2> QED
    BY <1>7, <2>2, <2>3 DEF Alter
<1>8. CASE PlayPayment
  BY <1>8 DEF PlayPayment
<1>9. CASE UNCHANGED vars
  BY <1>9 DEF vars
<1> QED
  BY <1>1, <1>2, <1>3, <1>4, <1>5, <1>6, <1>7, <1>8, <1>9 DEF Next

THEOREM CaseIsSound == Spec => []CaseSound
BY CaseInitially, CaseStep, PTL DEF Spec

(* An exported copy that verifies and ends in the published head is the    *)
(* published trail, whatever was done to it, however often and to however  *)
(* long a trail.                                                           *)
THEOREM AlterationsAreCaught == Spec => []AlterationIsCaught
<1>1. CaseSound => AlterationIsCaught
  BY SealedVerifies, HeadCommits DEF CaseSound, TrailSound, IsSealed, AlterationIsCaught
<1> QED
  BY <1>1, CaseIsSound, PTL

(* The closed form of the boundaries and the comparison of the costs draw  *)
(* one band, at every amount, probability, recovery and price.             *)
THEOREM HoldBandIsAsDrawn == Spec => []HoldBandIsExact
<1>1. CaseSound => HoldBandIsExact
  <2> SUFFICES ASSUME CaseSound, case.kind = "payment", PricesInOrder(case.policy)
               PROVE  HoldBandIsExact
    BY DEF HoldBandIsExact
  <2>1. GoodInputs(case.inputs) /\ GoodPolicy(case.policy)
    BY PaymentIsGood DEF CaseSound
  <2> QED
    BY <2>1, BandIsExact DEF HoldBandIsExact, Decided
<1> QED
  BY <1>1, CaseIsSound, PTL

(* One more sign. *)
LEMMA SignsStep == CaseSound /\ [Next]_vars => MoreSignsNeverRelax
<1> SUFFICES ASSUME CaseSound, NEW f \in ContextFlags, RaiseFlag(f)
             PROVE  /\ Independence(SelectChallenge(case'.context))
                          >= Independence(SelectChallenge(case.context))
                    /\ CoercionIsWaitedOut'
  BY DEF MoreSignsNeverRelax
<1> DEFINE c == case.context
           d == case'.context
<1>1. c \in [ContextFlags -> BOOLEAN] /\ d = [c EXCEPT ![f] = TRUE] /\ case'.kind = "challenge"
  BY DEF RaiseFlag, CaseSound, ChallengeSound
<1> HIDE DEF c, d
<1>2. d \in [ContextFlags -> BOOLEAN] /\ \A g \in ContextFlags : c[g] => d[g]
  BY <1>1
<1>3. ASSUME NEW e \in [ContextFlags -> BOOLEAN]
      PROVE  Independence(SelectChallenge(e)) =
               IF Observed(e) THEN 4 ELSE IF Coerced(e) THEN 3
               ELSE IF e.isNewDevice \/ e.simChangedRecently THEN 2
               ELSE IF e.material /\ e.firstTimePayee THEN 1 ELSE 0
  BY DEF Independence, SelectChallenge, Observed, Coerced
<1>4. (Observed(c) => Observed(d)) /\ (Coerced(c) => Coerced(d))
      /\ (c.isNewDevice => d.isNewDevice) /\ (c.simChangedRecently => d.simChangedRecently)
      /\ (c.material => d.material) /\ (c.firstTimePayee => d.firstTimePayee)
  BY <1>2 DEF Observed, Coerced, ContextFlags
<1>5. Observed(d) => Coerced(d)
  BY DEF Observed, Coerced
<1>6. Independence(SelectChallenge(d)) >= Independence(SelectChallenge(c))
  <2> DEFINE Rank(e) == IF Observed(e) THEN 4 ELSE IF Coerced(e) THEN 3
                        ELSE IF e.isNewDevice \/ e.simChangedRecently THEN 2
                        ELSE IF e.material /\ e.firstTimePayee THEN 1 ELSE 0
  <2>1. Independence(SelectChallenge(d)) = Rank(d) /\ Independence(SelectChallenge(c)) = Rank(c)
    BY <1>1, <1>2, <1>3
  <2>2. Rank(d) >= Rank(c)
    BY <1>4, <1>5
  <2> QED
    BY <2>1, <2>2
<1>7. CoercionIsWaitedOut'
  <2>1. /\ SelectChallenge(d) \notin Disqualified(d)
        /\ Coerced(d) => SelectChallenge(d) \in {"DELAYED_BIOMETRIC", "COOLING_PERIOD_SELF_CANCEL"}
    BY DEF SelectChallenge, Disqualified, Observed, Coerced
  <2> QED
    BY <2>1 DEF CoercionIsWaitedOut, d
<1> QED
  BY <1>6, <1>7 DEF c, d

LEMMA MoneyStep == CaseSound /\ [Next]_vars => MoreMoneyNeverRelaxes
<1> SUFFICES ASSUME CaseSound, CaseSound', RaiseAmount
             PROVE  Severity(Decided') >= Severity(Decided)
  BY CaseStep DEF MoreMoneyNeverRelaxes
<1>1. /\ GoodInputs(case.inputs) /\ GoodPolicy(case.policy) /\ case.kind = "payment"
      /\ case.inputs.amountPaise = Amounts[case.size]
  BY PaymentIsGood DEF RaiseAmount, CaseSound, PaymentSound
<1>2. /\ case'.kind = "payment" /\ case'.policy = case.policy
      /\ case'.inputs.recovery = case.inputs.recovery
      /\ case'.inputs.fraudProbability = case.inputs.fraudProbability
      /\ case'.inputs.amountPaise = Amounts[case.size + 1]
  BY DEF RaiseAmount, CaseSound, PaymentSound
<1>3. GoodInputs(case'.inputs)
  <2>1. Amounts[case.size + 1] \in Nat
    BY SMTT(30), DecisionAssumption DEF RaiseAmount, CaseSound, PaymentSound
  <2> QED
    BY <1>1, <1>2, <2>1 DEF GoodInputs
<1>4. Amounts[case.size] <= Amounts[case.size + 1]
  <2>1. case.size \in DOMAIN Amounts /\ case.size + 1 \in DOMAIN Amounts /\ case.size <= case.size + 1
    BY SMTT(30), DecisionAssumption DEF RaiseAmount, CaseSound, PaymentSound
  <2> QED
    BY <2>1, DecisionAssumption DEF Rising
<1>5. Severity(Decide(case'.inputs, case.policy).chosen)
        >= Severity(Decide(case.inputs, case.policy).chosen)
  BY <1>1, <1>2, <1>3, <1>4, MoreMoneySoftensNothing
<1> QED
  BY <1>2, <1>5 DEF Decided

LEMMA RiskStep == CaseSound /\ [Next]_vars => MoreRiskNeverRelaxes
<1> SUFFICES ASSUME CaseSound, RaiseRisk,
                    case.policy.stepUpAbandonmentRate <= case.policy.blockAbandonmentRate
             PROVE  Severity(Decided') >= Severity(Decided)
  BY DEF MoreRiskNeverRelaxes
<1>1. GoodInputs(case.inputs) /\ GoodPolicy(case.policy) /\ case.kind = "payment"
  BY PaymentIsGood DEF RaiseRisk, CaseSound
<1>2. /\ case'.policy = case.policy
      /\ case'.inputs.recovery = case.inputs.recovery
      /\ case'.inputs.amountPaise = case.inputs.amountPaise
      /\ case'.inputs.fraudProbability = case.inputs.fraudProbability + 1
  BY DEF RaiseRisk, CaseSound, PaymentSound
<1>3. GoodInputs(case'.inputs) /\ case.inputs.fraudProbability <= case'.inputs.fraudProbability
  BY <1>1, <1>2, UnitIsPositive DEF GoodInputs, RaiseRisk
<1>4. Severity(Decide(case'.inputs, case.policy).chosen)
        >= Severity(Decide(case.inputs, case.policy).chosen)
  BY <1>1, <1>2, <1>3, MoreRiskSoftensNothing
<1> QED
  BY <1>2, <1>4 DEF Decided

(* Dearer friction. *)
LEMMA FrictionStep == CaseSound /\ [Next]_vars => DearerNeverInterruptsMore
<1> SUFFICES ASSUME CaseSound, PriceFriction
             PROVE  DearerNeverInterruptsMore
  BY DEF DearerNeverInterruptsMore
<1>1. /\ case.samples \in Seq(Samples) /\ case.policy \in Policies
      /\ case.price \in 1..Len(Multipliers) /\ case.price + 1 \in 1..Len(Multipliers)
      /\ case'.price = case.price + 1
  BY PricesRise DEF PriceFriction, CaseSound, PortfolioSound
<1> DEFINE p == WithMultiplier(case.policy, Multipliers[case.price])
           d == WithMultiplier(case.policy, Multipliers[case.price + 1])
<1>2. p \in Policies /\ d \in Policies /\ Dearer(p, d)
  <2>1. Multipliers[case.price] \in Nat /\ Multipliers[case.price + 1] \in Nat
        /\ Multipliers[case.price] <= Multipliers[case.price + 1]
    BY <1>1, PricesRise
  <2> QED
    BY <1>1, <2>1, PricedPolicy
<1> HIDE DEF p, d
<1>3. LET now  == EvaluatePolicy(case.samples, p)
          next == EvaluatePolicy(case.samples, d)
      IN  /\ next.stepUp + next.block <= now.stepUp + now.block
          /\ next.legitIntervened <= now.legitIntervened
          /\ next.fraudIntervened <= now.fraudIntervened
  BY <1>1, <1>2, DearerInterruptsLess
<1> QED
  BY <1>1, <1>3 DEF DearerNeverInterruptsMore, p, d

(* More signs, more money and more risk never earn a milder answer, and    *)
(* dearer friction never interrupts more.                                  *)
THEOREM WorseIsNeverMilder ==
  Spec => [][/\ MoreSignsNeverRelax /\ MoreMoneyNeverRelaxes /\ MoreRiskNeverRelaxes
             /\ DearerNeverInterruptsMore]_vars
BY CaseIsSound, SignsStep, MoneyStep, RiskStep, FrictionStep, PTL DEF Spec

-----------------------------------------------------------------------------
(* The solver's answer. *)

(* An answer within the ceilings is one the solver accepts.                *)
Within(r, cap) ==
  /\ cap.maxStepUpRate # NoCap => (r.stepUp + r.block) * Unit <= cap.maxStepUpRate * r.screened
  /\ cap.maxFalsePositiveRate # NoCap => r.legitIntervened * Unit <= cap.maxFalsePositiveRate * r.legit

LEMMA WithinMeansNoViolation ==
  ASSUME NEW q \in Seq(Samples), NEW p \in Policies, NEW cap \in Policies
  PROVE  Within(EvaluatePolicy(q, p), cap) <=> ~Violates(EvaluatePolicy(q, p), cap)
<1> DEFINE r == EvaluatePolicy(q, p)
           n == r.stepUp + r.block
           m == r.legitIntervened
           N == r.screened
           M == r.legit
           c == cap.maxStepUpRate
           k == cap.maxFalsePositiveRate
<1>1. n \in Nat /\ n <= N /\ N \in Nat /\ m \in Nat /\ m <= M /\ M \in Nat
  <2>1. Interrupted(q, p) \subseteq DOMAIN q /\ Legitimate(q) \subseteq DOMAIN q
        /\ LegitInterrupted(q, p) \subseteq Legitimate(q)
    BY DEF Interrupted, LegitInterrupted, Legitimate
  <2>2. Cardinality(Interrupted(q, p)) \in Nat /\ Cardinality(Interrupted(q, p)) <= Len(q)
    BY <2>1, PositionsAreFinite
  <2>3. Cardinality(LegitInterrupted(q, p)) \in Nat /\ Cardinality(Legitimate(q)) \in Nat
        /\ Cardinality(LegitInterrupted(q, p)) <= Cardinality(Legitimate(q))
    BY <2>1, PositionsAreFinite, FS_Subset
  <2>4. Len(q) \in Nat
    OBVIOUS
  <2> HIDE DEF r
  <2>5. /\ n = Cardinality(Interrupted(q, p)) /\ N = Len(q)
        /\ m = Cardinality(LegitInterrupted(q, p)) /\ M = Cardinality(Legitimate(q))
    BY RatesCount DEF r
  <2> QED
    BY <2>2, <2>3, <2>4, <2>5
<1>2. c \in Rates \cup {NoCap} /\ k \in Rates \cup {NoCap}
  BY DEF Policies
<1>3. ASSUME NEW x \in Nat, NEW X \in Nat, x <= X, NEW y \in Rates \cup {NoCap}
      PROVE  Exceeds(x, X, y) <=> ~(y # NoCap => x * Unit <= y * X)
  <2>1. CASE y = NoCap
    BY <2>1 DEF Exceeds
  <2>2. CASE y # NoCap
    <3>1. y \in Nat /\ Unit \in Nat
      BY <2>2, UnitIsPositive DEF Rates
    <3>2. x * Unit \in Int /\ y * X \in Int
      BY <3>1
    <3>3. X = 0 => x * Unit = 0 /\ y * X = 0
      BY <1>3, <3>1
    <3> QED
      BY <1>3, <2>2, <3>2, <3>3 DEF Exceeds
  <2> QED
    BY <2>1, <2>2
<1> HIDE DEF n, m, N, M, c, k
<1>4. Exceeds(n, N, c) <=> ~(c # NoCap => n * Unit <= c * N)
  BY <1>1, <1>2, <1>3
<1>5. Exceeds(m, M, k) <=> ~(k # NoCap => m * Unit <= k * M)
  BY <1>1, <1>2, <1>3
<1> QED
  BY <1>4, <1>5 DEF Within, Violates, n, m, N, M, c, k

(* What the solver returns, and why. *)
LEMMA SolverAnswers ==
  ASSUME NEW q \in Seq(Samples), NEW p \in Policies
  PROVE  LET s == SolveForConstraints(q, p)
         IN  /\ s.policy \in Policies
             /\ s.satisfied \in BOOLEAN
             /\ s.satisfied <=> ~Violates(EvaluatePolicy(q, s.policy), p)
             /\ ~s.satisfied => \A i \in 1..Len(Multipliers) : PriceViolates(q, p, i)
             /\ s.satisfied => \A i \in 1..Len(Multipliers) :
                  WithMultiplier(p, Multipliers[i]).stepUpFrictionPaise < s.policy.stepUpFrictionPaise
                    => PriceViolates(q, p, i)
<1> DEFINE s == SolveForConstraints(q, p)
           L0 == Len(Multipliers)
           dearest == WithMultiplier(p, Multipliers[L0])
           b == Bisect(q, p)
           At(i) == WithMultiplier(p, Multipliers[i])
<1>1. L0 \in Nat /\ L0 \in 1..L0 /\ 1 \in 1..L0 /\ Last(Multipliers) = Multipliers[L0]
  BY PricesRise DEF Last
<1>2. \A i \in 1..L0 : At(i) \in Policies
  BY PricesRise, PricedPolicy
<1>3. \A i, j \in 1..L0 : i <= j => Dearer(At(i), At(j))
  <2> SUFFICES ASSUME NEW i \in 1..L0, NEW j \in 1..L0, i <= j PROVE Dearer(At(i), At(j))
    OBVIOUS
  <2>1. Multipliers[i] \in Nat /\ Multipliers[j] \in Nat /\ Multipliers[i] <= Multipliers[j]
    BY PricesRise
  <2> QED
    BY <2>1, PricedPolicy
<1>4. At(1) = p
  BY PricesRise, PricedPolicy
<1>5. \A i \in 1..L0 : PriceViolates(q, p, i) <=> Violates(EvaluatePolicy(q, At(i)), p)
  BY DEF PriceViolates
<1>6. \A i \in 1..L0 : ~(At(i).stepUpFrictionPaise < p.stepUpFrictionPaise)
  <2> TAKE i \in 1..L0
  <2>1. At(1).stepUpFrictionPaise <= At(i).stepUpFrictionPaise
    BY <1>1, <1>3 DEF Dearer
  <2>2. At(i) \in Policies
    BY <1>2
  <2> HIDE DEF At
  <2>3. At(i).stepUpFrictionPaise \in Nat /\ p.stepUpFrictionPaise \in Nat
    BY <2>2 DEF Policies
  <2> QED
    BY <1>4, <2>1, <2>3
<1>7. CASE p.maxStepUpRate = NoCap /\ p.maxFalsePositiveRate = NoCap
  <2>1. s = [policy |-> p, satisfied |-> TRUE]
    BY <1>7 DEF SolveForConstraints
  <2>2. ~Violates(EvaluatePolicy(q, p), p)
    BY <1>7 DEF Violates, Exceeds
  <2> HIDE DEF s, At
  <2> QED
    BY <1>6, <2>1, <2>2 DEF s, At
<1>8. CASE /\ ~(p.maxStepUpRate = NoCap /\ p.maxFalsePositiveRate = NoCap)
           /\ ~Violates(EvaluatePolicy(q, p), p)
  <2>1. s = [policy |-> p, satisfied |-> TRUE]
    BY <1>8 DEF SolveForConstraints
  <2> HIDE DEF s, At
  <2> QED
    BY <1>6, <1>8, <2>1 DEF s, At
<1>9. CASE /\ ~(p.maxStepUpRate = NoCap /\ p.maxFalsePositiveRate = NoCap)
           /\ Violates(EvaluatePolicy(q, p), p) /\ Violates(EvaluatePolicy(q, dearest), p)
  <2>1. s = [policy |-> dearest, satisfied |-> FALSE]
    BY <1>1, <1>9 DEF SolveForConstraints
  <2>2. PriceViolates(q, p, L0)
    BY <1>1, <1>5, <1>9
  <2>3. \A i \in 1..L0 : PriceViolates(q, p, i)
    BY <1>1, <2>2, HigherComplies
  <2>4. dearest \in Policies
    BY <1>1, <1>2
  <2> HIDE DEF s, dearest
  <2> QED
    BY <1>9, <2>1, <2>3, <2>4 DEF s
<1>10. CASE /\ ~(p.maxStepUpRate = NoCap /\ p.maxFalsePositiveRate = NoCap)
            /\ Violates(EvaluatePolicy(q, p), p) /\ ~Violates(EvaluatePolicy(q, dearest), p)
  <2>1. s = [policy |-> At(b), satisfied |-> TRUE]
    BY <1>1, <1>10 DEF SolveForConstraints
  <2>2. PriceViolates(q, p, 1) /\ ~PriceViolates(q, p, L0)
    BY <1>1, <1>4, <1>5, <1>10
  <2>3. /\ b \in 1..L0 /\ ~PriceViolates(q, p, b)
        /\ \A i \in 1..L0 : i < b => PriceViolates(q, p, i)
    BY <2>2, BisectFindsTheFirst
  <2>4. ASSUME NEW i \in 1..L0, At(i).stepUpFrictionPaise < At(b).stepUpFrictionPaise
        PROVE  PriceViolates(q, p, i)
    <3>1. b <= i => At(b).stepUpFrictionPaise <= At(i).stepUpFrictionPaise
      BY <1>3, <2>3 DEF Dearer
    <3>2. At(i) \in Policies /\ At(b) \in Policies
      BY <1>2, <2>3
    <3> HIDE DEF At, b
    <3>3. At(i).stepUpFrictionPaise \in Nat /\ At(b).stepUpFrictionPaise \in Nat
      BY <3>2 DEF Policies
    <3>4. i < b
      BY <2>3, <2>4, <3>1, <3>3
    <3> QED
      BY <2>3, <3>4
  <2>5. At(b) \in Policies /\ ~Violates(EvaluatePolicy(q, At(b)), p)
    BY <1>2, <1>5, <2>3
  <2> HIDE DEF s, At, b
  <2> QED
    BY <2>1, <2>4, <2>5 DEF s, At
<1> QED
  BY <1>7, <1>8, <1>9, <1>10

LEMMA PortfolioIsSolved == CaseSound => PolicyIsSolved
<1> SUFFICES ASSUME CaseSound, case.kind = "portfolio" PROVE PolicyIsSolved
  BY DEF PolicyIsSolved, SolutionMeetsTheCeiling, SolutionIsTheLowestPrice, FrontierAgreesWithThePayments
<1>1. /\ case.samples \in Seq(Samples) /\ case.policy \in Policies
      /\ case.price \in 1..Len(Multipliers)
  BY DEF CaseSound, PortfolioSound
<1> DEFINE q == case.samples
           p == case.policy
           s == SolveForConstraints(q, p)
<1>2. /\ s.policy \in Policies
      /\ s.satisfied \in BOOLEAN
      /\ s.satisfied <=> ~Violates(EvaluatePolicy(q, s.policy), p)
      /\ ~s.satisfied => \A i \in 1..Len(Multipliers) : PriceViolates(q, p, i)
      /\ s.satisfied => \A i \in 1..Len(Multipliers) :
           WithMultiplier(p, Multipliers[i]).stepUpFrictionPaise < s.policy.stepUpFrictionPaise
             => PriceViolates(q, p, i)
  BY <1>1, SolverAnswers
<1>3. SolutionMeetsTheCeiling
  <2>1. s.satisfied <=> Within(EvaluatePolicy(q, s.policy), p)
    BY <1>1, <1>2, WithinMeansNoViolation
  <2>2. ASSUME ~s.satisfied, NEW m \in Range(Multipliers)
        PROVE  ~Within(EvaluatePolicy(q, WithMultiplier(p, m)), p)
    <3>1. PICK i \in 1..Len(Multipliers) : m = Multipliers[i]
      BY PricesRise DEF Range
    <3>2. Violates(EvaluatePolicy(q, WithMultiplier(p, m)), p)
      BY <1>2, <2>2, <3>1 DEF PriceViolates
    <3>3. WithMultiplier(p, m) \in Policies
      BY <1>1, <3>1, PricesRise, PricedPolicy
    <3> QED
      BY <1>1, <3>2, <3>3, WithinMeansNoViolation
  <2> QED
    BY <2>1, <2>2 DEF SolutionMeetsTheCeiling, Solution, Within
<1>4. SolutionIsTheLowestPrice
  BY <1>1, <1>2 DEF SolutionIsTheLowestPrice, Solution, PriceViolates
<1>5. FrontierAgreesWithThePayments
  <2> DEFINE price == << Multipliers[case.price] >>
             policy == WithMultiplier(p, price[1])
             n == Len(q)
             D == Unit * Unit * Unit
             a == [i \in 1..n |-> SavedByIntervening(q[i], policy)]
             b == [i \in 1..n |-> Reported(q[i], policy)]
  <2>1. n \in Nat /\ DOMAIN q = 1..n /\ \A i \in 1..n : q[i] \in Samples
    BY <1>1
  <2>2. policy \in Policies
    BY <1>1, PricesRise, PricedPolicy
  <2>3. D \in Nat /\ \A k \in Int : k * Unit * Unit * Unit = k * D
    BY UnitIsPositive, ProductIsNatural
  <2>9. 1 \in DOMAIN price
    OBVIOUS
  <2> HIDE DEF price
  <2>4. TradeOffFrontier(q, p, price)[1].avoided = Total(a)
    BY <2>1, <2>9 DEF TradeOffFrontier
  <2>5. Total([i \in DOMAIN q |-> IF ~q[i].isFraud THEN 0
                                 ELSE LiabilityAvoided(q[i].amountPaise, q[i].recovery, policy,
                                                       Chosen(q[i], policy))]) = Total(b)
    BY <2>1 DEF Reported
  <2> HIDE DEF policy, D, n
  <2>6. ASSUME NEW i \in 1..n
        PROVE  /\ a[i] \in Int /\ b[i] \in Int
               /\ 2 * (a[i] - b[i] * D) <= D /\ -(2 * (a[i] - b[i] * D)) <= D
    BY <2>1, <2>2, ReportedIsSaved DEF D
  <2>7. a \in [1..n -> Int] /\ b \in [1..n -> Int]
    BY <2>6
  <2>8. LET gap == 2 * (Total(a) - Total(b) * D)
        IN  gap <= n * D /\ -gap <= n * D
    <3> HIDE DEF a, b
    <3> QED
      BY <2>1, <2>3, <2>6, <2>7, TotalsWithin
  <2>10. Total(b) \in Int /\ n \in Int
    BY <2>1, <2>7, TotalIsWhole
  <2>11. LET reported == Total([i \in DOMAIN q |-> IF ~q[i].isFraud THEN 0
                                 ELSE LiabilityAvoided(q[i].amountPaise, q[i].recovery, policy,
                                                       Chosen(q[i], policy))])
             gap == 2 * (TradeOffFrontier(q, p, price)[1].avoided - reported * Unit * Unit * Unit)
             most == Len(q) * Unit * Unit * Unit
         IN  gap <= most /\ -gap <= most
    <3> HIDE DEF a, b
    <3>1. Total(b) * Unit * Unit * Unit = Total(b) * D /\ Len(q) * Unit * Unit * Unit = n * D
      BY <2>3, <2>10 DEF n
    <3> QED
      BY <2>4, <2>5, <2>8, <3>1
  <2> QED
    BY <2>11 DEF FrontierAgreesWithThePayments, policy, price
<1> QED
  BY <1>3, <1>4, <1>5 DEF PolicyIsSolved

(* The solver keeps its ceiling at the lowest price that does, says so when*)
(* there is none, and the frontier agrees with the payments.               *)
THEOREM PolicySolves == Spec => []PolicyIsSolved
BY CaseIsSound, PortfolioIsSolved, PTL
=============================================================================
