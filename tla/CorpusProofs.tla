---------------------------- MODULE CorpusProofs ----------------------------
(***************************************************************************)
(* Proofs about the generator: the finished corpus is one that could have  *)
(* been paid, whose intelligence follows use, whose novelty ages, and      *)
(* whose frauds are no more than the share that was asked for.             *)
(***************************************************************************)
EXTENDS Corpus, SharedFacts

-----------------------------------------------------------------------------
(* The stream in order *)

IsStream(q) ==
  /\ IsSequence(q)
  /\ \A i \in 1..Len(q) : q[i].ts \in Int /\ q[i].id \in Nat

InStreamOrder(q) == \A i, j \in 1..Len(q) : i < j => Before(q[i], q[j])

(* What is inserted has a later id than all, and goes behind its equals.   *)
LEMMA InsertedKeepsOrder ==
  ASSUME NEW q, IsStream(q), InStreamOrder(q), NEW e, e.ts \in Int, e.id \in Nat,
         \A i \in 1..Len(q) : q[i].id < e.id
  PROVE  /\ IsStream(Inserted(q, e)) /\ InStreamOrder(Inserted(q, e))
         /\ ToSet(Inserted(q, e)) = ToSet(q) \cup {e}
<1> DEFINE n == Len(q)
           k == CHOOSE k \in 0..Len(q) : \A i \in 1..Len(q) : (i <= k) = (q[i].ts <= e.ts)
           r == Inserted(q, e)
<1>1. n \in Nat /\ DOMAIN q = 1..n /\ \A i \in 1..n : q[i].ts \in Int /\ q[i].id \in Nat
  BY LengthIsNatural DEF IsStream
<1>2. \A i, j \in 1..n : i < j => Before(q[i], q[j])
  BY DEF InStreamOrder
<1>3. \A i, j \in 1..n : i <= j => q[i].ts <= q[j].ts
  <2> SUFFICES ASSUME NEW i \in 1..n, NEW j \in 1..n, i <= j PROVE q[i].ts <= q[j].ts
    OBVIOUS
  <2>1. CASE i = j
    BY <1>1, <2>1
  <2>2. CASE i < j
    BY <1>1, <1>2, <2>2 DEF Before
  <2> QED
    BY <1>1, <2>1, <2>2
<1>4. InTimeOrder(q) /\ IsSequence(q)
  BY <1>3 DEF InTimeOrder, IsStream
<1>5. k \in 0..n /\ \A i \in 1..n : (i <= k) = (q[i].ts <= e.ts)
  BY <1>1, <1>4, PlaceExists
<1>6. PICK S : q \in Seq(S)
  BY DEF IsStream, IsSequence
<1>7. r = InsertAt(q, k + 1, e)
  BY DEF Inserted
<1> HIDE DEF k, r
<1>8. q \in Seq(S \cup {e}) /\ e \in S \cup {e}
  BY <1>6
<1>9. r \in Seq(S \cup {e}) /\ SplicedAt(r, q, k, e)
  BY <1>5, <1>7, <1>8, InsertAtElements DEF n
<1>10. /\ Len(r) = n + 1
       /\ \A i \in 1..(n + 1) : r[i] = IF i <= k THEN q[i] ELSE IF i = k + 1 THEN e ELSE q[i - 1]
  BY <1>9 DEF SplicedAt
<1> HIDE DEF n
<1>11. /\ \A i \in 1..(n + 1) : i <= k => i \in 1..n /\ r[i] = q[i]
       /\ r[k + 1] = e /\ k + 1 \in 1..(n + 1) /\ k \in Nat
       /\ \A i \in 1..(n + 1) : i > k + 1 => i - 1 \in 1..n /\ i - 1 > k /\ r[i] = q[i - 1]
  <2>1. k \in Nat /\ k <= n
    BY <1>1, <1>5
  <2>2. ASSUME NEW i \in 1..(n + 1), i <= k PROVE i \in 1..n /\ r[i] = q[i]
    BY <1>1, <1>10, <2>1, <2>2
  <2>3. k + 1 \in 1..(n + 1) /\ ~(k + 1 <= k)
    BY <1>1, <2>1
  <2>4. r[k + 1] = e
    BY <1>10, <2>3
  <2>5. ASSUME NEW i \in 1..(n + 1), i > k + 1 PROVE i - 1 \in 1..n /\ i - 1 > k /\ r[i] = q[i - 1]
    <3>1. i - 1 \in 1..n /\ i - 1 > k /\ ~(i <= k) /\ i # k + 1
      BY <1>1, <2>1, <2>5
    <3> QED
      BY <1>10, <3>1
  <2> QED
    BY <2>1, <2>2, <2>3, <2>4, <2>5
<1>12. \A i \in 1..(n + 1) : i <= k \/ i = k + 1 \/ i > k + 1
  BY <1>1, <1>11
<1>13. \A i \in 1..(n + 1) : r[i].ts \in Int /\ r[i].id \in Nat
  BY <1>1, <1>11, <1>12
<1>14. IsStream(r)
  BY <1>9, <1>10, <1>13 DEF IsStream, IsSequence
<1>15. ASSUME NEW i \in 1..(n + 1), NEW j \in 1..(n + 1), i < j PROVE Before(r[i], r[j])
  <2>1. \A x \in 1..n : x <= k => Before(q[x], e)
    <3> SUFFICES ASSUME NEW x \in 1..n, x <= k PROVE Before(q[x], e)
      OBVIOUS
    <3>1. q[x].ts <= e.ts /\ q[x].id < e.id
      BY <1>5 DEF n
    <3> QED
      BY <1>1, <3>1 DEF Before
  <2>2. \A x \in 1..n : x > k => Before(e, q[x])
    <3> SUFFICES ASSUME NEW x \in 1..n, x > k PROVE Before(e, q[x])
      OBVIOUS
    <3>1. ~(x <= k)
      BY <1>1, <1>11
    <3>2. ~(q[x].ts <= e.ts)
      BY <1>5, <3>1
    <3> QED
      BY <1>1, <3>2 DEF Before
  <2>3. CASE j <= k
    <3>1. i <= k
      BY <1>11, <1>15, <2>3
    <3> QED
      BY <1>2, <1>11, <1>15, <2>3, <3>1
  <2>4. CASE j = k + 1
    <3>1. i <= k
      BY <1>11, <1>15, <2>4
    <3> QED
      BY <1>11, <2>1, <2>4, <3>1
  <2>5. CASE j > k + 1
    <3>1. CASE i <= k
      <4>1. i \in 1..n /\ j - 1 \in 1..n /\ i < j - 1
        BY <1>1, <1>11, <2>5, <3>1
      <4> QED
        BY <1>2, <1>11, <2>5, <3>1, <4>1
    <3>2. CASE i = k + 1
      BY <1>11, <2>2, <2>5, <3>2
    <3>3. CASE i > k + 1
      <4>1. i - 1 < j - 1
        BY <1>1, <1>15
      <4> QED
        BY <1>2, <1>11, <2>5, <3>3, <4>1
    <3> QED
      BY <1>12, <3>1, <3>2, <3>3
  <2> QED
    BY <1>12, <2>3, <2>4, <2>5
<1>16. InStreamOrder(r)
  BY <1>10, <1>15 DEF InStreamOrder
<1>17. ToSet(r) = ToSet(q) \cup {e}
  <2>1. DOMAIN r = 1..(n + 1) /\ ToSet(r) = {r[i] : i \in 1..(n + 1)} /\ ToSet(q) = {q[i] : i \in 1..n}
    BY <1>1, <1>9, <1>10 DEF ToSet
  <2>2. ASSUME NEW i \in 1..(n + 1) PROVE r[i] \in ToSet(q) \cup {e}
    BY <1>11, <1>12, <2>1
  <2>3. ASSUME NEW x \in 1..n PROVE q[x] \in ToSet(r)
    <3>1. CASE x <= k
      <4>1. x \in 1..(n + 1) /\ r[x] = q[x]
        BY <1>1, <1>11, <3>1
      <4> QED
        BY <2>1, <4>1
    <3>2. CASE ~(x <= k)
      <4>1. x + 1 \in 1..(n + 1) /\ x + 1 > k + 1 /\ (x + 1) - 1 = x
        BY <1>1, <1>11, <3>2
      <4>2. r[x + 1] = q[x]
        BY <1>11, <4>1
      <4> QED
        BY <2>1, <4>1, <4>2
    <3> QED
      BY <3>1, <3>2
  <2>4. e \in ToSet(r)
    BY <1>11, <2>1
  <2> QED
    BY <2>1, <2>2, <2>3, <2>4
<1> QED
  BY <1>14, <1>16, <1>17 DEF r

(* Payments are numbered as they are generated.                            *)
LEMMA StreamIsSorted ==
  ASSUME NEW q, IsStream(q), \A i \in 1..Len(q) : q[i].id = i - 1
  PROVE  /\ IsStream(SortedByTime(q)) /\ InStreamOrder(SortedByTime(q))
         /\ ToSet(SortedByTime(q)) = ToSet(q)
<1> DEFINE n == Len(q)
<1>1. n \in Nat /\ DOMAIN q = 1..n /\ \A i \in 1..n : q[i].ts \in Int /\ q[i].id \in Nat /\ q[i].id = i - 1
  BY LengthIsNatural DEF IsStream
<1> HIDE DEF n
<1>2. PICK f : SortingFollows(f, q, n) /\ SortedByTime(q) = f[n]
  BY <1>1, SortingUnfolds DEF n
<1> DEFINE Sorts(s, k) == /\ IsStream(s) /\ InStreamOrder(s)
                          /\ ToSet(s) = {q[i] : i \in 1..k}
           T == {k \in Nat : k <= n => Sorts(f[k], k)}
<1>3. 0 \in T
  <2>1. << >> \in Seq({}) /\ Len(<< >>) = 0 /\ ToSet(<< >>) = {}
    BY DEF ToSet
  <2>2. IsStream(<< >>) /\ InStreamOrder(<< >>) /\ ToSet(<< >>) = {q[i] : i \in 1..0}
    BY <2>1 DEF IsStream, IsSequence, InStreamOrder
  <2> QED
    BY <1>2, <2>2 DEF SortingFollows
<1>4. ASSUME NEW k \in Nat, k \in T PROVE k + 1 \in T
  <2> SUFFICES ASSUME k + 1 <= n PROVE Sorts(f[k + 1], k + 1)
    OBVIOUS
  <2>1. k + 1 \in 1..n /\ (k + 1) - 1 = k /\ k <= n
    BY <1>1
  <2>2. Sorts(f[k], k)
    BY <1>4, <2>1
  <2>3. f[k + 1] = Inserted(f[k], q[k + 1])
    BY <1>2, <2>1 DEF SortingFollows
  <2>4. \A x \in 1..Len(f[k]) : f[k][x].id < q[k + 1].id
    <3> SUFFICES ASSUME NEW x \in 1..Len(f[k]) PROVE f[k][x].id < q[k + 1].id
      OBVIOUS
    <3>1. f[k][x] \in ToSet(f[k])
      BY <2>2, LengthIsNatural DEF IsStream, ToSet
    <3>2. PICK i \in 1..k : f[k][x] = q[i]
      BY <2>2, <3>1
    <3>3. i \in 1..n /\ i - 1 < k
      BY <1>1, <2>1
    <3> QED
      BY <1>1, <2>1, <3>2, <3>3
  <2>5. /\ IsStream(f[k + 1]) /\ InStreamOrder(f[k + 1])
        /\ ToSet(f[k + 1]) = ToSet(f[k]) \cup {q[k + 1]}
    BY <1>1, <2>1, <2>2, <2>3, <2>4, InsertedKeepsOrder
  <2>6. {q[i] : i \in 1..(k + 1)} = {q[i] : i \in 1..k} \cup {q[k + 1]}
    <3>1. 1..(k + 1) = 1..k \cup {k + 1}
      OBVIOUS
    <3> QED
      BY <3>1
  <2> QED
    BY <2>2, <2>5, <2>6
<1> HIDE DEF T
<1>5. Nat \subseteq T
  BY <1>3, <1>4, SetInduction
<1>6. Sorts(f[n], n)
  <2>1. n \in T /\ n <= n
    BY <1>1, <1>5
  <2> QED
    BY <2>1 DEF T
<1> QED
  BY <1>1, <1>2, <1>6 DEF ToSet

-----------------------------------------------------------------------------
(* The inductive invariant *)

WorldSound == world \in Worlds /\ Population(world)

CircleSound == circle \in [Range(PayerList) -> [merchants : SUBSET Merchants, personals : SUBSET Personals]]

PlaceSound == at \in [payer : Int, day : 0..(Days - 1), count : Nat]

(* A legitimate payment carries the time at which its pair is filed, a     *)
(* fraud is to a collection account in service.                            *)
LegitSound(t) ==
  /\ t.ts \in 0..(Latest - 1)
  /\ t.payee \in Merchants \cup Personals /\ world.firstSeen[t.payee] <= t.ts
  /\ << t.payer, t.payee >> \in DOMAIN added /\ added[<< t.payer, t.payee >>] = t.addedAt

FraudSound(t) ==
  /\ t.ts \in 0..Latest
  /\ t.payee \in Mules /\ world.activeFrom[t.payee] <= t.ts

Numbered(q) == IsSequence(q) /\ \A i \in 1..Len(q) : q[i].id = i - 1

StreamSound ==
  /\ Numbered(txns)
  /\ \A t \in Range(txns) : t.fraud \in BOOLEAN
  /\ \A t \in Legits : LegitSound(t)
  /\ \A t \in FraudTxns : FraudSound(t)

(* The next payment of an episode is wanted, and may be made once its time *)
(* is in the window.                                                       *)
EpisodeSound ==
  episode # NoEpisode =>
    /\ Produced < target
    /\ \E spec \in Typologies, victim \in Range(PayerList), mule \in Mules, cursor \in Nat :
         /\ \E left, addedAt : episode = [spec |-> spec, victim |-> victim, mule |-> mule, left |-> left,
                                         cursor |-> cursor, addedAt |-> addedAt]
         /\ world.activeFrom[mule] <= cursor

ShareSound ==
  /\ IsFiniteSet(Legits) /\ IsFiniteSet(FraudTxns)
  /\ phase = "legitimate" =>
       FraudTxns = {} /\ Cardinality(Legits) = Len(txns) /\ episode = NoEpisode
  /\ phase # "legitimate" => target = FraudFor(Cardinality(Legits)) /\ Produced <= target

(* A network waits to be found out from its first use on, and is settled   *)
(* once.                                                                   *)
IntelSound ==
  /\ phase \in {"legitimate", "fraud"} => intel = {}
  /\ phase = "legitimate" => DOMAIN firstUsed = {}
  /\ \A c \in DOMAIN firstUsed : \E t \in FraudTxns : ChainOf[t.payee] = c /\ t.ts = firstUsed[c]
  /\ \A e \in intel : e.ts \in Int /\ e.hop \in Nat /\ e.chain \notin DOMAIN firstUsed
  /\ IntelligenceFollowsUse

Generating ==
  WorldSound /\ CircleSound /\ PlaceSound /\ StreamSound /\ EpisodeSound /\ ShareSound /\ IntelSound

IInv == (phase # "done" => Generating) /\ CorpusIsSound

-----------------------------------------------------------------------------
(* The population *)

LEMMA PopulationIsSound ==
  ASSUME WorldSound
  PROVE  /\ \A a \in Merchants \cup Personals : world.firstSeen[a] \in Int
         /\ \A m \in Mules : world.activeFrom[m] \in Int
         /\ world.circle \in [Range(PayerList) -> [merchants : SUBSET Merchants, personals : SUBSET Personals]]
         /\ world.rate[1] \in Nat /\ world.rate[2] \in Nat /\ world.rate[2] > 0
<1>1. \A a \in Merchants \cup Personals : world.firstSeen[a] \in OpeningTimes
  BY DEF WorldSound, Population
<1>2. ASSUME NEW m \in Mules PROVE world.activeFrom[m] \in Int
  <2>1. ChainOf[m] \in Range(ChainOf) /\ m \in AccountsOf(ChainOf[m])
    BY CorpusAssumption DEF AccountsOf
  <2>2. PICK from \in (-10 * DaySlots)..((4 * Latest) \div 5) :
          \A x \in AccountsOf(ChainOf[m]) : world.activeFrom[x] \in ServiceTimes(from)
    BY <2>1 DEF WorldSound, Population
  <2>3. world.activeFrom[m] \in ServiceTimes(from)
    BY <2>1, <2>2
  <2> QED
    BY <2>3 DEF ServiceTimes
<1> QED
  BY <1>1, <1>2, CorpusAssumption DEF WorldSound, OpeningTimes

LEMMA FraudForIsNatural ==
  ASSUME WorldSound, NEW n \in Nat
  PROVE  FraudFor(n) \in Nat
<1>1. world.rate[1] \in Nat /\ world.rate[2] \in Nat /\ world.rate[2] > 0
  BY PopulationIsSound
<1> DEFINE a == world.rate[1]
           b == world.rate[2]
<1>2. a \in Nat /\ b \in Nat /\ b > 0
  BY <1>1
<1> HIDE DEF a, b
<1>3. 2 * n * a + b \in Nat /\ 2 * b \in Nat /\ 2 * b > 0
  <2>1. 2 * n * a \in Nat
    BY <1>2
  <2> QED
    BY <1>2, <2>1
<1>4. (2 * n * a + b) \div (2 * b) \in Nat
  <2> DEFINE x == 2 * n * a + b
             y == 2 * b
  <2>1. x \in Nat /\ y \in Nat /\ y > 0
    BY <1>3
  <2> HIDE DEF x, y
  <2>2. x \div y \in Nat
    BY <2>1
  <2> QED
    BY <2>2 DEF x, y
<1> QED
  BY <1>4 DEF FraudFor, a, b

(* A slot of a day of the window lies in the window.                       *)
LEMMA SlotInWindow ==
  ASSUME NEW day \in 0..(Days - 1), NEW slot \in 0..(DaySlots - 1)
  PROVE  day * DaySlots + slot \in 0..(Latest - 1)
<1>1. Days \in Nat /\ DaySlots \in Nat /\ DaySlots > 0 /\ Days > 0
  BY CorpusAssumption
<1>2. day \in Nat /\ Days - day \in Nat /\ Days - day >= 1
  BY <1>1
<1>3. day * DaySlots \in Nat /\ (Days - day) * DaySlots >= DaySlots
  <2>1. PICK d \in Nat : Days - day = 1 + d
    <3>1. (Days - day) - 1 \in Nat /\ Days - day = 1 + ((Days - day) - 1)
      BY <1>1, <1>2
    <3> QED
      BY <3>1
  <2>2. (1 + d) * DaySlots = DaySlots + d * DaySlots /\ d * DaySlots \in Nat
    BY <1>1
  <2> QED
    BY <1>1, <1>2, <2>1, <2>2
<1>4. (Days - day) * DaySlots = Days * DaySlots - day * DaySlots /\ Days * DaySlots \in Nat
  BY <1>1, <1>2
<1> QED
  BY <1>1, <1>3, <1>4 DEF Latest

(* The day of a moment begins at or after the start of the corpus.         *)
LEMMA DayBegins ==
  ASSUME NEW start \in Nat
  PROVE  (start \div DaySlots) * DaySlots \in Nat
<1>1. DaySlots \in Nat /\ DaySlots > 0
  BY CorpusAssumption
<1>2. start \div DaySlots \in Nat
  BY <1>1
<1> QED
  BY <1>1, <1>2

-----------------------------------------------------------------------------
(* One payment more *)

LEMMA StreamGrows ==
  ASSUME Numbered(txns), \A t \in Range(txns) : t.fraud \in BOOLEAN,
         IsFiniteSet(Legits), IsFiniteSet(FraudTxns),
         NEW t, t.id = Len(txns), t.fraud \in BOOLEAN, txns' = Append(txns, t)
  PROVE  /\ Numbered(txns') /\ Len(txns') = Len(txns) + 1
         /\ \A u \in Range(txns') : u.fraud \in BOOLEAN
         /\ IsFiniteSet(Legits') /\ IsFiniteSet(FraudTxns')
         /\ IF t.fraud THEN /\ FraudTxns' = FraudTxns \cup {t} /\ Legits' = Legits
                            /\ Produced' = Produced + 1
            ELSE /\ FraudTxns' = FraudTxns /\ Legits' = Legits \cup {t}
                 /\ Cardinality(Legits') = Cardinality(Legits) + 1
<1>1. PICK S : txns \in Seq(S)
  BY DEF Numbered, IsSequence
<1> DEFINE n == Len(txns)
<1>2. n \in Nat /\ DOMAIN txns = 1..n
  BY <1>1
<1>3. /\ txns' \in Seq(S \cup {t}) /\ Len(txns') = n + 1 /\ DOMAIN txns' = 1..(n + 1)
      /\ \A i \in 1..n : txns'[i] = txns[i]
      /\ txns'[n + 1] = t
  <2>1. txns \in Seq(S \cup {t})
    BY <1>1
  <2> QED
    BY <2>1
<1>4. Numbered(txns')
  <2>1. IsSequence(txns')
    BY <1>3 DEF IsSequence
  <2>2. ASSUME NEW i \in 1..(n + 1) PROVE txns'[i].id = i - 1
    <3>1. CASE i \in 1..n
      BY <1>3, <3>1 DEF Numbered
    <3>2. CASE i = n + 1
      BY <1>2, <1>3, <3>2
    <3> QED
      BY <1>2, <3>1, <3>2
  <2> QED
    BY <1>3, <2>1, <2>2 DEF Numbered
<1>5. Range(txns') = Range(txns) \cup {t}
  <2>1. Range(txns') = {txns'[i] : i \in 1..(n + 1)} /\ Range(txns) = {txns[i] : i \in 1..n}
    BY <1>2, <1>3 DEF Range
  <2>2. 1..(n + 1) = 1..n \cup {n + 1}
    BY <1>2
  <2> QED
    BY <1>3, <2>1, <2>2
<1>6. t \notin Range(txns)
  <2> SUFFICES ASSUME NEW i \in 1..n, t = txns[i] PROVE FALSE
    BY <1>2 DEF Range
  <2>1. txns[i].id = i - 1
    BY DEF Numbered
  <2> QED
    BY <1>2, <2>1
<1>7. CASE t.fraud
  <2>1. FraudTxns' = FraudTxns \cup {t} /\ Legits' = Legits /\ t \notin FraudTxns
    BY <1>5, <1>6, <1>7 DEF FraudTxns, Legits
  <2>2. IsFiniteSet(FraudTxns') /\ Cardinality(FraudTxns') = Cardinality(FraudTxns) + 1
    BY <2>1, FS_AddElement
  <2> QED
    BY <1>3, <1>4, <1>5, <1>7, <2>1, <2>2 DEF Produced
<1>8. CASE ~t.fraud
  <2>1. FraudTxns' = FraudTxns /\ Legits' = Legits \cup {t} /\ t \notin Legits
    BY <1>5, <1>6, <1>8 DEF FraudTxns, Legits
  <2>2. IsFiniteSet(Legits') /\ Cardinality(Legits') = Cardinality(Legits) + 1
    BY <2>1, FS_AddElement
  <2> QED
    BY <1>3, <1>4, <1>5, <1>8, <2>1, <2>2
<1> QED
  BY <1>7, <1>8

-----------------------------------------------------------------------------
(* The steps.  Most leave the population and the payments alone.           *)

LEMMA WorldStays ==
  ASSUME WorldSound, world' = world
  PROVE  WorldSound'
BY DEF WorldSound, Population

LEMMA StreamStays ==
  ASSUME StreamSound, world' = world, txns' = txns,
         \A t \in Legits : /\ << t.payer, t.payee >> \in DOMAIN added'
                           /\ added'[<< t.payer, t.payee >>] = added[<< t.payer, t.payee >>]
  PROVE  StreamSound' /\ Legits' = Legits /\ FraudTxns' = FraudTxns /\ Produced' = Produced
<1>1. Legits' = Legits /\ FraudTxns' = FraudTxns /\ Produced' = Produced
  BY DEF Legits, FraudTxns, Produced
<1>2. ASSUME NEW t \in Legits PROVE LegitSound(t)'
  <2>1. LegitSound(t)
    BY DEF StreamSound
  <2> QED
    BY <2>1 DEF LegitSound
<1>3. ASSUME NEW t \in FraudTxns PROVE FraudSound(t)'
  <2>1. FraudSound(t)
    BY DEF StreamSound
  <2> QED
    BY <2>1 DEF FraudSound
<1>4. Numbered(txns') /\ \A t \in Range(txns') : t.fraud \in BOOLEAN
  BY DEF StreamSound
<1> QED
  BY <1>1, <1>2, <1>3, <1>4 DEF StreamSound

(* While legitimate payments are generated there is no intelligence.       *)
LEMMA NothingKnownYet ==
  ASSUME IntelSound, phase \in {"legitimate", "fraud"}, intel' = intel,
         \A c \in DOMAIN firstUsed' : \E t \in FraudTxns' : ChainOf[t.payee] = c /\ t.ts = firstUsed'[c],
         phase' = "legitimate" => DOMAIN firstUsed' = {}
  PROVE  IntelSound'
<1>1. intel' = {}
  BY DEF IntelSound
<1>2. IntelligenceFollowsUse'
  BY <1>1 DEF IntelligenceFollowsUse
<1> QED
  BY <1>1, <1>2 DEF IntelSound

LEMMA LegitimatePaymentStep ==
  ASSUME Generating, NEW payer \in Range(PayerList), NEW slot \in 0..(DaySlots - 1), NEW gap \in Gaps,
         LegitimatePayment(payer, slot, gap)
  PROVE  Generating' /\ phase' # "done"
<1>1. /\ WorldSound /\ CircleSound /\ PlaceSound /\ StreamSound /\ EpisodeSound /\ ShareSound /\ IntelSound
      /\ phase = "legitimate" /\ phase' = phase /\ world' = world
  BY DEF Generating, LegitimatePayment
<1>2. UNCHANGED << target, tried, episode, history, firstUsed, intel >>
  BY DEF LegitimatePayment
<1>3. PICK wanted \in Merchants \cup Personals :
       LET mine == [merchants |-> circle[payer].merchants \cup ({wanted} \cap Merchants),
                    personals |-> circle[payer].personals \cup ({wanted} \cap Personals)]
           ts   == at.day * DaySlots + slot
           open == OpenAccounts(wanted, mine, ts)
       IN  /\ circle' = [circle EXCEPT ![payer] = mine]
           /\ at' = [at EXCEPT !.count = @ + 1]
           /\ IF open = {} THEN UNCHANGED << added, txns >>
              ELSE \E payee \in open, device \in DevicesOf(payer) :
                     LET addedAt == Known(added, << payer, payee >>, ts - gap)
                     IN  /\ added' = Put(added, << payer, payee >>, addedAt)
                         /\ txns' = Append(txns, BuildTransaction(ts, payer, payee, addedAt, device,
                                                                  ts - device.bound < NewFor, "none"))
  BY DEF LegitimatePayment
<1> DEFINE mine == [merchants |-> circle[payer].merchants \cup ({wanted} \cap Merchants),
                    personals |-> circle[payer].personals \cup ({wanted} \cap Personals)]
           ts   == at.day * DaySlots + slot
           open == OpenAccounts(wanted, mine, ts)
<1>4. WorldSound'
  BY <1>1, WorldStays
<1>5. mine \in [merchants : SUBSET Merchants, personals : SUBSET Personals]
  <2>1. circle[payer] \in [merchants : SUBSET Merchants, personals : SUBSET Personals]
    BY <1>1 DEF CircleSound
  <2> QED
    BY <2>1
<1>6. CircleSound'
  BY <1>1, <1>3, <1>5 DEF CircleSound
<1>7. PlaceSound' /\ at.day \in 0..(Days - 1)
  BY <1>1, <1>3 DEF PlaceSound
<1>8. ts \in 0..(Latest - 1)
  BY <1>7, SlotInWindow
<1>9. \A payee \in open : payee \in Merchants \cup Personals /\ world.firstSeen[payee] <= ts
  <2>1. \A a \in Merchants \cup Personals : world.firstSeen[a] \in Int
    BY <1>1, PopulationIsSound
  <2>2. mine.merchants \subseteq Merchants
    BY <1>5
  <2>3. ts \in Int
    BY <1>8
  <2> HIDE DEF ts, mine
  <2>4. \A x \in Int : ts >= x <=> x <= ts
    BY <2>3
  <2> QED
    BY <2>1, <2>2, <2>4 DEF OpenAccounts
<1>10. EpisodeSound' /\ episode' = NoEpisode
  BY <1>1, <1>2 DEF EpisodeSound, ShareSound
<1>11. FraudTxns = {} /\ DOMAIN firstUsed = {} /\ Cardinality(Legits) = Len(txns) /\ IsFiniteSet(Legits) /\ IsFiniteSet(FraudTxns)
  BY <1>1 DEF ShareSound, IntelSound
<1>12. IntelSound'
  BY <1>1, <1>2, <1>11, NothingKnownYet
<1>13. CASE open = {}
  <2>1. UNCHANGED << added, txns >>
    BY <1>3, <1>13
  <2>2. \A t \in Legits : << t.payer, t.payee >> \in DOMAIN added
    BY <1>1 DEF StreamSound, LegitSound
  <2>3. StreamSound' /\ Legits' = Legits /\ FraudTxns' = FraudTxns
    BY <1>1, <2>1, <2>2, StreamStays
  <2>4. ShareSound'
    BY <1>1, <1>10, <1>11, <2>1, <2>3 DEF ShareSound
  <2> QED
    BY <1>1, <1>4, <1>6, <1>7, <1>10, <1>12, <2>3, <2>4 DEF Generating
<1>14. CASE open # {}
  <2>1. PICK payee \in open, device \in DevicesOf(payer) :
          LET addedAt == Known(added, << payer, payee >>, ts - gap)
          IN  /\ added' = Put(added, << payer, payee >>, addedAt)
              /\ txns' = Append(txns, BuildTransaction(ts, payer, payee, addedAt, device,
                                                       ts - device.bound < NewFor, "none"))
    BY <1>3, <1>14
  <2> DEFINE pair == << payer, payee >>
             addedAt == Known(added, pair, ts - gap)
  <2>0. PICK t : t = BuildTransaction(ts, payer, payee, addedAt, device, ts - device.bound < NewFor, "none")
    OBVIOUS
  <2>2. /\ t.id = Len(txns) /\ t.ts = ts /\ t.payer = payer /\ t.payee = payee
        /\ t.addedAt = addedAt /\ t.fraud = FALSE
    BY <2>0 DEF BuildTransaction
  <2>3. added' = Put(added, pair, addedAt) /\ txns' = Append(txns, t)
    BY <2>1, <2>0
  <2>4. /\ Numbered(txns') /\ Len(txns') = Len(txns) + 1
        /\ \A u \in Range(txns') : u.fraud \in BOOLEAN
        /\ IsFiniteSet(Legits') /\ IsFiniteSet(FraudTxns')
        /\ FraudTxns' = FraudTxns /\ Legits' = Legits \cup {t}
        /\ Cardinality(Legits') = Cardinality(Legits) + 1
    BY <1>1, <1>11, <2>2, <2>3, StreamGrows DEF StreamSound
  <2>5. LegitSound(t)'
    <3>1. pair \in DOMAIN added' /\ added'[pair] = addedAt
      BY <2>3 DEF Put
    <3>2. payee \in Merchants \cup Personals /\ world'.firstSeen[payee] <= ts
      BY <1>1, <1>9
    <3> HIDE DEF addedAt, ts
    <3> QED
      BY <1>8, <2>2, <3>1, <3>2 DEF LegitSound
  <2>6. ASSUME NEW u \in Legits PROVE LegitSound(u)'
    <3> DEFINE p == << u.payer, u.payee >>
    <3>1. LegitSound(u)
      BY <1>1 DEF StreamSound
    <3>2. p \in DOMAIN added /\ added[p] = u.addedAt
      BY <3>1 DEF LegitSound
    <3>3. p = pair => addedAt = added[p]
      BY <3>2 DEF Known
    <3> HIDE DEF p, pair, addedAt
    <3>4. p \in DOMAIN added' /\ added'[p] = added[p]
      BY <2>3, <3>2, <3>3 DEF Put
    <3>5. << u.payer, u.payee >> \in DOMAIN added' /\ added'[<< u.payer, u.payee >>] = u.addedAt
      BY <3>2, <3>4 DEF p
    <3> QED
      BY <1>1, <3>1, <3>5 DEF LegitSound
  <2>7. StreamSound'
    <3>1. \A u \in Legits' : LegitSound(u)'
      BY <2>4, <2>5, <2>6
    <3>2. FraudTxns' = {}
      BY <1>11, <2>4
    <3> QED
      BY <2>4, <3>1, <3>2 DEF StreamSound
  <2>8. ShareSound'
    BY <1>1, <1>10, <1>11, <2>4 DEF ShareSound
  <2> QED
    BY <1>1, <1>4, <1>6, <1>7, <1>10, <1>12, <2>7, <2>8 DEF Generating
<1> QED
  BY <1>13, <1>14

LEMMA NextDayStep ==
  ASSUME Generating, NextDay
  PROVE  Generating' /\ phase' # "done"
<1>1. /\ WorldSound /\ CircleSound /\ PlaceSound /\ StreamSound /\ EpisodeSound /\ ShareSound /\ IntelSound
      /\ phase = "legitimate" /\ at.day < Days - 1
      /\ at' = [at EXCEPT !.day = @ + 1, !.count = 0]
      /\ UNCHANGED << phase, world, circle, added, txns, target, tried, episode, history, firstUsed, intel >>
  BY DEF Generating, NextDay
<1>2. at.day \in 0..(Days - 1) /\ at.day + 1 \in 0..(Days - 1)
  BY <1>1, CorpusAssumption DEF PlaceSound
<1>3. PlaceSound'
  BY <1>1, <1>2 DEF PlaceSound
<1>4. \A t \in Legits : << t.payer, t.payee >> \in DOMAIN added
  BY <1>1 DEF StreamSound, LegitSound
<1>5. StreamSound' /\ Legits' = Legits /\ FraudTxns' = FraudTxns /\ Produced' = Produced
  BY <1>1, <1>4, StreamStays
<1>6. WorldSound' /\ CircleSound' /\ EpisodeSound'
  BY <1>1, <1>5, WorldStays DEF CircleSound, EpisodeSound
<1>7. ShareSound'
  BY <1>1, <1>5 DEF ShareSound
<1>8. IntelSound'
  BY <1>1, <1>5, NothingKnownYet DEF IntelSound
<1> QED
  BY <1>1, <1>3, <1>5, <1>6, <1>7, <1>8 DEF Generating

LEMMA NextPayerStep ==
  ASSUME Generating, NextPayer
  PROVE  Generating' /\ phase' # "done"
<1>1. /\ WorldSound /\ CircleSound /\ PlaceSound /\ StreamSound /\ EpisodeSound /\ ShareSound /\ IntelSound
      /\ phase = "legitimate"
      /\ at' = [payer |-> at.payer + 1, day |-> 0, count |-> 0]
      /\ UNCHANGED << phase, world, circle, added, txns, target, tried, episode, history, firstUsed, intel >>
  BY DEF Generating, NextPayer
<1>2. Days \in Nat /\ Days > 0
  BY CorpusAssumption
<1>3. PlaceSound'
  BY <1>1, <1>2 DEF PlaceSound
<1>4. \A t \in Legits : << t.payer, t.payee >> \in DOMAIN added
  BY <1>1 DEF StreamSound, LegitSound
<1>5. StreamSound' /\ Legits' = Legits /\ FraudTxns' = FraudTxns /\ Produced' = Produced
  BY <1>1, <1>4, StreamStays
<1>6. WorldSound' /\ CircleSound' /\ EpisodeSound'
  BY <1>1, <1>5, WorldStays DEF CircleSound, EpisodeSound
<1>7. ShareSound'
  BY <1>1, <1>5 DEF ShareSound
<1>8. IntelSound'
  BY <1>1, <1>5, NothingKnownYet DEF IntelSound
<1> QED
  BY <1>1, <1>3, <1>5, <1>6, <1>7, <1>8 DEF Generating

LEMMA StartFraudStep ==
  ASSUME Generating, StartFraud
  PROVE  Generating' /\ phase' # "done"
<1>1. /\ WorldSound /\ CircleSound /\ PlaceSound /\ StreamSound /\ EpisodeSound /\ ShareSound /\ IntelSound
      /\ phase = "legitimate" /\ phase' = "fraud" /\ target' = FraudFor(Len(txns))
      /\ UNCHANGED << world, circle, at, added, txns, tried, episode, history, firstUsed, intel >>
  BY DEF Generating, StartFraud
<1>2. \A t \in Legits : << t.payer, t.payee >> \in DOMAIN added
  BY <1>1 DEF StreamSound, LegitSound
<1>3. StreamSound' /\ Legits' = Legits /\ FraudTxns' = FraudTxns /\ Produced' = Produced
  BY <1>1, <1>2, StreamStays
<1>4. FraudTxns = {} /\ Cardinality(Legits) = Len(txns) /\ episode = NoEpisode
      /\ IsFiniteSet(Legits) /\ IsFiniteSet(FraudTxns) /\ Len(txns) \in Nat
  BY <1>1, LengthIsNatural DEF ShareSound, StreamSound, Numbered
<1>5. WorldSound' /\ CircleSound' /\ PlaceSound' /\ EpisodeSound'
  BY <1>1, <1>4, WorldStays DEF CircleSound, PlaceSound, EpisodeSound
<1>6. ShareSound'
  <2>1. Produced' = 0
    BY <1>3, <1>4, FS_EmptySet DEF Produced
  <2>2. target' = FraudFor(Cardinality(Legits))' /\ target' \in Nat
    BY <1>1, <1>3, <1>4, FraudForIsNatural DEF FraudFor
  <2> QED
    BY <1>1, <1>3, <1>4, <2>1, <2>2 DEF ShareSound
<1>7. IntelSound'
  BY <1>1, <1>3, NothingKnownYet DEF IntelSound
<1> QED
  BY <1>1, <1>3, <1>5, <1>6, <1>7 DEF Generating

(* The first payment of an episode is neither before the window nor before *)
(* the account is in service.                                              *)
LEMMA FirstPaymentIsInService ==
  ASSUME WorldSound, NEW mule \in Mules, NEW start \in Nat, NEW slot \in 0..(DaySlots - 1), NEW wait \in Waits
  PROVE  /\ FirstPaymentAt(mule, start, slot, wait) \in Nat
         /\ world.activeFrom[mule] <= FirstPaymentAt(mule, start, slot, wait)
<1>1. (start \div DaySlots) * DaySlots \in Nat /\ slot \in Nat /\ wait \in Nat
  BY DayBegins, CorpusAssumption
<1>2. world.activeFrom[mule] \in Int
  BY PopulationIsSound
<1> DEFINE day == (start \div DaySlots) * DaySlots
           from == world.activeFrom[mule]
<1>3. day \in Nat /\ from \in Int
  BY <1>1, <1>2
<1>4. FirstPaymentAt(mule, start, slot, wait) = IF day + slot < from THEN from + wait ELSE day + slot
  BY DEF FirstPaymentAt
<1> HIDE DEF day, from
<1>5. /\ FirstPaymentAt(mule, start, slot, wait) \in Nat
      /\ from <= FirstPaymentAt(mule, start, slot, wait)
  BY <1>1, <1>3, <1>4
<1> QED
  BY <1>5 DEF from

LEMMA PlanEpisodeStep ==
  ASSUME Generating, NEW spec \in Typologies, NEW victim \in Range(PayerList), NEW mule \in Mules,
         NEW reusing \in BOOLEAN, PlanEpisode(spec, victim, mule, reusing)
  PROVE  Generating' /\ phase' # "done"
<1>1. /\ WorldSound /\ CircleSound /\ PlaceSound /\ StreamSound /\ EpisodeSound /\ ShareSound /\ IntelSound
      /\ phase = "fraud" /\ episode = NoEpisode /\ Produced < target
      /\ UNCHANGED << phase, world, circle, at, txns, target, history, firstUsed, intel >>
  BY DEF Generating, PlanEpisode, MoreWanted
<1> DEFINE earliest == IF world.activeFrom[mule] > 0 THEN world.activeFrom[mule] ELSE 0
           pair     == << victim, mule >>
<1>2. IF earliest >= Latest THEN UNCHANGED << added, episode >>
      ELSE \E start \in earliest..(Latest - 1), slot \in 0..(DaySlots - 1), wait \in Waits,
              length \in spec.episodeMin..spec.episodeMax, gap \in Gaps \cup {HygienicGap} :
             LET cursor  == FirstPaymentAt(mule, start, slot, wait)
                 addedAt == IF reusing THEN Known(added, pair, cursor - gap) ELSE cursor - gap
             IN  /\ added' = Put(added, pair, addedAt)
                 /\ episode' = [spec |-> spec, victim |-> victim, mule |-> mule, left |-> length,
                                cursor |-> cursor, addedAt |-> addedAt]
  BY DEF PlanEpisode
<1>3. earliest \in Nat
  <2>1. world.activeFrom[mule] \in Int
    BY <1>1, PopulationIsSound
  <2> QED
    BY <2>1
<1> HIDE DEF earliest
<1>4. \A t \in Legits : << t.payer, t.payee >> \in DOMAIN added /\ << t.payer, t.payee >> # pair
  <2> SUFFICES ASSUME NEW t \in Legits
               PROVE  << t.payer, t.payee >> \in DOMAIN added /\ << t.payer, t.payee >> # pair
    OBVIOUS
  <2>1. << t.payer, t.payee >> \in DOMAIN added /\ t.payee \in Merchants \cup Personals
    BY <1>1 DEF StreamSound, LegitSound
  <2>2. t.payee # mule
    BY <2>1, NobodyIsBoth
  <2> QED
    BY <2>1, <2>2
<1>5. /\ \A t \in Legits : /\ << t.payer, t.payee >> \in DOMAIN added'
                           /\ added'[<< t.payer, t.payee >>] = added[<< t.payer, t.payee >>]
      /\ \/ episode' = NoEpisode
         \/ \E cursor \in Nat :
              /\ \E left, addedAt : episode' = [spec |-> spec, victim |-> victim, mule |-> mule,
                                                left |-> left, cursor |-> cursor, addedAt |-> addedAt]
              /\ world.activeFrom[mule] <= cursor
  <2>1. CASE earliest >= Latest
    BY <1>1, <1>2, <1>4, <2>1
  <2>2. CASE ~(earliest >= Latest)
    <3>1. PICK start \in earliest..(Latest - 1), slot \in 0..(DaySlots - 1), wait \in Waits,
               length \in spec.episodeMin..spec.episodeMax, gap \in Gaps \cup {HygienicGap} :
            LET cursor  == FirstPaymentAt(mule, start, slot, wait)
                addedAt == IF reusing THEN Known(added, pair, cursor - gap) ELSE cursor - gap
            IN  /\ added' = Put(added, pair, addedAt)
                /\ episode' = [spec |-> spec, victim |-> victim, mule |-> mule, left |-> length,
                               cursor |-> cursor, addedAt |-> addedAt]
      BY <1>2, <2>2
    <3>2. start \in Nat
      BY <1>3
    <3>3. PICK cursor : cursor = FirstPaymentAt(mule, start, slot, wait)
      OBVIOUS
    <3>4. PICK addedAt : addedAt = IF reusing THEN Known(added, pair, cursor - gap) ELSE cursor - gap
      OBVIOUS
    <3>5. cursor \in Nat /\ world.activeFrom[mule] <= cursor
      BY <1>1, <3>2, <3>3, FirstPaymentIsInService
    <3>6. /\ added' = Put(added, pair, addedAt)
          /\ episode' = [spec |-> spec, victim |-> victim, mule |-> mule, left |-> length,
                         cursor |-> cursor, addedAt |-> addedAt]
      BY <3>1, <3>3, <3>4
    <3> HIDE DEF pair
    <3>7. \A p \in DOMAIN added : p # pair => p \in DOMAIN added' /\ added'[p] = added[p]
      BY <3>6 DEF Put
    <3> QED
      BY <1>4, <3>5, <3>6, <3>7
  <2> QED
    BY <2>1, <2>2
<1>6. StreamSound' /\ Legits' = Legits /\ FraudTxns' = FraudTxns /\ Produced' = Produced
  BY <1>1, <1>5, StreamStays
<1>7. EpisodeSound'
  BY <1>1, <1>5, <1>6 DEF EpisodeSound
<1>8. WorldSound' /\ CircleSound' /\ PlaceSound'
  BY <1>1, WorldStays DEF CircleSound, PlaceSound
<1>9. ShareSound'
  BY <1>1, <1>6 DEF ShareSound, FraudFor
<1>10. IntelSound'
  BY <1>1, <1>6, NothingKnownYet DEF IntelSound
<1> QED
  BY <1>1, <1>6, <1>7, <1>8, <1>9, <1>10 DEF Generating

LEMMA EpisodePaymentStep ==
  ASSUME Generating, EpisodePayment
  PROVE  Generating' /\ phase' # "done"
<1>1. /\ WorldSound /\ CircleSound /\ PlaceSound /\ StreamSound /\ EpisodeSound /\ ShareSound /\ IntelSound
      /\ phase = "fraud" /\ episode # NoEpisode /\ episode.cursor <= Latest
      /\ UNCHANGED << phase, world, circle, at, added, target, tried, intel >>
  BY DEF Generating, EpisodePayment
<1>2. Produced < target
  BY <1>1 DEF EpisodeSound
<1>3. PICK spec \in Typologies, victim \in Range(PayerList), mule \in Mules, cursor \in Nat :
        /\ \E left, addedAt : episode = [spec |-> spec, victim |-> victim, mule |-> mule, left |-> left,
                                         cursor |-> cursor, addedAt |-> addedAt]
        /\ world.activeFrom[mule] <= cursor
  BY <1>1 DEF EpisodeSound
<1>4. PICK left, addedAt : episode = [spec |-> spec, victim |-> victim, mule |-> mule, left |-> left,
                                      cursor |-> cursor, addedAt |-> addedAt]
  BY <1>3
<1>5. PICK device :
        txns' = Append(txns, BuildTransaction(cursor, victim, mule, addedAt, device,
                                              device.device = 3, spec.id))
  BY <1>4 DEF EpisodePayment
<1>6. /\ firstUsed' = NotedFirst(ChainOf[mule], cursor)
      /\ \/ episode' = NoEpisode
         \/ /\ Produced + 1 < target
            /\ \E later \in Strides :
                 episode' = [episode EXCEPT !.left = @ - 1, !.cursor = @ + later]
  <2>1. Produced \in Nat /\ target \in Nat
    <3>1. Cardinality(Legits) \in Nat /\ Produced \in Nat
      BY <1>1, FS_CardinalityType DEF ShareSound, Produced
    <3> QED
      BY <1>1, <3>1, FraudForIsNatural DEF ShareSound
  <2>2. firstUsed' = NotedFirst(ChainOf[episode.mule], episode.cursor)
    BY DEF EpisodePayment
  <2>3. IF episode.left = 1 \/ Produced + 1 >= target THEN episode' = NoEpisode
        ELSE \E later \in Strides : episode' = [episode EXCEPT !.left = @ - 1, !.cursor = @ + later]
    BY DEF EpisodePayment
  <2>4. ~(Produced + 1 >= target) => Produced + 1 < target
    BY <2>1
  <2>5. episode.mule = mule /\ episode.cursor = cursor
    BY <1>4
  <2> QED
    BY <2>2, <2>3, <2>4, <2>5
<1>7. PICK t : t = BuildTransaction(cursor, victim, mule, addedAt, device, device.device = 3, spec.id)
  OBVIOUS
<1>8. spec.id # "none"
  BY CorpusAssumption
<1>9. t.id = Len(txns) /\ t.ts = cursor /\ t.payee = mule /\ t.fraud = TRUE /\ txns' = Append(txns, t)
  BY <1>5, <1>7, <1>8 DEF BuildTransaction
<1>10. /\ Numbered(txns')
       /\ \A u \in Range(txns') : u.fraud \in BOOLEAN
       /\ IsFiniteSet(Legits') /\ IsFiniteSet(FraudTxns')
       /\ FraudTxns' = FraudTxns \cup {t} /\ Legits' = Legits /\ Produced' = Produced + 1
  BY <1>1, <1>9, StreamGrows DEF StreamSound, ShareSound
<1>11. FraudSound(t)'
  <2>1. Latest \in Int /\ cursor <= Latest
    BY <1>1, <1>4, CorpusAssumption DEF Latest
  <2>2. cursor \in 0..Latest
    BY <2>1
  <2> QED
    BY <1>1, <1>3, <1>9, <2>2 DEF FraudSound
<1>12. StreamSound'
  <2>1. ASSUME NEW u \in FraudTxns PROVE FraudSound(u)'
    <3>1. FraudSound(u)
      BY <1>1 DEF StreamSound
    <3> QED
      BY <1>1, <3>1 DEF FraudSound
  <2>2. ASSUME NEW u \in Legits PROVE LegitSound(u)'
    <3>1. LegitSound(u)
      BY <1>1 DEF StreamSound
    <3> QED
      BY <1>1, <3>1 DEF LegitSound
  <2>3. /\ \A u \in FraudTxns' : FraudSound(u)'
        /\ \A u \in Legits' : LegitSound(u)'
    BY <1>10, <1>11, <2>1, <2>2
  <2> QED
    BY <1>10, <2>3 DEF StreamSound
<1>13. EpisodeSound'
  <2>1. CASE episode' = NoEpisode
    BY <2>1 DEF EpisodeSound
  <2>2. CASE /\ Produced + 1 < target
             /\ \E later \in Strides : episode' = [episode EXCEPT !.left = @ - 1, !.cursor = @ + later]
    <3>1. PICK later \in Strides : episode' = [episode EXCEPT !.left = @ - 1, !.cursor = @ + later]
      BY <2>2
    <3>2. episode' = [spec |-> spec, victim |-> victim, mule |-> mule, left |-> left - 1,
                      cursor |-> cursor + later, addedAt |-> addedAt]
      BY <1>4, <3>1
    <3>3. cursor + later \in Nat /\ world.activeFrom[mule] <= cursor + later
      <4>1. world.activeFrom[mule] \in Int /\ later \in Nat
        BY <1>1, PopulationIsSound, CorpusAssumption
      <4> QED
        BY <1>3, <4>1
    <3>4. Produced' < target'
      BY <1>1, <1>10, <2>2
    <3>5. world'.activeFrom[mule] <= cursor + later
      BY <1>1, <3>3
    <3> QED
      BY <3>2, <3>3, <3>4, <3>5 DEF EpisodeSound
  <2> QED
    BY <1>6, <2>1, <2>2
<1>14. WorldSound' /\ CircleSound' /\ PlaceSound'
  BY <1>1, WorldStays DEF CircleSound, PlaceSound
<1>15. ShareSound'
  <2>1. Cardinality(Legits) \in Nat /\ Produced \in Nat
    BY <1>1, FS_CardinalityType DEF ShareSound, Produced
  <2>2. target \in Nat /\ target = FraudFor(Cardinality(Legits))
    BY <1>1, <2>1, FraudForIsNatural DEF ShareSound
  <2>3. Produced + 1 <= target
    BY <1>2, <2>1, <2>2
  <2>4. target' = FraudFor(Cardinality(Legits))'
    BY <1>1, <1>10, <2>2 DEF FraudFor
  <2> QED
    BY <1>1, <1>10, <2>3, <2>4 DEF ShareSound
<1>16. IntelSound'
  <2>1. \A c \in DOMAIN firstUsed : \E u \in FraudTxns : ChainOf[u.payee] = c /\ u.ts = firstUsed[c]
    BY <1>1 DEF IntelSound
  <2>2. ASSUME NEW c \in DOMAIN firstUsed'
        PROVE  \E u \in FraudTxns' : ChainOf[u.payee] = c /\ u.ts = firstUsed'[c]
    <3>1. CASE c \in DOMAIN firstUsed /\ firstUsed'[c] = firstUsed[c]
      BY <1>10, <2>1, <3>1
    <3>2. CASE c = ChainOf[mule] /\ firstUsed'[c] = cursor
      BY <1>9, <1>10, <3>2
    <3> QED
      BY <1>6, <3>1, <3>2 DEF NotedFirst, Put
  <2> QED
    BY <1>1, <2>2, NothingKnownYet
<1> QED
  BY <1>1, <1>12, <1>13, <1>14, <1>15, <1>16 DEF Generating

LEMMA EpisodeEndsStep ==
  ASSUME Generating, RunOut \/ EndFraud
  PROVE  Generating' /\ phase' # "done"
<1>1. /\ WorldSound /\ CircleSound /\ PlaceSound /\ StreamSound /\ EpisodeSound /\ ShareSound /\ IntelSound
      /\ phase = "fraud" /\ phase' \in {"fraud", "intelligence"} /\ episode' = NoEpisode
      /\ UNCHANGED << world, circle, at, added, txns, target, tried, history, firstUsed, intel >>
  BY DEF Generating, RunOut, EndFraud
<1>2. \A t \in Legits : << t.payer, t.payee >> \in DOMAIN added
  BY <1>1 DEF StreamSound, LegitSound
<1>3. StreamSound' /\ Legits' = Legits /\ FraudTxns' = FraudTxns /\ Produced' = Produced
  BY <1>1, <1>2, StreamStays
<1>4. WorldSound' /\ CircleSound' /\ PlaceSound' /\ EpisodeSound'
  BY <1>1, WorldStays DEF CircleSound, PlaceSound, EpisodeSound
<1>5. ShareSound'
  BY <1>1, <1>3 DEF ShareSound, FraudFor
<1>6. IntelSound'
  BY <1>1, <1>3, NothingKnownYet DEF IntelSound
<1> QED
  BY <1>1, <1>3, <1>4, <1>5, <1>6 DEF Generating

-----------------------------------------------------------------------------
(* Intelligence *)

LEMMA OnlyIntelligenceMoves ==
  ASSUME Generating, phase = "intelligence",
         UNCHANGED << phase, world, circle, at, added, txns, target, tried, episode, history >>
  PROVE  /\ WorldSound' /\ CircleSound' /\ PlaceSound' /\ StreamSound' /\ EpisodeSound' /\ ShareSound'
         /\ FraudTxns' = FraudTxns
<1>1. WorldSound /\ CircleSound /\ PlaceSound /\ StreamSound /\ EpisodeSound /\ ShareSound
  BY DEF Generating
<1>2. \A t \in Legits : << t.payer, t.payee >> \in DOMAIN added
  BY <1>1 DEF StreamSound, LegitSound
<1>3. StreamSound' /\ Legits' = Legits /\ FraudTxns' = FraudTxns /\ Produced' = Produced
  BY <1>1, <1>2, StreamStays
<1>4. WorldSound' /\ CircleSound' /\ PlaceSound' /\ EpisodeSound'
  BY <1>1, <1>3, WorldStays DEF CircleSound, PlaceSound, EpisodeSound
<1>5. ShareSound'
  BY <1>1, <1>3 DEF ShareSound, FraudFor
<1> QED
  BY <1>3, <1>4, <1>5

LEMMA NeverConfirmedStep ==
  ASSUME Generating, NEW chain, NeverConfirmed(chain)
  PROVE  Generating' /\ phase' # "done"
<1>1. /\ IntelSound /\ phase = "intelligence" /\ firstUsed' = Forget(chain) /\ intel' = intel
      /\ UNCHANGED << phase, world, circle, at, added, txns, target, tried, episode, history >>
  BY DEF Generating, NeverConfirmed
<1>2. /\ WorldSound' /\ CircleSound' /\ PlaceSound' /\ StreamSound' /\ EpisodeSound' /\ ShareSound'
      /\ FraudTxns' = FraudTxns
  BY <1>1, OnlyIntelligenceMoves
<1>3. IntelligenceFollowsUse'
  BY <1>1, <1>2 DEF IntelSound, IntelligenceFollowsUse
<1>4. /\ \A c \in DOMAIN firstUsed' : \E t \in FraudTxns' : ChainOf[t.payee] = c /\ t.ts = firstUsed'[c]
      /\ \A e \in intel' : e.ts \in Int /\ e.hop \in Nat /\ e.chain \notin DOMAIN firstUsed'
  BY <1>1, <1>2 DEF IntelSound, Forget
<1>5. IntelSound'
  BY <1>1, <1>3, <1>4 DEF IntelSound
<1> QED
  BY <1>1, <1>2, <1>5 DEF Generating

(* One account is confirmed, the others are associated: what is told of a  *)
(* network is told of each of its accounts once.                           *)
LEMMA ConfirmChainStep ==
  ASSUME Generating, NEW chain, NEW confirmed \in Mules, NEW lag \in Lags, NEW delay \in Delays, NEW hop \in Hops,
         ConfirmChain(chain, confirmed, lag, delay, hop)
  PROVE  Generating' /\ phase' # "done"
<1>1. /\ IntelSound /\ StreamSound /\ phase = "intelligence" /\ firstUsed' = Forget(chain)
      /\ chain \in DOMAIN firstUsed /\ confirmed \in AccountsOf(chain)
      /\ UNCHANGED << phase, world, circle, at, added, txns, target, tried, episode, history >>
  BY DEF Generating, ConfirmChain
<1>2. PICK used : used = firstUsed[chain]
  OBVIOUS
<1>3. PICK first : first = [ts |-> used + lag, payee |-> confirmed, chain |-> chain, hop |-> 0]
  OBVIOUS
<1>4. PICK others : others = {[ts |-> used + lag + delay, payee |-> m, chain |-> chain, hop |-> hop] :
                                m \in AccountsOf(chain) \ {confirmed}}
  OBVIOUS
<1>5. intel' = intel \cup {first} \cup others
  BY <1>2, <1>3, <1>4 DEF ConfirmChain
<1>6. /\ WorldSound' /\ CircleSound' /\ PlaceSound' /\ StreamSound' /\ EpisodeSound' /\ ShareSound'
      /\ FraudTxns' = FraudTxns
  BY <1>1, OnlyIntelligenceMoves
<1>7. lag \in Nat /\ lag > 0 /\ delay \in Nat /\ hop \in Nat /\ hop > 0
  BY CorpusAssumption
<1>8. PICK t \in FraudTxns : ChainOf[t.payee] = chain /\ t.ts = used
  BY <1>1, <1>2 DEF IntelSound
<1>9. used \in Int
  BY <1>1, <1>8 DEF StreamSound, FraudSound
<1>10. /\ first.ts = used + lag /\ first.payee = confirmed /\ first.chain = chain /\ first.hop = 0
       /\ \A e \in others : /\ e.ts = used + lag + delay /\ e.chain = chain /\ e.hop = hop
                            /\ e.payee \in AccountsOf(chain) \ {confirmed}
       /\ \A e, f \in others : e.payee = f.payee => e = f
       /\ \A m \in AccountsOf(chain) \ {confirmed} : \E e \in others : e.payee = m
  <2>1. first.ts = used + lag /\ first.payee = confirmed /\ first.chain = chain /\ first.hop = 0
    BY <1>3
  <2>2. ASSUME NEW e \in others
        PROVE  \E m \in AccountsOf(chain) \ {confirmed} :
                 e = [ts |-> used + lag + delay, payee |-> m, chain |-> chain, hop |-> hop]
    BY <1>4
  <2>3. \A e \in others : /\ e.ts = used + lag + delay /\ e.chain = chain /\ e.hop = hop
                           /\ e.payee \in AccountsOf(chain) \ {confirmed}
    BY <2>2
  <2>4. ASSUME NEW e \in others, NEW f \in others, e.payee = f.payee PROVE e = f
    BY <2>2, <2>4
  <2>5. ASSUME NEW m \in AccountsOf(chain) \ {confirmed} PROVE \E e \in others : e.payee = m
    <3> DEFINE e == [ts |-> used + lag + delay, payee |-> m, chain |-> chain, hop |-> hop]
    <3>1. e \in others /\ e.payee = m
      BY <1>4
    <3> QED
      BY <3>1
  <2> QED
    BY <2>1, <2>3, <2>4, <2>5
<1>11. \A e \in intel : e.chain # chain /\ e.ts \in Int /\ e.hop \in Nat
  BY <1>1 DEF IntelSound
<1> DEFINE told == {first} \cup others
<1>12. /\ \A e \in told : e.chain = chain /\ e.ts \in Int /\ e.hop \in Nat /\ t.ts < e.ts
       /\ {e.payee : e \in told} = AccountsOf(chain)
       /\ \A e, f \in told : e # f => e.payee # f.payee /\ (e.hop = 0 => f.hop > 0 /\ e.ts <= f.ts)
  <2>1. ASSUME NEW e \in told PROVE e.chain = chain /\ e.ts \in Int /\ e.hop \in Nat /\ t.ts < e.ts
    <3>1. CASE e = first
      BY <1>7, <1>8, <1>9, <1>10, <3>1
    <3>2. CASE e \in others
      BY <1>7, <1>8, <1>9, <1>10, <3>2
    <3> QED
      BY <3>1, <3>2
  <2>2. {e.payee : e \in told} = AccountsOf(chain)
    BY <1>1, <1>10
  <2>3. ASSUME NEW e \in told, NEW f \in told, e # f
        PROVE  e.payee # f.payee /\ (e.hop = 0 => f.hop > 0 /\ e.ts <= f.ts)
    <3>1. CASE e = first
      <4>1. f \in others
        BY <2>3, <3>1
      <4>2. f.ts = used + lag + delay /\ f.hop = hop /\ f.payee # confirmed
        BY <1>10, <4>1
      <4> QED
        BY <1>7, <1>9, <1>10, <3>1, <4>2
    <3>2. CASE e # first
      <4>1. e \in others /\ e.hop = hop /\ e.payee # confirmed
        BY <1>10, <3>2
      <4>2. e.payee # f.payee
        BY <1>10, <2>3, <4>1
      <4> QED
        BY <1>7, <4>1, <4>2
    <3> QED
      BY <3>1, <3>2
  <2> QED
    BY <2>1, <2>2, <2>3
<1>13. intel' = intel \cup told
  BY <1>5
<1> HIDE DEF told
<1>14. /\ \A e \in intel : {g \in intel' : g.chain = e.chain} = {g \in intel : g.chain = e.chain}
       /\ {g \in intel' : g.chain = chain} = told
  BY <1>11, <1>12, <1>13
<1>15. IntelligenceFollowsUse
  BY <1>1 DEF IntelSound
<1>16. IntelligenceFollowsUse'
  <2>1. ASSUME NEW e \in intel' PROVE \E u \in FraudTxns : ChainOf[u.payee] = e.chain /\ u.ts < e.ts
    <3>1. CASE e \in intel
      BY <1>15, <3>1 DEF IntelligenceFollowsUse
    <3>2. CASE e \in told
      BY <1>8, <1>12, <3>2
    <3> QED
      BY <1>13, <3>1, <3>2
  <2>2. ASSUME NEW e \in intel'
        PROVE  {f.payee : f \in {g \in intel' : g.chain = e.chain}} = AccountsOf(e.chain)
    <3>1. CASE e \in intel
      <4>1. {f.payee : f \in {g \in intel : g.chain = e.chain}} = AccountsOf(e.chain)
        BY <1>15, <3>1 DEF IntelligenceFollowsUse
      <4> QED
        BY <1>14, <3>1, <4>1
    <3>2. CASE e \in told
      BY <1>12, <1>14, <3>2
    <3> QED
      BY <1>13, <3>1, <3>2
  <2>3. ASSUME NEW e \in intel', NEW f \in intel', e.chain = f.chain, e # f
        PROVE  e.payee # f.payee /\ (e.hop = 0 => f.hop > 0 /\ e.ts <= f.ts)
    <3>1. CASE e \in intel /\ f \in intel
      BY <1>15, <2>3, <3>1 DEF IntelligenceFollowsUse
    <3>2. CASE e \in told /\ f \in told
      BY <1>12, <2>3, <3>2
    <3> QED
      BY <1>11, <1>12, <1>13, <2>3, <3>1, <3>2
  <2> QED
    BY <1>6, <2>1, <2>2, <2>3 DEF IntelligenceFollowsUse, AccountsOf
<1>17. /\ \A c \in DOMAIN firstUsed' : \E u \in FraudTxns' : ChainOf[u.payee] = c /\ u.ts = firstUsed'[c]
       /\ \A e \in intel' : e.ts \in Int /\ e.hop \in Nat /\ e.chain \notin DOMAIN firstUsed'
  BY <1>1, <1>6, <1>12, <1>13 DEF IntelSound, Forget
<1>18. IntelSound'
  BY <1>1, <1>16, <1>17 DEF IntelSound
<1> QED
  BY <1>1, <1>6, <1>18 DEF Generating

-----------------------------------------------------------------------------
(* The finished corpus *)

LEMMA FinishStep ==
  ASSUME Generating, Finish
  PROVE  CorpusIsSound'
<1>1. /\ WorldSound /\ StreamSound /\ ShareSound /\ IntelSound
      /\ phase = "intelligence" /\ txns' = SortedByTime(txns)
      /\ UNCHANGED << world, circle, at, added, target, tried, episode, history, firstUsed, intel >>
  BY DEF Generating, Finish
<1>2. /\ \A t \in Legits : LegitSound(t)
      /\ \A t \in FraudTxns : FraudSound(t)
      /\ Numbered(txns)
  BY <1>1 DEF StreamSound
<1>3. Days \in Nat /\ DaySlots \in Nat /\ Latest \in Nat
  BY CorpusAssumption DEF Latest
<1>4. IsStream(txns)
  <2>1. Len(txns) \in Nat /\ DOMAIN txns = 1..Len(txns)
    BY <1>2, LengthIsNatural DEF Numbered
  <2>2. ASSUME NEW i \in 1..Len(txns) PROVE txns[i].ts \in Int /\ txns[i].id \in Nat
    <3>1. txns[i] \in Legits \cup FraudTxns
      BY <2>1 DEF Legits, FraudTxns, Range
    <3>2. txns[i].ts \in Int
      <4>1. txns[i].ts \in 0..(Latest - 1) \/ txns[i].ts \in 0..Latest
        BY <1>2, <3>1 DEF LegitSound, FraudSound
      <4> QED
        BY <4>1
    <3>3. txns[i].id = i - 1
      BY <1>2 DEF Numbered
    <3> QED
      BY <2>1, <3>2, <3>3
  <2> QED
    BY <1>2, <2>2 DEF IsStream, Numbered
<1>5. IsStream(txns') /\ InStreamOrder(txns') /\ ToSet(txns') = ToSet(txns)
  BY <1>1, <1>2, <1>4, StreamIsSorted DEF Numbered
<1>6. Legits' = Legits /\ FraudTxns' = FraudTxns
  <2>1. Range(txns') = Range(txns)
    BY <1>5 DEF ToSet, Range
  <2> QED
    BY <2>1 DEF Legits, FraudTxns
<1>7. PaymentsCanBeMade'
  <2>1. ASSUME NEW t \in Legits PROVE t.ts \in 0..(Latest - 1) /\ world'.firstSeen[t.payee] <= t.ts
    BY <1>1, <1>2 DEF LegitSound
  <2>2. ASSUME NEW t \in FraudTxns PROVE t.ts \in 0..Latest /\ world'.activeFrom[t.payee] <= t.ts
    BY <1>1, <1>2 DEF FraudSound
  <2> QED
    BY <1>6, <2>1, <2>2 DEF PaymentsCanBeMade
<1>8. IntelligenceFollowsUse'
  BY <1>1, <1>6 DEF IntelSound, IntelligenceFollowsUse
<1>9. NoveltyAges'
  <2>1. ASSUME NEW t \in Legits, NEW u \in Legits, t.payer = u.payer, t.payee = u.payee
        PROVE  t.addedAt = u.addedAt
    <3>1. added[<< t.payer, t.payee >>] = t.addedAt /\ added[<< u.payer, u.payee >>] = u.addedAt
      BY <1>2 DEF LegitSound
    <3> QED
      BY <2>1, <3>1
  <2> QED
    BY <1>6, <2>1 DEF NoveltyAges
<1>10. InOrderAndInShare'
  <2>1. Cardinality(FraudTxns) <= FraudFor(Cardinality(Legits))
    BY <1>1 DEF ShareSound, Produced
  <2>2. (Cardinality(FraudTxns) <= FraudFor(Cardinality(Legits)))'
    BY <1>1, <1>6, <2>1 DEF FraudFor
  <2> QED
    BY <1>5, <2>2 DEF InOrderAndInShare, InStreamOrder
<1> QED
  BY <1>7, <1>8, <1>9, <1>10 DEF CorpusIsSound

LEMMA GeneratorInitially == CorpusInit => IInv
<1> SUFFICES ASSUME CorpusInit PROVE IInv
  OBVIOUS
<1>1. WorldSound /\ phase = "legitimate" /\ txns = << >> /\ episode = NoEpisode /\ intel = {} /\ firstUsed = << >>
  BY DEF CorpusInit, WorldSound
<1>2. CircleSound
  BY <1>1, PopulationIsSound DEF CorpusInit, CircleSound
<1>3. PlaceSound
  BY CorpusAssumption DEF CorpusInit, PlaceSound
<1>4. Range(txns) = {} /\ FraudTxns = {} /\ Legits = {} /\ Len(txns) = 0 /\ << >> \in Seq({}) /\ DOMAIN firstUsed = {}
  BY <1>1 DEF Range, FraudTxns, Legits
<1>5. StreamSound
  BY <1>1, <1>4 DEF StreamSound, Numbered, IsSequence
<1>6. EpisodeSound
  BY <1>1 DEF EpisodeSound
<1>7. ShareSound
  BY <1>1, <1>4, FS_EmptySet DEF ShareSound
<1>8. IntelSound
  BY <1>1, <1>4 DEF IntelSound, IntelligenceFollowsUse
<1> QED
  BY <1>1, <1>2, <1>3, <1>5, <1>6, <1>7, <1>8 DEF IInv, Generating, CorpusIsSound

LEMMA GeneratorStep == IInv /\ [CorpusNext]_corpusVars => IInv'
<1> SUFFICES ASSUME IInv, [CorpusNext]_corpusVars PROVE IInv'
  OBVIOUS
<1>1. CASE CorpusNext
  <2>1. phase # "done"
    BY <1>1 DEF CorpusNext, LegitimatePayment, NextDay, NextPayer, StartFraud, PlanEpisode, EpisodePayment,
                RunOut, EndFraud, ConfirmChain, NeverConfirmed, Finish
  <2>2. Generating
    BY <2>1 DEF IInv
  <2>3. CASE Finish
    <3>1. phase' = "done"
      BY <2>3 DEF Finish
    <3> QED
      BY <2>2, <2>3, <3>1, FinishStep DEF IInv
  <2>4. CASE ~Finish
    <3>1. Generating' /\ phase' # "done"
      BY <1>1, <2>2, <2>4, LegitimatePaymentStep, NextDayStep, NextPayerStep, StartFraudStep, PlanEpisodeStep,
         EpisodePaymentStep, EpisodeEndsStep, ConfirmChainStep, NeverConfirmedStep DEF CorpusNext
    <3> QED
      BY <3>1 DEF IInv, CorpusIsSound
  <2> QED
    BY <2>3, <2>4
<1>2. CASE UNCHANGED corpusVars
  <2>1. /\ phase' = phase /\ world' = world /\ circle' = circle /\ at' = at /\ added' = added /\ txns' = txns
        /\ target' = target /\ episode' = episode /\ firstUsed' = firstUsed /\ intel' = intel
    BY <1>2 DEF corpusVars
  <2>2. Legits' = Legits /\ FraudTxns' = FraudTxns /\ Produced' = Produced
    BY <2>1 DEF Legits, FraudTxns, Produced
  <2>3. CorpusIsSound => CorpusIsSound'
    BY <2>1, <2>2 DEF CorpusIsSound, PaymentsCanBeMade, IntelligenceFollowsUse, NoveltyAges,
                      InOrderAndInShare, FraudFor
  <2>4. Generating => Generating'
    <3> SUFFICES ASSUME Generating PROVE Generating'
      OBVIOUS
    <3>1. WorldSound' /\ CircleSound' /\ PlaceSound'
      BY <2>1, WorldStays DEF Generating, CircleSound, PlaceSound
    <3>2. StreamSound'
      BY <2>1, StreamStays DEF Generating, StreamSound, LegitSound
    <3>3. EpisodeSound' /\ ShareSound'
      BY <2>1, <2>2 DEF Generating, EpisodeSound, ShareSound, FraudFor
    <3>4. IntelSound'
      BY <2>1, <2>2 DEF Generating, IntelSound, IntelligenceFollowsUse
    <3> QED
      BY <3>1, <3>2, <3>3, <3>4 DEF Generating
  <2> QED
    BY <2>1, <2>3, <2>4 DEF IInv
<1> QED
  BY <1>1, <1>2

(* For any population, window and typologies, whatever is drawn: a corpus  *)
(* that was generated pays only accounts that can take the payment, has no *)
(* intelligence of a network before its use, gives a pair one time of      *)
(* addition, is in time order, and has no more fraud than its share.       *)
THEOREM CorpusStaysSound == CorpusSpec => []CorpusIsSound
<1>1. IInv => CorpusIsSound
  BY DEF IInv
<1> QED
  BY <1>1, GeneratorInitially, GeneratorStep, PTL DEF CorpusSpec
=============================================================================
