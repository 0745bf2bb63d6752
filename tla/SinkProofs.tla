----------------------------- MODULE SinkProofs -----------------------------
(***************************************************************************)
(* Proofs about module SheetsSink, for every list of tabs, every size of   *)
(* the buffers and the queue, every number of rows and every pattern of    *)
(* failing, lost and restarted requests.                                   *)
(***************************************************************************)
EXTENDS SheetsSink, SequenceTheorems, FiniteSetTheorems, TLAPS

-----------------------------------------------------------------------------
(* The inductive invariant.  It speaks of one tab at a time: s is what the *)
(* tab's sheet has, w what still waits for it, n the newest row pushed.    *)

Increasing(w) == \A i, j \in DOMAIN w : i < j => w[i] < w[j]

(* A row that arrives below a newer one is a repetition. *)
Repeats(s) ==
  \A i, j \in DOMAIN s :
    i < j /\ s[j] \in 1..s[i] => \E k \in 1..i : s[k] = s[j]

LastIsNewest(s) == \A i \in DOMAIN s : s[i] <= s[Len(s)]

HeaderIsFirst(s) == \A i \in DOMAIN s : s[i] = Header => i = 1

(* A waiting row that is not newer than all that arrived has itself        *)
(* arrived: it is a retry whose first answer was lost.                     *)
Follows(s, w) ==
  \A j \in DOMAIN w, i \in DOMAIN s : w[j] <= s[i] => \E k \in DOMAIN s : s[k] = w[j]

(* Sent as a whole, w would end with the newest row of the sheet. *)
Reaches(s, w) == w # << >> => \A i \in DOMAIN s : s[i] <= w[Len(w)]

UpTo(s, n) == \A i \in DOMAIN s : s[i] <= n

TabSound(s, w, n) ==
  /\ Repeats(s) /\ LastIsNewest(s) /\ HeaderIsFirst(s)
  /\ Increasing(w) /\ Follows(s, w) /\ Reaches(s, w)
  /\ UpTo(s, n) /\ UpTo(w, n)

(* Rows are sent after the setup only, and until then a sheet has at most  *)
(* its header; a header that is still to be written heads an empty sheet.  *)
SetupSound ==
  /\ flush = "sending" => setup = "done"
  /\ setup # "done" => \A t \in Tabs : /\ sheet[t] \in {<< >>, << Header >>}
                                       /\ t \notin tabs => sheet[t] = << >>
  /\ setup = "heading" => \A t \in toHead : t \in tabs /\ sheet[t] = << >>

(* The request in flight, by itself, ends with the newest row: rows pushed *)
(* after it may all be cut.                                                *)
SinkInv ==
  /\ TypeOK
  /\ SetupSound
  /\ \A t \in Tabs : TabSound(sheet[t], Waiting(t), pushed)
  /\ flush = "sending" => Reaches(sheet[order[at]], batch)

-----------------------------------------------------------------------------
(* Lemmas on one tab. *)

LEMMA IncreasingLast ==
  ASSUME NEW w \in Seq(Nat), Increasing(w), NEW i \in DOMAIN w
  PROVE  w[i] <= w[Len(w)] /\ Len(w) \in DOMAIN w /\ w # << >>
  BY DEF Increasing

LEMMA ConcatParts ==
  ASSUME NEW S, NEW b \in Seq(S), NEW r \in Seq(S)
  PROVE  /\ b \o r \in Seq(S) /\ Len(b \o r) = Len(b) + Len(r)
         /\ Len(b) \in Nat /\ Len(r) \in Nat
         /\ DOMAIN b = 1..Len(b) /\ DOMAIN r = 1..Len(r)
         /\ DOMAIN (b \o r) = 1..(Len(b) + Len(r))
         /\ \A i \in 1..Len(b) : (b \o r)[i] = b[i]
         /\ \A i \in 1..Len(r) : (b \o r)[Len(b) + i] = r[i]
         /\ \A i \in 1..(Len(b) + Len(r)) :
              \/ i \in 1..Len(b) /\ (b \o r)[i] = b[i]
              \/ \E k \in 1..Len(r) : i = Len(b) + k /\ (b \o r)[i] = r[k]
<1>1. /\ b \o r \in Seq(S) /\ Len(b \o r) = Len(b) + Len(r)
      /\ \A i \in 1..(Len(b) + Len(r)) :
           (b \o r)[i] = IF i <= Len(b) THEN b[i] ELSE r[i - Len(b)]
  BY ConcatProperties
<1>2. Len(b) \in Nat /\ Len(r) \in Nat /\ DOMAIN b = 1..Len(b) /\ DOMAIN r = 1..Len(r)
      /\ DOMAIN (b \o r) = 1..(Len(b) + Len(r))
  BY <1>1, LenProperties
<1>3. ASSUME NEW i \in 1..(Len(b) + Len(r)), i > Len(b)
      PROVE  \E k \in 1..Len(r) : i = Len(b) + k /\ (b \o r)[i] = r[k]
  <2>1. i - Len(b) \in 1..Len(r) /\ i = Len(b) + (i - Len(b))
    BY <1>2, <1>3
  <2>2. QED
    BY <1>1, <1>3, <2>1
<1>4. \A i \in 1..Len(b) : (b \o r)[i] = b[i]
  BY <1>1, <1>2
<1>5. \A i \in 1..Len(r) : (b \o r)[Len(b) + i] = r[i]
  BY <1>1, <1>2
<1>6. QED
  BY <1>1, <1>2, <1>3, <1>4, <1>5

LEMMA PartsIncrease ==
  ASSUME NEW b \in Seq(Nat), NEW r \in Seq(Nat), Increasing(b \o r)
  PROVE  /\ Increasing(b) /\ Increasing(r)
         /\ \A i \in DOMAIN b, j \in DOMAIN r : b[i] < r[j]
<1> DEFINE w == b \o r
<1>1. /\ DOMAIN b = 1..Len(b) /\ DOMAIN r = 1..Len(r) /\ Len(b) \in Nat /\ Len(r) \in Nat
      /\ DOMAIN w = 1..(Len(b) + Len(r))
      /\ \A i \in 1..Len(b) : w[i] = b[i]
      /\ \A i \in 1..Len(r) : w[Len(b) + i] = r[i]
  BY ConcatParts
<1>2. Increasing(w)
  OBVIOUS
<1> HIDE DEF w
<1>3. Increasing(b)
  BY <1>1, <1>2 DEF Increasing
<1>4. Increasing(r)
  <2>1. SUFFICES ASSUME NEW i \in 1..Len(r), NEW j \in 1..Len(r), i < j PROVE r[i] < r[j]
    BY <1>1 DEF Increasing
  <2>2. Len(b) + i \in DOMAIN w /\ Len(b) + j \in DOMAIN w /\ Len(b) + i < Len(b) + j
    BY <1>1, <2>1
  <2>3. w[Len(b) + i] < w[Len(b) + j]
    BY <1>2, <2>2 DEF Increasing
  <2>4. QED
    BY <1>1, <2>3
<1>5. ASSUME NEW i \in 1..Len(b), NEW j \in 1..Len(r) PROVE b[i] < r[j]
  <2>1. i \in DOMAIN w /\ Len(b) + j \in DOMAIN w /\ i < Len(b) + j
    BY <1>1
  <2>2. w[i] < w[Len(b) + j]
    BY <1>2, <2>1 DEF Increasing
  <2>3. QED
    BY <1>1, <2>2
<1>6. QED
  BY <1>1, <1>3, <1>4, <1>5

(* What waits behind b is as sound without b, if b is let go. *)
LEMMA LetGo ==
  ASSUME NEW s \in Seq(Nat), NEW b \in Seq(Nat), NEW r \in Seq(Nat), NEW n \in Nat,
         TabSound(s, b \o r, n)
  PROVE  TabSound(s, r, n)
<1> DEFINE w == b \o r
<1>1. /\ DOMAIN b = 1..Len(b) /\ DOMAIN r = 1..Len(r) /\ Len(b) \in Nat /\ Len(r) \in Nat
      /\ Len(w) = Len(b) + Len(r) /\ DOMAIN w = 1..(Len(b) + Len(r))
      /\ \A i \in 1..Len(r) : w[Len(b) + i] = r[i]
  BY ConcatParts
<1>2. Increasing(r)
  BY PartsIncrease DEF TabSound
<1>3. TabSound(s, w, n)
  OBVIOUS
<1> HIDE DEF w
<1>4. \A j \in 1..Len(r) : Len(b) + j \in DOMAIN w
  BY <1>1
<1>5. Follows(s, r) /\ UpTo(r, n)
  BY <1>1, <1>3, <1>4 DEF TabSound, Follows, UpTo
<1>6. Reaches(s, r)
  <2>1. SUFFICES ASSUME r # << >> PROVE \A i \in DOMAIN s : s[i] <= r[Len(r)]
    BY DEF Reaches
  <2>2. Len(r) \in 1..Len(r)
    BY <1>1, <2>1
  <2>3. w # << >> /\ w[Len(w)] = r[Len(r)]
    BY <1>1, <2>2
  <2>4. QED
    BY <1>3, <2>3 DEF TabSound, Reaches
<1>7. QED
  BY <1>2, <1>3, <1>5, <1>6 DEF TabSound

(* The request b arrives: the sheet stays in order. *)
LEMMA ArrivalInOrder ==
  ASSUME NEW s \in Seq(Nat), NEW b \in Seq(Nat \ {Header}), b # << >>,
         Repeats(s), LastIsNewest(s), HeaderIsFirst(s),
         Increasing(b), Follows(s, b), Reaches(s, b)
  PROVE  Repeats(s \o b) /\ LastIsNewest(s \o b) /\ HeaderIsFirst(s \o b)
<1> DEFINE z == s \o b
<1>1. b \in Seq(Nat) /\ \A i \in DOMAIN b : b[i] \in Nat /\ b[i] # Header
  BY SeqMonotonic, LenProperties, ElementOfSeq
<1>2. /\ DOMAIN s = 1..Len(s) /\ DOMAIN b = 1..Len(b) /\ Len(s) \in Nat /\ Len(b) \in Nat
      /\ Len(z) = Len(s) + Len(b) /\ DOMAIN z = 1..(Len(s) + Len(b))
      /\ \A i \in 1..Len(s) : z[i] = s[i]
      /\ \A i \in 1..Len(b) : z[Len(s) + i] = b[i]
      /\ \A i \in 1..(Len(s) + Len(b)) :
           \/ i \in 1..Len(s) /\ z[i] = s[i]
           \/ \E k \in 1..Len(b) : i = Len(s) + k /\ z[i] = b[k]
  BY <1>1, ConcatParts
<1>3. \A i \in DOMAIN s : s[i] \in Nat
  BY <1>2, ElementOfSeq
<1>4. Len(b) \in 1..Len(b) /\ z[Len(z)] = b[Len(b)]
  BY <1>2
<1> HIDE DEF z
<1>5. LastIsNewest(z)
  <2>1. SUFFICES ASSUME NEW i \in DOMAIN z PROVE z[i] <= b[Len(b)]
    BY <1>4 DEF LastIsNewest
  <2>2. CASE i \in 1..Len(s) /\ z[i] = s[i]
    BY <1>2, <2>2 DEF Reaches
  <2>3. CASE \E k \in 1..Len(b) : i = Len(s) + k /\ z[i] = b[k]
    BY <1>1, <1>2, <2>3, IncreasingLast
  <2>4. QED
    BY <1>2, <2>2, <2>3
<1>6. HeaderIsFirst(z)
  BY SMTT(30), <1>1, <1>2 DEF HeaderIsFirst
<1>7. Repeats(z)
  <2>1. SUFFICES ASSUME NEW i \in DOMAIN z, NEW j \in DOMAIN z, i < j, z[j] \in 1..z[i]
                 PROVE  \E k \in 1..i : z[k] = z[j]
    BY DEF Repeats
  <2>2. CASE j \in 1..Len(s)
    <3>1. i \in 1..Len(s) /\ z[i] = s[i] /\ z[j] = s[j]
      BY <1>2, <2>1, <2>2
    <3>2. PICK k \in 1..i : s[k] = s[j]
      BY <1>2, <2>1, <2>2, <3>1 DEF Repeats
    <3>3. k \in 1..Len(s) /\ z[k] = s[k]
      BY <1>2, <3>1
    <3>4. QED
      BY <3>1, <3>2, <3>3
  <2>3. CASE \E m \in 1..Len(b) : j = Len(s) + m /\ z[j] = b[m]
    <3>1. PICK m \in 1..Len(b) : j = Len(s) + m /\ z[j] = b[m]
      BY <2>3
    <3>2. CASE i \in 1..Len(s) /\ z[i] = s[i]
      <4>0. b[m] <= s[i]
        BY <2>1, <3>1, <3>2
      <4>1. PICK k \in 1..Len(s) : s[k] = b[m]
        BY <1>2, <3>1, <3>2, <4>0 DEF Follows
      <4>2. CASE k <= i
        BY <1>2, <3>1, <4>1, <4>2
      <4>3. CASE i < k
        <5>1. s[k] \in 1..s[i]
          BY <2>1, <3>1, <3>2, <4>1
        <5>2. PICK k2 \in 1..i : s[k2] = s[k]
          BY <1>2, <3>2, <4>3, <5>1 DEF Repeats
        <5>3. k2 \in 1..Len(s) /\ z[k2] = s[k2]
          BY SMTT(30), <1>2, <3>2
        <5>4. QED
          BY <3>1, <4>1, <5>2, <5>3
      <4>4. i \in Nat /\ k \in Nat
        BY <1>2, <3>2
      <4>5. QED
        BY <4>2, <4>3, <4>4
    <3>3. CASE \E l \in 1..Len(b) : i = Len(s) + l /\ z[i] = b[l]
      <4>1. PICK l \in 1..Len(b) : i = Len(s) + l /\ z[i] = b[l]
        BY <3>3
      <4>2. l < m
        BY <1>2, <2>1, <3>1, <4>1
      <4>3. b[l] < b[m]
        BY <1>2, <4>2 DEF Increasing
      <4>4. b[l] \in Nat /\ b[m] \in Nat
        BY <1>1, <1>2
      <4>5. QED
        BY <2>1, <3>1, <4>1, <4>3, <4>4
    <3>4. QED
      BY <1>2, <3>2, <3>3
  <2>4. QED
    BY <1>2, <2>2, <2>3
<1>8. QED
  BY <1>5, <1>6, <1>7 DEF z

(* What waits stays sound when its first rows b arrive, whether the sender *)
(* learns of it, and has r left to send, or does not, and will send b and  *)
(* r again.                                                                *)
LEMMA ArrivalSound ==
  ASSUME NEW s \in Seq(Nat), NEW b \in Seq(Nat \ {Header}), NEW r \in Seq(Nat \ {Header}),
         NEW n \in Nat, b # << >>, TabSound(s, b \o r, n), Reaches(s, b)
  PROVE  TabSound(s \o b, r, n) /\ TabSound(s \o b, b \o r, n)
<1> DEFINE z == s \o b
           w == b \o r
<1>1. /\ b \in Seq(Nat) /\ r \in Seq(Nat)
      /\ \A i \in DOMAIN b : b[i] \in Nat
      /\ \A i \in DOMAIN r : r[i] \in Nat
      /\ \A i \in DOMAIN s : s[i] \in Nat
  BY SeqMonotonic, LenProperties, ElementOfSeq
<1>2. /\ DOMAIN s = 1..Len(s) /\ DOMAIN b = 1..Len(b) /\ DOMAIN r = 1..Len(r)
      /\ Len(s) \in Nat /\ Len(b) \in Nat /\ Len(r) \in Nat
      /\ DOMAIN z = 1..(Len(s) + Len(b))
      /\ \A i \in 1..Len(s) : z[i] = s[i]
      /\ \A i \in 1..Len(b) : z[Len(s) + i] = b[i]
      /\ \A i \in 1..(Len(s) + Len(b)) :
           \/ i \in 1..Len(s) /\ z[i] = s[i]
           \/ \E k \in 1..Len(b) : i = Len(s) + k /\ z[i] = b[k]
  BY <1>1, ConcatParts
<1>3. /\ w \in Seq(Nat) /\ Len(w) = Len(b) + Len(r) /\ DOMAIN w = 1..(Len(b) + Len(r))
      /\ \A i \in 1..Len(b) : w[i] = b[i]
      /\ \A i \in 1..Len(r) : w[Len(b) + i] = r[i]
      /\ \A i \in 1..(Len(b) + Len(r)) :
           \/ i \in 1..Len(b) /\ w[i] = b[i]
           \/ \E k \in 1..Len(r) : i = Len(b) + k /\ w[i] = r[k]
  BY <1>1, ConcatParts
<1>4. TabSound(s, w, n)
  OBVIOUS
<1>5. /\ Increasing(b) /\ Increasing(r) /\ Increasing(w)
      /\ \A i \in 1..Len(b), j \in 1..Len(r) : b[i] < r[j]
  BY <1>1, <1>2, PartsIncrease DEF TabSound
<1> HIDE DEF w
<1>6. Follows(s, b) /\ UpTo(b, n)
  <2>1. \A j \in 1..Len(b) : j \in DOMAIN w
    BY <1>2, <1>3
  <2>2. QED
    BY SMTT(60), <1>2, <1>3, <1>4, <2>1 DEF TabSound, Follows, UpTo
<1>7. Repeats(z) /\ LastIsNewest(z) /\ HeaderIsFirst(z)
  BY <1>4, <1>5, <1>6, ArrivalInOrder DEF TabSound
<1> HIDE DEF z
<1>8. UpTo(z, n)
  BY <1>2, <1>4, <1>6 DEF TabSound, UpTo
<1>9. \A i \in DOMAIN z : z[i] \in Nat /\ z[i] <= b[Len(b)] /\ Len(b) \in 1..Len(b)
  <2>1. SUFFICES ASSUME NEW i \in DOMAIN z
                 PROVE  z[i] \in Nat /\ z[i] <= b[Len(b)] /\ Len(b) \in 1..Len(b)
    OBVIOUS
  <2>2. Len(b) \in 1..Len(b)
    BY <1>2
  <2>3. CASE i \in 1..Len(s) /\ z[i] = s[i]
    BY <1>1, <1>2, <2>2, <2>3 DEF Reaches
  <2>4. CASE \E k \in 1..Len(b) : i = Len(s) + k /\ z[i] = b[k]
    BY <1>1, <1>2, <1>5, <2>2, <2>4, IncreasingLast
  <2>5. QED
    BY <1>2, <2>3, <2>4
<1>10. \A i \in DOMAIN z, j \in 1..Len(r) : z[i] < r[j]
  <2>1. SUFFICES ASSUME NEW i \in DOMAIN z, NEW j \in 1..Len(r) PROVE z[i] < r[j]
    OBVIOUS
  <2>2. z[i] \in Nat /\ z[i] <= b[Len(b)] /\ b[Len(b)] < r[j]
    BY <1>5, <1>9
  <2>3. b[Len(b)] \in Nat /\ r[j] \in Nat
    BY <1>1, <1>2, <1>9
  <2>4. QED
    BY <2>2, <2>3
<1>11. TabSound(z, r, n)
  <2>1. UpTo(r, n)
    <3>1. \A j \in 1..Len(r) : Len(b) + j \in DOMAIN w
      BY <1>2, <1>3
    <3>2. QED
      BY <1>2, <1>3, <1>4, <3>1 DEF TabSound, UpTo
  <2>2. Follows(z, r)
    <3>1. SUFFICES ASSUME NEW j \in 1..Len(r), NEW i \in DOMAIN z PROVE ~(r[j] <= z[i])
      BY <1>2 DEF Follows
    <3>2. z[i] < r[j] /\ z[i] \in Nat /\ r[j] \in Nat
      BY <1>1, <1>2, <1>9, <1>10
    <3>3. QED
      BY <3>2
  <2>3. Reaches(z, r)
    <3>1. SUFFICES ASSUME r # << >>, NEW i \in DOMAIN z PROVE z[i] <= r[Len(r)]
      BY DEF Reaches
    <3>2. Len(r) \in 1..Len(r)
      BY <1>2, <3>1
    <3>3. z[i] < r[Len(r)] /\ z[i] \in Nat /\ r[Len(r)] \in Nat
      BY <1>1, <1>2, <1>9, <1>10, <3>2
    <3>4. QED
      BY <3>3
  <2>4. QED
    BY <1>5, <1>7, <1>8, <2>1, <2>2, <2>3 DEF TabSound
<1>12. TabSound(z, w, n)
  <2>1. Follows(z, w)
    <3>1. SUFFICES ASSUME NEW j \in 1..(Len(b) + Len(r)), NEW i \in DOMAIN z, w[j] <= z[i]
                   PROVE  \E k \in DOMAIN z : z[k] = w[j]
      BY <1>3 DEF Follows
    <3>2. CASE j \in 1..Len(b) /\ w[j] = b[j]
      <4>1. Len(s) + j \in DOMAIN z /\ z[Len(s) + j] = w[j]
        BY <1>2, <3>2
      <4>2. QED
        BY <4>1
    <3>3. CASE \E k \in 1..Len(r) : j = Len(b) + k /\ w[j] = r[k]
      <4>1. PICK k \in 1..Len(r) : w[j] = r[k]
        BY <3>3
      <4>2. z[i] < r[k] /\ z[i] \in Nat /\ r[k] \in Nat
        BY <1>1, <1>2, <1>9, <1>10
      <4>3. QED
        BY <3>1, <4>1, <4>2
    <3>4. QED
      BY <1>3, <3>2, <3>3
  <2>2. Reaches(z, w)
    <3>1. SUFFICES ASSUME NEW i \in DOMAIN z PROVE z[i] <= w[Len(w)]
      BY DEF Reaches
    <3>2. z[i] \in Nat /\ z[i] <= b[Len(b)] /\ Len(b) \in DOMAIN w /\ b[Len(b)] = w[Len(b)]
      <4>1. z[i] \in Nat /\ z[i] <= b[Len(b)] /\ Len(b) \in 1..Len(b)
        BY <1>9, Zenon
      <4>2. Len(b) \in DOMAIN w
        BY <1>2, <1>3, <4>1
      <4>3. QED
        BY <1>3, <4>1, <4>2
    <3>3. w \in Seq(Nat) /\ Increasing(w) /\ Len(b) \in DOMAIN w
      BY <1>3, <1>5, <3>2
    <3>4. w[Len(b)] <= w[Len(w)] /\ Len(w) \in DOMAIN w
      BY <3>3, IncreasingLast
    <3>5. w[Len(w)] \in Nat /\ w[Len(b)] \in Nat
      BY <3>3, <3>4
    <3>6. QED
      BY <3>2, <3>4, <3>5
  <2>3. QED
    BY <1>4, <1>5, <1>7, <1>8, <2>1, <2>2 DEF TabSound
<1>13. QED
  BY <1>11, <1>12 DEF z, w

-----------------------------------------------------------------------------
(* Lemmas on the queue. *)

(* Cutting e rows from the front of q loses its first k. *)
LosesFirst(q, e, k) ==
  /\ Len(Cut(q, e)) = Len(q) - k
  /\ \A i \in 1..(Len(q) - k) : Cut(q, e)[i] = q[k + i]
  /\ e <= 0 => k = 0
  /\ e > 0 => k <= e
  /\ e > 0 /\ q # << >> => k > 0

(* Cut keeps a last part of the buffer. *)
LEMMA CutKeepsTheEnd ==
  ASSUME NEW S, NEW q \in Seq(S), NEW e \in Int
  PROVE  Cut(q, e) \in Seq(S) /\ \E k \in 0..Len(q) : LosesFirst(q, e, k)
<1>1. Len(q) \in Nat /\ DOMAIN q = 1..Len(q) /\ \A i \in 1..Len(q) : q[i] \in S
  BY LenProperties, ElementOfSeq
<1>2. CASE e <= 0
  <2>1. Cut(q, e) = q
    BY <1>2 DEF Cut
  <2>2. LosesFirst(q, e, 0) /\ 0 \in 0..Len(q)
    BY <1>1, <1>2, <2>1 DEF LosesFirst
  <2>3. QED
    BY <2>1, <2>2
<1>3. CASE e > 0 /\ e < Len(q)
  <2>1. Cut(q, e) = SubSeq(q, e + 1, Len(q))
    BY <1>3 DEF Cut
  <2>2. e + 1 \in Int /\ Len(q) \in Int /\ \A i \in (e + 1)..Len(q) : q[i] \in S
    BY <1>1, <1>3
  <2>3. /\ SubSeq(q, e + 1, Len(q)) \in Seq(S)
        /\ Len(SubSeq(q, e + 1, Len(q))) = IF e + 1 <= Len(q) THEN Len(q) - (e + 1) + 1 ELSE 0
        /\ \A i \in 1..(Len(q) - (e + 1) + 1) :
             SubSeq(q, e + 1, Len(q))[i] = q[(e + 1) + i - 1]
    BY <2>2, SubSeqProperties
  <2>4. /\ Len(Cut(q, e)) = Len(q) - e
        /\ \A i \in 1..(Len(q) - e) : Cut(q, e)[i] = q[e + i]
    <3>1. Len(q) - (e + 1) + 1 = Len(q) - e /\ e + 1 <= Len(q)
      BY <1>1, <1>3
    <3>2. \A i \in 1..(Len(q) - e) : (e + 1) + i - 1 = e + i
      BY <1>1, <1>3
    <3>3. QED
      BY <2>1, <2>3, <3>1, <3>2
  <2>5. LosesFirst(q, e, e) /\ e \in 0..Len(q)
    BY <1>1, <1>3, <2>4 DEF LosesFirst
  <2>6. QED
    BY <2>1, <2>3, <2>5
<1>4. CASE e > 0 /\ e >= Len(q)
  <2>1. Cut(q, e) = << >>
    BY <1>1, <1>4, SubSeqEmpty DEF Cut
  <2>2. << >> \in Seq(S) /\ Len(<< >>) = 0 /\ (q # << >> => Len(q) > 0)
    BY <1>1, EmptySeq
  <2>3. LosesFirst(q, e, Len(q)) /\ Len(q) \in 0..Len(q)
    BY <1>1, <1>4, <2>1, <2>2 DEF LosesFirst
  <2>4. QED
    BY <2>1, <2>2, <2>3
<1>5. QED
  BY <1>1, <1>2, <1>3, <1>4

LEMMA RowAppended ==
  ASSUME NEW q \in Seq(Nat \ {Header}), NEW row \in Nat \ {Header}
  PROVE  /\ Append(q, row) \in Seq(Nat \ {Header}) /\ Len(Append(q, row)) = Len(q) + 1
         /\ Append(q, row) # << >>
         /\ \A i \in 1..Len(q) : Append(q, row)[i] = q[i]
         /\ Append(q, row)[Len(q) + 1] = row
BY AppendProperties

(* A row is pushed behind the request b and the buffer q, and the oldest   *)
(* rows of the buffer are cut.  What waits is sound even when nothing of   *)
(* the buffer is left, since the request alone reaches the newest row.     *)
LEMMA PushSound ==
  ASSUME NEW s \in Seq(Nat), NEW b \in Seq(Nat \ {Header}), NEW q \in Seq(Nat \ {Header}),
         NEW n \in Nat, NEW e \in Int, TabSound(s, b \o q, n), Reaches(s, b)
  PROVE  TabSound(s, b \o Cut(Append(q, n + 1), e), n + 1)
<1> DEFINE g == Append(q, n + 1)
           c == Cut(g, e)
           w == b \o q
           v == b \o c
<1>1. n + 1 \in Nat \ {Header} /\ b \in Seq(Nat) /\ q \in Seq(Nat)
  BY SeqMonotonic DEF Header
<1>2. /\ g \in Seq(Nat \ {Header}) /\ Len(g) = Len(q) + 1 /\ g # << >>
      /\ \A i \in 1..Len(q) : g[i] = q[i]
      /\ g[Len(q) + 1] = n + 1
  BY ZenonT(30), <1>1, RowAppended
<1>3. Len(q) \in Nat /\ DOMAIN q = 1..Len(q) /\ Len(b) \in Nat /\ DOMAIN b = 1..Len(b)
  BY <1>1, LenProperties
<1> HIDE DEF g
<1>4. c \in Seq(Nat \ {Header}) /\ c \in Seq(Nat) /\ Len(c) \in Nat
  <2>1. c \in Seq(Nat \ {Header})
    BY <1>2, CutKeepsTheEnd
  <2> HIDE DEF c
  <2>2. QED
    BY <2>1, SeqMonotonic, LenProperties
<1>5. PICK k \in 0..Len(g) : LosesFirst(g, e, k)
  BY <1>2, CutKeepsTheEnd
<1>6. k \in Nat /\ Len(c) = Len(q) + 1 - k /\ \A i \in 1..Len(c) : c[i] = g[k + i]
  BY <1>2, <1>3, <1>5 DEF LosesFirst
<1> HIDE DEF c
<1>7. /\ Len(w) = Len(b) + Len(q) /\ DOMAIN w = 1..(Len(b) + Len(q))
      /\ \A i \in 1..Len(b) : w[i] = b[i]
      /\ \A i \in 1..Len(q) : w[Len(b) + i] = q[i]
  <2>1. b \in Seq(Nat) /\ q \in Seq(Nat)
    BY <1>1
  <2>2. QED
    BY <2>1, ConcatParts
<1>8. /\ Len(v) = Len(b) + Len(c) /\ DOMAIN v = 1..(Len(b) + Len(c)) /\ v \in Seq(Nat)
      /\ \A i \in 1..Len(b) : v[i] = b[i]
      /\ \A i \in 1..Len(c) : v[Len(b) + i] = c[i]
      /\ \A i \in 1..(Len(b) + Len(c)) :
           \/ i \in 1..Len(b) /\ v[i] = b[i]
           \/ \E j \in 1..Len(c) : i = Len(b) + j /\ v[i] = c[j]
  <2>1. b \in Seq(Nat) /\ c \in Seq(Nat)
    BY <1>1, <1>4
  <2>2. QED
    BY SMTT(30), <2>1, ConcatParts
<1>9. TabSound(s, w, n)
  OBVIOUS
<1>10. \A i \in DOMAIN w : w[i] \in Nat /\ w[i] <= n
  BY <1>1, <1>7, <1>9, ConcatParts, ElementOfSeq DEF TabSound, UpTo
<1>11. \A i \in DOMAIN s : s[i] \in Nat /\ s[i] <= n
  BY <1>9, LenProperties, ElementOfSeq DEF TabSound, UpTo
<1> HIDE DEF w, v
(* A row of v is one of w, k places further on past b, or the new row.     *)
<1> DEFINE From(i) == IF i <= Len(b) THEN i ELSE i + k
<1>12. ASSUME NEW i \in DOMAIN v
       PROVE  \/ From(i) \in DOMAIN w /\ v[i] = w[From(i)]
              \/ i = Len(v) /\ i > Len(b) /\ v[i] = n + 1
  <2>1. CASE i \in 1..Len(b) /\ v[i] = b[i]
    BY <1>2, <1>3, <1>7, <2>1
  <2>2. CASE \E j \in 1..Len(c) : i = Len(b) + j /\ v[i] = c[j]
    <3>1. PICK j \in 1..Len(c) : i = Len(b) + j /\ v[i] = c[j]
      BY <2>2
    <3>2. j \in Nat /\ k \in Nat /\ c[j] = g[k + j]
      BY <1>2, <1>3, <1>4, <1>6, <3>1
    <3>3. CASE k + j <= Len(q)
      <4>1. k + j \in 1..Len(q) /\ From(i) = Len(b) + (k + j)
        BY <1>2, <1>3, <3>1, <3>2, <3>3
      <4>2. v[i] = q[k + j] /\ w[Len(b) + (k + j)] = q[k + j]
        BY <1>2, <1>3, <1>7, <3>1, <3>2, <4>1
      <4>3. Len(b) + (k + j) \in DOMAIN w
        BY SMTT(30), <1>2, <1>3, <1>7, <4>1
      <4>4. QED
        BY <4>1, <4>2, <4>3
    <3>4. CASE k + j > Len(q)
      <4>1. j = Len(c) /\ k + j = Len(q) + 1
        <5>1. Len(c) = Len(q) + 1 - k
          BY <1>6, Zenon
        <5>2. Len(q) \in Nat /\ Len(c) \in Nat
          BY <1>3, <1>4
        <5>3. QED
          BY <3>2, <3>4, <5>1, <5>2
      <4>2. i = Len(v) /\ i > Len(b)
        <5>1. Len(v) = Len(b) + Len(c)
          BY <1>8, Zenon
        <5>2. Len(b) \in Nat /\ Len(c) \in Nat /\ j >= 1
          BY <1>3, <1>4
        <5>3. QED
          BY <3>1, <4>1, <5>1, <5>2
      <4>3. v[i] = n + 1
        BY SMTT(30), <1>2, <1>3, <3>1, <3>2, <4>1
      <4>4. QED
        BY <4>2, <4>3
    <3>5. QED
      BY <1>3, <3>2, <3>3, <3>4
  <2>3. QED
    BY <1>8, <2>1, <2>2
<1>13. ASSUME NEW i \in DOMAIN v, NEW j \in DOMAIN v, i < j
       PROVE  From(i) < From(j)
  <2>1. i \in Nat /\ j \in Nat /\ k \in Nat /\ Len(b) \in Nat
    BY SMTT(30), <1>2, <1>3, <1>4, <1>6, <1>8
  <2>2. QED
    BY <1>13, <2>1
<1>14. \A i \in DOMAIN v : i \in Nat /\ i <= Len(v) /\ Len(v) \in Nat
  BY SMTT(30), <1>2, <1>3, <1>4, <1>6, <1>8
<1> HIDE DEF From
<1>15. Increasing(v)
  <2>1. SUFFICES ASSUME NEW i \in DOMAIN v, NEW j \in DOMAIN v, i < j PROVE v[i] < v[j]
    BY DEF Increasing
  <2>2. From(i) \in DOMAIN w /\ v[i] = w[From(i)]
    BY <1>12, <1>14, <2>1
  <2>3. CASE From(j) \in DOMAIN w /\ v[j] = w[From(j)]
    BY <1>9, <1>13, <2>1, <2>2, <2>3 DEF TabSound, Increasing
  <2>4. CASE v[j] = n + 1
    BY <1>10, <2>2, <2>4
  <2>5. QED
    BY <1>12, <2>3, <2>4
<1>16. UpTo(v, n + 1) /\ UpTo(s, n + 1)
  <2>1. \A i \in DOMAIN v : v[i] = n + 1 \/ (v[i] \in Nat /\ v[i] <= n)
    BY <1>10, <1>12
  <2>2. \A i \in DOMAIN v : v[i] <= n + 1
    BY <2>1
  <2>3. \A i \in DOMAIN s : s[i] <= n + 1
    BY <1>11
  <2>4. QED
    BY <2>2, <2>3 DEF UpTo
<1>17. Follows(s, v)
  <2>1. SUFFICES ASSUME NEW j \in DOMAIN v, NEW i \in DOMAIN s, v[j] <= s[i]
                 PROVE  \E m \in DOMAIN s : s[m] = v[j]
    BY DEF Follows
  <2>2. v[j] # n + 1
    BY <1>11, <2>1
  <2>3. From(j) \in DOMAIN w /\ v[j] = w[From(j)]
    BY <1>12, <2>2
  <2>4. QED
    BY <1>9, <2>1, <2>3 DEF TabSound, Follows
<1>18. Reaches(s, v)
  <2>1. SUFFICES ASSUME v # << >>, NEW i \in DOMAIN s PROVE s[i] <= v[Len(v)]
    BY DEF Reaches
  <2>2. CASE Len(c) = 0
    <3>1. Len(v) = Len(b) /\ b # << >> /\ v[Len(v)] = b[Len(b)]
      <4>1. Len(v) = Len(b)
        BY <1>2, <1>3, <1>4, <1>6, <1>8, <2>2
      <4>2. Len(v) > 0
        BY <1>8, <2>1, EmptySeq
      <4>3. Len(b) \in 1..Len(b)
        BY <1>2, <1>3, <4>1, <4>2
      <4>4. b # << >> /\ v[Len(b)] = b[Len(b)]
        BY <1>2, <1>3, <1>8, <4>3, EmptySeq
      <4>5. QED
        BY <4>1, <4>4
    <3>2. QED
      BY <3>1 DEF Reaches
  <2>3. CASE Len(c) > 0
    <3>1. /\ Len(c) \in 1..Len(c) /\ k + Len(c) = Len(q) + 1
          /\ Len(v) = Len(b) + Len(c)
      BY <1>2, <1>3, <1>4, <1>6, <1>8, <2>3
    <3>2. v[Len(v)] = c[Len(c)] /\ c[Len(c)] = g[k + Len(c)]
      BY <1>4, <1>6, <1>8, <3>1
    <3>3. v[Len(v)] = n + 1
      BY <1>2, <1>3, <3>1, <3>2
    <3>4. QED
      BY <1>11, <3>3
  <2>4. QED
    BY <1>2, <1>3, <1>4, <1>6, <2>2, <2>3
<1>19. TabSound(s, v, n + 1)
  BY <1>9, <1>15, <1>16, <1>17, <1>18 DEF TabSound
<1>20. QED
  BY <1>19 DEF v, c, g

(* A new row elsewhere does not matter to a tab. *)
LEMMA LaterIsSound ==
  ASSUME NEW s \in Seq(Nat), NEW w \in Seq(Nat), NEW n \in Nat, TabSound(s, w, n)
  PROVE  TabSound(s, w, n + 1)
<1>1. /\ \A i \in DOMAIN s : s[i] \in Nat /\ s[i] <= n
      /\ \A i \in DOMAIN w : w[i] \in Nat /\ w[i] <= n
  BY LenProperties, ElementOfSeq DEF TabSound, UpTo
<1>2. UpTo(s, n + 1) /\ UpTo(w, n + 1)
  BY <1>1 DEF UpTo
<1>3. QED
  BY <1>2 DEF TabSound

LEMMA HeaderSound ==
  ASSUME NEW w \in Seq(Nat), NEW n \in Nat, TabSound(<< >>, w, n)
  PROVE  TabSound(<< Header >>, w, n)
<1> DEFINE s == << Header >>
<1>1. DOMAIN s = {1} /\ s[1] = 0 /\ Len(s) = 1
  BY DEF Header
<1>2. DOMAIN w = 1..Len(w) /\ Len(w) \in Nat /\ \A i \in DOMAIN w : w[i] \in Nat
  BY LenProperties, ElementOfSeq
<1> HIDE DEF s
<1>3. Repeats(s) /\ LastIsNewest(s) /\ HeaderIsFirst(s) /\ UpTo(s, n)
  BY <1>1 DEF Repeats, LastIsNewest, HeaderIsFirst, UpTo
<1>4. Follows(s, w)
  <2>1. \A j \in DOMAIN w, i \in DOMAIN s : w[j] <= s[i] => s[1] = w[j]
    BY <1>1, <1>2
  <2>2. QED
    BY <1>1, <2>1 DEF Follows
<1>5. Reaches(s, w)
  <2>1. w # << >> => Len(w) \in DOMAIN w
    BY <1>2, EmptySeq
  <2>2. QED
    BY <1>1, <1>2, <2>1 DEF Reaches
<1>6. QED
  BY <1>3, <1>4, <1>5 DEF TabSound, s

LEMMA QueuedIsNat ==
  ASSUME SinkInv
  PROVE  Queued(buffers) \in Nat
<1>1. ASSUME NEW t \in Tabs, NEW i \in DOMAIN buffers[t]
      PROVE  buffers[t][i] \in 0..pushed
  <2>1. buffers[t] \in Seq(Nat) /\ batch \in Seq(Nat) /\ pushed \in Nat
    BY SeqMonotonic DEF SinkInv, TypeOK
  <2>2. UpTo(Waiting(t), pushed)
    BY DEF SinkInv, TabSound
  <2>3. buffers[t][i] \in Nat /\ i \in 1..Len(buffers[t])
    BY <1>1, <2>1, LenProperties, ElementOfSeq
  <2>4. CASE Waiting(t) = buffers[t]
    BY <1>1, <2>1, <2>2, <2>3, <2>4 DEF UpTo
  <2>5. CASE Waiting(t) = batch \o buffers[t]
    <3>1. /\ Len(batch) + i \in DOMAIN Waiting(t)
          /\ Waiting(t)[Len(batch) + i] = buffers[t][i]
      <4>1. /\ Len(batch) \in Nat /\ Len(buffers[t]) \in Nat
            /\ DOMAIN (batch \o buffers[t]) = 1..(Len(batch) + Len(buffers[t]))
            /\ (batch \o buffers[t])[Len(batch) + i] = buffers[t][i]
        BY <2>1, <2>3, ConcatParts
      <4>2. QED
        BY <2>3, <2>5, <4>1
    <3>2. QED
      BY <2>1, <2>2, <2>3, <3>1 DEF UpTo
  <2>6. QED
    BY <2>4, <2>5 DEF Waiting
<1>2. Rows(buffers) \subseteq 0..pushed
  BY <1>1 DEF Rows, Elements
<1>3. IsFiniteSet(0..pushed)
  BY FS_Interval DEF SinkInv, TypeOK
<1>4. QED
  BY <1>2, <1>3, FS_Subset, FS_CardinalityType DEF Queued

-----------------------------------------------------------------------------
(* Lemmas on what several actions share. *)

LEMMA FlushingKeeps ==
  ASSUME TypeOK, NEW bufs, NEW timerSet \in BOOLEAN, Flushing(bufs, timerSet)
  PROVE  /\ timer' \in BOOLEAN
         /\ flush' \in {"idle", "setup", "sending"} /\ (flush' = "sending" <=> flush = "sending")
         /\ setup' = setup \/ (setup = "none" /\ setup' = "listing")
  BY DEF Flushing, TypeOK

(* Emptying a buffer into a request leaves what waits in each tab. *)
LEMMA SendNextKeeps ==
  ASSUME TypeOK, NEW i, NEW bufs \in [Tabs -> Seq(Nat \ {Header})], order' = order,
         SendNext(i, bufs)
  PROVE  /\ buffers' \in [Tabs -> Seq(Nat \ {Header})]
         /\ batch' \in Seq(Nat \ {Header})
         /\ flush' \in {"idle", "sending"}
         /\ flush' = "sending" => /\ at' \in DOMAIN order /\ batch' # << >>
                                  /\ order[at'] \in Tabs /\ batch' = bufs[order[at']]
         /\ \A t \in Tabs : Waiting(t)' = bufs[t]
<1>1. CASE LaterTabs(i, bufs) = {}
  <2>1. flush' = "idle" /\ batch' = << >> /\ buffers' = bufs
    BY <1>1 DEF SendNext
  <2>2. << >> \in Seq(Nat \ {Header})
    BY EmptySeq
  <2>3. QED
    BY <2>1, <2>2 DEF Waiting
<1>2. CASE LaterTabs(i, bufs) # {}
  <2>1. PICK j \in LaterTabs(i, bufs) :
          /\ flush' = "sending" /\ at' = j /\ batch' = bufs[order[j]]
          /\ buffers' = [bufs EXCEPT ![order[j]] = << >>]
    BY <1>2 DEF SendNext
  <2>2. j \in DOMAIN order /\ bufs[order[j]] # << >>
    BY DEF LaterTabs
  <2>3. order[j] \in Tabs
    BY <2>2, LenProperties, ElementOfSeq DEF TypeOK
  <2>4. << >> \in Seq(Nat \ {Header})
    BY EmptySeq
  <2>5. bufs[order[j]] \in Seq(Nat \ {Header})
    BY <2>3
  <2>6. bufs[order[j]] \o << >> = bufs[order[j]]
    BY <2>5, ConcatEmptySeq
  <2>7. ASSUME NEW t \in Tabs PROVE Waiting(t)' = bufs[t]
    <3>1. CASE t = order[j]
      BY <2>1, <2>3, <2>6, <3>1 DEF Waiting
    <3>2. CASE t # order[j]
      BY <2>1, <2>3, <3>2 DEF Waiting
    <3>3. QED
      BY <3>1, <3>2
  <2>8. QED
    BY <2>1, <2>2, <2>3, <2>4, <2>5, <2>7
<1>3. QED
  BY <1>1, <1>2

LEMMA SinkTypes ==
  ASSUME SinkInv, NEW t \in Tabs
  PROVE  /\ sheet[t] \in Seq(Nat)
         /\ buffers[t] \in Seq(Nat \ {Header}) /\ buffers[t] \in Seq(Nat)
         /\ batch \in Seq(Nat \ {Header}) /\ batch \in Seq(Nat)
         /\ Waiting(t) \in Seq(Nat \ {Header}) /\ Waiting(t) \in Seq(Nat)
         /\ pushed \in Nat /\ dropped \in Nat
         /\ TabSound(sheet[t], Waiting(t), pushed)
<1>1. /\ sheet[t] \in Seq(Nat)
      /\ buffers[t] \in Seq(Nat \ {Header}) /\ batch \in Seq(Nat \ {Header})
      /\ pushed \in Nat /\ dropped \in Nat /\ TabSound(sheet[t], Waiting(t), pushed)
  BY DEF SinkInv, TypeOK
<1>2. Waiting(t) \in Seq(Nat \ {Header})
  BY <1>1, ConcatProperties DEF Waiting
<1>3. QED
  BY <1>1, <1>2, SeqMonotonic

(* The rows of tab t that are in the request in flight. *)
InFlight(t) == IF flush = "sending" /\ order[at] = t THEN batch ELSE << >>

LEMMA WaitingParts ==
  ASSUME SinkInv, NEW t \in Tabs
  PROVE  /\ InFlight(t) \in Seq(Nat \ {Header})
         /\ Waiting(t) = InFlight(t) \o buffers[t]
         /\ Reaches(sheet[t], InFlight(t))
<1>1. batch \in Seq(Nat \ {Header}) /\ buffers[t] \in Seq(Nat \ {Header})
  BY SinkTypes
<1>2. << >> \in Seq(Nat \ {Header}) /\ << >> \o buffers[t] = buffers[t]
  BY <1>1, EmptySeq, ConcatEmptySeq
<1>3. QED
  BY <1>1, <1>2 DEF InFlight, Waiting, SinkInv, Reaches

(* What Push does to what waits. *)
LEMMA PushWaits ==
  ASSUME SinkInv, NEW t \in Tabs, Push(t)
  PROVE  LET excess == Queued(buffers) + 1 - MaxQueued IN
         /\ excess \in Int
         /\ Cut(Append(buffers[t], pushed + 1), excess) \in Seq(Nat \ {Header})
         /\ \A u \in Tabs :
              Waiting(u)' = IF u = t
                            THEN InFlight(t) \o Cut(Append(buffers[t], pushed + 1), excess)
                            ELSE Waiting(u)
         /\ buffers' = [buffers EXCEPT ![t] = Cut(Append(buffers[t], pushed + 1), excess)]
         /\ dropped' = IF excess > 0 THEN dropped + excess ELSE dropped
         /\ order' \in Seq(Tabs)
         /\ at \in DOMAIN order => at \in DOMAIN order' /\ order'[at] = order[at]
         /\ timer' \in BOOLEAN
         /\ flush' \in {"idle", "setup", "sending"} /\ (flush' = "sending" <=> flush = "sending")
         /\ setup' = setup \/ (setup = "none" /\ setup' = "listing")
<1> DEFINE excess == Queued(buffers) + 1 - MaxQueued
           kept   == Cut(Append(buffers[t], pushed + 1), excess)
<1>1. TypeOK
  BY DEF SinkInv
<1>2. excess \in Int
  BY QueuedIsNat, SinkAssumption
<1>3. kept \in Seq(Nat \ {Header})
  <2>1. pushed + 1 \in Nat \ {Header} /\ buffers[t] \in Seq(Nat \ {Header})
    BY <1>1 DEF TypeOK, Header
  <2>2. Append(buffers[t], pushed + 1) \in Seq(Nat \ {Header})
    BY <2>1, AppendProperties
  <2>3. QED
    BY <1>2, <2>2, CutKeepsTheEnd
<1>4. << >> \o kept = kept
  BY <1>3, ConcatEmptySeq
<1>5. /\ timer' \in BOOLEAN
      /\ flush' \in {"idle", "setup", "sending"} /\ (flush' = "sending" <=> flush = "sending")
      /\ setup' = setup \/ (setup = "none" /\ setup' = "listing")
  <2>1. CASE Flushing(buffers', timer)
    BY <1>1, <2>1, FlushingKeeps DEF TypeOK
  <2>2. CASE UNCHANGED << flush, setup, timer >>
    BY <1>1, <2>2 DEF TypeOK
  <2>3. QED
    BY <2>1, <2>2 DEF Push
<1> HIDE DEF excess, kept
<1>6. /\ buffers' = [buffers EXCEPT ![t] = kept]
      /\ dropped' = IF excess > 0 THEN dropped + excess ELSE dropped
      /\ order' = IF t \in Elements(order) THEN order ELSE Append(order, t)
      /\ at' = at /\ batch' = batch
  BY DEF Push, excess, kept
<1>7. /\ order' \in Seq(Tabs)
      /\ at \in DOMAIN order => at \in DOMAIN order' /\ order'[at] = order[at]
  <2>1. order \in Seq(Tabs)
    BY <1>1 DEF TypeOK
  <2>2. /\ Append(order, t) \in Seq(Tabs)
        /\ DOMAIN order = 1..Len(order) /\ Len(order) \in Nat
        /\ DOMAIN Append(order, t) = 1..(Len(order) + 1)
        /\ \A i \in 1..Len(order) : Append(order, t)[i] = order[i]
    BY <2>1, AppendProperties, LenProperties
  <2>3. QED
    BY <1>6, <2>1, <2>2
<1>8. flush = "sending" => at \in DOMAIN order
  BY <1>1 DEF TypeOK
<1>9. ASSUME NEW u \in Tabs
      PROVE  Waiting(u)' = IF u = t THEN InFlight(t) \o kept ELSE Waiting(u)
  <2>1. buffers'[u] = IF u = t THEN kept ELSE buffers[u]
    BY <1>1, <1>6 DEF TypeOK
  <2>2. CASE flush = "sending" /\ order[at] = u
    <3>1. flush' = "sending" /\ order'[at'] = u
      BY <1>5, <1>6, <1>7, <1>8, <2>2
    <3>2. QED
      BY <1>6, <2>1, <2>2, <3>1 DEF Waiting, InFlight
  <2>3. CASE ~(flush = "sending" /\ order[at] = u)
    <3>1. ~(flush' = "sending" /\ order'[at'] = u)
      BY <1>5, <1>6, <1>7, <1>8, <2>3
    <3>2. QED
      BY <1>4, <2>1, <2>3, <3>1 DEF Waiting, InFlight
  <2>4. QED
    BY <2>2, <2>3
<1>10. QED
  BY <1>2, <1>3, <1>5, <1>6, <1>7, <1>9 DEF excess, kept

LEMMA PushKeepsInv ==
  ASSUME SinkInv, NEW t \in Tabs, Push(t)
  PROVE  SinkInv'
<1> DEFINE excess == Queued(buffers) + 1 - MaxQueued
           kept   == Cut(Append(buffers[t], pushed + 1), excess)
<1>1. TypeOK /\ SetupSound
  BY DEF SinkInv
<1>2. /\ pushed' = pushed + 1
      /\ UNCHANGED << at, batch, toHead, closing, tabs, sheet, faults >>
  BY DEF Push
<1>3. /\ excess \in Int /\ kept \in Seq(Nat \ {Header})
      /\ \A u \in Tabs : Waiting(u)' = IF u = t THEN InFlight(t) \o kept ELSE Waiting(u)
      /\ buffers' = [buffers EXCEPT ![t] = kept]
      /\ dropped' = IF excess > 0 THEN dropped + excess ELSE dropped
      /\ order' \in Seq(Tabs)
      /\ at \in DOMAIN order => at \in DOMAIN order' /\ order'[at] = order[at]
      /\ timer' \in BOOLEAN
      /\ flush' \in {"idle", "setup", "sending"} /\ (flush' = "sending" <=> flush = "sending")
      /\ setup' = setup \/ (setup = "none" /\ setup' = "listing")
  BY PushWaits
<1>4. ASSUME NEW u \in Tabs PROVE TabSound(sheet[u], Waiting(u)', pushed + 1)
  <2>1. CASE u = t
    <3>1. /\ InFlight(t) \in Seq(Nat \ {Header}) /\ Waiting(t) = InFlight(t) \o buffers[t]
          /\ Reaches(sheet[t], InFlight(t))
      BY WaitingParts
    <3>2. /\ sheet[t] \in Seq(Nat) /\ buffers[t] \in Seq(Nat \ {Header})
          /\ pushed \in Nat /\ TabSound(sheet[t], InFlight(t) \o buffers[t], pushed)
      BY <3>1, SinkTypes
    <3>3. TabSound(sheet[t], InFlight(t) \o kept, pushed + 1)
      BY <1>3, <3>1, <3>2, PushSound
    <3> HIDE DEF kept
    <3>4. QED
      BY <1>3, <2>1, <3>3
  <2>2. CASE u # t
    <3>1. Waiting(u)' = Waiting(u)
      BY <1>3, <2>2
    <3>2. QED
      BY <3>1, SinkTypes, LaterIsSound
  <2>3. QED
    BY <2>1, <2>2
<1> HIDE DEF excess, kept
<1>5. TypeOK'
  <2>1. dropped' \in Nat
    BY <1>1, <1>3 DEF TypeOK
  <2>2. buffers' \in [Tabs -> Seq(Nat \ {Header})]
    BY <1>1, <1>3 DEF TypeOK
  <2>3. setup' \in {"none", "listing", "creating", "heading", "done"}
    BY <1>1, <1>3 DEF TypeOK
  <2>4. pushed' \in Nat
    BY <1>1, <1>2 DEF TypeOK
  <2>5. QED
    BY <1>1, <1>2, <1>3, <2>1, <2>2, <2>3, <2>4 DEF TypeOK
<1>6. SetupSound'
  BY <1>1, <1>2, <1>3 DEF SetupSound
<1>7. flush' = "sending" => Reaches(sheet[order'[at']], batch')
  BY <1>1, <1>2, <1>3 DEF SinkInv, TypeOK
<1>8. QED
  BY <1>2, <1>4, <1>5, <1>6, <1>7 DEF SinkInv, Reaches

LEMMA InitInv ==
  ASSUME Init
  PROVE  SinkInv
<1>1. << >> \in Seq(Nat \ {Header}) /\ << >> \in Seq(Tabs) /\ << >> \in Seq(Nat)
      /\ << Header >> \in Seq(Nat) /\ DOMAIN << >> = {}
  BY DEF Header
<1>2. TypeOK
  BY <1>1 DEF Init, TypeOK
<1>3. SetupSound
  BY DEF Init, SetupSound
<1>4. TabSound(<< >>, << >>, 0)
  BY <1>1 DEF TabSound, Repeats, LastIsNewest, HeaderIsFirst, Increasing, Follows,
              Reaches, UpTo
<1>5. TabSound(<< Header >>, << >>, 0)
  BY <1>1, <1>4, HeaderSound, SeqMonotonic
<1>6. \A t \in Tabs : Waiting(t) = << >> /\ sheet[t] \in {<< >>, << Header >>}
  BY DEF Init, Waiting
<1>7. QED
  BY <1>2, <1>3, <1>4, <1>5, <1>6 DEF SinkInv, Init

(* Actions that start or await a flush touch no row. *)
LEMMA QuietKeepsInv ==
  ASSUME SinkInv, NEW timerSet \in BOOLEAN, Flushing(buffers, timerSet), closing' \in BOOLEAN,
         UNCHANGED << buffers, order, at, batch, dropped, toHead, tabs, sheet, pushed, faults >>
  PROVE  /\ SinkInv'
         /\ \A t \in Tabs : Waiting(t)' = Waiting(t)
<1>1. TypeOK /\ SetupSound
  BY DEF SinkInv
<1>2. /\ timer' \in BOOLEAN
      /\ flush' \in {"idle", "setup", "sending"} /\ (flush' = "sending" <=> flush = "sending")
      /\ setup' = setup \/ (setup = "none" /\ setup' = "listing")
  BY <1>1, FlushingKeeps
<1>3. \A t \in Tabs : Waiting(t)' = Waiting(t)
  BY <1>2 DEF Waiting
<1>4. TypeOK'
  BY <1>1, <1>2 DEF TypeOK
<1>5. SetupSound'
  BY <1>1, <1>2 DEF SetupSound
<1>6. QED
  BY <1>2, <1>3, <1>4, <1>5 DEF SinkInv, Reaches, TabSound

(* Steps of the setup: no flush is sending, and what waits, waits on. *)
LEMMA SetupKeepsInv ==
  ASSUME SinkInv,
         setup \in {"listing", "creating", "heading"},
         UNCHANGED << buffers, order, at, batch, dropped, timer, closing, pushed >>,
         flush' \in {"idle", "setup"} \/ UNCHANGED flush,
         setup' \in {"none", "listing", "creating", "heading", "done"},
         toHead' \subseteq Tabs, tabs' \subseteq Tabs, faults' \in Nat,
         SetupSound', sheet' \in [Tabs -> Seq(Nat)],
         \A t \in Tabs : sheet'[t] = sheet[t] \/ (sheet[t] = << >> /\ sheet'[t] = << Header >>)
  PROVE  SinkInv' /\ \A t \in Tabs : Waiting(t)' = Waiting(t)
<1>1. TypeOK /\ SetupSound
  BY DEF SinkInv
<1>2. flush # "sending" /\ flush' # "sending" /\ flush' \in {"idle", "setup", "sending"}
  BY <1>1 DEF SetupSound, TypeOK
<1>3. \A t \in Tabs : Waiting(t) = buffers[t] /\ Waiting(t)' = buffers[t]
  BY <1>2 DEF Waiting
<1>4. TypeOK'
  BY <1>1, <1>2 DEF TypeOK
<1>5. ASSUME NEW t \in Tabs PROVE TabSound(sheet'[t], Waiting(t), pushed)
  BY SinkTypes, HeaderSound
<1>6. QED
  BY <1>2, <1>3, <1>4, <1>5 DEF SinkInv

(* The header of a tab is written at most once, and first. *)
LEMMA HeadedKeeps ==
  ASSUME SinkInv, setup = "heading", NEW t \in Tabs, Headed(t)
  PROVE  /\ sheet' \in [Tabs -> Seq(Nat)]
         /\ t \in tabs /\ sheet[t] = << >>
         /\ sheet' = [sheet EXCEPT ![t] = << Header >>]
<1>1. t \in tabs /\ sheet[t] = << >>
  BY DEF SinkInv, SetupSound, Headed
<1>2. Append(sheet[t], Header) = << Header >>
  BY <1>1
<1>3. << Header >> \in Seq(Nat)
  BY DEF Header
<1>4. QED
  BY <1>1, <1>2, <1>3 DEF SinkInv, TypeOK, Headed

LEMMA SetupSucceedsKeepsInv ==
  ASSUME SinkInv, TabsListed \/ TabsCreated \/ HeaderWritten
  PROVE  SinkInv' /\ \A t \in Tabs : Waiting(t)' = Waiting(t)
<1>1. TypeOK /\ SetupSound
  BY DEF SinkInv
<1>2. CASE TabsListed
  <2>1. setup' \in {"creating", "done"}
    BY <1>2 DEF TabsListed
  <2>2. SetupSound'
    BY <1>1, <1>2, <2>1 DEF TabsListed, SetupSound, sinkVars
  <2>3. QED
    BY <1>1, <1>2, <2>1, <2>2, SetupKeepsInv DEF TabsListed, sinkVars, TypeOK
<1>3. CASE TabsCreated
  <2>1. tabs' = Tabs
    BY <1>1, <1>3 DEF TabsCreated, Created, Missing, TypeOK
  <2>2. \A t \in Missing : sheet[t] = << >> /\ t \in Tabs
    BY <1>1, <1>3 DEF TabsCreated, SetupSound, Missing
  <2>3. SetupSound'
    BY <1>1, <1>3, <2>1, <2>2 DEF TabsCreated, SetupSound, sinkVars
  <2>4. QED
    BY <1>1, <1>3, <2>1, <2>2, <2>3, SetupKeepsInv DEF TabsCreated, sinkVars, TypeOK
<1>4. CASE HeaderWritten
  <2>1. /\ setup = "heading"
        /\ UNCHANGED << sinkVars, timer, closing, tabs, pushed, faults >>
    BY <1>4 DEF HeaderWritten
  <2>2. PICK t \in Tabs : /\ Headed(t) /\ toHead' = toHead \ {t}
                          /\ setup' = IF toHead = {t} THEN "done" ELSE setup
    BY <1>4 DEF HeaderWritten
  <2>3. /\ sheet' \in [Tabs -> Seq(Nat)] /\ t \in tabs /\ sheet[t] = << >>
        /\ sheet' = [sheet EXCEPT ![t] = << Header >>]
    BY <2>1, <2>2, HeadedKeeps
  <2>4. SetupSound'
    BY <1>1, <2>1, <2>2, <2>3 DEF SetupSound, sinkVars, TypeOK
  <2>5. \A u \in Tabs : sheet'[u] = sheet[u] \/ (sheet[u] = << >> /\ sheet'[u] = << Header >>)
    BY <1>1, <2>3 DEF TypeOK
  <2>6. QED
    BY <1>1, <2>1, <2>2, <2>3, <2>4, <2>5, SetupKeepsInv DEF sinkVars, TypeOK
<1>5. QED
  BY <1>2, <1>3, <1>4

LEMMA SetupFailsKeepsInv ==
  ASSUME SinkInv, NEW fault, SetupFails(fault)
  PROVE  SinkInv' /\ \A t \in Tabs : Waiting(t)' = Waiting(t)
<1>1. TypeOK /\ SetupSound
  BY DEF SinkInv
<1>2. /\ setup \in {"listing", "creating", "heading"} /\ setup' = "none" /\ toHead' = {}
      /\ flush' = (IF flush = "setup" THEN "idle" ELSE flush) /\ faults' = faults + 1
      /\ UNCHANGED << buffers, order, at, batch, dropped, timer, closing, pushed >>
  BY DEF SetupFails, AfterFailedSetup
<1>3. tabs' = tabs \/ tabs' = Tabs
  BY <1>1 DEF SetupFails, Created, Missing, TypeOK
<1>4. UNCHANGED sheet \/ \E t \in Tabs : setup = "heading" /\ Headed(t) /\ UNCHANGED tabs
  BY DEF SetupFails
<1>5. /\ sheet' \in [Tabs -> Seq(Nat)]
      /\ \A u \in Tabs : sheet'[u] = sheet[u] \/ (sheet[u] = << >> /\ sheet'[u] = << Header >>)
      /\ \A u \in Tabs : u \notin tabs => sheet'[u] = sheet[u]
  <2>1. CASE UNCHANGED sheet
    BY <1>1, <2>1 DEF TypeOK
  <2>2. CASE \E t \in Tabs : setup = "heading" /\ Headed(t) /\ UNCHANGED tabs
    <3>1. PICK t \in Tabs : setup = "heading" /\ Headed(t)
      BY <2>2
    <3>2. /\ sheet' \in [Tabs -> Seq(Nat)] /\ t \in tabs /\ sheet[t] = << >>
          /\ sheet' = [sheet EXCEPT ![t] = << Header >>]
      BY <3>1, HeadedKeeps
    <3>3. QED
      BY <1>1, <3>2 DEF TypeOK
  <2>3. QED
    BY <1>4, <2>1, <2>2
<1>6. SetupSound'
  <2>1. flush' # "sending"
    BY <1>1, <1>2 DEF SetupSound
  <2>2. \A t \in Tabs : sheet'[t] \in {<< >>, << Header >>} /\ (t \notin tabs' => sheet'[t] = << >>)
    BY <1>1, <1>2, <1>3, <1>5 DEF SetupSound
  <2>3. QED
    BY <1>2, <2>1, <2>2 DEF SetupSound
<1>7. tabs' \subseteq Tabs /\ faults' \in Nat
  BY <1>1, <1>2, <1>3 DEF TypeOK
<1>8. QED
  BY <1>2, <1>5, <1>6, <1>7, SetupKeepsInv

(* The flush goes on with the buffers bufs. *)
LEMMA SendKeepsInv ==
  ASSUME SinkInv, setup = "done",
         NEW i, NEW bufs \in [Tabs -> Seq(Nat \ {Header})], SendNext(i, bufs),
         UNCHANGED << order, setupVars, timer, closing, tabs, pushed >>,
         dropped' \in Nat, faults' \in Nat, sheet' \in [Tabs -> Seq(Nat)],
         \A t \in Tabs : TabSound(sheet'[t], bufs[t], pushed)
  PROVE  SinkInv' /\ \A t \in Tabs : Waiting(t)' = bufs[t]
<1>1. TypeOK /\ SetupSound
  BY DEF SinkInv
<1>2. /\ buffers' \in [Tabs -> Seq(Nat \ {Header})]
      /\ batch' \in Seq(Nat \ {Header})
      /\ flush' \in {"idle", "sending"}
      /\ flush' = "sending" => /\ at' \in DOMAIN order /\ batch' # << >>
                               /\ order[at'] \in Tabs /\ batch' = bufs[order[at']]
      /\ \A t \in Tabs : Waiting(t)' = bufs[t]
  BY <1>1, SendNextKeeps
<1>3. TypeOK'
  BY <1>1, <1>2 DEF TypeOK, setupVars
<1>4. SetupSound'
  BY <1>1 DEF SetupSound, setupVars
<1>5. flush' = "sending" => Reaches(sheet'[order'[at']], batch')
  BY <1>2 DEF TabSound
<1>6. QED
  BY <1>2, <1>3, <1>4, <1>5 DEF SinkInv, Reaches

(* While a request is in flight: its tab, its rows, what waits elsewhere. *)
LEMMA InSending ==
  ASSUME SinkInv, flush = "sending"
  PROVE  /\ order[at] \in Tabs /\ batch # << >> /\ setup = "done"
         /\ Waiting(order[at]) = batch \o buffers[order[at]]
         /\ \A t \in Tabs : t # order[at] => Waiting(t) = buffers[t]
         /\ Reaches(sheet[order[at]], batch)
         /\ Requeued \in [Tabs -> Seq(Nat \ {Header})]
         /\ Requeued[order[at]] = batch \o buffers[order[at]]
         /\ \A t \in Tabs : t # order[at] => Requeued[t] = buffers[t]
<1>1. TypeOK /\ SetupSound
  BY DEF SinkInv
<1>2. order[at] \in Tabs
  BY <1>1, LenProperties, ElementOfSeq DEF TypeOK
<1>3. batch \o buffers[order[at]] \in Seq(Nat \ {Header})
  BY <1>2, SinkTypes, ConcatProperties
<1>4. /\ Requeued \in [Tabs -> Seq(Nat \ {Header})]
      /\ Requeued[order[at]] = batch \o buffers[order[at]]
      /\ \A t \in Tabs : t # order[at] => Requeued[t] = buffers[t]
  BY <1>1, <1>2, <1>3 DEF Requeued, TypeOK
<1>5. QED
  BY <1>1, <1>2, <1>4 DEF SinkInv, SetupSound, TypeOK, Waiting

(* What the sheets have after the request took effect, and what is sound   *)
(* to wait: the buffers, or the request again.                             *)
LEMMA AppendedSound ==
  ASSUME SinkInv, flush = "sending", Appended
  PROVE  /\ sheet' \in [Tabs -> Seq(Nat)]
         /\ \A t \in Tabs : sheet'[t] = IF t = order[at] THEN sheet[t] \o batch ELSE sheet[t]
         /\ \A t \in Tabs : TabSound(sheet'[t], buffers[t], pushed)
         /\ \A t \in Tabs : TabSound(sheet'[t], Requeued[t], pushed)
<1> DEFINE u == order[at]
<1>1. /\ u \in Tabs /\ batch # << >>
      /\ Waiting(u) = batch \o buffers[u]
      /\ \A t \in Tabs : t # u => Waiting(t) = buffers[t]
      /\ Reaches(sheet[u], batch)
      /\ Requeued[u] = batch \o buffers[u]
      /\ \A t \in Tabs : t # u => Requeued[t] = buffers[t]
  BY InSending
<1>2. /\ sheet[u] \in Seq(Nat) /\ batch \in Seq(Nat) /\ batch \in Seq(Nat \ {Header})
      /\ buffers[u] \in Seq(Nat \ {Header}) /\ pushed \in Nat
      /\ TabSound(sheet[u], batch \o buffers[u], pushed)
  BY <1>1, SinkTypes
<1>3. sheet[u] \o batch \in Seq(Nat)
  BY <1>2, ConcatProperties
<1>4. /\ sheet' \in [Tabs -> Seq(Nat)]
      /\ \A t \in Tabs : sheet'[t] = IF t = u THEN sheet[t] \o batch ELSE sheet[t]
  BY <1>1, <1>3 DEF Appended, SinkInv, TypeOK
<1>5. /\ TabSound(sheet[u] \o batch, buffers[u], pushed)
      /\ TabSound(sheet[u] \o batch, batch \o buffers[u], pushed)
  BY <1>1, <1>2, ArrivalSound
<1>6. \A t \in Tabs : t # u => TabSound(sheet[t], buffers[t], pushed)
  BY <1>1, SinkTypes
<1>7. QED
  BY <1>1, <1>4, <1>5, <1>6

(* Nothing took effect: the request may be let go or sent again. *)
LEMMA UnsentSound ==
  ASSUME SinkInv, flush = "sending"
  PROVE  /\ \A t \in Tabs : TabSound(sheet[t], buffers[t], pushed)
         /\ \A t \in Tabs : TabSound(sheet[t], Requeued[t], pushed)
<1> DEFINE u == order[at]
<1>1. /\ u \in Tabs
      /\ Waiting(u) = batch \o buffers[u]
      /\ \A t \in Tabs : t # u => Waiting(t) = buffers[t]
      /\ Requeued[u] = batch \o buffers[u]
      /\ \A t \in Tabs : t # u => Requeued[t] = buffers[t]
  BY InSending
<1>2. /\ sheet[u] \in Seq(Nat) /\ batch \in Seq(Nat) /\ buffers[u] \in Seq(Nat)
      /\ pushed \in Nat /\ TabSound(sheet[u], batch \o buffers[u], pushed)
  BY <1>1, SinkTypes
<1>3. TabSound(sheet[u], buffers[u], pushed)
  BY <1>2, LetGo
<1>4. \A t \in Tabs : t # u => TabSound(sheet[t], buffers[t], pushed)
  BY <1>1, SinkTypes
<1>5. QED
  BY <1>1, <1>2, <1>3, <1>4

LEMMA AwaitedKeepsInv ==
  ASSUME SinkInv, SetupAwaited
  PROVE  SinkInv' /\ \A t \in Tabs : Waiting(t)' = Waiting(t)
<1>1. TypeOK /\ SetupSound
  BY DEF SinkInv
<1>2. \A t \in Tabs : Waiting(t) = buffers[t]
  BY DEF SetupAwaited, Waiting
<1>3. \A t \in Tabs : TabSound(sheet[t], buffers[t], pushed)
  BY <1>2, SinkTypes
<1>4. QED
  BY <1>1, <1>2, <1>3, SendKeepsInv DEF SetupAwaited, TypeOK

LEMMA SucceedsKeepsInv ==
  ASSUME SinkInv, AppendSucceeds
  PROVE  SinkInv' /\ \A t \in Tabs : Waiting(t)' = buffers[t]
<1>1. TypeOK /\ setup = "done"
  BY InSending DEF SinkInv, AppendSucceeds
<1>2. /\ sheet' \in [Tabs -> Seq(Nat)]
      /\ \A t \in Tabs : TabSound(sheet'[t], buffers[t], pushed)
  BY AppendedSound DEF AppendSucceeds
<1>3. QED
  BY <1>1, <1>2, SendKeepsInv DEF AppendSucceeds, TypeOK

LEMMA FailsKeepsInv ==
  ASSUME SinkInv, NEW fault, AppendFails(fault)
  PROVE  /\ SinkInv'
         /\ \/ /\ \A t \in Tabs : Waiting(t)' = Waiting(t)
               /\ UNCHANGED dropped
            \/ /\ \A t \in Tabs : Waiting(t)' = buffers[t]
               /\ dropped' = dropped + Len(batch)
<1>1. TypeOK /\ setup = "done"
  BY InSending DEF SinkInv, AppendFails
<1>2. /\ faults' \in Nat
      /\ UNCHANGED << order, setupVars, timer, closing, tabs, pushed >>
  BY <1>1 DEF AppendFails, TypeOK
<1>3. /\ sheet' \in [Tabs -> Seq(Nat)]
      /\ \A t \in Tabs : TabSound(sheet'[t], buffers[t], pushed)
      /\ \A t \in Tabs : TabSound(sheet'[t], Requeued[t], pushed)
  <2>1. CASE Appended
    BY <2>1, AppendedSound DEF AppendFails
  <2>2. CASE UNCHANGED sheet
    BY <1>1, <2>2, UnsentSound DEF AppendFails, TypeOK
  <2>3. QED
    BY <2>1, <2>2 DEF AppendFails
<1>4. CASE SendNext(at, Requeued) /\ UNCHANGED dropped
  <2>1. /\ Requeued \in [Tabs -> Seq(Nat \ {Header})]
        /\ \A t \in Tabs : Requeued[t] = Waiting(t)
    BY InSending DEF AppendFails
  <2>2. dropped' \in Nat
    BY <1>1, <1>4 DEF TypeOK
  <2>3. SinkInv' /\ \A t \in Tabs : Waiting(t)' = Requeued[t]
    BY <1>1, <1>2, <1>3, <1>4, <2>1, <2>2, SendKeepsInv
  <2>4. QED
    BY <1>4, <2>1, <2>3
<1>5. CASE SendNext(at, buffers) /\ dropped' = dropped + Len(batch)
  <2>1. buffers \in [Tabs -> Seq(Nat \ {Header})]
    BY <1>1 DEF TypeOK
  <2>2. dropped' \in Nat
    BY <1>1, <1>5, LenProperties DEF TypeOK
  <2>3. SinkInv' /\ \A t \in Tabs : Waiting(t)' = buffers[t]
    BY <1>1, <1>2, <1>3, <1>5, <2>1, <2>2, SendKeepsInv
  <2>4. QED
    BY <1>5, <2>3
<1>6. QED
  BY <1>4, <1>5 DEF AppendFails

LEMMA StepKeepsInv ==
  ASSUME SinkInv, [Next]_vars
  PROVE  SinkInv'
<1>1. CASE Persisted
  BY <1>1, PushKeepsInv DEF Persisted
<1>2. CASE TimerFires \/ PersistAfterResponse \/ Close
  <2>1. timer \in BOOLEAN /\ closing \in BOOLEAN
    BY DEF SinkInv, TypeOK
  <2>2. \E timerSet \in BOOLEAN : Flushing(buffers, timerSet)
    BY <1>2, <2>1 DEF TimerFires, PersistAfterResponse, Close
  <2>3. /\ closing' \in BOOLEAN
        /\ UNCHANGED << buffers, order, at, batch, dropped, toHead, tabs, sheet, pushed, faults >>
    BY <1>2, <2>1 DEF TimerFires, PersistAfterResponse, Close
  <2>4. QED
    BY <2>2, <2>3, QuietKeepsInv
<1>3. CASE Succeeds
  BY <1>3, SetupSucceedsKeepsInv, SucceedsKeepsInv DEF Succeeds
<1>4. CASE SetupAwaited
  BY <1>4, AwaitedKeepsInv
<1>5. CASE Fails
  BY <1>5, SetupFailsKeepsInv, FailsKeepsInv DEF Fails
<1>6. CASE UNCHANGED vars
  BY <1>6 DEF vars, sinkVars, setupVars, SinkInv, TypeOK, SetupSound, Waiting
<1>7. QED
  BY <1>1, <1>2, <1>3, <1>4, <1>5, <1>6 DEF Next

LEMMA SinkInvHolds == Spec => []SinkInv
<1>1. Init => SinkInv
  BY InitInv
<1>2. SinkInv /\ [Next]_vars => SinkInv'
  BY StepKeepsInv
<1>3. QED
  BY <1>1, <1>2, PTL DEF Spec

(* Type correctness of the sink, its setup and the spreadsheet. *)
THEOREM SinkTypeCorrect == Spec => []TypeOK
<1>1. SinkInv => TypeOK
  BY DEF SinkInv
<1>2. QED
  BY <1>1, SinkInvHolds, PTL

(* However requests fail, answers get lost, setups restart and the queue   *)
(* is cut, rows arrive in order or as repetitions, each tab ends with the  *)
(* newest row it has, and no header is written below another row.          *)
THEOREM RowsStayInOrder == Spec => []RowsArriveInOrder
<1>1. SinkInv => RowsArriveInOrder
  BY DEF SinkInv, RowsArriveInOrder, TabSound, Repeats, LastIsNewest, HeaderIsFirst
<1>2. QED
  BY <1>1, SinkInvHolds, PTL

-----------------------------------------------------------------------------
(* The sink implements the write-behind queue.  Lemmas on sequences first. *)

LEMMA SplitAfter ==
  ASSUME NEW S, NEW b \in Seq(S), NEW r \in Seq(S)
  PROVE  /\ SubSeq(b \o r, 1, Len(b)) = b
         /\ SubSeq(b \o r, Len(b) + 1, Len(b \o r)) = r
         /\ b # << >> => Len(b) \in 1..Len(b \o r)
<1>1. /\ b \o r \in Seq(S) /\ Len(b \o r) = Len(b) + Len(r)
      /\ Len(b) \in Nat /\ Len(r) \in Nat
  BY ConcatParts
<1>2. SubSeq(b \o r, 1, Len(b)) = b
  <2>1. CASE b = << >>
    <3>1. Len(b) = 0
      BY <2>1
    <3>2. QED
      BY <2>1, <3>1, SubSeqEmpty
  <2>2. CASE b # << >>
    <3>1. 1 \in 1..Len(b) /\ Len(b) \in 1..Len(b)
      BY <1>1, <2>2, EmptySeq
    <3>2. QED
      BY <3>1, SubSeqOfConcat1, SubSeqFull
  <2>3. QED
    BY <2>1, <2>2
<1>3. SubSeq(b \o r, Len(b) + 1, Len(b) + Len(r)) = r
  <2>1. CASE r = << >>
    <3>1. Len(r) = 0
      BY <2>1
    <3>2. QED
      BY <1>1, <2>1, <3>1, SubSeqEmpty
  <2>2. CASE r # << >>
    <3>1. /\ Len(b) + 1 \in (Len(b) + 1)..(Len(b) + Len(r))
          /\ Len(b) + Len(r) \in (Len(b) + 1)..(Len(b) + Len(r))
          /\ Len(b) + 1 - Len(b) = 1 /\ Len(b) + Len(r) - Len(b) = Len(r)
      BY <1>1, <2>2, EmptySeq
    <3>2. QED
      BY <3>1, SubSeqOfConcat2, SubSeqFull
  <2>3. QED
    BY <2>1, <2>2
<1>4. b # << >> => Len(b) \in 1..(Len(b) + Len(r))
  BY <1>1, EmptySeq
<1>5. QED
  BY <1>1, <1>2, <1>3, <1>4

(* The header stays out of what has arrived. *)
LEMMA RowsGrow ==
  ASSUME NEW s \in Seq(Nat), NEW b \in Seq(Nat \ {Header}), b # << >>
  PROVE  RowsOf(s \o b) = RowsOf(s) \o b
<1>1. b \in Seq(Nat) /\ b[1] # Header
  <2>1. 1 \in 1..Len(b)
    BY LenProperties, EmptySeq
  <2>2. QED
    BY <2>1, SeqMonotonic, ElementOfSeq
<1>2. /\ s \o b \in Seq(Nat) /\ Len(s \o b) = Len(s) + Len(b)
      /\ Len(s) \in Nat /\ Len(b) \in Nat
  BY <1>1, ConcatParts
<1>3. CASE s = << >>
  <2>1. s \o b = b /\ RowsOf(s) = << >> /\ << >> \o b = b
    BY <1>1, <1>3, ConcatEmptySeq DEF RowsOf
  <2>2. Head(b) # Header
    BY <1>1
  <2>3. QED
    BY <2>1, <2>2 DEF RowsOf
<1>4. CASE s # << >>
  <2>1. s \o b # << >> /\ Head(s \o b) = Head(s) /\ Tail(s \o b) = Tail(s) \o b
    <3>1. s \o b # << >> /\ Len(s) > 0 /\ Head(s \o b) = Head(s)
      BY <1>1, <1>2, <1>4, EmptySeq, ConcatProperties
    <3>2. /\ Tail(s \o b) \in Seq(Nat) /\ Len(Tail(s \o b)) = Len(s) + Len(b) - 1
          /\ \A i \in 1..(Len(s) + Len(b) - 1) : Tail(s \o b)[i] = (s \o b)[i + 1]
      BY <1>2, <3>1, HeadTailProperties
    <3>3. /\ Tail(s) \in Seq(Nat) /\ Len(Tail(s)) = Len(s) - 1
          /\ \A i \in 1..(Len(s) - 1) : Tail(s)[i] = s[i + 1]
      BY <1>2, <1>4, HeadTailProperties
    <3>4. /\ Tail(s) \o b \in Seq(Nat) /\ Len(Tail(s) \o b) = Len(s) + Len(b) - 1
          /\ \A i \in 1..(Len(s) + Len(b) - 1) :
               (Tail(s) \o b)[i] = IF i <= Len(s) - 1 THEN s[i + 1] ELSE b[i - (Len(s) - 1)]
      BY <1>1, <1>2, <3>3, ConcatProperties
    <3>5. \A i \in 1..(Len(s) + Len(b) - 1) :
            (s \o b)[i + 1] = IF i + 1 <= Len(s) THEN s[i + 1] ELSE b[i + 1 - Len(s)]
      BY <1>1, <1>2, ConcatProperties
    <3>6. \A i \in 1..(Len(s) + Len(b) - 1) : Tail(s \o b)[i] = (Tail(s) \o b)[i]
      <4>1. TAKE i \in 1..(Len(s) + Len(b) - 1)
      <4>2. i \in Int /\ (i <= Len(s) - 1 <=> i + 1 <= Len(s)) /\ i - (Len(s) - 1) = i + 1 - Len(s)
        BY <1>2
      <4>3. QED
        BY <3>2, <3>4, <3>5, <4>2
    <3>7. QED
      BY <3>1, <3>2, <3>4, <3>6, SeqEqual
  <2>2. QED
    BY <1>4, <2>1 DEF RowsOf
<1>5. QED
  BY <1>3, <1>4

LEMMA QuietIsStutter ==
  ASSUME \A t \in Tabs : Waiting(t)' = Waiting(t),
         \A t \in Tabs : sheet'[t] = sheet[t] \/ (sheet[t] = << >> /\ sheet'[t] = << Header >>),
         UNCHANGED dropped
  PROVE  UNCHANGED Behind!vars
<1>1. RowsOf(<< >>) = << >> /\ RowsOf(<< Header >>) = << >>
  BY DEF RowsOf
<1>2. \A t \in Tabs : RowsOf(sheet'[t]) = RowsOf(sheet[t])
  BY <1>1
<1>3. WaitingRows' = WaitingRows /\ ArrivedRows' = ArrivedRows
  BY <1>2 DEF WaitingRows, ArrivedRows
<1>4. QED
  BY <1>3 DEF Behind!vars

(* The first k rows of g behind b are given up. *)
LEMMA WithoutFirst ==
  ASSUME NEW S, NEW b \in Seq(S), NEW g \in Seq(S), NEW k \in 1..Len(g),
         NEW w, w = b \o g
  PROVE  Behind!Without(w, Len(b) + 1, Len(b) + k) = b \o SubSeq(g, k + 1, Len(g))
<1>1. /\ Len(w) = Len(b) + Len(g)
      /\ Len(b) \in Nat /\ Len(g) \in Nat /\ k \in Nat /\ k <= Len(g)
  BY ConcatParts
<1>2. SubSeq(w, 1, (Len(b) + 1) - 1) = b
  <2>1. (Len(b) + 1) - 1 = Len(b)
    BY <1>1
  <2>2. QED
    BY <2>1, SplitAfter
<1>3. SubSeq(w, Len(b) + k + 1, Len(w)) = SubSeq(g, k + 1, Len(g))
  <2>1. CASE k = Len(g)
    BY <1>1, <2>1, SubSeqEmpty
  <2>2. CASE k < Len(g)
    <3>1. /\ Len(b) + k + 1 \in (Len(b) + 1)..(Len(b) + Len(g))
          /\ Len(b) + Len(g) \in (Len(b) + 1)..(Len(b) + Len(g))
          /\ Len(b) + k + 1 - Len(b) = k + 1 /\ Len(b) + Len(g) - Len(b) = Len(g)
      BY <1>1, <2>2
    <3>2. QED
      BY <1>1, <3>1, SubSeqOfConcat2
  <2>3. QED
    BY <1>1, <2>1, <2>2
<1>4. Behind!Without(w, Len(b) + 1, Len(b) + k) =
        SubSeq(w, 1, (Len(b) + 1) - 1) \o SubSeq(w, Len(b) + k + 1, Len(w))
  BY DEF Behind!Without
<1>5. QED
  BY <1>2, <1>3, <1>4, Zenon

(* The request, and the buffer behind it; named, so that the provers take  *)
(* it as a whole.                                                          *)
Then(b, q) == b \o q

(* What Push leaves of the buffer q behind the request b, seen from the    *)
(* whole of what waits: the row is appended, and rows behind b given up.   *)
AppendsOrGivesUp(b, q, row, e) ==
  /\ e <= 0 => Then(b, Cut(Append(q, row), e)) = Append(Then(b, q), row)
  /\ e > 0 => \E i, j \in 1..(Len(Then(b, q)) + 1) :
       /\ i <= j /\ j - i + 1 <= e
       /\ Then(b, Cut(Append(q, row), e)) = Behind!Without(Append(Then(b, q), row), i, j)

LEMMA CutIsGiveUp ==
  ASSUME NEW S, NEW b \in Seq(S), NEW q \in Seq(S), NEW row \in S, NEW e \in Int
  PROVE  AppendsOrGivesUp(b, q, row, e)
<1> DEFINE w == Then(b, q)
<1>0. w = b \o q
  BY DEF Then
<1> HIDE DEF w
<1> DEFINE g == Append(q, row)
<1>1. g \in Seq(S) /\ Len(g) = Len(q) + 1
  BY AppendProperties
<1>2. g = Append(q, row)
  OBVIOUS
<1> HIDE DEF g
<1>3. Append(w, row) = b \o g
  <2>1. b \o q \in Seq(S) /\ << row >> \in Seq(S)
    BY ConcatProperties
  <2>2. Append(b \o q, row) = (b \o q) \o << row >> /\ Append(q, row) = q \o << row >>
    BY <2>1, AppendIsConcat
  <2>3. (b \o q) \o << row >> = b \o (q \o << row >>)
    BY <2>1, ConcatAssociative
  <2>4. QED
    BY <1>0, <1>2, <2>2, <2>3
<1>4. Len(w) = Len(b) + Len(q) /\ Len(b) \in Nat /\ Len(q) \in Nat
  BY <1>0, ConcatParts
<1>5. CASE e <= 0
  <2>1. Cut(g, e) = g /\ ~(e > 0)
    BY <1>5 DEF Cut
  <2>2. QED
    BY <1>2, <1>3, <2>1, Zenon DEF w, Then, AppendsOrGivesUp
<1>6. CASE e > 0
  <2>1. PICK k \in 1..Len(g) : Cut(g, e) = SubSeq(g, k + 1, Len(g)) /\ k <= e
    <3>1. Cut(g, e) = SubSeq(g, e + 1, Len(g))
      BY <1>6 DEF Cut
    <3>2. CASE e <= Len(g)
      <4>1. e \in 1..Len(g) /\ e <= e
        BY <1>1, <1>4, <1>6, <3>2
      <4>2. QED
        BY <3>1, <4>1, Zenon
    <3>3. CASE e > Len(g)
      <4>1. SubSeq(g, e + 1, Len(g)) = << >> /\ SubSeq(g, Len(g) + 1, Len(g)) = << >>
        BY <1>1, <1>4, <3>3, SubSeqEmpty
      <4>2. Len(g) \in 1..Len(g) /\ Len(g) <= e
        BY <1>1, <1>4, <3>3
      <4>3. QED
        BY <3>1, <4>1, <4>2
    <3>4. QED
      BY <1>1, <1>4, <3>2, <3>3
  <2>2. Behind!Without(Append(w, row), Len(b) + 1, Len(b) + k) = b \o Cut(g, e)
    BY <1>1, <1>3, <2>1, WithoutFirst
  <2>3. /\ Len(b) + 1 \in 1..(Len(w) + 1) /\ Len(b) + k \in 1..(Len(w) + 1)
        /\ Len(b) + 1 <= Len(b) + k /\ ((Len(b) + k) - (Len(b) + 1)) + 1 <= e
    BY <1>1, <1>4, <2>1
  <2>4. ~(e <= 0)
    BY <1>6
  <2>5. QED
    BY <1>2, <2>2, <2>3, <2>4, Zenon DEF w, Then, AppendsOrGivesUp
<1>7. QED
  BY <1>5, <1>6

LEMMA PushIsAccept ==
  ASSUME SinkInv, NEW t \in Tabs, Push(t)
  PROVE  Behind!Next
<1> DEFINE excess == Queued(buffers) + 1 - MaxQueued
           row    == pushed + 1
           left   == InFlight(t) \o Cut(Append(buffers[t], row), excess)
<1>1. /\ excess \in Int
      /\ \A u \in Tabs : Waiting(u)' = IF u = t THEN left ELSE Waiting(u)
      /\ dropped' = IF excess > 0 THEN dropped + excess ELSE dropped
  BY PushWaits
<1>2. row \in 1..MaxPushes /\ sheet' = sheet
  <2>1. pushed \in Nat /\ pushed < MaxPushes /\ MaxPushes \in Nat
    BY SinkTypes, SinkAssumption DEF Push
  <2>2. QED
    BY <2>1 DEF Push
<1>3. /\ InFlight(t) \in Seq(Nat \ {Header}) /\ buffers[t] \in Seq(Nat \ {Header})
      /\ Waiting(t) = InFlight(t) \o buffers[t] /\ dropped \in Nat /\ row \in Nat \ {Header}
  BY <1>2, WaitingParts, SinkTypes DEF Header
<1>4. /\ excess <= 0 => left = Append(Waiting(t), row)
      /\ excess > 0 => \E i, j \in 1..(Len(Waiting(t)) + 1) :
           /\ i <= j /\ j - i + 1 <= excess
           /\ left = Behind!Without(Append(Waiting(t), row), i, j)
  <2> DEFINE S == Nat \ {Header}
             b == InFlight(t)
             q == buffers[t]
             w == Waiting(t)
  <2>1. b \in Seq(S) /\ q \in Seq(S) /\ row \in S /\ excess \in Int
    BY <1>1, <1>3
  <2>2. left = Then(b, Cut(Append(q, row), excess)) /\ w = Then(b, q)
    BY <1>3 DEF Then
  <2> HIDE DEF S, b, q, w, row, excess, left
  <2>3. AppendsOrGivesUp(b, q, row, excess)
    BY <2>1, CutIsGiveUp
  <2>4. QED
    BY <2>2, <2>3 DEF w, AppendsOrGivesUp
<1> HIDE DEF excess, row, left
<1>5. /\ \A u \in Tabs : WaitingRows[u] = Waiting(u)
      /\ ArrivedRows' = ArrivedRows
      /\ WaitingRows' = [WaitingRows EXCEPT ![t] = left]
  BY <1>1, <1>2 DEF WaitingRows, ArrivedRows
<1>6. CASE excess <= 0
  <2>1. dropped' = dropped
    BY <1>1, <1>6
  <2>2. Behind!Accept(t, row)
    BY <1>4, <1>5, <1>6, <2>1 DEF Behind!Accept
  <2>3. QED
    BY <1>2, <2>2 DEF Behind!Next
<1>7. CASE excess > 0
  <2>1. PICK i \in 1..(Len(Waiting(t)) + 1), j \in 1..(Len(Waiting(t)) + 1) :
           /\ i <= j /\ j - i + 1 <= excess
           /\ left = Behind!Without(Append(Waiting(t), row), i, j)
    BY <1>4, <1>7
  <2>2. dropped' >= dropped + (j - i + 1)
    BY <1>1, <1>3, <1>7, <2>1
  <2>3. Behind!AcceptAndGiveUp(t, row, i, j)
    BY <1>5, <2>1, <2>2 DEF Behind!AcceptAndGiveUp
  <2>4. i \in 1..(Len(WaitingRows[t]) + 1) /\ j \in 1..(Len(WaitingRows[t]) + 1)
    BY <1>5, <2>1
  <2>5. QED
    BY <1>2, <2>1, <2>3, <2>4 DEF Behind!Next
<1>8. QED
  BY <1>1, <1>6, <1>7

(* An answered request: its rows arrive or not, and wait again or not. *)
LEMMA AnswerIsDeliverOrGiveUp ==
  ASSUME SinkInv, flush = "sending",
         NEW arrives \in BOOLEAN, NEW again \in BOOLEAN,
         IF arrives THEN Appended ELSE UNCHANGED sheet,
         \A t \in Tabs : Waiting(t)' = IF again THEN Waiting(t) ELSE buffers[t],
         dropped' = dropped \/ (~again /\ dropped' = dropped + Len(batch)),
         arrives \/ again \/ dropped' = dropped + Len(batch)
  PROVE  [Behind!Next]_(Behind!vars)
<1> DEFINE t == order[at]
           n == Len(batch)
<1>1. /\ t \in Tabs /\ batch # << >>
      /\ Waiting(t) = batch \o buffers[t]
      /\ \A u \in Tabs : u # t => Waiting(u) = buffers[u]
  BY InSending
<1>2. /\ batch \in Seq(Nat \ {Header}) /\ buffers[t] \in Seq(Nat \ {Header})
      /\ sheet[t] \in Seq(Nat) /\ dropped \in Nat
  BY <1>1, SinkTypes
<1>3. /\ SubSeq(Waiting(t), 1, n) = batch
      /\ SubSeq(Waiting(t), n + 1, Len(Waiting(t))) = buffers[t]
      /\ n \in 1..Len(Waiting(t)) /\ n \in Nat
  BY SMTT(30), <1>1, <1>2, SplitAfter, LenProperties
<1>4. arrives => ArrivedRows' = [ArrivedRows EXCEPT ![t] = @ \o batch]
  <2>1. SUFFICES ASSUME arrives PROVE ArrivedRows' = [ArrivedRows EXCEPT ![t] = @ \o batch]
    OBVIOUS
  <2>2. \A u \in Tabs : sheet'[u] = IF u = t THEN sheet[u] \o batch ELSE sheet[u]
    BY <2>1, AppendedSound
  <2>3. RowsOf(sheet[t] \o batch) = RowsOf(sheet[t]) \o batch
    BY <1>1, <1>2, RowsGrow
  <2>4. QED
    BY ZenonT(40), <2>2, <2>3 DEF ArrivedRows
<1>5. ~arrives => ArrivedRows' = ArrivedRows
  BY DEF ArrivedRows
<1> HIDE DEF t, n
<1>6. \A u \in Tabs : WaitingRows[u] = Waiting(u)
  BY DEF WaitingRows
<1>7. again => WaitingRows' = WaitingRows
  BY DEF WaitingRows
<1>8. ~again => WaitingRows' = [WaitingRows EXCEPT ![t] = buffers[t]]
  BY <1>1 DEF WaitingRows
<1>9. CASE arrives /\ (again \/ dropped' = dropped)
  <2>1. Behind!Deliver(t, n, ~again)
    BY <1>1, <1>3, <1>4, <1>6, <1>7, <1>8, <1>9 DEF Behind!Deliver
  <2>2. QED
    BY <1>1, <1>3, <1>6, <2>1 DEF Behind!Next
<1>10. CASE arrives /\ ~again /\ dropped' = dropped + n
  <2>1. dropped' >= dropped + n
    BY <1>2, <1>3, <1>10
  <2>2. Behind!DeliverAndGiveUp(t, n)
    BY <1>1, <1>3, <1>4, <1>6, <1>8, <1>10, <2>1 DEF Behind!DeliverAndGiveUp
  <2>3. QED
    BY <1>1, <1>3, <1>6, <2>2 DEF Behind!Next
<1>11. CASE ~arrives /\ ~again
  <2>1. Behind!Without(Waiting(t), 1, n) = buffers[t]
    <3>1. SubSeq(Waiting(t), 1, 1 - 1) = << >>
      BY SubSeqEmpty
    <3>2. << >> \o buffers[t] = buffers[t]
      BY <1>2, ConcatEmptySeq
    <3>3. QED
      BY <1>3, <3>1, <3>2 DEF Behind!Without
  <2>2. dropped' >= dropped + (n - 1 + 1)
    BY <1>2, <1>3, <1>11 DEF n
  <2>3. Behind!GiveUp(t, 1, n)
    BY <1>1, <1>5, <1>6, <1>8, <1>11, <2>1, <2>2 DEF Behind!GiveUp
  <2>4. 1 \in 1..Len(WaitingRows[t]) /\ n \in 1..Len(WaitingRows[t]) /\ 1 <= n
    BY <1>1, <1>3, <1>6
  <2>5. QED
    BY <1>1, <2>3, <2>4 DEF Behind!Next
<1>12. CASE ~arrives /\ again
  BY <1>5, <1>7, <1>12 DEF Behind!vars
<1>13. QED
  BY <1>9, <1>10, <1>11, <1>12 DEF n

LEMMA FailureIsDeliverOrGiveUp ==
  ASSUME SinkInv, NEW fault \in FaultKinds, AppendFails(fault)
  PROVE  [Behind!Next]_(Behind!vars)
<1>1. /\ fault.applied \in BOOLEAN /\ flush = "sending"
      /\ IF fault.applied THEN Appended ELSE UNCHANGED sheet
  BY DEF FaultKinds, AppendFails
<1>2. CASE /\ \A t \in Tabs : Waiting(t)' = Waiting(t)
           /\ UNCHANGED dropped
  <2> DEFINE again == TRUE
  <2>1. QED
    BY <1>1, <1>2, AnswerIsDeliverOrGiveUp
<1>3. CASE /\ \A t \in Tabs : Waiting(t)' = buffers[t]
           /\ dropped' = dropped + Len(batch)
  BY <1>1, <1>3, AnswerIsDeliverOrGiveUp
<1>4. QED
  BY <1>2, <1>3, FailsKeepsInv

LEMMA StepIsWriteBehind ==
  ASSUME SinkInv, [Next]_vars
  PROVE  [Behind!Next]_(Behind!vars)
<1>1. CASE Persisted
  BY <1>1, PushIsAccept DEF Persisted
<1>2. CASE TimerFires \/ PersistAfterResponse \/ Close
  <2>1. timer \in BOOLEAN /\ closing \in BOOLEAN
    BY DEF SinkInv, TypeOK
  <2>2. \E timerSet \in BOOLEAN : Flushing(buffers, timerSet)
    BY <1>2, <2>1 DEF TimerFires, PersistAfterResponse, Close
  <2>3. /\ closing' \in BOOLEAN
        /\ UNCHANGED << buffers, order, at, batch, dropped, toHead, tabs, sheet, pushed, faults >>
    BY <1>2, <2>1 DEF TimerFires, PersistAfterResponse, Close
  <2>4. QED
    BY <2>2, <2>3, QuietKeepsInv, QuietIsStutter
<1>3. CASE TabsListed \/ TabsCreated
  <2>1. UNCHANGED << sheet, dropped >>
    BY <1>3 DEF TabsListed, TabsCreated, sinkVars
  <2>2. QED
    BY <1>3, <2>1, SetupSucceedsKeepsInv, QuietIsStutter
<1>4. CASE HeaderWritten
  <2>1. PICK t \in Tabs : setup = "heading" /\ Headed(t) /\ UNCHANGED dropped
    BY <1>4 DEF HeaderWritten, sinkVars
  <2>2. sheet[t] = << >> /\ sheet' = [sheet EXCEPT ![t] = << Header >>]
    BY <2>1, HeadedKeeps
  <2>3. \A u \in Tabs : sheet'[u] = sheet[u] \/ (sheet[u] = << >> /\ sheet'[u] = << Header >>)
    BY <2>2 DEF SinkInv, TypeOK
  <2>4. QED
    BY <1>4, <2>1, <2>3, SetupSucceedsKeepsInv, QuietIsStutter
<1>5. CASE AppendSucceeds
  <2>1. flush = "sending" /\ Appended /\ UNCHANGED dropped
    BY <1>5 DEF AppendSucceeds
  <2>2. QED
    BY <1>5, <2>1, SucceedsKeepsInv, AnswerIsDeliverOrGiveUp
<1>6. CASE SetupAwaited
  BY <1>6, AwaitedKeepsInv, QuietIsStutter DEF SetupAwaited
<1>7. ASSUME NEW fault \in Faults, SetupFails(fault)
      PROVE  UNCHANGED Behind!vars
  <2>1. \A t \in Tabs : Waiting(t)' = Waiting(t)
    BY <1>7, SetupFailsKeepsInv
  <2>2. UNCHANGED dropped
    BY <1>7 DEF SetupFails
  <2>3. \A u \in Tabs : sheet'[u] = sheet[u] \/ (sheet[u] = << >> /\ sheet'[u] = << Header >>)
    <3>1. CASE UNCHANGED sheet
      BY <3>1
    <3>2. CASE \E t \in Tabs : setup = "heading" /\ Headed(t)
      <4>1. PICK t \in Tabs : setup = "heading" /\ Headed(t)
        BY <3>2
      <4>2. sheet[t] = << >> /\ sheet' = [sheet EXCEPT ![t] = << Header >>]
        BY <4>1, HeadedKeeps
      <4>3. QED
        BY <4>2 DEF SinkInv, TypeOK
    <3>3. QED
      BY <1>7, <3>1, <3>2 DEF SetupFails
  <2>4. QED
    BY <2>1, <2>2, <2>3, QuietIsStutter
<1>8. CASE Fails
  BY <1>7, <1>8, FailureIsDeliverOrGiveUp, SinkAssumption DEF Fails
<1>9. CASE UNCHANGED vars
  BY <1>9, QuietIsStutter DEF vars, sinkVars, setupVars, Waiting
<1>10. QED
  BY <1>1, <1>2, <1>3, <1>4, <1>5, <1>6, <1>8, <1>9 DEF Next, Succeeds

LEMMA InitIsWriteBehind == Init => Behind!Init
<1> SUFFICES ASSUME Init PROVE Behind!Init
  OBVIOUS
<1>1. \A t \in Tabs : Waiting(t) = << >>
  BY DEF Init, Waiting
<1>2. \A t \in Tabs : RowsOf(sheet[t]) = << >>
  <2>1. RowsOf(<< >>) = << >> /\ RowsOf(<< Header >>) = << >>
    BY DEF RowsOf
  <2>2. \A t \in Tabs : sheet[t] \in {<< >>, << Header >>}
    BY DEF Init
  <2>3. QED
    BY <2>1, <2>2
<1>3. QED
  BY <1>1, <1>2 DEF Init, Behind!Init, WaitingRows, ArrivedRows

(* The sink is a write-behind queue, for any buffer sizes and any faults:  *)
(* only prefixes of what waits arrive, in order, and a row that leaves the *)
(* queue has arrived or is counted among the lost.                         *)
THEOREM SinkIsWriteBehind == Spec => ImplementsWriteBehind
<1>1. SinkInv /\ [Next]_vars => [Behind!Next]_(Behind!vars)
  BY StepIsWriteBehind
<1>2. Spec => Behind!Spec
  BY <1>1, SinkInvHolds, InitIsWriteBehind, PTL DEF Spec, Behind!Spec
<1>3. QED
  BY <1>2 DEF ImplementsWriteBehind
=============================================================================
