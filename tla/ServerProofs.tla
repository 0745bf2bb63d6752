---------------------------- MODULE ServerProofs ----------------------------
(***************************************************************************)
(* Proofs about the authorisation service: what a frozen instance holds    *)
(* unsent is accounted for, failed setups included; and                    *)
(* about its token source: what it promises of tokens and renewals, for    *)
(* any callers, life of a token, margin, and network times.  The last part *)
(* is about the import page: it replays only what was confirmed.           *)
(*                                                                         *)
(* A request handles its payments one after the other, so the effect of a  *)
(* request is a function defined by recursion over them.  That it exists,  *)
(* and what it leaves, is proved by induction on sets of naturals.         *)
(***************************************************************************)
EXTENDS TokenSource, ServerEngine, ImportPanel, SharedFacts

-----------------------------------------------------------------------------
(* What a request leaves *)

ServerTypeOK ==
  /\ rows \in Nat /\ requests \in Nat
  /\ buffers \in [1..2 -> Seq(Nat)]
  /\ batch \in Seq(Nat)
  /\ flush \in {"idle", "starting", "sending"}
  /\ tabAt \in 0..2
  /\ instance \in {"awake", "frozen"}
  /\ keptAlive \in BOOLEAN

Start == [rows |-> rows, buffers |-> buffers, sealed |-> sealed]

Intermediate ==
  [rows : Nat, buffers : [1..2 -> Seq(Nat)], sealed : SUBSET (sealed \cup Nat)]

(* So far: only new rows queued.                                           *)
Progress ==
  {s \in Intermediate :
     /\ rows <= s.rows
     /\ \A t \in 1..2 : ToSet(s.buffers[t]) \subseteq ToSet(buffers[t]) \cup (rows + 1)..s.rows}

LEMMA ToSetAppend ==
  ASSUME NEW q \in Seq(Nat), NEW n \in Nat
  PROVE  Append(q, n) \in Seq(Nat) /\ ToSet(Append(q, n)) = ToSet(q) \cup {n}
<1>1. Append(q, n) \in Seq(Nat) /\ DOMAIN Append(q, n) = 1..(Len(q) + 1)
  OBVIOUS
<1>2. \A i \in 1..Len(q) : Append(q, n)[i] = q[i]
  OBVIOUS
<1>3. Append(q, n)[Len(q) + 1] = n
  OBVIOUS
<1>4. DOMAIN q = 1..Len(q) /\ Len(q) \in Nat
  OBVIOUS
<1>5. \A i \in 1..(Len(q) + 1) : i \in 1..Len(q) \/ i = Len(q) + 1
  BY <1>4
<1>6. \A i \in 1..Len(q) : i \in 1..(Len(q) + 1)
  BY <1>4
<1>7. Len(q) + 1 \in 1..(Len(q) + 1)
  BY <1>4
<1> QED
  BY <1>1, <1>2, <1>3, <1>4, <1>5, <1>6, <1>7 DEF ToSet

(* b is bufs with row n pushed somewhere. *)
Pushed(b, bufs, n) ==
  /\ b \in [1..2 -> Seq(Nat)]
  /\ \A u \in 1..2 : ToSet(b[u]) \subseteq ToSet(bufs[u]) \cup {n}

(* What is within A and R, and one thing more. *)
LEMMA WithinGrows ==
  ASSUME NEW A, NEW B, NEW C, NEW R, NEW x, B \subseteq A \cup R, C \subseteq B \cup {x}
  PROVE  C \subseteq A \cup (R \cup {x})
OBVIOUS

LEMMA PushAdds ==
  ASSUME NEW bufs \in [1..2 -> Seq(Nat)], NEW n \in Nat, NEW t \in 1..2
  PROVE  Pushed(Push(bufs, n, t), bufs, n)
<1>1. bufs[t] \in Seq(Nat)
  OBVIOUS
<1>2. Append(bufs[t], n) \in Seq(Nat) /\ ToSet(Append(bufs[t], n)) = ToSet(bufs[t]) \cup {n}
  BY <1>1, ToSetAppend
<1>3. Push(bufs, n, t) = [bufs EXCEPT ![t] = Append(bufs[t], n)]
  BY DEF Push
<1> QED
  BY <1>2, <1>3 DEF Pushed

LEMMA StartIsProgress == ServerTypeOK => Start \in Progress
BY DEF ServerTypeOK, Start, Progress, Intermediate

(* One row more in one of the buffers is progress. *)
LEMMA QueuedIsProgress ==
  ASSUME ServerTypeOK, NEW bufs \in [1..2 -> Seq(Nat)], NEW n \in Nat, rows <= n,
         \A t \in 1..2 : ToSet(bufs[t]) \subseteq ToSet(buffers[t]) \cup (rows + 1)..n,
         NEW tab \in 1..2
  PROVE  /\ Push(bufs, n + 1, tab) \in [1..2 -> Seq(Nat)] /\ n + 1 \in Nat /\ rows <= n + 1
         /\ \A t \in 1..2 : ToSet(Push(bufs, n + 1, tab)[t])
                             \subseteq ToSet(buffers[t]) \cup (rows + 1)..(n + 1)
<1>1. rows \in Nat /\ n + 1 \in Nat /\ rows <= n + 1
  BY DEF ServerTypeOK
<1>2. PICK b : b = Push(bufs, n + 1, tab)
  OBVIOUS
<1>3. Pushed(b, bufs, n + 1)
  BY <1>1, <1>2, PushAdds
<1>4. (rows + 1)..n \cup {n + 1} \subseteq (rows + 1)..(n + 1)
  BY <1>1
<1>5. ASSUME NEW t \in 1..2
      PROVE  ToSet(b[t]) \subseteq ToSet(buffers[t]) \cup (rows + 1)..(n + 1)
  <2>1. ToSet(b[t]) \subseteq ToSet(bufs[t]) \cup {n + 1}
    BY <1>3 DEF Pushed
  <2>2. ToSet(b[t]) \subseteq ToSet(buffers[t]) \cup ((rows + 1)..n \cup {n + 1})
    BY <2>1, WithinGrows
  <2> QED
    BY <1>4, <2>2, Zenon
<1> QED
  BY <1>1, <1>2, <1>3, <1>5 DEF Pushed

LEMMA OneIsProgress ==
  ASSUME ServerTypeOK, NEW s \in Progress, NEW item \in Items
  PROVE  AuthoriseOne(s, item) \in Progress
<1>1. /\ s.rows \in Nat /\ s.buffers \in [1..2 -> Seq(Nat)] /\ rows <= s.rows
      /\ s.sealed \subseteq sealed \cup Nat
      /\ \A t \in 1..2 : ToSet(s.buffers[t]) \subseteq ToSet(buffers[t]) \cup (rows + 1)..s.rows
  BY DEF Progress, Intermediate
<1>2. ASSUME NEW r \in Nat, NEW b \in [1..2 -> Seq(Nat)], NEW d, d \subseteq sealed \cup Nat,
             rows <= r,
             \A t \in 1..2 : ToSet(b[t]) \subseteq ToSet(buffers[t]) \cup (rows + 1)..r
      PROVE  [rows |-> r, buffers |-> b, sealed |-> d] \in Progress
  <2>1. PICK z : z = [rows |-> r, buffers |-> b, sealed |-> d]
    OBVIOUS
  <2>2. z \in Intermediate /\ z.rows = r /\ z.buffers = b
    BY <1>2, <2>1 DEF Intermediate
  <2> QED
    BY <1>2, <2>1, <2>2 DEF Progress
<1>3. PICK a : a = Push(s.buffers, s.rows + 1, 1)
  OBVIOUS
<1>tabs. 1 \in 1..2 /\ 2 \in 1..2
  OBVIOUS
<1>4. /\ a \in [1..2 -> Seq(Nat)] /\ s.rows + 1 \in Nat /\ rows <= s.rows + 1
      /\ \A t \in 1..2 : ToSet(a[t]) \subseteq ToSet(buffers[t]) \cup (rows + 1)..(s.rows + 1)
  BY <1>1, <1>3, <1>tabs, QueuedIsProgress, Zenon
<1>5. PICK d : d = s.sealed \cup {s.rows + 1}
  OBVIOUS
<1>6. d \subseteq sealed \cup Nat
  BY <1>1, <1>4, <1>5
<1>7. CASE item = "invalid"
  BY <1>7 DEF AuthoriseOne
<1>8. CASE item = "throws"
  <2>1. AuthoriseOne(s, item) = [rows |-> s.rows + 1, buffers |-> a, sealed |-> s.sealed]
    BY <1>3, <1>8 DEF AuthoriseOne
  <2> QED
    BY <1>1, <1>2, <1>4, <2>1
<1>9. CASE item = "undated"
  <2>1. AuthoriseOne(s, item) = [rows |-> s.rows + 1, buffers |-> a, sealed |-> d]
    BY <1>3, <1>5, <1>9 DEF AuthoriseOne
  <2> QED
    BY <1>2, <1>4, <1>6, <2>1
<1>10. CASE item = "decided"
  <2>1. PICK b : b = Push(a, s.rows + 2, 2)
    OBVIOUS
  <2>2. s.rows + 2 = (s.rows + 1) + 1
    BY <1>1
  <2>3. /\ b \in [1..2 -> Seq(Nat)] /\ s.rows + 2 \in Nat /\ rows <= s.rows + 2
        /\ \A t \in 1..2 : ToSet(b[t]) \subseteq ToSet(buffers[t]) \cup (rows + 1)..(s.rows + 2)
    BY <1>4, <1>tabs, <2>1, <2>2, QueuedIsProgress, Zenon
  <2>4. AuthoriseOne(s, item) = [rows |-> s.rows + 2, buffers |-> b, sealed |-> d]
    BY <1>3, <1>5, <1>10, <2>1 DEF AuthoriseOne
  <2> QED
    BY <1>2, <1>6, <2>3, <2>4
<1> QED
  BY <1>7, <1>8, <1>9, <1>10 DEF Items

-----------------------------------------------------------------------------
(* The recursion over the payments of a request *)

(* f follows a request through its first n payments. *)
Follows(f, items, n) ==
  /\ f \in [0..n -> Progress]
  /\ f[0] = Start
  /\ \A i \in 1..n : f[i] = AuthoriseOne(f[i - 1], items[i])

LEMMA Followed ==
  ASSUME ServerTypeOK, NEW items \in Seq(Items)
  PROVE  \E f : Follows(f, items, Len(items))
<1> DEFINE T == {n \in Nat : n <= Len(items) => \E f : Follows(f, items, n)}
<1>1. 0 \in T
  <2> DEFINE f == [i \in 0..0 |-> Start]
  <2>1. Follows(f, items, 0)
    BY StartIsProgress DEF Follows
  <2> QED
    BY <2>1
<1>2. ASSUME NEW n \in Nat, n \in T PROVE n + 1 \in T
  <2> SUFFICES ASSUME n + 1 <= Len(items) PROVE \E g : Follows(g, items, n + 1)
    OBVIOUS
  <2>1. Len(items) \in Nat /\ n <= Len(items) /\ n + 1 \in 1..Len(items)
    OBVIOUS
  <2>2. PICK f : Follows(f, items, n)
    BY <1>2, <2>1
  <2>3. f[n] \in Progress /\ items[n + 1] \in Items
    BY <2>1, <2>2 DEF Follows
  <2>4. PICK next : next = AuthoriseOne(f[n], items[n + 1]) /\ next \in Progress
    BY <2>3, OneIsProgress
  <2> DEFINE g == [i \in 0..(n + 1) |-> IF i <= n THEN f[i] ELSE next]
  <2>5. g \in [0..(n + 1) -> Progress]
    BY <2>2, <2>4 DEF Follows
  <2>6. g[0] = Start
    BY <2>2 DEF Follows
  <2>7. ASSUME NEW i \in 1..(n + 1) PROVE g[i] = AuthoriseOne(g[i - 1], items[i])
    <3>1. i - 1 \in 0..n /\ g[i - 1] = f[i - 1]
      OBVIOUS
    <3>2. CASE i <= n
      <4>1. i \in 1..n /\ g[i] = f[i]
        BY <3>2
      <4> QED
        BY <2>2, <3>1, <4>1 DEF Follows
    <3>3. CASE ~(i <= n)
      <4>1. i = n + 1 /\ i - 1 = n /\ g[i] = next
        BY <3>3
      <4> QED
        BY <2>4, <3>1, <4>1
    <3> QED
      BY <3>2, <3>3
  <2> HIDE DEF g
  <2>8. Follows(g, items, n + 1)
    BY <2>5, <2>6, <2>7 DEF Follows
  <2> QED
    BY <2>8
<1> HIDE DEF T
<1>3. Nat \subseteq T
  BY <1>1, <1>2, SetInduction
<1>4. Len(items) \in T
  BY <1>3
<1> QED
  BY <1>4 DEF T

LEMMA HandledIsProgress ==
  ASSUME ServerTypeOK, NEW items \in Seq(Items)
  PROVE  Handled(items) \in Progress
<1> DEFINE n == Len(items)
           Body(g) == [i \in 0..n |-> IF i = 0 THEN Start ELSE AuthoriseOne(g[i - 1], items[i])]
           after == CHOOSE g : g = Body(g)
<1>1. Handled(items) = after[n]
  BY DEF Handled, Start
<1>2. n \in Nat
  OBVIOUS
<1>3. \E g : g = Body(g)
  <2>1. PICK f : Follows(f, items, n)
    BY Followed
  <2>2. f = [i \in 0..n |-> f[i]]
    BY <2>1 DEF Follows
  <2>3. \A i \in 0..n : f[i] = IF i = 0 THEN Start ELSE AuthoriseOne(f[i - 1], items[i])
    <3> TAKE i \in 0..n
    <3>1. CASE i = 0
      BY <2>1, <3>1 DEF Follows
    <3>2. CASE i # 0
      <4>1. i \in 1..n
        BY <1>2, <3>2
      <4> QED
        BY <2>1, <3>2, <4>1 DEF Follows
    <3> QED
      BY <3>1, <3>2
  <2>4. f = Body(f)
    BY <2>2, <2>3
  <2> QED
    BY <2>4
<1>4. after = Body(after)
  BY <1>3
<1> HIDE DEF after
<1>5. \A i \in 0..n : after[i] = IF i = 0 THEN Start ELSE AuthoriseOne(after[i - 1], items[i])
  BY <1>4
<1>6. after[0] = Start /\ \A i \in 1..n : after[i] = AuthoriseOne(after[i - 1], items[i])
  <2>1. 0 \in 0..n /\ \A i \in 1..n : i \in 0..n /\ i # 0
    BY <1>2
  <2> QED
    BY <1>5, <2>1
<1> DEFINE T == {k \in Nat : k <= n => after[k] \in Progress}
<1>7. 0 \in T
  BY <1>6, StartIsProgress
<1>8. ASSUME NEW k \in Nat, k \in T PROVE k + 1 \in T
  <2> SUFFICES ASSUME k + 1 <= n PROVE after[k + 1] \in Progress
    OBVIOUS
  <2>1. k + 1 \in 1..n /\ (k + 1) - 1 = k /\ k <= n
    BY <1>2
  <2>2. after[k] \in Progress /\ items[k + 1] \in Items
    BY <1>8, <2>1
  <2>3. after[k + 1] = AuthoriseOne(after[k], items[k + 1])
    BY <1>6, <2>1
  <2> QED
    BY <2>2, <2>3, OneIsProgress
<1> HIDE DEF T
<1>9. Nat \subseteq T
  BY <1>7, <1>8, SetInduction
<1>10. after[n] \in Progress
  <2>1. n \in T
    BY <1>2, <1>9
  <2> QED
    BY <1>2, <2>1 DEF T
<1> QED
  BY <1>1, <1>10

-----------------------------------------------------------------------------
(* The inductive invariant *)

(* The rows a frozen instance may be left with. *)
Excused == unflushed \cup retried \cup late \cup unset

FlushSound ==
  /\ instance = "frozen" => ~keptAlive
  /\ flush # "sending" => tabAt = 0 /\ batch = << >>
  /\ flush = "sending" => tabAt > 0

(* Without a promise of the flush nothing is on its way but excused rows,  *)
(* and behind a running flush no others gather.                            *)
UnkeptIsExcused ==
  /\ ~keptAlive => \A t \in 1..2 : ToSet(buffers[t]) \subseteq Excused
  /\ ~keptAlive => ToSet(batch) \subseteq Excused

PassedIsExcused == \A t \in 1..tabAt : ToSet(buffers[t]) \subseteq Excused

ServerInv == ServerTypeOK /\ FlushSound /\ UnkeptIsExcused /\ PassedIsExcused

LEMMA ServerInitSound == ServerInit => ServerInv
<1> SUFFICES ASSUME ServerInit PROVE ServerInv
  OBVIOUS
<1>1. ServerTypeOK
  <2>1. keptAlive \in BOOLEAN
    BY Zenon DEF ServerInit
  <2> QED
    BY <2>1 DEF ServerInit, ServerTypeOK
<1>2. FlushSound
  BY DEF ServerInit, FlushSound
<1>3. \A t \in 1..2 : ToSet(buffers[t]) = {}
  BY DEF ServerInit, ToSet
<1>4. ToSet(batch) = {}
  BY DEF ServerInit, ToSet
<1>5. UnkeptIsExcused /\ PassedIsExcused
  <2>1. \A t \in 1..tabAt : FALSE
    BY DEF ServerInit
  <2> QED
    BY <1>3, <1>4, <2>1 DEF UnkeptIsExcused, PassedIsExcused
<1> QED
  BY <1>1, <1>2, <1>5 DEF ServerInv

-----------------------------------------------------------------------------
(* A request *)

(* What a handled request leaves queued: what was there, and its own rows, *)
(* which someone will send, or which asked for no flush, or came late.     *)
LEMMA AnsweredSound ==
  ASSUME ServerInv, NEW items \in Seq(Items), NEW status, NEW persist \in BOOLEAN,
         Arrived, Answered(items, status, persist),
         ~persist => status = 500
  PROVE  ServerInv'
<1>1. ServerTypeOK /\ FlushSound /\ UnkeptIsExcused /\ PassedIsExcused
  BY DEF ServerInv
<1>2. PICK s : s = Handled(items)
  OBVIOUS
<1>3. s \in Progress
  BY <1>1, <1>2, HandledIsProgress
<1>4. /\ s.buffers \in [1..2 -> Seq(Nat)] /\ s.rows \in Nat
      /\ \A t \in 1..2 : ToSet(s.buffers[t]) \subseteq ToSet(buffers[t]) \cup (rows + 1)..s.rows
  BY <1>3 DEF Progress, Intermediate
<1>5. /\ buffers' = s.buffers /\ rows' = s.rows
      /\ unflushed' = IF status = 500 THEN unflushed \cup (rows + 1)..s.rows ELSE unflushed
      /\ late' = late \cup ((rows + 1)..s.rows \cap UNION {ToSet(s.buffers[t]) : t \in 1..tabAt})
      /\ UNCHANGED << tabAt, batch, written, given, retried, unset >>
  BY <1>2 DEF Answered, rowVars
<1>6. /\ persist => PersistAfterResponse(s.buffers)
      /\ ~persist => UNCHANGED << flush, keptAlive >> /\ status = 500
  BY <1>2 DEF Answered
<1>7. instance' = "awake" /\ requests' = requests + 1
  BY DEF Arrived
<1>8. /\ keptAlive' \in BOOLEAN /\ flush' \in {"idle", "starting", "sending"}
      /\ flush' = "sending" <=> flush = "sending"
  <2>1. CASE persist
    <3>1. CASE flush = "idle"
      <4> DEFINE some == s.buffers[1] \o s.buffers[2] # << >>
      <4>1. flush' = (IF some THEN "starting" ELSE "idle") /\ keptAlive' = some
        BY <1>6, <2>1, <3>1 DEF PersistAfterResponse
      <4>2. some \in BOOLEAN
        OBVIOUS
      <4> HIDE DEF some
      <4> QED
        BY <3>1, <4>1, <4>2
    <3>2. CASE flush # "idle"
      <4>1. keptAlive' = TRUE /\ flush' = flush
        BY <1>6, <2>1, <3>2 DEF PersistAfterResponse
      <4> QED
        BY <1>1, <4>1 DEF ServerTypeOK
    <3> QED
      BY <3>1, <3>2
  <2>2. CASE ~persist
    BY <1>1, <1>6, <2>2 DEF ServerTypeOK
  <2> QED
    BY <2>1, <2>2
<1>9. ServerTypeOK'
  <2>1. rows' \in Nat /\ buffers' \in [1..2 -> Seq(Nat)]
    BY <1>4, <1>5
  <2>2. requests' \in Nat
    BY <1>1, <1>7 DEF ServerTypeOK
  <2>3. batch' \in Seq(Nat) /\ tabAt' \in 0..2
    BY <1>1, <1>5 DEF ServerTypeOK
  <2> QED
    BY <1>7, <1>8, <2>1, <2>2, <2>3 DEF ServerTypeOK
<1>10. FlushSound'
  BY <1>1, <1>5, <1>7, <1>8 DEF FlushSound
<1>11. Excused \subseteq Excused'
  BY <1>5 DEF Excused
<1>12. PassedIsExcused'
  <2> SUFFICES ASSUME NEW t \in 1..tabAt PROVE ToSet(s.buffers[t]) \subseteq Excused'
    BY <1>5 DEF PassedIsExcused
  <2>1. t \in 1..2
    BY <1>1 DEF ServerTypeOK
  <2>2. ToSet(s.buffers[t]) \subseteq Excused \cup (rows + 1)..s.rows
    BY <1>1, <1>4, <2>1 DEF PassedIsExcused
  <2>3. ToSet(s.buffers[t]) \cap (rows + 1)..s.rows \subseteq late'
    BY <1>5
  <2> QED
    BY <1>11, <2>2, <2>3 DEF Excused
<1>13. UnkeptIsExcused'
  <2> SUFFICES ASSUME ~keptAlive'
               PROVE  /\ \A t \in 1..2 : ToSet(buffers'[t]) \subseteq Excused'
                      /\ ToSet(batch') \subseteq Excused'
    BY DEF UnkeptIsExcused
  <2>1. CASE persist
    <3>1. flush = "idle"
      BY <1>6, <2>1 DEF PersistAfterResponse
    <3>2. s.buffers[1] \o s.buffers[2] = << >>
      BY <1>6, <2>1, <3>1 DEF PersistAfterResponse
    <3>3. s.buffers[1] \in Seq(Nat) /\ s.buffers[2] \in Seq(Nat)
      BY <1>4
    <3>4. s.buffers[1] = << >> /\ s.buffers[2] = << >>
      BY <3>2, <3>3
    <3>5. batch' = << >>
      BY <1>1, <1>5, <3>1 DEF FlushSound
    <3>6. ToSet(<< >>) = {}
      BY DEF ToSet
    <3>7. \A t \in 1..2 : buffers'[t] = << >>
      <4>1. \A t \in 1..2 : t = 1 \/ t = 2
        OBVIOUS
      <4> QED
        BY <1>5, <3>4, <4>1
    <3> QED
      BY <3>5, <3>6, <3>7
  <2>2. CASE ~persist
    <3>1. ~keptAlive /\ unflushed' = unflushed \cup (rows + 1)..s.rows
      BY <1>5, <1>6, <2>2
    <3>2. \A t \in 1..2 : ToSet(s.buffers[t]) \subseteq Excused \cup (rows + 1)..s.rows
      BY <1>1, <1>4, <3>1 DEF UnkeptIsExcused
    <3>3. ToSet(batch) \subseteq Excused
      BY <1>1, <3>1 DEF UnkeptIsExcused
    <3>4. (rows + 1)..s.rows \subseteq Excused'
      BY <3>1 DEF Excused
    <3> QED
      BY <1>5, <1>11, <3>2, <3>3, <3>4
  <2> QED
    BY <2>1, <2>2
<1> QED
  BY <1>9, <1>10, <1>12, <1>13 DEF ServerInv

(* A refused request changes nothing but wakes the instance. *)
LEMMA RefusedSound == ServerInv /\ Arrived /\ Refuses => ServerInv'
BY DEF ServerInv, ServerTypeOK, FlushSound, UnkeptIsExcused, PassedIsExcused, Excused,
       Arrived, Refuses, sinkVars, rowVars

LEMMA AuthorizeSound ==
  ASSUME ServerInv, NEW item \in Items, Authorize(item)
  PROVE  ServerInv'
<1>1. << item >> \in Seq(Items)
  OBVIOUS
<1>2. Arrived
  BY DEF Authorize
<1>3. CASE item = "invalid"
  BY <1>2, <1>3, RefusedSound DEF Authorize
<1>4. CASE item = "decided"
  <2>1. Answered(<< item >>, 200, TRUE)
    BY <1>4 DEF Authorize
  <2> QED
    BY <1>1, <1>2, <2>1, AnsweredSound
<1>5. CASE item \in {"throws", "undated"}
  <2>1. Answered(<< item >>, 500, FALSE)
    BY <1>5 DEF Authorize
  <2> QED
    BY <1>1, <1>2, <2>1, AnsweredSound
<1> QED
  BY <1>3, <1>4, <1>5 DEF Items

LEMMA AuthorizeBatchSound ==
  ASSUME ServerInv, NEW body \in Bodies, AuthorizeBatch(body)
  PROVE  ServerInv'
<1>1. Arrived
  BY DEF AuthorizeBatch
<1>2. CASE Refuses
  BY <1>1, <1>2, RefusedSound
<1>3. CASE ~Refuses
  <2>1. body # NotAList /\ Answered(body, 200, TRUE)
    BY <1>3 DEF AuthorizeBatch, BatchPersists
  <2>2. PICK n \in 0..(MaxBatch + 1) : body \in [1..n -> Items]
    BY <2>1 DEF Bodies
  <2>3. n \in Nat
    BY ServerAssumption, <2>2
  <2>4. body \in Seq(Items)
    BY <2>2, <2>3
  <2> QED
    BY <1>1, <2>1, <2>4, AnsweredSound
<1> QED
  BY <1>2, <1>3

-----------------------------------------------------------------------------
(* The flush *)

(* Going on from tab t keeps every row where it is accounted for, when the *)
(* rows of the tabs already passed are.                                    *)
LEMMA SendFromSound ==
  ASSUME NEW bufs \in [1..2 -> Seq(Nat)], NEW t \in 1..3, SendFrom(t, bufs), NEW E,
         \A u \in 1..2 : u < t => ToSet(bufs[u]) \subseteq E,
         ~keptAlive => \A u \in 1..2 : ToSet(bufs[u]) \subseteq E,
         keptAlive \in BOOLEAN
  PROVE  /\ buffers' \in [1..2 -> Seq(Nat)] /\ batch' \in Seq(Nat) /\ tabAt' \in 0..2
         /\ flush' \in {"idle", "sending"} /\ keptAlive' \in BOOLEAN
         /\ flush' # "sending" => tabAt' = 0 /\ batch' = << >>
         /\ flush' = "sending" => tabAt' > 0
         /\ ~keptAlive' => \A u \in 1..2 : ToSet(buffers'[u]) \subseteq E
         /\ ~keptAlive' => ToSet(batch') \subseteq E
         /\ \A u \in 1..tabAt' : ToSet(buffers'[u]) \subseteq E
<1> DEFINE later == {u \in t..2 : bufs[u] # << >>}
<1>1. ToSet(<< >>) = {} /\ << >> \in Seq(Nat)
  BY DEF ToSet
<1>2. \A u \in 1..2 : u \notin later => ToSet(bufs[u]) \subseteq E
  <2> TAKE u \in 1..2
  <2>1. u < t \/ u \in t..2
    OBVIOUS
  <2> QED
    BY <1>1, <2>1
<1>3. CASE later = {}
  <2>1. flush' = "idle" /\ tabAt' = 0 /\ batch' = << >> /\ buffers' = bufs /\ keptAlive' = FALSE
    BY <1>3 DEF SendFrom
  <2>2. \A u \in 1..2 : ToSet(bufs[u]) \subseteq E
    BY <1>2, <1>3
  <2>3. ToSet(batch') \subseteq E
    BY <1>1, <2>1
  <2>4. \A u \in 1..tabAt' : FALSE
    BY <2>1
  <2>5. tabAt' \in 0..2 /\ flush' \in {"idle", "sending"} /\ flush' # "sending"
    BY <2>1
  <2>6. \A u \in 1..2 : ToSet(buffers'[u]) \subseteq E
    BY <2>1, <2>2
  <2>7. batch' \in Seq(Nat) /\ keptAlive' \in BOOLEAN
    BY <1>1, <2>1, Zenon
  <2> HIDE DEF later
  <2> QED
    BY <2>1, <2>3, <2>4, <2>5, <2>6, <2>7, Zenon
<1>4. CASE later # {}
  <2>1. PICK u \in later : /\ \A v \in later : u <= v
                           /\ flush' = "sending" /\ tabAt' = u /\ batch' = bufs[u]
                           /\ buffers' = [bufs EXCEPT ![u] = << >>]
                           /\ keptAlive' = keptAlive
    BY <1>4 DEF SendFrom
  <2>2. u \in 1..2 /\ u > 0
    OBVIOUS
  <2>3. \A v \in 1..2 : v < u => v \notin later
    BY <2>1, <2>2
  <2> HIDE DEF later
  <2>4. buffers' \in [1..2 -> Seq(Nat)] /\ batch' \in Seq(Nat)
    BY <1>1, <2>1, <2>2
  <2>5. \A v \in 1..2 : ToSet(buffers'[v]) \subseteq ToSet(bufs[v])
    BY <1>1, <2>1, <2>2
  <2>6. \A v \in 1..tabAt' : ToSet(buffers'[v]) \subseteq E
    <3> TAKE v \in 1..tabAt'
    <3>1. v \in 1..2 /\ (v < u \/ v = u)
      BY <2>1, <2>2
    <3>2. CASE v < u
      BY <1>2, <2>3, <2>5, <3>1, <3>2
    <3>3. CASE v = u
      BY <1>1, <2>1, <2>2, <3>3
    <3> QED
      BY <3>1, <3>2, <3>3
  <2>7. ~keptAlive => \A v \in 1..2 : ToSet(buffers'[v]) \subseteq E
    BY <2>5
  <2>8. ~keptAlive => ToSet(batch') \subseteq E
    BY <2>1, <2>2
  <2>9. tabAt' \in 0..2 /\ tabAt' > 0 /\ flush' = "sending" /\ keptAlive' = keptAlive
    BY <2>1, <2>2
  <2> QED
    BY <2>4, <2>6, <2>7, <2>8, <2>9
<1> QED
  BY <1>3, <1>4

(* The flush goes on: nothing else changes but what excuses its rows.      *)
LEMMA FlushGoesOn ==
  ASSUME ServerInv, instance = "awake", NEW bufs \in [1..2 -> Seq(Nat)], NEW t \in 1..3,
         SendFrom(t, bufs),
         \A u \in 1..2 : u < t => ToSet(bufs[u]) \subseteq Excused',
         ~keptAlive => \A u \in 1..2 : ToSet(bufs[u]) \subseteq Excused',
         UNCHANGED << instance, rows, requests >>
  PROVE  ServerInv'
<1>1. ServerTypeOK /\ keptAlive \in BOOLEAN
  BY DEF ServerInv, ServerTypeOK
<1>2. PICK E : E = Excused'
  OBVIOUS
<1>3. /\ buffers' \in [1..2 -> Seq(Nat)] /\ batch' \in Seq(Nat) /\ tabAt' \in 0..2
      /\ flush' \in {"idle", "sending"} /\ keptAlive' \in BOOLEAN
      /\ flush' # "sending" => tabAt' = 0 /\ batch' = << >>
      /\ flush' = "sending" => tabAt' > 0
      /\ ~keptAlive' => \A u \in 1..2 : ToSet(buffers'[u]) \subseteq E
      /\ ~keptAlive' => ToSet(batch') \subseteq E
      /\ \A u \in 1..tabAt' : ToSet(buffers'[u]) \subseteq E
  <2>1. \A u \in 1..2 : u < t => ToSet(bufs[u]) \subseteq E
    BY <1>2
  <2>2. ~keptAlive => \A u \in 1..2 : ToSet(bufs[u]) \subseteq E
    BY <1>2
  <2> QED
    BY <1>1, <2>1, <2>2, SendFromSound
<1>4. ServerTypeOK'
  BY <1>1, <1>3 DEF ServerTypeOK
<1>5. FlushSound'
  BY <1>3 DEF FlushSound
<1>6. UnkeptIsExcused' /\ PassedIsExcused'
  BY <1>2, <1>3 DEF UnkeptIsExcused, PassedIsExcused
<1> QED
  BY <1>4, <1>5, <1>6 DEF ServerInv

LEMMA StartsSound == ServerInv /\ Starts => ServerInv'
<1> SUFFICES ASSUME ServerInv, Starts PROVE ServerInv'
  OBVIOUS
<1>1. buffers \in [1..2 -> Seq(Nat)]
  BY DEF ServerInv, ServerTypeOK
<1>2. Excused' = Excused
  BY DEF Starts, rowVars, Excused
<1>3. ~keptAlive => \A u \in 1..2 : ToSet(buffers[u]) \subseteq Excused'
  BY <1>2 DEF ServerInv, UnkeptIsExcused
<1>4. \A u \in 1..2 : u < 1 => ToSet(buffers[u]) \subseteq Excused'
  OBVIOUS
<1>5. 1 \in 1..3 /\ SendFrom(1, buffers) /\ instance = "awake"
      /\ UNCHANGED << instance, rows, requests >>
  BY DEF Starts
<1> QED
  BY <1>1, <1>3, <1>4, <1>5, FlushGoesOn

LEMMA AppendSucceedsSound == ServerInv /\ AppendSucceeds => ServerInv'
<1> SUFFICES ASSUME ServerInv, AppendSucceeds PROVE ServerInv'
  OBVIOUS
<1>1. buffers \in [1..2 -> Seq(Nat)] /\ tabAt \in 1..2
  BY DEF ServerInv, ServerTypeOK, FlushSound, AppendSucceeds
<1>2. Excused' = Excused
  BY DEF AppendSucceeds, Excused
<1>3. ~keptAlive => \A u \in 1..2 : ToSet(buffers[u]) \subseteq Excused'
  BY <1>2 DEF ServerInv, UnkeptIsExcused
<1>4. \A u \in 1..2 : u < tabAt + 1 => ToSet(buffers[u]) \subseteq Excused'
  <2> TAKE u \in 1..2
  <2>1. u < tabAt + 1 => u \in 1..tabAt
    BY <1>1
  <2> QED
    BY <1>2, <2>1 DEF ServerInv, PassedIsExcused
<1>5. tabAt + 1 \in 1..3
  BY <1>1
<1>6. SendFrom(tabAt + 1, buffers) /\ instance = "awake"
      /\ UNCHANGED << instance, rows, requests >>
  BY DEF AppendSucceeds
<1> QED
  BY <1>1, <1>3, <1>4, <1>5, <1>6, FlushGoesOn

LEMMA ToSetJoined ==
  ASSUME NEW p \in Seq(Nat), NEW q \in Seq(Nat)
  PROVE  p \o q \in Seq(Nat) /\ ToSet(p \o q) \subseteq ToSet(p) \cup ToSet(q)
<1>1. /\ p \o q \in Seq(Nat) /\ Len(p) \in Nat /\ Len(q) \in Nat
      /\ DOMAIN (p \o q) = 1..(Len(p) + Len(q)) /\ DOMAIN p = 1..Len(p) /\ DOMAIN q = 1..Len(q)
  OBVIOUS
<1>2. ASSUME NEW i \in 1..(Len(p) + Len(q))
      PROVE  (p \o q)[i] \in ToSet(p) \cup ToSet(q)
  <2>1. CASE i <= Len(p)
    <3>1. i \in 1..Len(p) /\ (p \o q)[i] = p[i]
      BY <1>1, <2>1
    <3> QED
      BY <1>1, <3>1 DEF ToSet
  <2>2. CASE ~(i <= Len(p))
    <3>1. i - Len(p) \in 1..Len(q) /\ (p \o q)[i] = q[i - Len(p)]
      BY <1>1, <2>2
    <3> QED
      BY <1>1, <3>1 DEF ToSet
  <2> QED
    BY <2>1, <2>2
<1> QED
  BY <1>1, <1>2 DEF ToSet

LEMMA AppendFailsSound ==
  ASSUME ServerInv, NEW retryable \in BOOLEAN, AppendFails(retryable)
  PROVE  ServerInv'
<1>1. buffers \in [1..2 -> Seq(Nat)] /\ tabAt \in 1..2 /\ batch \in Seq(Nat)
  BY DEF ServerInv, ServerTypeOK, FlushSound, AppendFails
<1>2. Excused \subseteq Excused'
  BY DEF AppendFails, Excused
<1>3. ~keptAlive => \A u \in 1..2 : ToSet(buffers[u]) \subseteq Excused'
  BY <1>2 DEF ServerInv, UnkeptIsExcused
<1>4. \A u \in 1..2 : u < tabAt + 1 => ToSet(buffers[u]) \subseteq Excused'
  <2> TAKE u \in 1..2
  <2>1. u < tabAt + 1 => u \in 1..tabAt
    BY <1>1
  <2> QED
    BY <1>2, <2>1 DEF ServerInv, PassedIsExcused
<1>5. tabAt + 1 \in 1..3
  BY <1>1
<1>6. instance = "awake" /\ UNCHANGED << instance, rows, requests >>
  BY DEF AppendFails
<1>7. CASE retryable
  <2>1. PICK bufs : bufs = [buffers EXCEPT ![tabAt] = batch \o buffers[tabAt]]
    OBVIOUS
  <2>2. SendFrom(tabAt + 1, bufs) /\ retried' = retried \cup ToSet(batch)
    BY <1>7, <2>1 DEF AppendFails
  <2>3. /\ batch \o buffers[tabAt] \in Seq(Nat)
        /\ ToSet(batch \o buffers[tabAt]) \subseteq ToSet(batch) \cup ToSet(buffers[tabAt])
    BY <1>1, ToSetJoined
  <2>4. bufs \in [1..2 -> Seq(Nat)]
    BY <1>1, <2>1, <2>3
  <2>5. ToSet(bufs[tabAt]) \subseteq Excused'
    <3>1. ToSet(batch) \subseteq Excused'
      BY <2>2 DEF Excused
    <3>2. ToSet(buffers[tabAt]) \subseteq Excused'
      BY <1>1, <1>4
    <3>3. bufs[tabAt] = batch \o buffers[tabAt]
      BY <1>1, <2>1
    <3> QED
      BY <2>3, <3>1, <3>2, <3>3
  <2>6. \A u \in 1..2 : u # tabAt => bufs[u] = buffers[u]
    BY <1>1, <2>1
  <2>7. ~keptAlive => \A u \in 1..2 : ToSet(bufs[u]) \subseteq Excused'
    BY <1>3, <2>5, <2>6
  <2>8. \A u \in 1..2 : u < tabAt + 1 => ToSet(bufs[u]) \subseteq Excused'
    BY <1>4, <2>5, <2>6
  <2> QED
    BY <1>5, <1>6, <2>2, <2>4, <2>7, <2>8, FlushGoesOn
<1>8. CASE ~retryable
  <2>1. SendFrom(tabAt + 1, buffers)
    BY <1>8 DEF AppendFails
  <2> QED
    BY <1>1, <1>3, <1>4, <1>5, <1>6, <2>1, FlushGoesOn
<1> QED
  BY <1>7, <1>8

LEMMA SetupSucceedsSound == ServerInv /\ SetupSucceeds => ServerInv'
BY DEF ServerInv, ServerTypeOK, FlushSound, UnkeptIsExcused, PassedIsExcused, Excused,
       SetupSucceeds, rowVars

(* A failed setup leaves the rows of the flush that awaited it excused.    *)
LEMMA SetupFailsSound == ServerInv /\ SetupFails => ServerInv'
<1> SUFFICES ASSUME ServerInv, SetupFails PROVE ServerInv'
  OBVIOUS
<1>1. UNCHANGED << instance, buffers, tabAt, batch, rows, retried, unflushed, late, requests >>
  BY DEF SetupFails
<1>2. CASE flush = "starting"
  <2>1. flush' = "idle" /\ keptAlive' = FALSE /\ unset' = unset \cup Waiting
    BY <1>2 DEF SetupFails
  <2>2. tabAt = 0 /\ batch = << >> /\ ToSet(<< >>) = {}
    BY <1>2 DEF ServerInv, FlushSound, ToSet
  <2>3. \A t \in 1..2 : ToSet(buffers[t]) \subseteq Waiting
    <3>1. \A t \in 1..2 : t = 1 \/ t = 2
      OBVIOUS
    <3> QED
      BY <3>1 DEF Waiting
  <2>4. ServerTypeOK'
    <3>1. keptAlive' \in BOOLEAN
      BY <2>1, Zenon
    <3> QED
      BY <1>1, <2>1, <3>1 DEF ServerInv, ServerTypeOK
  <2>5. ~keptAlive'
    BY <2>1, Zenon
  <2>6. FlushSound'
    BY <1>1, <2>1, <2>2, <2>5 DEF ServerInv, FlushSound
  <2>7. UnkeptIsExcused'
    BY <1>1, <2>1, <2>2, <2>3 DEF UnkeptIsExcused, Excused
  <2>8. PassedIsExcused'
    <3>1. \A t \in 1..tabAt' : FALSE
      BY <1>1, <2>2
    <3> QED
      BY <3>1 DEF PassedIsExcused
  <2> QED
    BY <2>4, <2>6, <2>7, <2>8 DEF ServerInv
<1>3. CASE flush # "starting"
  <2>1. UNCHANGED << flush, keptAlive, unset >>
    BY <1>3 DEF SetupFails
  <2> QED
    BY <1>1, <2>1 DEF ServerInv, ServerTypeOK, FlushSound, UnkeptIsExcused, PassedIsExcused,
                      Excused
<1> QED
  BY <1>2, <1>3

LEMMA TimerFiresSound == ServerInv /\ TimerFires => ServerInv'
BY DEF ServerInv, ServerTypeOK, FlushSound, UnkeptIsExcused, PassedIsExcused, Excused,
       TimerFires, rowVars

LEMMA FreezeSound == ServerInv /\ Freeze => ServerInv'
BY DEF ServerInv, ServerTypeOK, FlushSound, UnkeptIsExcused, PassedIsExcused, Excused,
       Freeze, rowVars, sinkVars

LEMMA RecycleSound == ServerInv /\ Recycle => ServerInv'
<1> SUFFICES ASSUME ServerInv, Recycle PROVE ServerInv'
  OBVIOUS
<1>1. ToSet(<< >>) = {} /\ << >> \in Seq(Nat)
  BY DEF ToSet
<1>2. \A t \in 1..2 : buffers'[t] = << >>
  BY DEF Recycle
<1>3. ServerTypeOK' /\ FlushSound'
  BY <1>1 DEF ServerInv, ServerTypeOK, FlushSound, Recycle
<1>4. UnkeptIsExcused' /\ PassedIsExcused'
  BY <1>1, <1>2 DEF UnkeptIsExcused, PassedIsExcused, Recycle
<1> QED
  BY <1>3, <1>4 DEF ServerInv

-----------------------------------------------------------------------------
(* The theorems *)

LEMMA ServerNextSound == ServerInv /\ [ServerNext]_serverVars => ServerInv'
<1> SUFFICES ASSUME ServerInv, [ServerNext]_serverVars PROVE ServerInv'
  OBVIOUS
<1>1. ASSUME NEW item \in Items, Authorize(item) PROVE ServerInv'
  BY <1>1, AuthorizeSound
<1>2. ASSUME NEW body \in Bodies, AuthorizeBatch(body) PROVE ServerInv'
  BY <1>2, AuthorizeBatchSound
<1>3. ASSUME NEW retryable \in BOOLEAN, AppendFails(retryable) PROVE ServerInv'
  BY <1>3, AppendFailsSound
<1>4. CASE UNCHANGED serverVars
  BY <1>4 DEF serverVars, sinkVars, rowVars, ServerInv, ServerTypeOK, FlushSound,
              UnkeptIsExcused, PassedIsExcused, Excused
<1> QED
  BY <1>1, <1>2, <1>3, <1>4, StartsSound, AppendSucceedsSound, TimerFiresSound, FreezeSound,
     RecycleSound, SetupSucceedsSound, SetupFailsSound DEF ServerNext

LEMMA ServerInvariant == ServerSpec => []ServerInv
BY ServerInitSound, ServerNextSound, PTL DEF ServerSpec

(* persistAfterResponse: an instance that is frozen holds unsent, for any  *)
(* number and mix of requests and failures, only the rows of requests that *)
(* were answered 500, those Google refused for now, those that came when a *)
(* flush had passed their tab, and those of a flush whose setup failed.    *)
THEOREM FrozenHoldsOnlyExcused == ServerSpec => []KeptAliveUntilWritten
<1>1. ServerInv => KeptAliveUntilWritten
  <2> SUFFICES ASSUME ServerInv, instance = "frozen"
               PROVE  Waiting \cup ToSet(batch)
                        \subseteq unflushed \cup retried \cup late \cup unset
    BY DEF KeptAliveUntilWritten
  <2>1. ~keptAlive
    BY DEF ServerInv, FlushSound
  <2>2. 1 \in 1..2 /\ 2 \in 1..2
    OBVIOUS
  <2> QED
    BY <2>1, <2>2 DEF ServerInv, UnkeptIsExcused, Waiting, Excused
<1> QED
  BY <1>1, ServerInvariant, PTL

-----------------------------------------------------------------------------
(* The token source                                                        *)
(*                                                                         *)
(* TokenLivesThroughFlight is not inductive: it needs to know how late the *)
(* code's expiry can be (Deadline), how long an answer and a request have  *)
(* been under way (Underway), and that a request left early enough to      *)
(* arrive in time, which is where the margin is used.                      *)

TokenTypeOK ==
  /\ now \in Nat
  /\ cached \in BOOLEAN
  /\ token \in Int /\ expiresAt \in Int
  /\ pending \in Callers \cup {NoCaller}
  /\ renewal \in [Callers -> {"none", "asked", "issued"}]
  /\ issuedAt \in [Callers -> Int]
  /\ at \in [Callers -> {"idle", "waiting", "sent"}]
  /\ on \in [Callers -> Callers]
  /\ carried \in [Callers -> Int]
  /\ sentAt \in [Callers -> Int]

(* The code believes in a token at most Latency longer than Google does. *)
Deadline == cached => expiresAt <= token + Latency

(* An answer takes at most Latency, a request Flight; a request left early *)
(* enough for its token.                                                   *)
Underway ==
  /\ \A c \in Callers : renewal[c] = "issued" => now <= issuedAt[c] + Latency
  /\ \A c \in Callers :
       at[c] = "sent" => now <= sentAt[c] + Flight /\ sentAt[c] + Flight < carried[c]

(* The renewal that is out is the pending one, and everyone waits for it. *)
OnePending ==
  /\ \A c \in Callers : renewal[c] # "none" => pending = c
  /\ pending # NoCaller => pending \in Callers /\ renewal[pending] # "none"
  /\ \A c \in Callers : at[c] = "waiting" => pending # NoCaller /\ on[c] = pending

TokenInv == TokenTypeOK /\ Deadline /\ Underway /\ OnePending

(* The invariant holds initially. *)
LEMMA TokenInvInit == TokenInit => TokenInv
<1> SUFFICES ASSUME TokenInit PROVE TokenInv
  OBVIOUS
<1>1. cached \in BOOLEAN /\ ~cached
  BY Zenon DEF TokenInit
<1>2. TokenTypeOK
  BY <1>1 DEF TokenInit, TokenTypeOK
<1>3. Deadline
  BY <1>1 DEF Deadline
<1>4. Underway /\ OnePending
  BY DEF TokenInit, Underway, OnePending
<1> QED  BY <1>2, <1>3, <1>4 DEF TokenInv

(* Sending with the cached token: the margin covers the late expiry and    *)
(* the flight.                                                             *)
LEMMA UseCachedKeeps == ASSUME NEW c \in Callers, TokenInv, UseCached(c) PROVE TokenInv'
<1>1. TokenTypeOK'
  BY DEF TokenInv, TokenTypeOK, UseCached
<1>2. Deadline'
  BY DEF TokenInv, Deadline, UseCached
<1>3. now + Flight < token
  BY TokenAssumption DEF TokenInv, TokenTypeOK, Deadline, UseCached, Fresh
<1>4. Underway'
  BY <1>3, TokenAssumption DEF TokenInv, TokenTypeOK, Underway, UseCached
<1>5. OnePending'
  BY DEF TokenInv, TokenTypeOK, OnePending, UseCached
<1> QED  BY <1>1, <1>2, <1>4, <1>5 DEF TokenInv

(* An answer arrives: what it sends arrives before Google's expiry. *)
LEMMA ReceivedKeeps == ASSUME NEW c \in Callers, TokenInv, Received(c) PROVE TokenInv'
<1>1. TokenTypeOK'
  BY TokenAssumption DEF TokenInv, TokenTypeOK, Received
<1>2. now <= issuedAt[c] + Latency
  BY DEF TokenInv, Underway, Received
<1>3. Deadline'
  BY <1>2, TokenAssumption DEF TokenInv, TokenTypeOK, Deadline, Received
<1>4. Underway'
  <2>1. ASSUME NEW d \in Callers, renewal'[d] = "issued"
        PROVE  now' <= issuedAt'[d] + Latency
    BY <2>1 DEF TokenInv, TokenTypeOK, Underway, Received
  <2>2. ASSUME NEW d \in Callers, at'[d] = "sent"
        PROVE  now' <= sentAt'[d] + Flight /\ sentAt'[d] + Flight < carried'[d]
    <3>1. CASE d \in Waiters(c)
      BY <1>2, <3>1, TokenAssumption DEF TokenInv, TokenTypeOK, Received
    <3>2. CASE d \notin Waiters(c)
      BY <2>2, <3>2 DEF TokenInv, TokenTypeOK, Underway, Received
    <3> QED  BY <3>1, <3>2
  <2> QED  BY <2>1, <2>2 DEF Underway
<1>5. OnePending'
  BY DEF TokenInv, TokenTypeOK, OnePending, Received, Waiters
<1> QED  BY <1>1, <1>3, <1>4, <1>5 DEF TokenInv

(* A renewal fails: nobody waits for it any more. *)
LEMMA RefusedKeeps == ASSUME NEW c \in Callers, TokenInv, Refused(c) PROVE TokenInv'
<1>1. TokenTypeOK'
  BY DEF TokenInv, TokenTypeOK, Refused
<1>2. Deadline'
  BY DEF TokenInv, Deadline, Refused
<1>3. Underway'
  BY DEF TokenInv, TokenTypeOK, Underway, Refused
<1>4. OnePending'
  BY DEF TokenInv, TokenTypeOK, OnePending, Refused, Waiters
<1> QED  BY <1>1, <1>2, <1>3, <1>4 DEF TokenInv

(* Every step keeps the invariant. *)
LEMMA TokenInvStep == TokenInv /\ [TokenNext]_tokenVars => TokenInv'
<1> SUFFICES ASSUME TokenInv, [TokenNext]_tokenVars PROVE TokenInv'
  OBVIOUS
<1> USE TokenAssumption DEF TokenInv, TokenTypeOK, Deadline, Underway, OnePending
<1>1. ASSUME NEW c \in Callers, Join(c) PROVE TokenInv'
  BY <1>1 DEF Join
<1>2. ASSUME NEW c \in Callers, Renew(c) PROVE TokenInv'
  BY <1>2 DEF Renew, NobodyRenews
<1>3. ASSUME NEW c \in Callers, Issue(c) PROVE TokenInv'
  BY <1>3 DEF Issue, callVars
<1>4. ASSUME NEW c \in Callers, Arrives(c) PROVE TokenInv'
  BY <1>4 DEF Arrives
<1>5. CASE Tick
  BY <1>5 DEF Tick, callVars
<1>6. CASE UNCHANGED tokenVars
  BY <1>6 DEF tokenVars, callVars
<1> QED
  BY <1>1, <1>2, <1>3, <1>4, <1>5, <1>6, UseCachedKeeps, ReceivedKeeps, RefusedKeeps
     DEF TokenNext

(* "So a request never carries a token that expires mid-flight": while the *)
(* answer of a renewal and the flight of a request fit in the margin, the  *)
(* token of a request on its way is one Google accepts.                    *)
THEOREM TokensOutliveRequests == TokenSpec => []TokenLivesThroughFlight
<1>1. TokenInv => TokenLivesThroughFlight
  BY TokenAssumption DEF TokenInv, TokenTypeOK, Underway, TokenLivesThroughFlight
<1> QED  BY <1>1, TokenInvInit, TokenInvStep, PTL DEF TokenSpec

(* "Concurrent callers share one in-flight renewal", and none waits for a  *)
(* renewal that is over.                                                   *)
THEOREM OneRenewalForAll == TokenSpec => []RenewalsAreShared
<1>1. TokenInv => RenewalsAreShared
  BY DEF TokenInv, TokenTypeOK, OnePending, RenewalsAreShared
<1> QED  BY <1>1, TokenInvInit, TokenInvStep, PTL DEF TokenSpec

-----------------------------------------------------------------------------
(* Proof that the import page replays only what the operator confirmed,    *)
(* for any files, however many are dropped, and however the reading of     *)
(* files, the timer and the operator's clicks follow one another.          *)

Mappings == [from : Files, edits : Int, complete : BOOLEAN]
Confirmable == [file : Files \ NoHeadings, mapping : Mappings]

(* What is on the page belongs together: a mapping is one of the loaded    *)
(* file, which has headings.                                               *)
OnePage ==
  loaded # Nothing => /\ loaded \in Files \ NoHeadings
                      /\ mapping \in Mappings /\ mapping.from = loaded

(* Everything confirmed was such a page with a complete mapping.           *)
ConfirmedPages ==
  \A pair \in confirmed : /\ pair \in Confirmable
                          /\ pair.mapping.from = pair.file /\ pair.mapping.complete

(* The timer carries a confirmed page, and so does the corpus.             *)
Carried ==
  /\ due \in Seq(Confirmable) /\ \A i \in 1..Len(due) : due[i] \in confirmed
  /\ corpus # Nothing => corpus \in confirmed /\ corpus.file \notin NoPayments

ReadsAreFiles == reads \subseteq Files

PageInv == OnePage /\ ConfirmedPages /\ Carried /\ ReadsAreFiles

LEMMA PageInitially == PanelInit => PageInv
BY DEF PanelInit, PageInv, OnePage, ConfirmedPages, Carried, ReadsAreFiles

LEMMA PageStep == PageInv /\ [PanelNext]_panelVars => PageInv'
<1> SUFFICES ASSUME PageInv, [PanelNext]_panelVars PROVE PageInv'
  OBVIOUS
<1> USE DEF PageInv, OnePage, ConfirmedPages, Carried, ReadsAreFiles
<1>1. ASSUME NEW file \in Files, Drop(file) PROVE PageInv'
  BY <1>1 DEF Drop
<1>2. ASSUME NEW file \in Files, TextArrives(file) PROVE PageInv'
  <2>1. CASE file \in NoHeadings
    BY <1>2, <2>1 DEF TextArrives, Accept
  <2>2. CASE file \notin NoHeadings
    <3>1. Detected(file) \in Mappings /\ Detected(file).from = file
      BY DEF Detected, Mappings
    <3>2. QED BY <1>2, <2>2, <3>1 DEF TextArrives, Accept
  <2>3. QED BY <2>1, <2>2
<1>3. ASSUME NEW file \in Files, TextFails(file) PROVE PageInv'
  BY <1>3 DEF TextFails
<1>4. ASSUME NEW complete \in BOOLEAN, EditMapping(complete) PROVE PageInv'
  <2>1. UNCHANGED << loaded, reads, due, corpus, confirmed >>
    BY <1>4 DEF EditMapping
  <2>2. ASSUME loaded # Nothing PROVE mapping' \in Mappings /\ mapping'.from = loaded
    <3>1. mapping \in Mappings /\ mapping.from = loaded
      BY <2>2
    <3>2. mapping' = [mapping EXCEPT !.edits = @ + 1, !.complete = complete]
      BY <1>4 DEF EditMapping
    <3>3. mapping.edits + 1 \in Int /\ mapping.from \in Files
      BY <3>1 DEF Mappings
    <3>4. mapping' = [from |-> mapping.from, edits |-> mapping.edits + 1, complete |-> complete]
      BY <3>1, <3>2, Zenon DEF Mappings
    <3>5. QED BY <3>1, <3>3, <3>4 DEF Mappings
  <2>3. QED BY <2>1, <2>2
<1>5. CASE Run
  <2> DEFINE pair == [file |-> loaded, mapping |-> mapping]
  <2>1. pair \in Confirmable /\ pair.mapping.from = pair.file /\ pair.mapping.complete
    BY <1>5 DEF Run, Confirmable, Mappings
  <2>2. due' = Append(due, pair) /\ confirmed' = confirmed \cup {pair}
    BY <1>5 DEF Run
  <2>3. UNCHANGED << loaded, mapping, reads, corpus >>
    BY <1>5 DEF Run
  <2> HIDE DEF pair
  <2>4. due' \in Seq(Confirmable) /\ \A i \in 1..Len(due') : due'[i] \in confirmed'
    BY <2>1, <2>2
  <2>5. QED BY <2>1, <2>2, <2>3, <2>4
<1>6. CASE StartReplay
  <2>1. due \in Seq(Confirmable) /\ due # << >> /\ due' = Tail(due)
    BY <1>6 DEF StartReplay
  <2>2. Head(due) \in confirmed
    BY <2>1
  <2>3. due' \in Seq(Confirmable) /\ \A i \in 1..Len(due') : due'[i] \in confirmed
    BY <2>1
  <2>4. UNCHANGED << loaded, mapping, reads, confirmed >>
    BY <1>6 DEF StartReplay
  <2>5. corpus' = corpus \/ (corpus' = Head(due) /\ Head(due).file \notin NoPayments)
    BY <1>6 DEF StartReplay, Replayed
  <2>6. QED BY <2>2, <2>3, <2>4, <2>5
<1>7. CASE Reset
  BY <1>7 DEF Reset, Cleared
<1>8. CASE RestoreShipped
  BY <1>8 DEF RestoreShipped, Cleared
<1>9. CASE UNCHANGED panelVars
  BY <1>9 DEF panelVars
<1>10. ASSUME NEW file \in Files, TakeSample(file) PROVE PageInv'
  <2>1. CASE file \in NoHeadings
    BY <1>10, <2>1 DEF TakeSample, Accept
  <2>2. CASE file \notin NoHeadings
    <3>1. Detected(file) \in Mappings /\ Detected(file).from = file
      BY DEF Detected, Mappings
    <3>2. QED BY <1>10, <2>2, <3>1 DEF TakeSample, Accept
  <2>3. QED BY <2>1, <2>2
<1>11. QED
  BY <1>1, <1>2, <1>3, <1>4, <1>5, <1>6, <1>7, <1>8, <1>9, <1>10 DEF PanelNext

(* ImportPanel.tsx: the corpus the console replays is one the operator     *)
(* confirmed, under a mapping of its own columns, and has payments.        *)
THEOREM OnlyTheConfirmedIsReplayed == PanelSpec => []CorpusWasConfirmed
<1>1. PageInv => CorpusWasConfirmed
  BY DEF PageInv, ConfirmedPages, Carried, CorpusWasConfirmed, Confirmable
<1>2. QED
  BY PageInitially, PageStep, <1>1, PTL DEF PanelSpec
=============================================================================
