--------------------------- MODULE SessionProofs ---------------------------
(***************************************************************************)
(* Proofs about the console session: its shape, its playback interval and  *)
(* what the storage holds once it has caught up; then what the engine in   *)
(* the tab has been called with, in which order, and what it was told      *)
(* about each beneficiary.                                                 *)
(***************************************************************************)
EXTENDS ConsoleSession, SharedFacts, FiniteSetTheorems

-----------------------------------------------------------------------------
(* The inductive invariant *)

SnapshotsOver(S) == [status : S, model : S, dataset : S, cursor : S,
                     playing : S, speed : S, policy : S, clock : S]

IsSnapshot(s) == \E S : s \in SnapshotsOver(S)

(* What the load has made of the snapshot so far. *)
SnapshotSound ==
  /\ IsSnapshot(snapshot)
  /\ TypeOK
  /\ snapshot.model = (load \notin {"none", "fetching", "failed"})
  /\ ~snapshot.model => imported = None /\ snapshot.cursor = 0

IntervalSound ==
  /\ timer \in BOOLEAN /\ persistTimer \in BOOLEAN /\ snapshot.playing \in BOOLEAN
  /\ snapshot.speed \in 1..60
  /\ TimerMatchesPlaying

(* A record that can be restored. *)
Usable(v) == v.dataset \in Imports /\ v.cursor \in Nat /\ v.cursor <= Len(Txns(v.dataset))

IsWrite(o) == o = Clear \/ (o = [op |-> "put", value |-> o.value] /\ Usable(o.value))

(* The storage has at most one read to serve, and that is what the load is *)
(* waiting for.                                                            *)
QueueSound ==
  /\ IsSequence(io)
  /\ \A i \in 1..Len(io) : io[i] = Read \/ IsWrite(io[i])
  /\ \A i \in 1..Len(io) : io[i] = Read => load = "reading"
  /\ \A i, j \in 1..Len(io) : io[i] = Read /\ io[j] = Read => i = j
  /\ load = "reading" => \E i \in 1..Len(io) : io[i] = Read

DiskSound == disk = << >> \/ (disk = << disk[1] >> /\ (disk[1].dataset = None \/ Usable(disk[1])))

LastOp == io[Len(io)]

WritesPending == Len(io) > 0 /\ LastOp # Read

(* What the disk will hold when the queue has been served. *)
Promised ==
  IF ~WritesPending THEN disk ELSE IF LastOp = Clear THEN << >> ELSE << LastOp.value >>

(* An import is on screen, and no save is on its way to be made. *)
Due == snapshot.dataset # Shipped /\ ~persistTimer

(* While writes are queued the last of them is true of the screen; when    *)
(* none is, the disk is.  A read in the queue may still change the screen. *)
LastWord ==
  refusals = 0 =>
    /\ snapshot.dataset = Shipped /\ (WritesPending \/ load \in {"done", "dropped"})
         => Promised = << >>
    /\ snapshot.dataset # Shipped => WritesPending \/ load # "reading"
    /\ Due => Agrees(Promised)

SessionInv == SnapshotSound /\ IntervalSound /\ QueueSound /\ DiskSound /\ LastWord

-----------------------------------------------------------------------------
(* Sequences whose elements have no type worth naming *)

LEMMA Appended ==
  ASSUME NEW q, NEW e, IsSequence(q)
  PROVE  /\ IsSequence(Append(q, e))
         /\ Len(q) \in Nat
         /\ Len(Append(q, e)) = Len(q) + 1
         /\ \A i \in 1..Len(q) : Append(q, e)[i] = q[i]
         /\ Append(q, e)[Len(q) + 1] = e
<1>1. PICK S : q \in Seq(S)
  BY DEF IsSequence
<1>2. q \in Seq(S \cup {e}) /\ e \in S \cup {e}
  BY <1>1
<1>3. Append(q, e) \in Seq(S \cup {e})
  BY <1>2
<1> QED
  BY <1>2, <1>3 DEF IsSequence

LEMMA Served ==
  ASSUME NEW q, IsSequence(q), q # << >>
  PROVE  /\ IsSequence(Tail(q))
         /\ Len(q) \in Nat /\ Len(q) > 0
         /\ Len(Tail(q)) = Len(q) - 1
         /\ \A i \in 1..(Len(q) - 1) : Tail(q)[i] = q[i + 1]
         /\ Head(q) = q[1]
<1>1. PICK S : q \in Seq(S)
  BY DEF IsSequence
<1> QED
  BY <1>1 DEF IsSequence

LEMMA EmptyHasNoLength ==
  ASSUME NEW S, NEW q \in Seq(S)
  PROVE  q = << >> <=> Len(q) = 0
OBVIOUS

LEMMA EmptyIsSequence == IsSequence(<< >>)
<1>1. << >> \in Seq({})
  OBVIOUS
<1> QED
  BY <1>1 DEF IsSequence

-----------------------------------------------------------------------------
(* What boot, pause and step do to a snapshot *)

(* t is a boot of s with dataset d. *)
BootOf(t, s, d) ==
  /\ IsSnapshot(t)
  /\ t.status = "ready" /\ t.model = TRUE /\ t.dataset = d /\ t.cursor = 0
  /\ t.playing = s.playing /\ t.speed = s.speed
  /\ t.policy = s.policy /\ t.clock = Corpus[d].from

LEMMA Booted ==
  ASSUME NEW s, IsSnapshot(s), NEW d
  PROVE  BootOf(BootedSnapshot(s, d), s, d)
<1>1. PICK S : s \in SnapshotsOver(S)
  BY DEF IsSnapshot
<1> DEFINE T == S \cup {"ready", TRUE, d, 0, Corpus[d].from}
<1>2. s \in SnapshotsOver(T)
  BY <1>1 DEF SnapshotsOver
<1>3. /\ "ready" \in T /\ TRUE \in T /\ d \in T /\ 0 \in T /\ Corpus[d].from \in T
  OBVIOUS
<1> HIDE DEF T
<1>4. BootedSnapshot(s, d) \in SnapshotsOver(T)
  BY <1>2, <1>3 DEF SnapshotsOver, BootedSnapshot
<1> QED
  BY <1>2, <1>4 DEF SnapshotsOver, IsSnapshot, BootedSnapshot, BootOf

LEMMA PausedKeeps ==
  ASSUME NEW s, IsSnapshot(s)
  PROVE  /\ IsSnapshot(Paused(s))
         /\ Paused(s).status = s.status /\ Paused(s).model = s.model
         /\ Paused(s).dataset = s.dataset /\ Paused(s).cursor = s.cursor
         /\ Paused(s).playing = FALSE /\ Paused(s).speed = s.speed
         /\ Paused(s).policy = s.policy /\ Paused(s).clock = s.clock
<1>1. PICK S : s \in SnapshotsOver(S)
  BY DEF IsSnapshot
<1> DEFINE T == S \cup {FALSE}
<1>2. s \in SnapshotsOver(T) /\ FALSE \in T
  BY <1>1 DEF SnapshotsOver
<1> HIDE DEF T
<1>3. Paused(s) \in SnapshotsOver(T)
  BY <1>2 DEF SnapshotsOver, Paused
<1> QED
  BY <1>2, <1>3 DEF SnapshotsOver, IsSnapshot, Paused

(* The payments of a step are the next ones, never past the end.           *)
LEMMA NextPaymentsAreLeft ==
  ASSUME NEW s, s.dataset \in Datasets, s.cursor \in 0..Len(Txns(s.dataset)), NEW n \in Nat
  PROVE  /\ Len(NextPayments(s, n)) \in Nat
         /\ s.cursor + Len(NextPayments(s, n)) <= Len(Txns(s.dataset))
         /\ NextPayments(s, n) = << >> <=> Len(NextPayments(s, n)) = 0
         /\ \A i \in 1..Len(NextPayments(s, n)) :
              NextPayments(s, n)[i] = Txns(s.dataset)[s.cursor + i]
<1> DEFINE t == Txns(s.dataset)
           m == Min({s.cursor + n, Len(t)})
<1>1. PICK S : t \in Seq(S)
  BY ConsoleAssumption DEF Txns
<1>2. Len(t) \in Nat
  BY <1>1
<1>3. m = s.cursor + n \/ m = Len(t)
  BY <1>2 DEF Min
<1>4. m \in Nat /\ s.cursor <= m /\ m <= Len(t)
  <2>1. \E x \in {s.cursor + n, Len(t)} : \A y \in {s.cursor + n, Len(t)} : x <= y
    <3>1. CASE s.cursor + n <= Len(t)
      BY <3>1, <1>2
    <3>2. CASE ~(s.cursor + n <= Len(t))
      BY <3>2, <1>2
    <3> QED
      BY <3>1, <3>2
  <2>2. m \in {s.cursor + n, Len(t)} /\ \A y \in {s.cursor + n, Len(t)} : m <= y
    BY <2>1 DEF Min
  <2> HIDE DEF m
  <2> QED
    BY <1>2, <2>2
<1>5. NextPayments(s, n) = SubSeq(t, s.cursor + 1, m)
  BY DEF NextPayments
<1> HIDE DEF t, m
<1>6. SubSeq(t, s.cursor + 1, m) \in Seq(S)
  BY <1>1, <1>2, <1>4
<1>7. Len(SubSeq(t, s.cursor + 1, m)) = m - s.cursor
  BY <1>1, <1>2, <1>4
<1>8. s.cursor + (m - s.cursor) <= Len(t) /\ m - s.cursor \in Nat
  BY <1>2, <1>4
<1>9. SubSeq(t, s.cursor + 1, m) = << >> <=> Len(SubSeq(t, s.cursor + 1, m)) = 0
  BY <1>6, EmptyHasNoLength
<1>10. \A i \in 1..(m - s.cursor) : SubSeq(t, s.cursor + 1, m)[i] = t[s.cursor + i]
  BY <1>1, <1>2, <1>4
<1> QED
  BY <1>5, <1>7, <1>8, <1>9, <1>10 DEF t

(* From the start of a slice, all the payments asked for that it has.      *)
LEMMA AllAreLeft ==
  ASSUME NEW s, s.dataset \in Datasets, s.cursor = 0, NEW n \in Nat, n <= Len(Txns(s.dataset))
  PROVE  Len(NextPayments(s, n)) = n
<1> DEFINE t == Txns(s.dataset)
<1>1. PICK S : t \in Seq(S)
  BY ConsoleAssumption DEF Txns
<1>2. Len(t) \in Nat
  BY <1>1
<1> HIDE DEF t
<1>3. PICK m : m = Min({s.cursor + n, Len(t)})
  OBVIOUS
<1>4. m = n
  <2>1. {s.cursor + n, Len(t)} = {n, Len(t)}
    OBVIOUS
  <2>2. \E x \in {n, Len(t)} : \A y \in {n, Len(t)} : x <= y
    BY <1>2 DEF t
  <2>3. m \in {n, Len(t)} /\ \A y \in {n, Len(t)} : m <= y
    BY <1>3, <2>1, <2>2 DEF Min
  <2> QED
    BY <1>2, <2>3 DEF t
<1>5. NextPayments(s, n) = SubSeq(t, 1, n)
  <2>1. NextPayments(s, n) = SubSeq(t, s.cursor + 1, m)
    BY <1>3 DEF NextPayments, t
  <2>2. s.cursor + 1 = 1
    OBVIOUS
  <2> QED
    BY <1>4, <2>1, <2>2
<1> QED
  BY <1>1, <1>2, <1>5 DEF t

LEMMA Stepped ==
  ASSUME NEW s, IsSnapshot(s), s.dataset \in Datasets, s.cursor \in 0..Len(Txns(s.dataset)),
         NEW n \in Nat
  PROVE  /\ IsSnapshot(SteppedSnapshot(s, n))
         /\ SteppedSnapshot(s, n).status = s.status
         /\ SteppedSnapshot(s, n).model = s.model
         /\ SteppedSnapshot(s, n).dataset = s.dataset
         /\ SteppedSnapshot(s, n).playing = s.playing /\ SteppedSnapshot(s, n).speed = s.speed
         /\ SteppedSnapshot(s, n).cursor \in 0..Len(Txns(s.dataset))
         /\ NextPayments(s, n) = << >> => SteppedSnapshot(s, n).cursor = s.cursor
         /\ SteppedSnapshot(s, n).cursor = s.cursor + Len(NextPayments(s, n))
         /\ SteppedSnapshot(s, n).policy = s.policy
         /\ SteppedSnapshot(s, n).clock =
              IF NextPayments(s, n) = << >> THEN s.clock ELSE Last(NextPayments(s, n)).ts
<1> DEFINE txns == NextPayments(s, n)
<1>1. CASE txns = << >>
  <2>1. Len(txns) = 0 /\ s.cursor \in Nat
    BY <1>1
  <2>2. s.cursor = s.cursor + Len(txns)
    BY <2>1
  <2> QED
    BY <1>1, <2>2 DEF SteppedSnapshot
<1>2. CASE txns # << >>
  <2>1. SteppedSnapshot(s, n) = [s EXCEPT !.cursor = @ + Len(txns), !.clock = Last(txns).ts]
    BY <1>2 DEF SteppedSnapshot
  <2>2. s.cursor + Len(txns) \in 0..Len(Txns(s.dataset))
    <3>1. Len(txns) \in Nat /\ s.cursor + Len(txns) <= Len(Txns(s.dataset))
      BY NextPaymentsAreLeft
    <3> HIDE DEF txns
    <3> QED
      BY <3>1
  <2>3. PICK S : s \in SnapshotsOver(S)
    BY DEF IsSnapshot
  <2> DEFINE c == s.cursor + Len(txns)
             l == Last(txns).ts
             T == S \cup {c, l}
  <2>4. s \in SnapshotsOver(T) /\ c \in T /\ l \in T
    BY <2>3 DEF SnapshotsOver
  <2>5. SteppedSnapshot(s, n) = [s EXCEPT !.cursor = c, !.clock = l]
    BY <2>1, <2>4 DEF SnapshotsOver
  <2>6. c \in 0..Len(Txns(s.dataset))
    BY <2>2
  <2> HIDE DEF c, l, T
  <2>7. SteppedSnapshot(s, n) \in SnapshotsOver(T)
    BY <2>4, <2>5 DEF SnapshotsOver
  <2> DEFINE t == SteppedSnapshot(s, n)
  <2>8. t = [s EXCEPT !.cursor = c, !.clock = l]
    BY <2>5
  <2> HIDE DEF t
  <2>9. /\ t.status = s.status /\ t.model = s.model /\ t.dataset = s.dataset
        /\ t.playing = s.playing /\ t.speed = s.speed /\ t.policy = s.policy
        /\ t.cursor = c /\ t.clock = l
    BY <2>4, <2>8 DEF SnapshotsOver
  <2>10. IsSnapshot(t)
    BY <2>7 DEF IsSnapshot, t
  <2> QED
    BY <1>2, <2>6, <2>9, <2>10 DEF t, c, l
<1> QED
  BY <1>1, <1>2

-----------------------------------------------------------------------------
(* What leaves the queue, and what the storage owes, as they are *)

LEMMA QueueKept ==
  ASSUME QueueSound, io' = io, load' = "reading" <=> load = "reading"
  PROVE  QueueSound'
BY DEF QueueSound

LEMMA QueueGrows ==
  ASSUME QueueSound, NEW o, IsWrite(o), io' = Append(io, o), load' = load
  PROVE  QueueSound'
<1>1. o # Read
  BY DEF IsWrite, Clear, Read
<1>2. /\ IsSequence(io') /\ Len(io) \in Nat /\ Len(io') = Len(io) + 1
      /\ \A i \in 1..Len(io) : io'[i] = io[i]
      /\ io'[Len(io) + 1] = o
  BY Appended DEF QueueSound
<1>3. ASSUME NEW i \in 1..Len(io')
      PROVE  i \in 1..Len(io) \/ io'[i] = o
  BY <1>2
<1>4. \A i \in 1..Len(io) : i \in 1..Len(io')
  BY <1>2
<1> QED
  BY <1>1, <1>2, <1>3, <1>4 DEF QueueSound

LEMMA PromiseKept ==
  ASSUME UNCHANGED << io, disk >>
  PROVE  Promised' = Promised /\ WritesPending' = WritesPending
BY DEF Promised, WritesPending, LastOp

LEMMA LastWordKept ==
  ASSUME LastWord, UNCHANGED << io, disk, refusals, load >>,
         snapshot'.dataset = snapshot.dataset,
         \/ ~Due'
         \/ snapshot'.cursor = snapshot.cursor /\ persistTimer' = persistTimer /\ behind' = behind
  PROVE  LastWord'
<1>1. Promised' = Promised /\ WritesPending' = WritesPending
  BY PromiseKept
<1>2. PICK p : p = Promised
  OBVIOUS
<1>3. Due' /\ Agrees(p) => Agrees(p)'
  BY DEF Agrees, Due
<1>4. Due' => Due
  BY DEF Due
<1> QED
  BY <1>1, <1>2, <1>3, <1>4 DEF LastWord

(* A write that is true of the new screen has the last word.               *)
LEMMA LastWordSaid ==
  ASSUME NEW q, IsSequence(q), NEW o, o # Read, io' = Append(q, o),
         NEW p, p = IF o = Clear THEN << >> ELSE << o.value >>,
         (snapshot.dataset = Shipped)' => o = Clear,
         Due' => Agrees(p)'
  PROVE  LastWord'
<1>1. Len(q) \in Nat /\ Len(io') = Len(q) + 1 /\ io'[Len(q) + 1] = o
  BY Appended
<1>2. LastOp' = o /\ WritesPending'
  BY <1>1 DEF LastOp, WritesPending
<1>3. Promised' = p
  BY <1>2 DEF Promised, Clear
<1> QED
  BY <1>2, <1>3 DEF LastWord

-----------------------------------------------------------------------------
(* The invariant holds initially *)

LEMMA InitSound == Init => SessionInv
<1> SUFFICES ASSUME Init PROVE SessionInv
  OBVIOUS
<1> USE DEF Init
<1>1. SnapshotSound
  <2>1. snapshot \in SnapshotsOver({"idle", FALSE, Shipped, 0, 6, Policies[1]})
    BY DEF InitialSnapshot, SnapshotsOver
  <2>2. 0 \in 0..Len(Txns(Shipped))
    BY ConsoleAssumption DEF Txns, Datasets
  <2>3. /\ snapshot.status = "idle" /\ snapshot.model = FALSE /\ snapshot.dataset = Shipped
        /\ snapshot.cursor = 0
    BY DEF InitialSnapshot
  <2> QED
    BY <2>1, <2>2, <2>3 DEF SnapshotSound, IsSnapshot, TypeOK, Datasets
<1>2. IntervalSound
  <2>1. snapshot.playing = FALSE /\ snapshot.speed = 6
    BY DEF InitialSnapshot
  <2>2. snapshot.speed \in 1..60
    BY <2>1
  <2> QED
    BY <2>1, <2>2, Zenon DEF IntervalSound, TimerMatchesPlaying
<1>3. QueueSound
  BY EmptyIsSequence DEF QueueSound
<1>4. DiskSound
  BY DEF DiskSound
<1>5. LastWord
  <2>1. snapshot.dataset = Shipped
    BY DEF InitialSnapshot
  <2>2. ~WritesPending
    BY EmptyHasNoLength DEF WritesPending
  <2> QED
    BY <2>1, <2>2 DEF LastWord, Due
<1> QED
  BY <1>1, <1>2, <1>3, <1>4, <1>5 DEF SessionInv

-----------------------------------------------------------------------------
(* Steps that leave the run on screen where it is *)

SameRun(t, s) ==
  /\ IsSnapshot(t)
  /\ t.status = s.status /\ t.model = s.model /\ t.dataset = s.dataset /\ t.cursor = s.cursor

LEMMA PlayingSet ==
  ASSUME NEW s, IsSnapshot(s), NEW v
  PROVE  /\ SameRun([s EXCEPT !.playing = v], s)
         /\ [s EXCEPT !.playing = v].playing = v /\ [s EXCEPT !.playing = v].speed = s.speed
         /\ [s EXCEPT !.playing = v].policy = s.policy /\ [s EXCEPT !.playing = v].clock = s.clock
<1>1. PICK S : s \in SnapshotsOver(S)
  BY DEF IsSnapshot
<1>2. s \in SnapshotsOver(S \cup {v}) /\ v \in S \cup {v}
  BY <1>1 DEF SnapshotsOver
<1>3. [s EXCEPT !.playing = v] \in SnapshotsOver(S \cup {v})
  BY <1>2 DEF SnapshotsOver
<1> QED
  BY <1>2, <1>3 DEF SnapshotsOver, IsSnapshot, SameRun

LEMMA SpeedSet ==
  ASSUME NEW s, IsSnapshot(s), NEW v
  PROVE  /\ SameRun([s EXCEPT !.speed = v], s)
         /\ [s EXCEPT !.speed = v].playing = s.playing /\ [s EXCEPT !.speed = v].speed = v
         /\ [s EXCEPT !.speed = v].policy = s.policy /\ [s EXCEPT !.speed = v].clock = s.clock
<1>1. PICK S : s \in SnapshotsOver(S)
  BY DEF IsSnapshot
<1>2. s \in SnapshotsOver(S \cup {v}) /\ v \in S \cup {v}
  BY <1>1 DEF SnapshotsOver
<1>3. [s EXCEPT !.speed = v] \in SnapshotsOver(S \cup {v})
  BY <1>2 DEF SnapshotsOver
<1>4. IsSnapshot([s EXCEPT !.speed = v])
  BY <1>3 DEF IsSnapshot
<1>5. [s EXCEPT !.speed = v] =
        [status |-> s.status, model |-> s.model, dataset |-> s.dataset, cursor |-> s.cursor,
         playing |-> s.playing, speed |-> v, policy |-> s.policy, clock |-> s.clock]
  BY <1>1 DEF SnapshotsOver
<1> QED
  BY <1>4, <1>5 DEF SameRun

LEMMA PolicySet ==
  ASSUME NEW s, IsSnapshot(s), NEW v
  PROVE  /\ SameRun([s EXCEPT !.policy = v], s)
         /\ [s EXCEPT !.policy = v].playing = s.playing /\ [s EXCEPT !.policy = v].speed = s.speed
         /\ [s EXCEPT !.policy = v].policy = v /\ [s EXCEPT !.policy = v].clock = s.clock
<1>1. PICK S : s \in SnapshotsOver(S)
  BY DEF IsSnapshot
<1>2. s \in SnapshotsOver(S \cup {v}) /\ v \in S \cup {v}
  BY <1>1 DEF SnapshotsOver
<1>3. [s EXCEPT !.policy = v] \in SnapshotsOver(S \cup {v})
  BY <1>2 DEF SnapshotsOver
<1> QED
  BY <1>2, <1>3 DEF SnapshotsOver, IsSnapshot, SameRun

LEMMA ClockSet ==
  ASSUME NEW s, IsSnapshot(s), NEW v
  PROVE  /\ SameRun([s EXCEPT !.clock = v], s)
         /\ [s EXCEPT !.clock = v].playing = s.playing /\ [s EXCEPT !.clock = v].speed = s.speed
         /\ [s EXCEPT !.clock = v].policy = s.policy /\ [s EXCEPT !.clock = v].clock = v
<1>1. PICK S : s \in SnapshotsOver(S)
  BY DEF IsSnapshot
<1>2. s \in SnapshotsOver(S \cup {v}) /\ v \in S \cup {v}
  BY <1>1 DEF SnapshotsOver
<1>3. [s EXCEPT !.clock = v] \in SnapshotsOver(S \cup {v})
  BY <1>2 DEF SnapshotsOver
<1> QED
  BY <1>2, <1>3 DEF SnapshotsOver, IsSnapshot, SameRun

(* While the run, the queue and the storage stay, all but the interval is  *)
(* kept.                                                                   *)
LEMMA SameRunIsSound ==
  ASSUME SessionInv, SameRun(snapshot', snapshot),
         UNCHANGED << imported, load, persistTimer, io, disk, refusals, behind >>, IntervalSound'
  PROVE  SessionInv'
<1>1. SnapshotSound'
  BY DEF SessionInv, SameRun, SnapshotSound, TypeOK, Txns
<1>2. QueueSound'
  BY QueueKept DEF SessionInv
<1>3. DiskSound'
  BY DEF SessionInv, DiskSound
<1>4. LastWord'
  <2>1. LastWord /\ snapshot'.dataset = snapshot.dataset /\ snapshot'.cursor = snapshot.cursor
    BY DEF SessionInv, SameRun
  <2> QED
    BY <2>1, LastWordKept
<1> QED
  BY <1>1, <1>2, <1>3, <1>4 DEF SessionInv

LEMMA PlaySound == SessionInv /\ Play => SessionInv'
<1> SUFFICES ASSUME SessionInv, Play PROVE SessionInv'
  OBVIOUS
<1>1. IsSnapshot(snapshot) /\ IntervalSound
  BY DEF SessionInv, SnapshotSound
<1>2. SameRun(snapshot', snapshot) /\ snapshot'.playing = TRUE /\ snapshot'.speed = snapshot.speed
  BY <1>1, PlayingSet DEF Play
<1>3. IntervalSound'
  BY <1>1, <1>2 DEF Play, IntervalSound, TimerMatchesPlaying, SameRun
<1> QED
  BY <1>2, <1>3, SameRunIsSound DEF Play

LEMMA PauseSound == SessionInv /\ Pause => SessionInv'
<1> SUFFICES ASSUME SessionInv, Pause PROVE SessionInv'
  OBVIOUS
<1>1. IsSnapshot(snapshot) /\ IntervalSound
  BY DEF SessionInv, SnapshotSound
<1>2. SameRun(snapshot', snapshot) /\ snapshot'.playing = FALSE /\ snapshot'.speed = snapshot.speed
  BY <1>1, PlayingSet DEF Pause, Paused
<1>3. IntervalSound'
  BY <1>1, <1>2 DEF Pause, IntervalSound, TimerMatchesPlaying
<1> QED
  BY <1>2, <1>3, SameRunIsSound DEF Pause

LEMMA SetSpeedSound == ASSUME NEW v \in Speeds, SessionInv, SetSpeed(v) PROVE SessionInv'
<1>1. IsSnapshot(snapshot) /\ IntervalSound
  BY DEF SessionInv, SnapshotSound
<1>2. SameRun(snapshot', snapshot) /\ snapshot'.playing = snapshot.playing /\ snapshot'.speed = v
  BY <1>1, SpeedSet DEF SetSpeed
<1>3. IntervalSound'
  BY <1>1, <1>2, ConsoleAssumption DEF SetSpeed, IntervalSound, TimerMatchesPlaying, SameRun
<1> QED
  BY <1>2, <1>3, SameRunIsSound DEF SetSpeed

LEMMA SubmitSound == ASSUME NEW payee, NEW mule, SessionInv, Submit(payee, mule) PROVE SessionInv'
<1>1. IsSnapshot(snapshot) /\ IntervalSound
  BY DEF SessionInv, SnapshotSound
<1>2. /\ SameRun(Paused(snapshot), snapshot)
      /\ Paused(snapshot).playing = FALSE /\ Paused(snapshot).speed = snapshot.speed
  BY <1>1, PlayingSet DEF Paused
<1>3. PICK v : snapshot' = [Paused(snapshot) EXCEPT !.clock = v]
  <2> DEFINE v == Max({Paused(snapshot).clock, Composed(payee).ts})
  <2>1. snapshot' = [Paused(snapshot) EXCEPT !.clock = v]
    BY DEF Submit
  <2> QED
    BY <2>1
<1>4. /\ SameRun(snapshot', Paused(snapshot))
      /\ snapshot'.playing = Paused(snapshot).playing /\ snapshot'.speed = Paused(snapshot).speed
  BY <1>2, <1>3, ClockSet DEF SameRun
<1>5. SameRun(snapshot', snapshot) /\ snapshot'.playing = FALSE /\ snapshot'.speed = snapshot.speed
  BY <1>2, <1>4 DEF SameRun
<1>6. IntervalSound'
  BY <1>1, <1>5 DEF Submit, IntervalSound, TimerMatchesPlaying
<1> QED
  BY <1>5, <1>6, SameRunIsSound DEF Submit, MayCall

LEMMA InjectSound ==
  ASSUME NEW scenario, NEW eligible, SessionInv, Inject(scenario, eligible) PROVE SessionInv'
<1>1. IsSnapshot(snapshot) /\ IntervalSound
  BY DEF SessionInv, SnapshotSound
<1>2. /\ SameRun(Paused(snapshot), snapshot)
      /\ Paused(snapshot).playing = FALSE /\ Paused(snapshot).speed = snapshot.speed
  BY <1>1, PlayingSet DEF Paused
<1>3. PICK v : snapshot' = [Paused(snapshot) EXCEPT !.clock = v]
  <2> DEFINE v == Last(Episode(scenario, Template(Pool, eligible))).ts
  <2>1. snapshot' = [Paused(snapshot) EXCEPT !.clock = v]
    BY DEF Inject
  <2> QED
    BY <2>1
<1>4. /\ SameRun(snapshot', Paused(snapshot))
      /\ snapshot'.playing = Paused(snapshot).playing /\ snapshot'.speed = Paused(snapshot).speed
  BY <1>2, <1>3, ClockSet DEF SameRun
<1>5. SameRun(snapshot', snapshot) /\ snapshot'.playing = FALSE /\ snapshot'.speed = snapshot.speed
  BY <1>2, <1>4 DEF SameRun
<1>6. IntervalSound'
  BY <1>1, <1>5 DEF Inject, IntervalSound, TimerMatchesPlaying
<1> QED
  BY <1>5, <1>6, SameRunIsSound DEF Inject, MayCall

LEMMA SetPolicySound == ASSUME NEW p, SessionInv, SetPolicy(p) PROVE SessionInv'
<1>1. IsSnapshot(snapshot) /\ IntervalSound
  BY DEF SessionInv, SnapshotSound
<1>2. /\ SameRun(snapshot', snapshot)
      /\ snapshot'.playing = snapshot.playing /\ snapshot'.speed = snapshot.speed
  BY <1>1, PolicySet DEF SetPolicy
<1>3. IntervalSound'
  BY <1>1, <1>2 DEF SetPolicy, IntervalSound, TimerMatchesPlaying, SameRun
<1> QED
  BY <1>2, <1>3, SameRunIsSound DEF SetPolicy

(* Calls that reach only the engine. *)
LEMMA EngineCallsSound ==
  SessionInv /\ (Sweep \/ SliceSamples \/ \E id : ResolveHold(id)) => SessionInv'
<1> SUFFICES ASSUME SessionInv, Sweep \/ SliceSamples \/ \E id : ResolveHold(id)
             PROVE  SessionInv'
  OBVIOUS
<1>1. UNCHANGED << snapshot, imported, load, timer, persistTimer, io, disk, refusals, behind >>
  BY DEF Sweep, SliceSamples, ResolveHold
<1>2. SameRun(snapshot', snapshot) /\ IntervalSound'
  BY <1>1 DEF SessionInv, SnapshotSound, SameRun, IntervalSound, TimerMatchesPlaying
<1> QED
  BY <1>1, <1>2, SameRunIsSound

-----------------------------------------------------------------------------
(* Playback *)

(* A step moves the cursor, and under an import it makes a save due.       *)
LEMMA StepIsSound ==
  ASSUME SessionInv, snapshot.model, NEW n \in Nat,
         snapshot' = SteppedSnapshot(snapshot, n), persistTimer' = ScheduledPersist(snapshot),
         UNCHANGED << timer, imported, load, io, disk, refusals >>
  PROVE  SessionInv'
<1>1. /\ IsSnapshot(snapshot) /\ TypeOK /\ snapshot.dataset \in Datasets
      /\ snapshot.cursor \in 0..Len(Txns(snapshot.dataset))
  BY DEF SessionInv, SnapshotSound, TypeOK
<1>2. /\ IsSnapshot(snapshot')
      /\ snapshot'.status = snapshot.status /\ snapshot'.model = snapshot.model
      /\ snapshot'.dataset = snapshot.dataset
      /\ snapshot'.playing = snapshot.playing /\ snapshot'.speed = snapshot.speed
      /\ snapshot'.cursor \in 0..Len(Txns(snapshot.dataset))
  BY <1>1, Stepped
<1>3. SnapshotSound'
  BY <1>1, <1>2 DEF SessionInv, SnapshotSound, TypeOK, Txns
<1>4. IntervalSound'
  BY <1>2 DEF SessionInv, IntervalSound, TimerMatchesPlaying, ScheduledPersist
<1>5. QueueSound'
  BY QueueKept DEF SessionInv
<1>6. DiskSound'
  BY DEF SessionInv, DiskSound
<1>7. LastWord'
  <2>1. ~Due'
    BY <1>2 DEF Due, ScheduledPersist
  <2> QED
    BY <1>2, <2>1, LastWordKept DEF SessionInv
<1> QED
  BY <1>3, <1>4, <1>5, <1>6, <1>7 DEF SessionInv

LEMMA PerTickIsPositive == ASSUME NEW v \in 1..60 PROVE PerTick(v) \in Nat
<1> DEFINE k == (v + 5) \div 10
<1>1. k \in Nat
  OBVIOUS
<1>2. PerTick(v) = Max({1, k})
  BY DEF PerTick
<1> HIDE DEF k
<1>3. \E x \in {1, k} : \A y \in {1, k} : x >= y
  <2>1. CASE 1 >= k
    BY <1>1, <2>1
  <2>2. CASE ~(1 >= k)
    BY <1>1, <2>2
  <2> QED
    BY <2>1, <2>2
<1>4. Max({1, k}) \in {1, k}
  BY <1>3 DEF Max
<1> QED
  BY <1>1, <1>2, <1>4

LEMMA TickSound == SessionInv /\ Tick => SessionInv'
<1> SUFFICES ASSUME SessionInv, Tick PROVE SessionInv'
  OBVIOUS
<1>1. IsSnapshot(snapshot) /\ IntervalSound /\ snapshot.speed \in 1..60 /\ snapshot.model
  BY DEF SessionInv, SnapshotSound, TypeOK, IntervalSound, TimerMatchesPlaying, Tick
<1>2. CASE NextPayments(snapshot, 1) = << >>
  <2>1. /\ SameRun(snapshot', snapshot)
        /\ snapshot'.playing = FALSE /\ snapshot'.speed = snapshot.speed
    BY ZenonT(40), <1>1, <1>2, PlayingSet DEF Tick, Paused
  <2>2. IntervalSound'
    BY <1>1, <1>2, <2>1 DEF Tick, IntervalSound, TimerMatchesPlaying
  <2> QED
    BY <1>2, <2>1, <2>2, SameRunIsSound DEF Tick
<1>3. CASE NextPayments(snapshot, 1) # << >>
  BY <1>1, <1>3, PerTickIsPositive, StepIsSound DEF Tick
<1> QED
  BY <1>2, <1>3

LEMMA StepButtonSound == SessionInv /\ Step => SessionInv'
<1>1. 1 \in Nat
  OBVIOUS
<1> QED
  BY <1>1, StepIsSound DEF Step

LEMMA PersistTimerFiresSound == SessionInv /\ PersistTimerFires => SessionInv'
<1> SUFFICES ASSUME SessionInv, PersistTimerFires PROVE SessionInv'
  OBVIOUS
<1>1. SnapshotSound /\ IntervalSound /\ QueueSound /\ DiskSound /\ LastWord
  BY DEF SessionInv
<1>2. SnapshotSound' /\ IntervalSound' /\ DiskSound'
  BY <1>1 DEF PersistTimerFires, SnapshotSound, TypeOK, IntervalSound, TimerMatchesPlaying,
              DiskSound
<1>3. CASE snapshot.dataset = Shipped
  <2>1. io' = io /\ ~Due'
    BY <1>3 DEF PersistTimerFires, Persist, Due
  <2> QED
    BY <1>1, <1>2, <2>1, QueueKept, LastWordKept DEF PersistTimerFires, SessionInv
<1>4. CASE snapshot.dataset # Shipped
  <2>0. PICK o : o = Save(snapshot, engine, imported)
    OBVIOUS
  <2>1. imported = snapshot.dataset /\ imported \in Imports /\ imported # None
    BY <1>1, <1>4, ConsoleAssumption DEF SnapshotSound, TypeOK, Datasets
  <2>2. io' = Append(io, o)
    BY <1>4, <2>0, <2>1 DEF PersistTimerFires, Persist
  <2>3. snapshot.cursor \in Nat /\ snapshot.cursor <= Len(Txns(snapshot.dataset))
    <3>1. snapshot.cursor \in 0..Len(Txns(snapshot.dataset))
      BY <1>1 DEF SnapshotSound, TypeOK
    <3> QED
      BY <3>1
  <2>4. /\ o = [op |-> "put", value |-> o.value] /\ o # Read /\ o # Clear
        /\ o.value.dataset = snapshot.dataset /\ o.value.cursor = snapshot.cursor
    BY <2>0, <2>1 DEF Save, Record, Read, Clear
  <2>5. IsWrite(o)
    BY <2>1, <2>3, <2>4 DEF IsWrite, Usable
  <2>6. QueueSound'
    BY <1>1, <2>2, <2>5, QueueGrows DEF PersistTimerFires
  <2>7. LastWord'
    <3>1. (snapshot.dataset = Shipped)' => o = Clear
      BY <1>4 DEF PersistTimerFires
    <3>2. PICK p, q : p = << o.value >> /\ q = io
      OBVIOUS
    <3>3. Agrees(p)'
      BY <2>4, <3>2 DEF PersistTimerFires, Agrees
    <3>4. p = IF o = Clear THEN << >> ELSE << o.value >>
      BY <2>4, <3>2
    <3> QED
      BY <1>1, <2>2, <2>4, <3>1, <3>2, <3>3, <3>4, LastWordSaid DEF QueueSound
  <2> QED
    BY <1>2, <2>6, <2>7 DEF SessionInv
<1> QED
  BY <1>3, <1>4

-----------------------------------------------------------------------------
(* Loading *)

LEMMA StatusSet ==
  ASSUME NEW s, IsSnapshot(s), NEW v
  PROVE  /\ IsSnapshot([s EXCEPT !.status = v])
         /\ [s EXCEPT !.status = v].status = v /\ [s EXCEPT !.status = v].model = s.model
         /\ [s EXCEPT !.status = v].dataset = s.dataset
         /\ [s EXCEPT !.status = v].cursor = s.cursor
         /\ [s EXCEPT !.status = v].playing = s.playing
         /\ [s EXCEPT !.status = v].speed = s.speed
<1>1. PICK S : s \in SnapshotsOver(S)
  BY DEF IsSnapshot
<1>2. s \in SnapshotsOver(S \cup {v}) /\ v \in S \cup {v}
  BY <1>1 DEF SnapshotsOver
<1>3. [s EXCEPT !.status = v] \in SnapshotsOver(S \cup {v})
  BY <1>2 DEF SnapshotsOver
<1> QED
  BY <1>2, <1>3 DEF SnapshotsOver, IsSnapshot

(* Before there is a model only the corpus the console ships with is on    *)
(* screen, at its start, and nothing plays.                                *)
LEMMA BeforeTheModel ==
  ASSUME SessionInv, ~snapshot.model
  PROVE  /\ snapshot.dataset = Shipped /\ imported = None /\ snapshot.cursor = 0
         /\ timer = FALSE /\ snapshot.playing = FALSE /\ snapshot.model = FALSE
BY DEF SessionInv, SnapshotSound, IntervalSound, TimerMatchesPlaying, TypeOK

LEMMA NotLoadedSound ==
  ASSUME SessionInv, load \in {"none", "fetching"}, load' \in {"fetching", "failed"},
         NEW v \in {"loading", "error"}, snapshot' = [snapshot EXCEPT !.status = v],
         UNCHANGED << imported, timer, persistTimer, io, disk, refusals >>
  PROVE  SessionInv'
<1>1. SnapshotSound /\ IntervalSound /\ QueueSound /\ DiskSound /\ LastWord
  BY DEF SessionInv
<1>2. ~snapshot.model
  BY <1>1 DEF SnapshotSound
<1>3. /\ snapshot.dataset = Shipped /\ imported = None /\ snapshot.cursor = 0
      /\ timer = FALSE /\ snapshot.playing = FALSE /\ snapshot.model = FALSE
  BY <1>2, BeforeTheModel
<1>4. /\ IsSnapshot(snapshot')
      /\ snapshot'.status = v /\ snapshot'.model = FALSE
      /\ snapshot'.dataset = Shipped /\ snapshot'.cursor = 0
      /\ snapshot'.playing = FALSE /\ snapshot'.speed = snapshot.speed
  BY <1>1, <1>3, StatusSet DEF SnapshotSound
<1>5. SnapshotSound'
  BY <1>1, <1>3, <1>4 DEF SnapshotSound, TypeOK
<1>6. IntervalSound'
  <2>1. snapshot'.speed \in 1..60 /\ persistTimer' \in BOOLEAN
    BY <1>1, <1>4 DEF IntervalSound
  <2> QED
    BY <1>3, <1>4, <2>1, Zenon DEF IntervalSound, TimerMatchesPlaying
<1>7. QueueSound'
  BY <1>1, QueueKept
<1>8. DiskSound'
  BY <1>1 DEF DiskSound
<1>9. LastWord'
  <2>1. Promised' = Promised /\ WritesPending' = WritesPending /\ ~Due'
    BY <1>4, PromiseKept DEF Due
  <2> QED
    BY <1>1, <1>3, <1>4, <2>1 DEF LastWord
<1> QED
  BY <1>5, <1>6, <1>7, <1>8, <1>9 DEF SessionInv

LEMMA EnsureLoadedSound == SessionInv /\ EnsureLoaded => SessionInv'
BY NotLoadedSound DEF EnsureLoaded

LEMMA LoadFailsSound == SessionInv /\ LoadFails => SessionInv'
BY NotLoadedSound DEF LoadFails

LEMMA LoadSucceedsSound == SessionInv /\ LoadSucceeds => SessionInv'
<1> SUFFICES ASSUME SessionInv, LoadSucceeds PROVE SessionInv'
  OBVIOUS
<1>1. SnapshotSound /\ IntervalSound /\ QueueSound /\ DiskSound /\ LastWord
  BY DEF SessionInv
<1>2. ~snapshot.model
  BY <1>1 DEF SnapshotSound, LoadSucceeds
<1>3. /\ snapshot.dataset = Shipped /\ imported = None
      /\ timer = FALSE /\ snapshot.playing = FALSE
  BY <1>2, BeforeTheModel
<1>4. /\ IsSnapshot(snapshot')
      /\ snapshot'.status = "ready" /\ snapshot'.model = TRUE
      /\ snapshot'.dataset = Shipped /\ snapshot'.cursor = 0
      /\ snapshot'.playing = FALSE /\ snapshot'.speed = snapshot.speed
  <2>1. IsSnapshot(snapshot) /\ snapshot' = BootedSnapshot(snapshot, Shipped)
    BY <1>1 DEF SnapshotSound, LoadSucceeds
  <2>2. BootOf(snapshot', snapshot, Shipped)
    BY <2>1, Booted
  <2> QED
    BY <1>3, <2>2 DEF BootOf
<1>5. SnapshotSound'
  <2>1. 0 \in 0..Len(Txns(Shipped)) /\ Shipped \in Datasets
    BY ConsoleAssumption DEF Txns, Datasets
  <2> QED
    BY <1>3, <1>4, <2>1 DEF SnapshotSound, TypeOK, LoadSucceeds
<1>6. IntervalSound'
  <2>1. snapshot'.speed \in 1..60 /\ persistTimer' \in BOOLEAN
    BY <1>1, <1>4 DEF IntervalSound, LoadSucceeds
  <2> QED
    BY <1>3, <1>4, <2>1, Zenon DEF IntervalSound, TimerMatchesPlaying, LoadSucceeds
<1>7. /\ IsSequence(io') /\ Len(io) \in Nat /\ Len(io') = Len(io) + 1
      /\ \A i \in 1..Len(io) : io'[i] = io[i]
      /\ io'[Len(io) + 1] = Read
  BY <1>1, Appended DEF QueueSound, LoadSucceeds
<1>8. QueueSound'
  <2>1. \A i \in 1..Len(io') : i \in 1..Len(io) \/ (i = Len(io) + 1 /\ io'[i] = Read)
    BY <1>7
  <2>2. \A i \in 1..Len(io) : io'[i] # Read
    BY <1>1, <1>7 DEF QueueSound, LoadSucceeds
  <2>3. Len(io) + 1 \in 1..Len(io') /\ load' = "reading"
    BY <1>7 DEF LoadSucceeds
  <2>4. \A i \in 1..Len(io) : io'[i] = Read \/ IsWrite(io'[i])
    BY <1>1, <1>7 DEF QueueSound
  <2> QED
    BY <1>7, <2>1, <2>2, <2>3, <2>4 DEF QueueSound
<1>9. DiskSound'
  BY <1>1 DEF DiskSound, LoadSucceeds
<1>10. LastWord'
  <2>1. ~WritesPending' /\ ~Due' /\ load' = "reading"
    BY <1>4, <1>7 DEF WritesPending, LastOp, Due, LoadSucceeds
  <2> QED
    BY <1>4, <2>1 DEF LastWord
<1> QED
  BY <1>5, <1>6, <1>8, <1>9, <1>10 DEF SessionInv

(* A reload keeps the disk and nothing else. *)
LEMMA ReloadSound == SessionInv /\ Reload => SessionInv'
<1> SUFFICES ASSUME SessionInv, Reload PROVE SessionInv'
  OBVIOUS
<1>1. snapshot' \in SnapshotsOver({"idle", FALSE, Shipped, 0, 6, Policies[1]})
  BY DEF Reload, InitialSnapshot, SnapshotsOver
<1>2. /\ snapshot'.status = "idle" /\ snapshot'.model = FALSE /\ snapshot'.dataset = Shipped
      /\ snapshot'.cursor = 0 /\ snapshot'.playing = FALSE /\ snapshot'.speed = 6
  BY DEF Reload, InitialSnapshot
<1>3. SnapshotSound'
  <2>1. 0 \in 0..Len(Txns(Shipped)) /\ Shipped \in Datasets
    BY ConsoleAssumption DEF Txns, Datasets
  <2> QED
    BY <1>1, <1>2, <2>1 DEF SnapshotSound, IsSnapshot, TypeOK, Reload
<1>4. IntervalSound'
  <2>1. snapshot'.speed \in 1..60
    BY <1>2
  <2> QED
    BY <1>2, <2>1, Zenon DEF IntervalSound, TimerMatchesPlaying, Reload
<1>5. QueueSound'
  BY EmptyIsSequence DEF QueueSound, Reload
<1>6. DiskSound'
  BY DEF SessionInv, DiskSound, Reload
<1>7. LastWord'
  <2>1. ~WritesPending' /\ ~Due' /\ load' = "none"
    BY <1>2, EmptyHasNoLength DEF WritesPending, Due, Reload
  <2> QED
    BY <1>2, <2>1 DEF LastWord
<1> QED
  BY <1>3, <1>4, <1>5, <1>6, <1>7 DEF SessionInv

-----------------------------------------------------------------------------
(* Datasets *)

LEMMA PausedBoot ==
  ASSUME NEW s, IsSnapshot(s), NEW d
  PROVE  BootOf(BootedSnapshot(Paused(s), d), Paused(s), d)
BY PausedKeeps, Booted

(* A boot pauses, and puts the dataset on screen at its start.             *)
LEMMA BootIsSound ==
  ASSUME SessionInv, NEW d \in Datasets, snapshot' = BootedSnapshot(Paused(snapshot), d),
         imported' = IF d = Shipped THEN None ELSE d,
         timer' = FALSE, UNCHANGED << load, persistTimer, disk >>, snapshot.model
  PROVE  /\ SnapshotSound' /\ IntervalSound' /\ DiskSound'
         /\ snapshot'.dataset = d /\ snapshot'.cursor = 0
<1>1. SnapshotSound /\ IntervalSound /\ DiskSound
  BY DEF SessionInv
<1>2. /\ IsSnapshot(snapshot')
      /\ snapshot'.status = "ready" /\ snapshot'.model = TRUE
      /\ snapshot'.dataset = d /\ snapshot'.cursor = 0
      /\ snapshot'.playing = FALSE /\ snapshot'.speed = snapshot.speed
  <2>1. IsSnapshot(snapshot)
    BY <1>1 DEF SnapshotSound
  <2>2. BootOf(snapshot', Paused(snapshot), d)
    BY <2>1, PausedBoot
  <2> QED
    BY <2>1, <2>2, PausedKeeps DEF BootOf
<1>3. SnapshotSound'
  <2>1. 0 \in 0..Len(Txns(d))
    BY ConsoleAssumption DEF Txns
  <2>2. imported' \in Imports \cup {None} /\ d = IF imported' = None THEN Shipped ELSE imported'
    BY ConsoleAssumption DEF Datasets
  <2>3. load' \in {"none", "fetching", "reading", "done", "dropped", "failed"}
        /\ load' \notin {"none", "fetching", "failed"}
    BY <1>1 DEF SnapshotSound, TypeOK
  <2>4. Txns(d)' = Txns(d)
    BY DEF Txns
  <2> QED
    BY <1>2, <2>1, <2>2, <2>3, <2>4 DEF SnapshotSound, TypeOK, Txns
<1>4. IntervalSound'
  <2>1. snapshot'.speed \in 1..60 /\ persistTimer' \in BOOLEAN
    BY <1>1, <1>2 DEF IntervalSound
  <2> QED
    BY <1>2, <2>1, Zenon DEF IntervalSound, TimerMatchesPlaying
<1>5. DiskSound'
  BY <1>1 DEF DiskSound
<1> QED
  BY <1>2, <1>3, <1>4, <1>5

LEMMA LoadImportedSound ==
  ASSUME NEW d \in Imports, SessionInv, LoadImported(d) PROVE SessionInv'
<1>1. d \in Datasets /\ d # Shipped /\ d # None
  BY ConsoleAssumption DEF Datasets
<1>2. SnapshotSound' /\ IntervalSound' /\ DiskSound' /\ snapshot'.dataset = d /\ snapshot'.cursor = 0
  BY <1>1, BootIsSound DEF LoadImported
<1>3. PICK o : o = Save(snapshot', engine', d)
  OBVIOUS
<1>4. io' = Append(io, o)
  BY <1>1, <1>2, <1>3 DEF LoadImported, Persist
<1>5. /\ o = [op |-> "put", value |-> o.value] /\ o # Read /\ o # Clear
      /\ o.value.dataset = d /\ o.value.cursor = 0 /\ IsWrite(o)
  <2>1. /\ o = [op |-> "put", value |-> o.value] /\ o # Read /\ o # Clear
        /\ o.value.dataset = d /\ o.value.cursor = 0
    BY <1>2, <1>3 DEF Save, Record, Read, Clear
  <2>2. 0 <= Len(Txns(d))
    BY <1>1, ConsoleAssumption DEF Txns
  <2> QED
    BY <2>1, <2>2 DEF IsWrite, Usable
<1>6. QueueSound'
  BY <1>4, <1>5, QueueGrows DEF SessionInv, LoadImported
<1>7. LastWord'
  <2>1. PICK p, q : p = << o.value >> /\ q = io
    OBVIOUS
  <2>2. Agrees(p)'
    BY <1>2, <1>5, <2>1 DEF LoadImported, Agrees
  <2>3. p = IF o = Clear THEN << >> ELSE << o.value >>
    BY <1>5, <2>1
  <2>4. IsSequence(q)
    BY <2>1 DEF SessionInv, QueueSound
  <2> QED
    BY <1>1, <1>2, <1>4, <1>5, <2>1, <2>2, <2>3, <2>4, LastWordSaid
<1> QED
  BY <1>2, <1>6, <1>7 DEF SessionInv

LEMMA RestoreShippedSound == SessionInv /\ RestoreShipped => SessionInv'
<1> SUFFICES ASSUME SessionInv, RestoreShipped PROVE SessionInv'
  OBVIOUS
<1>1. /\ SnapshotSound' /\ IntervalSound' /\ DiskSound'
      /\ snapshot'.dataset = Shipped /\ ~Due'
  <2>1. CASE snapshot.model
    <3>1. Shipped \in Datasets
      BY DEF Datasets
    <3> QED
      BY <2>1, <3>1, BootIsSound DEF RestoreShipped, Due
  <2>2. CASE ~snapshot.model
    <3>1. snapshot.dataset = Shipped /\ imported = None /\ snapshot.cursor = 0 /\ timer = FALSE
      BY <2>2, BeforeTheModel
    <3>2. UNCHANGED << snapshot, engine, imported, load, timer, persistTimer, disk >>
      BY <2>2, <3>1 DEF RestoreShipped
    <3> QED
      BY <3>1, <3>2 DEF SessionInv, SnapshotSound, TypeOK, IntervalSound, TimerMatchesPlaying,
                        DiskSound, Due
  <2> QED
    BY <2>1, <2>2
<1>2. IsWrite(Clear) /\ Clear # Read
  BY DEF IsWrite, Clear, Read
<1>3. io' = Append(io, Clear) /\ load' = load /\ QueueSound
  BY DEF RestoreShipped, SessionInv
<1>4. QueueSound'
  BY <1>2, <1>3, QueueGrows
<1>5. LastWord'
  <2>1. PICK p, q : p = << >> /\ q = io
    OBVIOUS
  <2> QED
    BY <1>1, <1>2, <1>3, <2>1, LastWordSaid DEF QueueSound
<1> QED
  BY <1>1, <1>4, <1>5 DEF SessionInv

LEMMA ResetSound == SessionInv /\ Reset => SessionInv'
<1> SUFFICES ASSUME SessionInv, Reset PROVE SessionInv'
  OBVIOUS
<1>1. SnapshotSound /\ QueueSound /\ LastWord
  BY DEF SessionInv
<1>2. snapshot.dataset \in Datasets /\ imported' = IF snapshot.dataset = Shipped THEN None ELSE snapshot.dataset
  BY <1>1, ConsoleAssumption DEF SnapshotSound, TypeOK, Reset, Datasets
<1>3. PICK d : d = snapshot.dataset
  OBVIOUS
<1>4. SnapshotSound' /\ IntervalSound' /\ DiskSound' /\ snapshot'.dataset = d /\ snapshot'.cursor = 0
  BY <1>2, <1>3, BootIsSound DEF Reset
<1>5. QueueSound'
  BY <1>1, QueueKept DEF Reset
<1>6. LastWord'
  <2>1. Promised' = Promised /\ WritesPending' = WritesPending
    BY PromiseKept DEF Reset
  <2>2. PICK p : p = Promised
    OBVIOUS
  <2>3. Due' => Due
    BY <1>3, <1>4 DEF Due, Reset
  <2>4. snapshot.cursor = 0 \/ snapshot.cursor > 0
    BY <1>1 DEF SnapshotSound, TypeOK
  <2>5. Due /\ Agrees(p) => Agrees(p)'
    BY <1>3, <1>4, <2>4 DEF Agrees, Due, Reset
  <2> QED
    BY <1>1, <1>3, <1>4, <2>1, <2>2, <2>3, <2>5 DEF LastWord, Reset
<1> QED
  BY <1>4, <1>5, <1>6 DEF SessionInv

-----------------------------------------------------------------------------
(* The storage serves *)

(* A queue of writes only. *)
OnlyWrites(q) == IsSequence(q) /\ \A i \in 1..Len(q) : IsWrite(q[i])

LEMMA OnlyWritesIsSound ==
  ASSUME OnlyWrites(io'), load' # "reading" PROVE QueueSound'
<1>1. \A o : IsWrite(o) => o # Read
  BY DEF IsWrite, Clear, Read
<1>2. IsSequence(io') /\ \A i \in 1..Len(io') : IsWrite(io'[i]) /\ io'[i] # Read
  BY <1>1 DEF OnlyWrites
<1> QED
  BY <1>2 DEF QueueSound

(* Behind the read there are writes.                                       *)
LEMMA ReadServed ==
  ASSUME QueueSound, io # << >>, Head(io) = Read
  PROVE  /\ load = "reading" /\ OnlyWrites(Tail(io))
         /\ Len(io) \in Nat /\ Len(io) > 0
         /\ Len(Tail(io)) = Len(io) - 1
         /\ \A i \in 1..(Len(io) - 1) : Tail(io)[i] = io[i + 1]
<1>1. /\ IsSequence(Tail(io)) /\ Len(io) \in Nat /\ Len(io) > 0
      /\ Len(Tail(io)) = Len(io) - 1
      /\ \A i \in 1..(Len(io) - 1) : Tail(io)[i] = io[i + 1]
      /\ Head(io) = io[1]
  BY Served DEF QueueSound
<1>2. 1 \in 1..Len(io) /\ io[1] = Read
  BY <1>1
<1>3. ASSUME NEW i \in 1..Len(Tail(io)) PROVE IsWrite(Tail(io)[i])
  <2>1. i + 1 \in 1..Len(io) /\ i + 1 # 1 /\ Tail(io)[i] = io[i + 1]
    BY <1>1
  <2> QED
    BY <1>2, <2>1 DEF QueueSound
<1> QED
  BY <1>1, <1>2, <1>3 DEF QueueSound, OnlyWrites

(* What the queue says last is not changed by serving the read at its      *)
(* head; a queue with nothing behind the read has no write.                *)
LEMMA LastAfterRead ==
  ASSUME QueueSound, io # << >>, Head(io) = Read, io' = Tail(io)
  PROVE  /\ WritesPending' <=> WritesPending
         /\ WritesPending => LastOp' = LastOp
<1>1. /\ OnlyWrites(io') /\ Len(io) \in Nat /\ Len(io) > 0
      /\ Len(io') = Len(io) - 1
      /\ \A i \in 1..(Len(io) - 1) : io'[i] = io[i + 1]
      /\ Head(io) = io[1]
  BY ReadServed, Served DEF QueueSound
<1>2. CASE Len(io) = 1
  <2>1. Len(io') = 0 /\ io[Len(io)] = Read
    BY <1>1, <1>2
  <2> QED
    BY <2>1 DEF WritesPending, LastOp
<1>3. CASE Len(io) # 1
  <2>1. Len(io') \in 1..(Len(io) - 1) /\ Len(io') + 1 = Len(io) /\ Len(io') \in 1..Len(io')
    BY <1>1, <1>3
  <2>2. io'[Len(io')] = io[Len(io)]
    BY <1>1, <2>1
  <2>3. IsWrite(io'[Len(io')])
    BY <1>1, <2>1 DEF OnlyWrites
  <2> QED
    BY <1>1, <1>3, <2>1, <2>2, <2>3 DEF WritesPending, LastOp, IsWrite, Clear, Read
<1> QED
  BY <1>2, <1>3

LEMMA RestoreSound ==
  ASSUME SessionInv, ServeRead, disk # << >>, Restore(disk[1]), disk[1].dataset # None,
         load' = "done", io' = Tail(io), UNCHANGED << disk, refusals >>,
         behind' = IF Tail(io) = << >> THEN "no" ELSE "overtaken"
  PROVE  SessionInv'
<1>1. SnapshotSound /\ IntervalSound /\ QueueSound /\ DiskSound /\ LastWord
  BY DEF SessionInv
<1>2. io # << >> /\ Head(io) = Read
  BY DEF ServeRead
<1>3. PICK d, n : d = disk[1].dataset /\ n = disk[1].cursor
  OBVIOUS
<1>4. d \in Imports /\ n \in Nat /\ n <= Len(Txns(d)) /\ d \in Datasets /\ d # Shipped /\ d # None
  BY <1>1, <1>3, ConsoleAssumption DEF DiskSound, Usable, Datasets
<1>5. PICK s : s = BootedSnapshot(Paused(snapshot), d)
  OBVIOUS
<1>6. /\ snapshot' = SteppedSnapshot(s, n) /\ imported' = d /\ timer' = FALSE
      /\ persistTimer' = (persistTimer \/ NextPayments(s, n) # << >>)
  BY <1>3, <1>5 DEF Restore
<1>7. /\ IsSnapshot(s) /\ s.status = "ready" /\ s.model = TRUE /\ s.dataset = d /\ s.cursor = 0
      /\ s.playing = FALSE /\ s.speed = snapshot.speed
  <2>1. IsSnapshot(snapshot)
    BY <1>1 DEF SnapshotSound
  <2>2. BootOf(s, Paused(snapshot), d)
    BY <1>5, <2>1, PausedBoot
  <2> QED
    BY <2>1, <2>2, PausedKeeps DEF BootOf
<1>8. s.cursor \in 0..Len(Txns(d))
  BY <1>4, <1>7, ConsoleAssumption DEF Txns
<1>9. /\ IsSnapshot(snapshot')
      /\ snapshot'.status = "ready" /\ snapshot'.model = TRUE /\ snapshot'.dataset = d
      /\ snapshot'.playing = FALSE /\ snapshot'.speed = snapshot.speed
      /\ snapshot'.cursor \in 0..Len(Txns(d))
      /\ NextPayments(s, n) = << >> => snapshot'.cursor = 0
  BY <1>4, <1>6, <1>7, <1>8, Stepped
<1>10. SnapshotSound'
  <2>1. Txns(d)' = Txns(d)
    BY DEF Txns
  <2> QED
    BY <1>4, <1>6, <1>9, <2>1 DEF SnapshotSound, TypeOK, Txns
<1>11. IntervalSound'
  <2>1. snapshot'.speed \in 1..60
    BY <1>1, <1>9 DEF IntervalSound
  <2>2. persistTimer' \in BOOLEAN
    BY <1>1, <1>6 DEF IntervalSound
  <2> QED
    BY <1>6, <1>9, <2>1, <2>2, Zenon DEF IntervalSound, TimerMatchesPlaying
<1>12. QueueSound'
  BY <1>1, <1>2, ReadServed, OnlyWritesIsSound
<1>13. DiskSound'
  BY <1>1 DEF DiskSound
<1>14. LastWord'
  <2>1. snapshot'.dataset # Shipped /\ (Due' => n = 0 /\ snapshot'.cursor = 0)
    <3>1. Len(NextPayments(s, n)) = n /\ (NextPayments(s, n) = << >> => Len(NextPayments(s, n)) = 0)
      BY <1>4, <1>7, <1>8, AllAreLeft, NextPaymentsAreLeft
    <3> QED
      BY <1>4, <1>6, <1>9, <3>1 DEF Due
  <2>2. PICK p : p = Promised'
    OBVIOUS
  <2>3. ASSUME Due' PROVE Agrees(p)'
    <3>1. CASE Tail(io) = << >>
      <4>1. ~WritesPending'
        BY <3>1, EmptyHasNoLength DEF WritesPending
      <4>2. p = disk /\ behind' = "no"
        BY <2>2, <3>1, <4>1 DEF Promised
      <4>3. p # << >> /\ p[1].dataset = d /\ p[1].cursor = 0
        BY <1>3, <2>1, <2>3, <4>2
      <4> QED
        BY <1>9, <2>1, <2>3, <4>2, <4>3 DEF Agrees
    <3>2. CASE Tail(io) # << >>
      BY <2>1, <2>3, <3>2 DEF Agrees
    <3> QED
      BY <3>1, <3>2
  <2> QED
    BY <2>1, <2>2, <2>3 DEF LastWord
<1> QED
  BY <1>10, <1>11, <1>12, <1>13, <1>14 DEF SessionInv

LEMMA DropSound ==
  ASSUME SessionInv, ServeRead, load' = "dropped", io' = Append(Tail(io), Clear),
         behind' = IF snapshot.dataset = Shipped THEN behind ELSE "erased",
         UNCHANGED << snapshot, imported, timer, persistTimer, disk >>
  PROVE  SessionInv'
<1>1. SnapshotSound /\ IntervalSound /\ QueueSound /\ DiskSound
  BY DEF SessionInv
<1>2. load = "reading" /\ OnlyWrites(Tail(io))
  BY <1>1, ReadServed DEF ServeRead
<1>3. SnapshotSound' /\ IntervalSound' /\ DiskSound'
  BY <1>1, <1>2 DEF SnapshotSound, TypeOK, IntervalSound, TimerMatchesPlaying, DiskSound
<1>4. OnlyWrites(io')
  <2>1. PICK q : q = Tail(io)
    OBVIOUS
  <2>2. /\ IsSequence(io') /\ Len(q) \in Nat /\ Len(io') = Len(q) + 1
        /\ \A i \in 1..Len(q) : io'[i] = q[i]
        /\ io'[Len(q) + 1] = Clear
    BY <1>2, <2>1, Appended DEF OnlyWrites
  <2>3. \A i \in 1..Len(io') : i \in 1..Len(q) \/ i = Len(q) + 1
    BY <2>2
  <2> QED
    BY <1>2, <2>1, <2>2, <2>3 DEF OnlyWrites, IsWrite
<1>5. QueueSound'
  BY <1>4, OnlyWritesIsSound
<1>6. LastWord'
  <2>1. PICK p, q : p = << >> /\ q = Tail(io)
    OBVIOUS
  <2>2. Due' => Agrees(p)'
    BY <2>1 DEF Due, Agrees
  <2>3. Clear # Read
    BY DEF Clear, Read
  <2> QED
    BY <1>2, <2>1, <2>2, <2>3, LastWordSaid DEF OnlyWrites
<1> QED
  BY <1>3, <1>5, <1>6 DEF SessionInv

LEMMA NothingReadSound ==
  ASSUME SessionInv, ServeRead, load' = "done", io' = Tail(io),
         disk = << >> \/ refusals' # 0,
         UNCHANGED << snapshot, imported, timer, persistTimer, disk, behind >>,
         refusals' = 0 => refusals = 0
  PROVE  SessionInv'
<1>1. SnapshotSound /\ IntervalSound /\ QueueSound /\ DiskSound /\ LastWord
  BY DEF SessionInv
<1>2. io # << >> /\ Head(io) = Read
  BY DEF ServeRead
<1>3. load = "reading" /\ OnlyWrites(Tail(io))
  BY <1>1, <1>2, ReadServed
<1>4. SnapshotSound' /\ IntervalSound' /\ DiskSound'
  BY <1>1, <1>3 DEF SnapshotSound, TypeOK, IntervalSound, TimerMatchesPlaying, DiskSound
<1>5. QueueSound'
  BY <1>3, OnlyWritesIsSound
<1>6. LastWord'
  <2>1. (WritesPending' <=> WritesPending) /\ (WritesPending => LastOp' = LastOp)
    BY <1>1, <1>2, LastAfterRead
  <2>2. Promised' = Promised
    BY <2>1 DEF Promised
  <2>3. PICK p : p = Promised
    OBVIOUS
  <2>4. (Due' <=> Due) /\ (Agrees(p)' <=> Agrees(p))
    BY DEF Due, Agrees
  <2>5. ~WritesPending => Promised = disk
    BY DEF Promised
  <2> QED
    BY <1>1, <1>3, <2>1, <2>2, <2>3, <2>4, <2>5 DEF LastWord
<1> QED
  BY <1>4, <1>5, <1>6 DEF SessionInv

LEMMA ServeReadSound == SessionInv /\ refusals \in Nat /\ ServeRead => SessionInv'
<1> SUFFICES ASSUME SessionInv, refusals \in Nat, ServeRead PROVE SessionInv'
  OBVIOUS
<1>1. CASE /\ disk # << >> /\ disk[1].dataset # None
           /\ Restore(disk[1])
           /\ load' = "done" /\ io' = Tail(io)
           /\ behind' = IF Tail(io) = << >> THEN "no" ELSE "overtaken"
           /\ UNCHANGED refusals
  BY <1>1, RestoreSound DEF ServeRead
<1>2. CASE /\ disk # << >> /\ disk[1].dataset = None
           /\ load' = "dropped" /\ io' = Append(Tail(io), Clear)
           /\ behind' = IF snapshot.dataset = Shipped THEN behind ELSE "erased"
           /\ UNCHANGED << snapshot, engine, imported, timer, persistTimer, refusals >>
  BY <1>2, DropSound DEF ServeRead
<1>3. CASE /\ \/ disk = << >> /\ UNCHANGED refusals
              \/ disk # << >> /\ refusals < MaxRefusals /\ refusals' = refusals + 1
           /\ load' = "done" /\ io' = Tail(io)
           /\ UNCHANGED << snapshot, engine, imported, timer, persistTimer, behind >>
  <2>1. (disk = << >> \/ refusals' # 0) /\ (refusals' = 0 => refusals = 0)
    BY <1>3
  <2>2. UNCHANGED disk
    BY DEF ServeRead
  <2> QED
    BY <1>3, <2>1, <2>2, NothingReadSound
<1> QED
  BY <1>1, <1>2, <1>3 DEF ServeRead

(* A write that is served makes the disk say what the queue said.          *)
LEMMA ServeWriteSound == SessionInv /\ refusals \in Nat /\ ServeWrite => SessionInv'
<1> SUFFICES ASSUME SessionInv, refusals \in Nat, ServeWrite PROVE SessionInv'
  OBVIOUS
<1>1. SnapshotSound /\ IntervalSound /\ QueueSound /\ DiskSound /\ LastWord
  BY DEF SessionInv
<1>2. io # << >> /\ Head(io) # Read /\ io' = Tail(io)
  BY DEF ServeWrite
<1>3. UNCHANGED << snapshot, imported, load, timer, persistTimer, behind >>
  BY DEF ServeWrite
<1>4. /\ IsSequence(io') /\ Len(io) \in Nat /\ Len(io) > 0
      /\ Len(io') = Len(io) - 1
      /\ \A i \in 1..(Len(io) - 1) : io'[i] = io[i + 1]
      /\ Head(io) = io[1]
  BY <1>1, <1>2, Served DEF QueueSound
<1>5. IsWrite(io[1]) /\ io[1] # Read
  BY <1>1, <1>2, <1>4 DEF QueueSound
<1>6. SnapshotSound' /\ IntervalSound'
  BY <1>1, <1>3 DEF SnapshotSound, TypeOK, Txns, IntervalSound, TimerMatchesPlaying
<1>7. QueueSound'
  <2>1. \A i \in 1..Len(io') : i + 1 \in 1..Len(io) /\ i + 1 # 1 /\ io'[i] = io[i + 1]
    BY <1>4
  <2>2. \A i, j \in 1..Len(io') : i + 1 = j + 1 => i = j
    BY <1>4
  <2>3. \A i \in 1..Len(io') : io'[i] = Read \/ IsWrite(io'[i])
    BY <1>1, <2>1 DEF QueueSound
  <2>4. \A i \in 1..Len(io') : io'[i] = Read => load = "reading"
    BY <1>1, <2>1 DEF QueueSound
  <2>5. \A i, j \in 1..Len(io') : io'[i] = Read /\ io'[j] = Read => i = j
    BY <1>1, <2>1, <2>2 DEF QueueSound
  <2>6. load = "reading" => \E i \in 1..Len(io') : io'[i] = Read
    <3> SUFFICES ASSUME load = "reading" PROVE \E i \in 1..Len(io') : io'[i] = Read
      OBVIOUS
    <3>1. PICK k \in 1..Len(io) : io[k] = Read
      BY <1>1 DEF QueueSound
    <3>2. k - 1 \in 1..Len(io') /\ (k - 1) + 1 = k
      BY <1>4, <1>5, <3>1
    <3>3. io'[k - 1] = Read
      BY <2>1, <3>1, <3>2
    <3> QED
      BY <3>2, <3>3
  <2> QED
    BY <1>3, <1>4, <2>3, <2>4, <2>5, <2>6 DEF QueueSound
<1>8. \/ disk' = (IF io[1] = Clear THEN << >> ELSE << io[1].value >>) /\ refusals' = refusals
      \/ disk' = disk /\ refusals' # 0
  BY <1>4 DEF ServeWrite
<1>9. DiskSound'
  <2>1. CASE disk' = disk
    BY <1>1, <2>1 DEF DiskSound
  <2>2. CASE disk' = (IF io[1] = Clear THEN << >> ELSE << io[1].value >>)
    BY <1>5, <2>2 DEF DiskSound, IsWrite
  <2> QED
    BY <1>8, <2>1, <2>2
<1>10. LastWord'
  <2> SUFFICES ASSUME refusals' = 0 PROVE LastWord'
    BY DEF LastWord
  <2>1. refusals = 0 /\ disk' = (IF io[1] = Clear THEN << >> ELSE << io[1].value >>)
    BY <1>8
  <2>2. PICK p : p = Promised
    OBVIOUS
  <2>3. (Due' <=> Due) /\ (Agrees(p)' <=> Agrees(p))
    BY <1>3 DEF Due, Agrees
  <2>4. CASE Len(io) = 1
    <3>1. WritesPending /\ LastOp = io[1] /\ ~WritesPending'
      BY <1>4, <1>5, <2>4 DEF WritesPending, LastOp
    <3>2. Promised' = Promised
      BY <2>1, <3>1 DEF Promised
    <3>3. load # "reading"
      BY <1>1, <1>5, <2>4 DEF QueueSound
    <3> QED
      BY <1>1, <1>3, <2>1, <2>2, <2>3, <3>1, <3>2, <3>3 DEF LastWord
  <2>5. CASE Len(io) # 1
    <3>1. Len(io') \in 1..(Len(io) - 1) /\ Len(io') + 1 = Len(io) /\ Len(io') > 0
      BY <1>4, <2>5
    <3>2. LastOp' = LastOp
      BY <1>4, <3>1 DEF LastOp
    <3>3. WritesPending' <=> WritesPending
      BY <1>4, <3>1, <3>2 DEF WritesPending
    <3>4. CASE WritesPending
      <4>1. Promised' = Promised
        BY <3>2, <3>3, <3>4 DEF Promised
      <4> QED
        BY <1>1, <1>3, <2>1, <2>2, <2>3, <3>3, <3>4, <4>1 DEF LastWord
    <3>5. CASE ~WritesPending
      <4>1. LastOp = Read /\ Len(io) \in 1..Len(io)
        BY <1>4, <3>5 DEF WritesPending
      <4>2. load = "reading"
        BY <1>1, <4>1 DEF QueueSound, LastOp
      <4>3. snapshot.dataset = Shipped
        BY <1>1, <2>1, <3>5, <4>2 DEF LastWord
      <4> QED
        BY <1>3, <2>3, <3>3, <3>5, <4>2, <4>3 DEF LastWord, Due
    <3> QED
      BY <3>4, <3>5
  <2> QED
    BY <2>4, <2>5
<1> QED
  BY <1>6, <1>7, <1>9, <1>10 DEF SessionInv

-----------------------------------------------------------------------------
(* The theorems *)

LEMMA NextSound ==
  SessionInv /\ refusals \in Nat /\ [Next]_vars => SessionInv' /\ refusals' \in Nat
<1> SUFFICES ASSUME SessionInv, refusals \in Nat, [Next]_vars
             PROVE  SessionInv' /\ refusals' \in Nat
  OBVIOUS
<1>1. CASE EnsureLoaded
  BY <1>1, EnsureLoadedSound DEF EnsureLoaded
<1>2. CASE LoadSucceeds
  BY <1>2, LoadSucceedsSound DEF LoadSucceeds
<1>3. CASE LoadFails
  BY <1>3, LoadFailsSound DEF LoadFails
<1>4. CASE ServeRead
  BY <1>4, ServeReadSound DEF ServeRead
<1>5. CASE ServeWrite
  BY <1>5, ServeWriteSound DEF ServeWrite
<1>6. CASE Reload
  BY <1>6, ReloadSound DEF Reload
<1>7. ASSUME NEW d \in Imports, LoadImported(d) PROVE SessionInv' /\ refusals' \in Nat
  BY <1>7, LoadImportedSound DEF LoadImported
<1>8. CASE RestoreShipped
  BY <1>8, RestoreShippedSound DEF RestoreShipped
<1>9. CASE Reset
  BY <1>9, ResetSound DEF Reset
<1>10. CASE Play
  BY <1>10, PlaySound DEF Play
<1>11. CASE Pause
  BY <1>11, PauseSound DEF Pause
<1>12. CASE Tick
  BY <1>12, TickSound DEF Tick
<1>13. CASE Step
  BY <1>13, StepButtonSound DEF Step
<1>14. CASE PersistTimerFires
  BY <1>14, PersistTimerFiresSound DEF PersistTimerFires
<1>15. ASSUME NEW v \in Speeds, SetSpeed(v) PROVE SessionInv' /\ refusals' \in Nat
  BY <1>15, SetSpeedSound DEF SetSpeed
<1>16. ASSUME NEW payee \in Payees, NEW mule \in BOOLEAN, Submit(payee, mule)
       PROVE  SessionInv' /\ refusals' \in Nat
  BY <1>16, SubmitSound DEF Submit
<1>17. ASSUME NEW s \in Scenarios, NEW eligible \in SUBSET Payers, Inject(s, eligible)
       PROVE  SessionInv' /\ refusals' \in Nat
  BY <1>17, InjectSound DEF Inject
<1>18. ASSUME NEW i \in DOMAIN Policies, SetPolicy(Policies[i])
       PROVE  SessionInv' /\ refusals' \in Nat
  BY <1>18, SetPolicySound DEF SetPolicy
<1>19. CASE Sweep \/ SliceSamples \/ \E t \in Seen : ResolveHold(t.id)
  <2>1. Sweep \/ SliceSamples \/ \E id : ResolveHold(id)
    BY <1>19
  <2> QED
    BY <2>1, EngineCallsSound DEF Sweep, SliceSamples, ResolveHold
<1>20. CASE UNCHANGED vars
  <2>1. SameRun(snapshot', snapshot) /\ IntervalSound'
    BY <1>20 DEF vars, SessionInv, SnapshotSound, SameRun, IntervalSound, TimerMatchesPlaying
  <2> QED
    BY <1>20, <2>1, SameRunIsSound DEF vars
<1> QED
  BY <1>1, <1>2, <1>3, <1>4, <1>5, <1>6, <1>7, <1>8, <1>9, <1>10, <1>11, <1>12, <1>13, <1>14,
     <1>15, <1>16, <1>17, <1>18, <1>19, <1>20 DEF Next

LEMMA SessionInvariant == Spec => [](SessionInv /\ refusals \in Nat)
<1>1. Init => SessionInv /\ refusals \in Nat
  BY InitSound DEF Init
<1>2. (SessionInv /\ refusals \in Nat) /\ [Next]_vars => (SessionInv /\ refusals \in Nat)'
  BY NextSound
<1> QED
  BY <1>1, <1>2, PTL DEF Spec

(* The session keeps its shape: the cursor never leaves the slice on       *)
(* screen, the dataset shown is the import unless there is none, and there *)
(* is a model exactly while the status is ready.                           *)
THEOREM SessionTypeCorrect == Spec => []TypeOK
<1>1. SessionInv => TypeOK
  BY DEF SessionInv, SnapshotSound
<1> QED
  BY <1>1, SessionInvariant, PTL

(* There is an interval exactly while the feed plays, and only when there  *)
(* is something to play.                                                   *)
THEOREM NoIntervalIsLeftBehind == Spec => []TimerMatchesPlaying
<1>1. SessionInv => TimerMatchesPlaying
  BY DEF SessionInv, IntervalSound
<1> QED
  BY <1>1, SessionInvariant, PTL

(* Whatever was imported, put away, stepped, reset or reloaded in between, *)
(* and in whatever order the storage and the debounced save came: once the *)
(* storage has caught up it holds nothing under the shipped corpus, and    *)
(* under an import the import at the position on screen, unless it was     *)
(* rewound, erased or overtaken since the last save.                       *)
THEOREM StorageTellsTheScreen == Spec => []StorageCatchesUp
<1>1. SessionInv => StorageCatchesUp
  <2> SUFFICES ASSUME SessionInv, snapshot.model, refusals = 0, io = << >>, ~persistTimer
               PROVE  /\ snapshot.dataset = Shipped => disk = << >>
                      /\ snapshot.dataset # Shipped => Agrees(disk)
    BY DEF StorageCatchesUp
  <2>1. LastWord /\ ~WritesPending
    BY EmptyHasNoLength DEF SessionInv, WritesPending
  <2>2. load \in {"done", "dropped"}
    <3>1. ~\E i \in 1..Len(io) : TRUE
      BY EmptyHasNoLength
    <3>2. load # "reading"
      BY <3>1 DEF SessionInv, QueueSound
    <3> QED
      BY <3>2 DEF SessionInv, SnapshotSound, TypeOK
  <2>3. Promised = disk
    BY <2>1 DEF Promised
  <2> QED
    BY <2>1, <2>2, <2>3 DEF LastWord, Due
<1> QED
  BY <1>1, SessionInvariant, PTL
-----------------------------------------------------------------------------
(***************************************************************************)
(* The feed.  The invariant above says what the screen looks like;         *)
(* FeedSound says what the engine behind it went through.  The parts:      *)
(* engines and one more call; the feed, which is the replayed calls; the   *)
(* policy in force; what the calls were told, by the latest moment         *)
(* reached; an engine of which all this holds; the steps that take         *)
(* payments; the inductive invariant and the theorem.                      *)
(***************************************************************************)

(* Engines and their calls *)

IsEngine(e) ==
  /\ e = [policy |-> e.policy, calls |-> e.calls, intel |-> e.intel, flagged |-> e.flagged,
          confirmed |-> e.confirmed, victims |-> e.victims, scratch |-> e.scratch]
  /\ IsSequence(e.calls)

(* r is an engine of the same policy that has taken one more call than e.  *)
OneMore(r, e, c) ==
  /\ IsEngine(r)
  /\ r.calls = Append(e.calls, c)
  /\ r.policy = e.policy /\ r.scratch = e.scratch

LEMMA OneMoreCall ==
  ASSUME NEW e, IsEngine(e), NEW r, NEW c, OneMore(r, e, c)
  PROVE  /\ Len(e.calls) \in Nat
         /\ DOMAIN e.calls = 1..Len(e.calls) /\ DOMAIN r.calls = 1..(Len(e.calls) + 1)
         /\ Len(r.calls) = Len(e.calls) + 1
         /\ \A i \in 1..Len(e.calls) : r.calls[i] = e.calls[i]
         /\ r.calls[Len(e.calls) + 1] = c
<1>1. /\ Len(e.calls) \in Nat /\ Len(Append(e.calls, c)) = Len(e.calls) + 1
      /\ \A i \in 1..Len(e.calls) : Append(e.calls, c)[i] = e.calls[i]
      /\ Append(e.calls, c)[Len(e.calls) + 1] = c
  BY Appended DEF IsEngine
<1>2. DOMAIN e.calls = 1..Len(e.calls) /\ DOMAIN r.calls = 1..Len(r.calls)
  BY LengthIsNatural DEF IsEngine, OneMore
<1> QED
  BY <1>1, <1>2 DEF OneMore

(* A call made on e whose other fields become i, f, k and v.               *)
LEMMA CallMade ==
  ASSUME NEW e, IsEngine(e), NEW c, NEW i, NEW f, NEW k, NEW v,
         NEW r, r = [policy |-> e.policy, calls |-> Append(e.calls, c), intel |-> i, flagged |-> f,
                     confirmed |-> k, victims |-> v, scratch |-> e.scratch]
  PROVE  OneMore(r, e, c) /\ r.intel = i /\ r.flagged = f /\ r.confirmed = k /\ r.victims = v
<1>1. PICK q, p, s : q = Append(e.calls, c) /\ p = e.policy /\ s = e.scratch
  OBVIOUS
<1>2. r = [policy |-> p, calls |-> q, intel |-> i, flagged |-> f, confirmed |-> k,
           victims |-> v, scratch |-> s]
  BY <1>1
<1>3. /\ r.policy = p /\ r.calls = q /\ r.intel = i /\ r.flagged = f /\ r.confirmed = k
      /\ r.victims = v /\ r.scratch = s
  BY <1>2
<1>4. IsSequence(q)
  BY <1>1, Appended DEF IsEngine
<1>5. IsEngine(r)
  BY <1>2, <1>3, <1>4 DEF IsEngine
<1> QED
  BY <1>1, <1>3, <1>5 DEF OneMore

-----------------------------------------------------------------------------
(* The feed *)

(* e has replayed the first n payments of d. *)
RunOf(e, d, n) ==
  /\ Cardinality(ReplayedAt(e)) = n
  /\ \A i \in ReplayedAt(e) :
       e.calls[i].txn = Txns(d)[Cardinality({j \in ReplayedAt(e) : j <= i})]

LEMMA ReplayedIsFinite ==
  ASSUME NEW e, IsEngine(e)
  PROVE  IsFiniteSet(ReplayedAt(e)) /\ ReplayedAt(e) \subseteq 1..Len(e.calls) /\ Len(e.calls) \in Nat
<1>1. ReplayedAt(e) \subseteq 1..Len(e.calls) /\ Len(e.calls) \in Nat
  BY LengthIsNatural DEF ReplayedAt, IsEngine
<1>2. IsFiniteSet(1..Len(e.calls))
  BY <1>1, FS_Interval
<1> QED
  BY <1>1, <1>2, FS_Subset

IsReplay(c) == c.call = "authorize" /\ c.source = "replayed"

LEMMA RunGrows ==
  ASSUME NEW e, IsEngine(e), NEW r, NEW c, OneMore(r, e, c), IsReplay(c),
         NEW d, NEW n \in Nat, RunOf(e, d, n), c.txn = Txns(d)[n + 1]
  PROVE  RunOf(r, d, n + 1)
<1> DEFINE R == ReplayedAt(e)
           l == Len(e.calls)
           Q == ReplayedAt(r)
<1>1. /\ l \in Nat /\ DOMAIN r.calls = 1..(l + 1) /\ DOMAIN e.calls = 1..l
      /\ \A i \in 1..l : r.calls[i] = e.calls[i]
      /\ r.calls[l + 1] = c
  BY OneMoreCall
<1>2. IsFiniteSet(R) /\ R \subseteq 1..l
  BY ReplayedIsFinite
<1> HIDE DEF l
<1>3. Q = R \cup {l + 1}
  <2>1. ASSUME NEW i \in 1..l PROVE i \in Q <=> i \in R
    <3>1. i \in 1..(l + 1)
      BY <1>1
    <3> QED
      BY <1>1, <3>1 DEF ReplayedAt
  <2>2. l + 1 \in Q
    <3>1. l + 1 \in 1..(l + 1)
      BY <1>1
    <3> QED
      BY <1>1, <3>1 DEF ReplayedAt, IsReplay
  <2>3. Q \subseteq 1..l \cup {l + 1}
    <3>1. 1..(l + 1) = 1..l \cup {l + 1}
      BY <1>1
    <3> QED
      BY <1>1, <3>1 DEF ReplayedAt
  <2> QED
    BY <1>2, <2>1, <2>2, <2>3
<1>4. RunOf(e, d, n) <=> /\ Cardinality(R) = n
                         /\ \A i \in R : e.calls[i].txn = Txns(d)[Cardinality({j \in R : j <= i})]
  BY DEF RunOf
<1>5. RunOf(r, d, n + 1) <=>
        /\ Cardinality(Q) = n + 1
        /\ \A i \in Q : r.calls[i].txn = Txns(d)[Cardinality({j \in Q : j <= i})]
  BY DEF RunOf
<1> HIDE DEF R, Q
<1>6. l + 1 \notin R
  BY <1>1, <1>2
<1>7. Cardinality(Q) = n + 1
  BY <1>2, <1>3, <1>4, <1>6, FS_AddElement
<1>8. ASSUME NEW i \in R PROVE r.calls[i].txn = Txns(d)[Cardinality({j \in Q : j <= i})]
  <2>1. {j \in Q : j <= i} = {j \in R : j <= i}
    BY <1>1, <1>2, <1>3
  <2>2. r.calls[i] = e.calls[i]
    BY <1>1, <1>2
  <2> QED
    BY <1>4, <2>1, <2>2
<1>9. r.calls[l + 1].txn = Txns(d)[Cardinality({j \in Q : j <= l + 1})]
  <2>1. \A j \in 1..l : j <= l + 1
    BY <1>1
  <2>2. l + 1 <= l + 1
    BY <1>1
  <2>3. \A j \in Q : j <= l + 1
    BY <1>2, <1>3, <2>1, <2>2
  <2>4. {j \in Q : j <= l + 1} = Q
    BY <2>3
  <2> QED
    BY <1>1, <1>7, <2>4
<1> QED
  BY <1>3, <1>5, <1>7, <1>8, <1>9

LEMMA RunKept ==
  ASSUME NEW e, IsEngine(e), NEW r, NEW c, OneMore(r, e, c), ~IsReplay(c),
         NEW d, NEW n, RunOf(e, d, n)
  PROVE  RunOf(r, d, n)
<1> DEFINE l == Len(e.calls)
<1>1. /\ l \in Nat /\ DOMAIN r.calls = 1..(l + 1) /\ DOMAIN e.calls = 1..l
      /\ \A i \in 1..l : r.calls[i] = e.calls[i]
      /\ r.calls[l + 1] = c
  BY OneMoreCall
<1> HIDE DEF l
<1>2. 1..(l + 1) = 1..l \cup {l + 1}
  BY <1>1
<1>3. ReplayedAt(r) = ReplayedAt(e)
  BY <1>1, <1>2 DEF ReplayedAt, IsReplay
<1>4. \A i \in ReplayedAt(e) : r.calls[i] = e.calls[i]
  BY <1>1 DEF ReplayedAt
<1> QED
  BY <1>3, <1>4 DEF RunOf

-----------------------------------------------------------------------------
(* The policy in force *)

LEMMA PolicyKept ==
  ASSUME NEW e, IsEngine(e), NEW r, NEW c, OneMore(r, e, c), c.call # "setPolicy"
  PROVE  PolicyOf(r) = PolicyOf(e)
<1> DEFINE l == Len(e.calls)
<1>1. /\ l \in Nat /\ DOMAIN r.calls = 1..(l + 1) /\ DOMAIN e.calls = 1..l
      /\ \A i \in 1..l : r.calls[i] = e.calls[i]
      /\ r.calls[l + 1] = c
  BY OneMoreCall
<1> HIDE DEF l
<1>2. 1..(l + 1) = 1..l \cup {l + 1}
  BY <1>1
<1>3. ChangedAt(r) = ChangedAt(e) /\ ChangedAt(e) \in SUBSET (0..l)
  BY <1>1, <1>2 DEF ChangedAt
<1>4. ChangedAt(e) # {} => Max(ChangedAt(e)) \in ChangedAt(e)
  BY <1>1, <1>3, MaxExists
<1>5. ChangedAt(e) # {} => r.calls[Max(ChangedAt(e))] = e.calls[Max(ChangedAt(e))]
  BY <1>1, <1>4 DEF ChangedAt
<1>6. r.policy = e.policy
  BY DEF OneMore
<1> QED
  BY <1>3, <1>5, <1>6 DEF PolicyOf

LEMMA PolicyChanged ==
  ASSUME NEW e, IsEngine(e), NEW r, NEW c, OneMore(r, e, c), c.call = "setPolicy"
  PROVE  PolicyOf(r) = c.policy
<1> DEFINE l == Len(e.calls)
           W == ChangedAt(r)
<1>1. /\ l \in Nat /\ DOMAIN r.calls = 1..(l + 1) /\ r.calls[l + 1] = c
  BY OneMoreCall
<1>2. l + 1 \in W /\ W \in SUBSET (0..(l + 1))
  BY <1>1 DEF ChangedAt
<1>3. PolicyOf(r) = IF W = {} THEN r.policy ELSE r.calls[Max(W)].policy
  BY DEF PolicyOf
<1> HIDE DEF l, W
<1>4. Max(W) \in W /\ \A x \in W : x <= Max(W)
  <2>1. l + 1 \in Nat /\ W # {}
    BY <1>1, <1>2
  <2> QED
    BY <1>2, <2>1, MaxExists
<1>5. Max(W) = l + 1
  <2>1. Max(W) \in 0..(l + 1) /\ l + 1 <= Max(W)
    BY <1>2, <1>4
  <2> QED
    BY <1>1, <2>1
<1> QED
  BY <1>1, <1>2, <1>3, <1>5

-----------------------------------------------------------------------------
(* What the calls were told *)

(* h is the greatest of S. *)
IsTop(h, S) == S \subseteq Int /\ h \in S /\ \A x \in S : x <= h

LEMMA TopIsMax ==
  ASSUME NEW h, NEW S, IsTop(h, S) PROVE Max(S) = h
<1>1. \E x \in S : \A y \in S : x >= y
  BY DEF IsTop
<1>2. PICK m : m = Max(S)
  OBVIOUS
<1>3. m \in S /\ \A y \in S : m >= y
  BY <1>1, <1>2 DEF Max
<1>4. m \in Int /\ h \in Int /\ m >= h /\ m <= h
  BY <1>3 DEF IsTop
<1> QED
  BY <1>2, <1>4

LEMMA TopGrows ==
  ASSUME NEW h, NEW S, IsTop(h, S), NEW t \in Int
  PROVE  \E g \in Int : IsTop(g, S \cup {t}) /\ h <= g /\ t <= g /\ (g = h \/ g = t)
<1>1. h \in Int
  BY DEF IsTop
<1>2. CASE t <= h
  BY <1>1, <1>2 DEF IsTop
<1>3. CASE h < t
  <2>1. IsTop(t, S \cup {t})
    BY <1>1, <1>3 DEF IsTop
  <2> QED
    BY <1>1, <1>3, <2>1
<1> QED
  BY <1>1, <1>2, <1>3

AuthorizedBy(e, i) == {j \in 1..i : e.calls[j].call = "authorize"}

(* The moments a session with dataset d had reached by call i.             *)
Reached(e, d, i) == {Corpus[d].from - 1} \cup {e.calls[k].txn.ts : k \in AuthorizedBy(e, i)}

LEMMA HorizonIsTop ==
  ASSUME NEW e, NEW d, NEW i, NEW h, IsTop(h, Reached(e, d, i)) PROVE Horizon(e, d, i) = h
<1>1. Horizon(e, d, i) = Max(Reached(e, d, i))
  BY DEF Horizon, Reached, AuthorizedBy
<1> QED
  BY <1>1, TopIsMax

(* Only a payment moves the horizon. *)
HorizonMoves(r, e, c, d) ==
  /\ \A i \in 1..Len(e.calls) : Reached(r, d, i) = Reached(e, d, i)
  /\ c.call = "authorize" =>
       Reached(r, d, Len(e.calls) + 1) = Reached(e, d, Len(e.calls)) \cup {c.txn.ts}
  /\ c.call # "authorize" =>
       Reached(r, d, Len(e.calls) + 1) = Reached(e, d, Len(e.calls))

LEMMA ReachedKept ==
  ASSUME NEW e, IsEngine(e), NEW r, NEW c, OneMore(r, e, c), NEW d
  PROVE  HorizonMoves(r, e, c, d)
<1> DEFINE l == Len(e.calls)
<1>1. /\ l \in Nat /\ \A i \in 1..l : r.calls[i] = e.calls[i]
      /\ r.calls[l + 1] = c
  BY OneMoreCall
<1> HIDE DEF l
<1>2. 1..(l + 1) = 1..l \cup {l + 1} /\ l + 1 \notin 1..l
  BY <1>1
<1>3. ASSUME NEW i \in 0..l PROVE Reached(r, d, i) = Reached(e, d, i)
  <2>1. 1..i \subseteq 1..l
    BY <1>1
  <2>2. AuthorizedBy(r, i) = AuthorizedBy(e, i) /\ AuthorizedBy(e, i) \subseteq 1..l
    BY <1>1, <2>1 DEF AuthorizedBy
  <2>3. \A k \in AuthorizedBy(e, i) : r.calls[k] = e.calls[k]
    BY <1>1, <2>2
  <2> QED
    BY <2>2, <2>3 DEF Reached
<1>4. Reached(r, d, l) = Reached(e, d, l)
  BY <1>1, <1>3
<1>5. CASE c.call = "authorize"
  <2>1. AuthorizedBy(r, l + 1) = AuthorizedBy(r, l) \cup {l + 1}
    BY <1>1, <1>2, <1>5 DEF AuthorizedBy
  <2>2. Reached(r, d, l + 1) = Reached(r, d, l) \cup {c.txn.ts}
    BY <1>1, <2>1 DEF Reached
  <2> QED
    BY <1>1, <1>3, <1>4, <1>5, <2>2 DEF l, HorizonMoves
<1>6. CASE c.call # "authorize"
  <2>1. AuthorizedBy(r, l + 1) = AuthorizedBy(r, l)
    BY <1>1, <1>2, <1>6 DEF AuthorizedBy
  <2>2. Reached(r, d, l + 1) = Reached(r, d, l)
    BY <2>1 DEF Reached
  <2> QED
    BY <1>1, <1>3, <1>4, <1>6, <2>2 DEF l, HorizonMoves
<1> QED
  BY <1>5, <1>6

(* Somebody asserted that p is a mule before call i. *)
DeclaredBefore(e, p, i) == \E f \in e.flagged : f[1] = p /\ f[2] < i

(* Call i was told what stands at moment h and what was declared by hand.  *)
ToldAt(e, d, i, h) ==
  LET c == e.calls[i]
      asserted == AssertedBy(Corpus[d].intel, c.txn.payee, h)
  IN  /\ IsTop(h, Reached(e, d, i))
      /\ c.confirmed = (asserted.confirmed \/ DeclaredBefore(e, c.txn.payee, i))
      /\ c.hop = asserted.hop

(* The timeline stands at h, the latest moment reached, and who is         *)
(* confirmed was asserted by then or declared by hand.                     *)
StandsAtHorizon(e, d, h) ==
  /\ IsTop(h, Reached(e, d, Len(e.calls)))
  /\ StandsAt(e.intel, h)
  /\ \A p \in e.confirmed :
       AssertedBy(Corpus[d].intel, p, h).confirmed \/ \E f \in e.flagged : f[1] = p

FlagsSound(e) ==
  \A f \in e.flagged : f[1] \in e.confirmed /\ f[2] \in 0..Len(e.calls)

CallsTold(e, d) ==
  \A i \in 1..Len(e.calls) : e.calls[i].call = "authorize" => \E h \in Int : ToldAt(e, d, i, h)

Told(e, d) ==
  /\ TimelineOf(e.intel, Corpus[d].intel)
  /\ \E h \in Int : StandsAtHorizon(e, d, h)
  /\ FlagsSound(e)
  /\ CallsTold(e, d)

LEMMA CorpusIsIntel == ASSUME NEW d \in Datasets PROVE IsIntel(Corpus[d].intel)
<1>1. PICK q : q = Corpus[d].intel
  OBVIOUS
<1>2. q \in Seq(ToSet(q)) /\ \A x \in ToSet(q) : x.ts \in Int /\ x.hop \in Nat
  BY <1>1, ConsoleAssumption
<1>3. \A i \in 1..Len(q) : q[i] \in ToSet(q)
  BY <1>2 DEF ToSet
<1> QED
  BY <1>1, <1>2, <1>3 DEF IsIntel, IsSequence

(* What stands at a moment still stands later. *)
LEMMA ConfirmedStays ==
  ASSUME NEW all, IsIntel(all), NEW p, NEW h \in Int, NEW g \in Int, h <= g,
         AssertedBy(all, p, h).confirmed
  PROVE  AssertedBy(all, p, g).confirmed
<1> DEFINE about(m) == {all[i].hop : i \in {k \in DOMAIN all : all[k].payee = p /\ all[k].ts <= m}}
<1>1. \A m : AssertedBy(all, p, m).confirmed = (0 \in about(m))
  BY DEF AssertedBy
<1>2. \A k \in DOMAIN all : all[k].ts \in Int
  BY LengthIsNatural DEF IsIntel
<1>3. 0 \in about(h)
  BY <1>1
<1>4. 0 \in about(g)
  BY <1>2, <1>3
<1> HIDE DEF about
<1> QED
  BY <1>1, <1>4

LEMMA AssertedIsBoolean ==
  ASSUME NEW all, NEW p, NEW h PROVE AssertedBy(all, p, h).confirmed \in BOOLEAN
<1> DEFINE about == {all[i].hop : i \in {k \in DOMAIN all : all[k].payee = p /\ all[k].ts <= h}}
<1>1. AssertedBy(all, p, h).confirmed = (0 \in about)
  BY DEF AssertedBy
<1> HIDE DEF about
<1> QED
  BY <1>1


(* One more call leaves what the earlier ones were told. *)
LEMMA CallsToldKept ==
  ASSUME NEW e, IsEngine(e), NEW r, NEW c, OneMore(r, e, c), r.flagged = e.flagged,
         NEW d, CallsTold(e, d)
  PROVE  \A i \in 1..Len(e.calls) :
           r.calls[i].call = "authorize" => \E h \in Int : ToldAt(r, d, i, h)
<1> TAKE i \in 1..Len(e.calls)
<1>1. r.calls[i] = e.calls[i]
  BY OneMoreCall
<1>2. Reached(r, d, i) = Reached(e, d, i)
  BY ReachedKept DEF HorizonMoves
<1> SUFFICES ASSUME e.calls[i].call = "authorize" PROVE \E h \in Int : ToldAt(r, d, i, h)
  BY <1>1
<1>3. PICK h \in Int : ToldAt(e, d, i, h)
  BY DEF CallsTold
<1>4. ToldAt(r, d, i, h) <=> ToldAt(e, d, i, h)
  BY <1>1, <1>2 DEF ToldAt, DeclaredBefore
<1> QED
  BY <1>3, <1>4

(* A call that is not a payment tells nothing. *)
LEMMA OtherCallTold ==
  ASSUME NEW e, IsEngine(e), NEW r, NEW c, OneMore(r, e, c), c.call # "authorize",
         r.intel = e.intel, r.flagged = e.flagged, r.confirmed = e.confirmed,
         NEW d, Told(e, d)
  PROVE  Told(r, d)
<1>1. /\ Len(e.calls) \in Nat /\ Len(r.calls) = Len(e.calls) + 1
      /\ r.calls[Len(e.calls) + 1] = c
  BY OneMoreCall
<1>2. \A i \in 1..Len(r.calls) : i \in 1..Len(e.calls) \/ i = Len(e.calls) + 1
  BY <1>1
<1>3. CallsTold(r, d)
  <2>1. \A i \in 1..Len(e.calls) :
          r.calls[i].call = "authorize" => \E h \in Int : ToldAt(r, d, i, h)
    BY CallsToldKept DEF Told
  <2> QED
    BY <1>1, <1>2, <2>1 DEF CallsTold
<1>4. \E h \in Int : StandsAtHorizon(r, d, h)
  <2>1. PICK h \in Int : StandsAtHorizon(e, d, h)
    BY DEF Told
  <2>2. Reached(r, d, Len(r.calls)) = Reached(e, d, Len(e.calls))
    <3>1. c.call # "authorize" =>
            Reached(r, d, Len(e.calls) + 1) = Reached(e, d, Len(e.calls))
      <4>1. HorizonMoves(r, e, c, d)
        BY ReachedKept
      <4> QED
        BY <4>1 DEF HorizonMoves
    <3> QED
      BY <1>1, <3>1
  <2>3. StandsAtHorizon(r, d, h)
    BY <2>1, <2>2 DEF StandsAtHorizon
  <2> QED
    BY <2>3
<1>5. FlagsSound(r)
  <2>1. \A n \in 0..Len(e.calls) : n \in 0..Len(r.calls)
    BY <1>1
  <2> QED
    BY <2>1 DEF FlagsSound, Told
<1>6. TimelineOf(r.intel, Corpus[d].intel)
  BY DEF Told
<1> QED
  BY <1>3, <1>4, <1>5, <1>6 DEF Told

(* What a payment was told when it was scored. *)
ScoredWith(r, e, c, txn) ==
  /\ c.call = "authorize" /\ c.txn = txn
  /\ r.intel = AdvanceTo(e.intel, txn.ts)
  /\ c.confirmed = (Lookup(r.intel, txn.payee).confirmed \/ txn.payee \in e.confirmed)
  /\ c.hop = Lookup(r.intel, txn.payee).hop
  /\ r.confirmed = IF c.confirmed THEN e.confirmed \cup {txn.payee} ELSE e.confirmed
  /\ r.flagged = e.flagged

LEMMA PaymentTold ==
  ASSUME NEW e, IsEngine(e), NEW r, NEW c, OneMore(r, e, c),
         NEW txn, txn.ts \in Int, ScoredWith(r, e, c, txn),
         NEW d \in Datasets, Told(e, d)
  PROVE  Told(r, d)
<1> DEFINE l == Len(e.calls)
           all == Corpus[d].intel
           p == txn.payee
<1>1. /\ l \in Nat /\ Len(r.calls) = l + 1
      /\ r.calls[l + 1] = c
  BY OneMoreCall
<1>2. \A i \in 1..Len(r.calls) : i \in 1..l \/ i = l + 1
  BY <1>1
<1>3. IsIntel(all)
  BY CorpusIsIntel
<1>4. PICK h \in Int : StandsAtHorizon(e, d, h)
  BY DEF Told
<1>5. PICK g \in Int : /\ IsTop(g, Reached(e, d, l) \cup {txn.ts})
                       /\ h <= g /\ txn.ts <= g /\ (g = h \/ g = txn.ts)
  <2>1. IsTop(h, Reached(e, d, l))
    BY <1>4 DEF StandsAtHorizon
  <2> HIDE DEF l
  <2>2. \E g \in Int : /\ IsTop(g, Reached(e, d, l) \cup {txn.ts})
                       /\ h <= g /\ txn.ts <= g /\ (g = h \/ g = txn.ts)
    BY <2>1, TopGrows
  <2> QED
    BY <2>2
<1>6. IsTop(g, Reached(r, d, l + 1))
  <2>1. c.call = "authorize" /\ c.txn = txn
    BY DEF ScoredWith
  <2>2. c.call = "authorize" => Reached(r, d, l + 1) = Reached(e, d, l) \cup {c.txn.ts}
    <3>1. HorizonMoves(r, e, c, d)
      BY ReachedKept
    <3> QED
      BY <3>1 DEF HorizonMoves
  <2> QED
    BY <1>5, <2>1, <2>2
<1>7. TimelineOf(r.intel, all) /\ MovedOn(r.intel, e.intel, txn.ts)
  BY AdvanceMovesOn DEF Told, ScoredWith
<1>8. StandsAt(r.intel, g)
  <2>1. IsIntel(e.intel.events) /\ StandsAt(e.intel, h)
    BY <1>4 DEF Told, TimelineOf, StandsAtHorizon
  <2> SUFFICES ASSUME NEW i \in 1..Len(r.intel.events)
               PROVE  i <= r.intel.cursor <=> r.intel.events[i].ts <= g
    BY DEF StandsAt
  <2>2. r.intel.events = e.intel.events /\ i \in 1..Len(e.intel.events)
    BY <1>7 DEF MovedOn
  <2>3. /\ i <= r.intel.cursor <=> (i <= e.intel.cursor \/ e.intel.events[i].ts <= txn.ts)
        /\ i <= e.intel.cursor <=> e.intel.events[i].ts <= h
    BY <1>7, <2>1, <2>2 DEF MovedOn, StandsAt
  <2>4. PICK t : t = e.intel.events[i].ts
    OBVIOUS
  <2>5. t \in Int
    BY <2>1, <2>2, <2>4 DEF IsIntel
  <2>6. t <= g <=> (t <= h \/ t <= txn.ts)
    BY <1>5, <2>5
  <2> QED
    BY <2>2, <2>3, <2>4, <2>6
<1> DEFINE a == AssertedBy(all, p, g)
<1>9. Lookup(r.intel, p) = a
  BY <1>3, <1>7, <1>8, LookupTellsWhatWasAsserted
<1>10. a.confirmed \in BOOLEAN
  BY AssertedIsBoolean
<1>11. \A q : AssertedBy(all, q, h).confirmed => AssertedBy(all, q, g).confirmed
  BY <1>3, <1>5, ConfirmedStays
<1>12. FlagsSound(e) /\ \A f \in e.flagged : f[2] \in 0..l /\ f[2] < l + 1
  <2>1. FlagsSound(e)
    BY DEF Told
  <2>2. \A n \in 0..l : n < l + 1
    BY <1>1
  <2> QED
    BY <2>1, <2>2 DEF FlagsSound
<1>13. DeclaredBefore(r, p, l + 1) <=> \E f \in e.flagged : f[1] = p
  BY <1>12 DEF DeclaredBefore, ScoredWith
<1>14. \A q \in e.confirmed :
         AssertedBy(all, q, g).confirmed \/ \E f \in e.flagged : f[1] = q
  BY <1>4, <1>11 DEF StandsAtHorizon
<1>15. \A q : (\E f \in e.flagged : f[1] = q) => q \in e.confirmed
  BY <1>12 DEF FlagsSound
<1>16. (a.confirmed \/ p \in e.confirmed) <=> (a.confirmed \/ DeclaredBefore(r, p, l + 1))
  BY <1>13, <1>14, <1>15
<1>17. c.confirmed = (a.confirmed \/ p \in e.confirmed) /\ c.hop = a.hop
  BY <1>9 DEF ScoredWith
<1> HIDE DEF a, l, all
<1>18. c.confirmed = (a.confirmed \/ DeclaredBefore(r, p, l + 1))
  <2>1. CASE a.confirmed \/ p \in e.confirmed
    <3>1. (a.confirmed \/ p \in e.confirmed) = TRUE
      BY <2>1
    <3>2. (a.confirmed \/ DeclaredBefore(r, p, l + 1)) = TRUE
      BY <1>16, <2>1
    <3> QED
      BY <1>17, <3>1, <3>2, Zenon
  <2>2. CASE ~(a.confirmed \/ p \in e.confirmed)
    <3>1. (a.confirmed \/ p \in e.confirmed) = FALSE
      BY <2>2
    <3>2. (a.confirmed \/ DeclaredBefore(r, p, l + 1)) = FALSE
      BY <1>16, <2>2
    <3> QED
      BY <1>17, <3>1, <3>2, Zenon
  <2> QED
    BY <2>1, <2>2
<1>19. ToldAt(r, d, l + 1, g)
  <2>1. c.txn.payee = p
    BY DEF ScoredWith
  <2> QED
    BY <1>1, <1>6, <1>17, <1>18, <2>1 DEF ToldAt, a, all
<1>20. CallsTold(r, d)
  <2>1. \A i \in 1..l : r.calls[i].call = "authorize" => \E m \in Int : ToldAt(r, d, i, m)
    BY CallsToldKept DEF Told, ScoredWith, l
  <2> QED
    BY <1>2, <1>19, <2>1 DEF CallsTold
<1>21. StandsAtHorizon(r, d, g)
  <2>1. ASSUME NEW q \in r.confirmed
        PROVE  AssertedBy(all, q, g).confirmed \/ \E f \in r.flagged : f[1] = q
    <3>1. CASE q \in e.confirmed
      BY <1>14, <3>1 DEF ScoredWith
    <3>2. CASE q \notin e.confirmed
      <4>1. c.confirmed /\ q = p
        BY <3>2, <2>1 DEF ScoredWith
      <4>2. a.confirmed \/ p \in e.confirmed
        BY <1>17, <4>1
      <4> QED
        BY <3>2, <4>1, <4>2 DEF a
    <3> QED
      BY <3>1, <3>2
  <2> QED
    BY <1>1, <1>6, <1>8, <2>1 DEF StandsAtHorizon, all
<1>22. FlagsSound(r)
  <2>1. \A n \in 0..l : n \in 0..(l + 1)
    BY <1>1
  <2>2. e.confirmed \subseteq r.confirmed /\ r.flagged = e.flagged
    BY DEF ScoredWith
  <2> QED
    BY <1>1, <1>12, <2>1, <2>2 DEF FlagsSound
<1> QED
  BY <1>7, <1>20, <1>21, <1>22 DEF Told, all


-----------------------------------------------------------------------------
(* An engine of a run *)

(* An engine that replayed the first n payments of d, decides with policy  *)
(* p and was told what there was to tell.                                  *)
EngineOf(e, d, n, p) ==
  /\ IsEngine(e) /\ RunOf(e, d, n) /\ PolicyOf(e) = p /\ Told(e, d)
  /\ e.scratch \in {None, d}

(* What is recorded of a payment. *)
IsPayment(c) ==
  c = [call |-> "authorize", txn |-> c.txn, source |-> c.source, confirmed |-> c.confirmed, hop |-> c.hop]

(* r has scored txn after what e has done. *)
Scores(r, e, txn, source) ==
  \E c : OneMore(r, e, c) /\ ScoredWith(r, e, c, txn) /\ c.source = source /\ IsPayment(c)

LEMMA AuthorizedScores ==
  ASSUME NEW e, IsEngine(e), NEW txn, NEW source
  PROVE  Scores(Authorized(e, txn, source), e, txn, source)
<1> DEFINE r == Authorized(e, txn, source)
<1>1. PICK i : i = AdvanceTo(e.intel, txn.ts)
  OBVIOUS
<1>2. PICK told : told = Lookup(i, txn.payee)
  OBVIOUS
<1>3. PICK b : b = (told.confirmed \/ txn.payee \in e.confirmed)
  OBVIOUS
<1>4. PICK hop : hop = told.hop
  OBVIOUS
<1>5. PICK k : k = IF b THEN e.confirmed \cup {txn.payee} ELSE e.confirmed
  OBVIOUS
<1>6. PICK c : c = [call |-> "authorize", txn |-> txn, source |-> source, confirmed |-> b, hop |-> hop]
  OBVIOUS
<1>7. r = [e EXCEPT !.intel = i,
                    !.confirmed = IF b THEN @ \cup {txn.payee} ELSE @,
                    !.calls = Append(@, c)]
  BY <1>1, <1>2, <1>3, <1>4, <1>6 DEF Authorized
<1>8. r = [policy |-> e.policy, calls |-> Append(e.calls, c), intel |-> i, flagged |-> e.flagged,
           confirmed |-> k, victims |-> e.victims, scratch |-> e.scratch]
  <2>1. PICK a, p, q, f, v, s, g, x :
          /\ a = Append(e.calls, c) /\ p = e.policy /\ q = e.calls /\ f = e.flagged
          /\ v = e.victims /\ s = e.scratch /\ g = e.confirmed /\ x = e.intel
    OBVIOUS
  <2>2. e = [policy |-> p, calls |-> q, intel |-> x, flagged |-> f, confirmed |-> g,
             victims |-> v, scratch |-> s]
    BY <2>1 DEF IsEngine
  <2>3. r = [e EXCEPT !.intel = i, !.confirmed = k, !.calls = a]
    BY <1>5, <1>7, <2>1, <2>2
  <2>4. r = [policy |-> p, calls |-> a, intel |-> i, flagged |-> f, confirmed |-> k,
             victims |-> v, scratch |-> s]
    BY <2>2, <2>3
  <2> QED
    BY <2>1, <2>4
<1> HIDE DEF r
<1>9. OneMore(r, e, c) /\ r.intel = i /\ r.flagged = e.flagged /\ r.confirmed = k
  BY <1>8, CallMade
<1>10. c.call = "authorize" /\ c.txn = txn /\ c.source = source /\ c.confirmed = b /\ c.hop = hop
  BY <1>6
<1>11. ScoredWith(r, e, c, txn)
  BY <1>1, <1>2, <1>3, <1>4, <1>5, <1>9, <1>10 DEF ScoredWith
<1>12. IsPayment(c)
  BY <1>6, <1>10 DEF IsPayment
<1> QED
  BY <1>9, <1>10, <1>11, <1>12 DEF Scores, r

(* Where the feed stands after k payments of a source. *)
Position(source, n, k) == IF source = "replayed" THEN n + k ELSE n

LEMMA PaymentScored ==
  ASSUME NEW d \in Datasets, NEW n \in Nat, NEW p, NEW e, EngineOf(e, d, n, p),
         NEW txn, txn.ts \in Int, NEW source, source = "replayed" => txn = Txns(d)[n + 1]
  PROVE  EngineOf(Authorized(e, txn, source), d, Position(source, n, 1), p)
<1> DEFINE r == Authorized(e, txn, source)
<1>1. IsEngine(e) /\ RunOf(e, d, n) /\ PolicyOf(e) = p /\ Told(e, d) /\ e.scratch \in {None, d}
  BY DEF EngineOf
<1>2. PICK c : OneMore(r, e, c) /\ ScoredWith(r, e, c, txn) /\ c.source = source
  BY <1>1, AuthorizedScores DEF Scores
<1> HIDE DEF r
<1>3. c.call = "authorize" /\ c.txn = txn /\ c.call # "setPolicy"
  BY <1>2 DEF ScoredWith
<1>4. Told(r, d)
  BY <1>1, <1>2, PaymentTold
<1>5. PolicyOf(r) = p
  BY <1>1, <1>2, <1>3, PolicyKept
<1>6. RunOf(r, d, Position(source, n, 1))
  <2>1. CASE source = "replayed"
    <3>1. IsReplay(c) /\ c.txn = Txns(d)[n + 1]
      BY <1>2, <1>3, <2>1 DEF IsReplay
    <3>2. RunOf(r, d, n + 1)
      BY <1>1, <1>2, <3>1, RunGrows
    <3> QED
      BY <2>1, <3>2 DEF Position
  <2>2. CASE source # "replayed"
    <3>1. ~IsReplay(c)
      BY <1>2, <2>2 DEF IsReplay
    <3>2. RunOf(r, d, n)
      BY <1>1, <1>2, <3>1, RunKept
    <3> QED
      BY <2>2, <3>2 DEF Position
  <2> QED
    BY <2>1, <2>2
<1>7. IsEngine(r) /\ r.scratch = e.scratch
  BY <1>2 DEF OneMore
<1> QED
  BY <1>1, <1>4, <1>5, <1>6, <1>7 DEF EngineOf, r

(* The recursion of AuthorizedAll, through the first n payments.            *)
ScoringFollows(f, e, txns, source, n) ==
  /\ f = [i \in 0..n |-> f[i]]
  /\ f[0] = e
  /\ \A i \in 1..n : f[i] = Authorized(f[i - 1], txns[i], source)

LEMMA ScoringExists ==
  ASSUME NEW e, NEW txns, NEW source, NEW n \in Nat
  PROVE  \E f : ScoringFollows(f, e, txns, source, n)
<1> DEFINE T == {k \in Nat : \E f : ScoringFollows(f, e, txns, source, k)}
<1>1. 0 \in T
  <2> DEFINE f == [i \in 0..0 |-> e]
  <2>1. f[0] = e /\ f = [i \in 0..0 |-> f[i]]
    OBVIOUS
  <2> HIDE DEF f
  <2>2. ScoringFollows(f, e, txns, source, 0)
    BY <2>1 DEF ScoringFollows
  <2> QED
    BY <2>2
<1>2. ASSUME NEW k \in Nat, k \in T PROVE k + 1 \in T
  <2>1. PICK f : ScoringFollows(f, e, txns, source, k)
    BY <1>2
  <2>2. PICK next : next = Authorized(f[k], txns[(k + 1)], source)
    OBVIOUS
  <2> DEFINE g == [i \in 0..(k + 1) |-> IF i <= k THEN f[i] ELSE next]
  <2>3. g = [i \in 0..(k + 1) |-> g[i]] /\ g[0] = e
    BY <2>1 DEF ScoringFollows
  <2>4. ASSUME NEW i \in 1..(k + 1) PROVE g[i] = Authorized(g[i - 1], txns[i], source)
    <3>1. g[i - 1] = f[i - 1]
      OBVIOUS
    <3>2. CASE i <= k
      <4>1. i \in 1..k /\ g[i] = f[i]
        BY <3>2
      <4> QED
        BY <2>1, <3>1, <4>1 DEF ScoringFollows
    <3>3. CASE ~(i <= k)
      <4>1. i = k + 1 /\ i - 1 = k /\ g[i] = next
        BY <3>3
      <4> QED
        BY <2>2, <3>1, <4>1
    <3> QED
      BY <3>2, <3>3
  <2> HIDE DEF g
  <2>5. ScoringFollows(g, e, txns, source, k + 1)
    BY <2>3, <2>4 DEF ScoringFollows
  <2> QED
    BY <2>5
<1> HIDE DEF T
<1>3. Nat \subseteq T
  BY <1>1, <1>2, SetInduction
<1>4. n \in T
  BY <1>3
<1> QED
  BY <1>4 DEF T

LEMMA ScoringUnfolds ==
  ASSUME NEW e, NEW txns, NEW source, Len(txns) \in Nat
  PROVE  \E f : ScoringFollows(f, e, txns, source, Len(txns)) /\ AuthorizedAll(e, txns, source) = f[Len(txns)]
<1> DEFINE n == Len(txns)
           Body(g) == [i \in 0..n |-> IF i = 0 THEN e ELSE Authorized(g[i - 1], txns[i], source)]
           after == CHOOSE g : g = Body(g)
<1>1. AuthorizedAll(e, txns, source) = after[n]
  BY DEF AuthorizedAll
<1>2. n \in Nat
  OBVIOUS
<1>3. \E g : g = Body(g)
  <2>1. PICK f : ScoringFollows(f, e, txns, source, n)
    BY <1>2, ScoringExists
  <2>2. f = [i \in 0..n |-> f[i]]
    BY <2>1 DEF ScoringFollows
  <2>3. \A i \in 0..n : f[i] = IF i = 0 THEN e ELSE Authorized(f[i - 1], txns[i], source)
    <3> TAKE i \in 0..n
    <3>1. CASE i = 0
      BY <2>1, <3>1 DEF ScoringFollows
    <3>2. CASE i # 0
      <4>1. i \in 1..n
        BY <1>2, <3>2
      <4> QED
        BY <2>1, <3>2, <4>1 DEF ScoringFollows
    <3> QED
      BY <3>1, <3>2
  <2>4. f = Body(f)
    BY <2>2, <2>3
  <2> QED
    BY <2>4
<1>4. after = Body(after)
  BY <1>3
<1> HIDE DEF after
<1>5. \A i \in 0..n : after[i] = IF i = 0 THEN e ELSE Authorized(after[i - 1], txns[i], source)
  BY <1>4
<1>6. after[0] = e /\ \A i \in 1..n : after[i] = Authorized(after[i - 1], txns[i], source)
  <2>1. 0 \in 0..n /\ \A i \in 1..n : i \in 0..n /\ i # 0
    BY <1>2
  <2> QED
    BY <1>5, <2>1
<1>7. after = [i \in 0..n |-> after[i]]
  BY <1>4
<1> HIDE DEF Body, n
<1>8. ScoringFollows(after, e, txns, source, n)
  BY <1>6, <1>7 DEF ScoringFollows
<1> QED
  BY <1>1, <1>8 DEF n


(* Payments scored one after the other. *)
LEMMA PaymentsScored ==
  ASSUME NEW d \in Datasets, NEW n \in Nat, NEW p, NEW e, EngineOf(e, d, n, p),
         NEW txns, Len(txns) \in Nat, \A i \in 1..Len(txns) : txns[i].ts \in Int,
         NEW source, source = "replayed" => \A i \in 1..Len(txns) : txns[i] = Txns(d)[n + i]
  PROVE  EngineOf(AuthorizedAll(e, txns, source), d, Position(source, n, Len(txns)), p)
<1> DEFINE m == Len(txns)
<1>1. PICK f : ScoringFollows(f, e, txns, source, m) /\ AuthorizedAll(e, txns, source) = f[m]
  BY ScoringUnfolds
<1> DEFINE T == {k \in Nat : k <= m => EngineOf(f[k], d, Position(source, n, k), p)}
<1>2. 0 \in T
  <2>1. f[0] = e /\ Position(source, n, 0) = n
    BY <1>1 DEF ScoringFollows, Position
  <2> QED
    BY <2>1
<1>3. ASSUME NEW k \in Nat, k \in T PROVE k + 1 \in T
  <2> SUFFICES ASSUME k + 1 <= m PROVE EngineOf(f[k + 1], d, Position(source, n, k + 1), p)
    OBVIOUS
  <2>1. k + 1 \in 1..m /\ (k + 1) - 1 = k /\ k <= m
    OBVIOUS
  <2>2. EngineOf(f[k], d, Position(source, n, k), p)
    BY <1>3, <2>1
  <2>3. f[k + 1] = Authorized(f[k], txns[k + 1], source)
    BY <1>1, <2>1 DEF ScoringFollows
  <2>4. PICK j : j = Position(source, n, k)
    OBVIOUS
  <2>5. /\ j \in Nat /\ Position(source, n, k + 1) = Position(source, j, 1)
        /\ source = "replayed" => j + 1 = n + (k + 1)
    BY <2>4 DEF Position
  <2>6. source = "replayed" => txns[k + 1] = Txns(d)[j + 1]
    BY <2>1, <2>5
  <2>7. txns[k + 1].ts \in Int
    BY <2>1
  <2>8. EngineOf(Authorized(f[k], txns[k + 1], source), d, Position(source, j, 1), p)
    BY <2>2, <2>4, <2>5, <2>6, <2>7, PaymentScored
  <2> QED
    BY <2>3, <2>5, <2>8
<1> HIDE DEF T
<1>4. Nat \subseteq T
  BY <1>2, <1>3, SetInduction
<1>5. m \in T
  BY <1>4
<1> QED
  BY <1>1, <1>5 DEF T


(* r is e but for who is flagged and confirmed, the victims and the        *)
(* samples.                                                                *)
Annotated(r, e) ==
  /\ IsEngine(r)
  /\ r.calls = e.calls /\ r.policy = e.policy /\ r.intel = e.intel

LEMMA Annotating ==
  ASSUME NEW e, IsEngine(e), NEW f, NEW k, NEW v, NEW s,
         NEW r, r = [policy |-> e.policy, calls |-> e.calls, intel |-> e.intel, flagged |-> f,
                     confirmed |-> k, victims |-> v, scratch |-> s]
  PROVE  Annotated(r, e) /\ r.flagged = f /\ r.confirmed = k /\ r.victims = v /\ r.scratch = s
<1>1. PICK p, q, x : p = e.policy /\ q = e.calls /\ x = e.intel
  OBVIOUS
<1>2. r = [policy |-> p, calls |-> q, intel |-> x, flagged |-> f, confirmed |-> k,
           victims |-> v, scratch |-> s]
  BY <1>1
<1>3. /\ r.policy = p /\ r.calls = q /\ r.intel = x /\ r.flagged = f /\ r.confirmed = k
      /\ r.victims = v /\ r.scratch = s
  BY <1>2
<1>4. IsSequence(q)
  BY <1>1 DEF IsEngine
<1>5. IsEngine(r)
  BY <1>2, <1>3, <1>4 DEF IsEngine
<1> QED
  BY <1>1, <1>3, <1>5 DEF Annotated

LEMMA AnnotatedRun ==
  ASSUME NEW e, NEW r, Annotated(r, e), NEW d, NEW n, RunOf(e, d, n)
  PROVE  RunOf(r, d, n) /\ PolicyOf(r) = PolicyOf(e)
<1>1. r.calls = e.calls /\ r.policy = e.policy
  BY DEF Annotated
<1>2. ReplayedAt(r) = ReplayedAt(e) /\ ChangedAt(r) = ChangedAt(e)
  BY <1>1 DEF ReplayedAt, ChangedAt
<1> QED
  BY <1>1, <1>2 DEF RunOf, PolicyOf

LEMMA AnnotatedReached ==
  ASSUME NEW e, NEW r, Annotated(r, e), NEW d, NEW i
  PROVE  Reached(r, d, i) = Reached(e, d, i)
BY DEF Annotated, Reached, AuthorizedBy

(* A flag raised now does not change what earlier calls were told. *)
LEMMA FlagRaised ==
  ASSUME NEW e, IsEngine(e), NEW d, Told(e, d), NEW p, NEW r, Annotated(r, e),
         r.flagged = e.flagged \cup {<< p, Len(e.calls) >>},
         r.confirmed = e.confirmed \cup {p}
  PROVE  Told(r, d)
<1>1. r.calls = e.calls /\ r.intel = e.intel /\ Len(e.calls) \in Nat
  BY LengthIsNatural DEF Annotated, IsEngine
<1>2. FlagsSound(r)
  <2>1. FlagsSound(e) /\ Len(e.calls) \in 0..Len(e.calls)
    BY <1>1 DEF Told
  <2> QED
    BY <1>1, <2>1 DEF FlagsSound
<1>3. ASSUME NEW i \in 1..Len(e.calls), NEW q
      PROVE  DeclaredBefore(r, q, i) = DeclaredBefore(e, q, i)
  <2>1. \A f \in {<< p, Len(e.calls) >>} : ~(f[2] < i)
    BY <1>1
  <2>2. DeclaredBefore(r, q, i) <=> DeclaredBefore(e, q, i)
    BY <2>1 DEF DeclaredBefore
  <2>3. CASE DeclaredBefore(e, q, i)
    <3>1. (\E f \in r.flagged : f[1] = q /\ f[2] < i) = TRUE
      BY <2>2, <2>3 DEF DeclaredBefore
    <3>2. (\E f \in e.flagged : f[1] = q /\ f[2] < i) = TRUE
      BY <2>3 DEF DeclaredBefore
    <3> QED
      BY <3>1, <3>2, Zenon DEF DeclaredBefore
  <2>4. CASE ~DeclaredBefore(e, q, i)
    <3>1. (\E f \in r.flagged : f[1] = q /\ f[2] < i) = FALSE
      BY <2>2, <2>4 DEF DeclaredBefore
    <3>2. (\E f \in e.flagged : f[1] = q /\ f[2] < i) = FALSE
      BY <2>4 DEF DeclaredBefore
    <3> QED
      BY <3>1, <3>2, Zenon DEF DeclaredBefore
  <2> QED
    BY <2>3, <2>4
<1>4. CallsTold(r, d)
  <2> SUFFICES ASSUME NEW i \in 1..Len(e.calls), e.calls[i].call = "authorize"
               PROVE  \E h \in Int : ToldAt(r, d, i, h)
    BY <1>1 DEF CallsTold
  <2>1. PICK h \in Int : ToldAt(e, d, i, h)
    BY DEF Told, CallsTold
  <2>2. Reached(r, d, i) = Reached(e, d, i)
    BY AnnotatedReached
  <2>3. DeclaredBefore(r, e.calls[i].txn.payee, i) = DeclaredBefore(e, e.calls[i].txn.payee, i)
    BY <1>3
  <2>4. ToldAt(r, d, i, h)
    BY <1>1, <2>1, <2>2, <2>3, Zenon DEF ToldAt
  <2> QED
    BY <2>4
<1>5. \E h \in Int : StandsAtHorizon(r, d, h)
  <2>1. PICK h \in Int : StandsAtHorizon(e, d, h)
    BY DEF Told
  <2>2. Reached(r, d, Len(e.calls)) = Reached(e, d, Len(e.calls))
    BY AnnotatedReached
  <2>3. \E f \in r.flagged : f[1] = p
    <3>1. << p, Len(e.calls) >>[1] = p /\ << p, Len(e.calls) >> \in r.flagged
      OBVIOUS
    <3> QED
      BY <3>1
  <2>4. \A f \in e.flagged : f \in r.flagged
    OBVIOUS
  <2>5. ASSUME NEW q \in r.confirmed
        PROVE  AssertedBy(Corpus[d].intel, q, h).confirmed \/ \E f \in r.flagged : f[1] = q
    <3>1. CASE q = p
      BY <2>3, <3>1
    <3>2. CASE q \in e.confirmed
      BY <2>1, <2>4, <3>2 DEF StandsAtHorizon
    <3> QED
      BY <3>1, <3>2
  <2>6. StandsAtHorizon(r, d, h)
    BY <1>1, <2>1, <2>2, <2>5 DEF StandsAtHorizon
  <2> QED
    BY <2>6
<1> QED
  BY <1>1, <1>2, <1>4, <1>5 DEF Told

(* Victims and samples tell nothing. *)
LEMMA NothingTold ==
  ASSUME NEW e, IsEngine(e), NEW d, Told(e, d), NEW r, Annotated(r, e),
         r.flagged = e.flagged, r.confirmed = e.confirmed
  PROVE  Told(r, d)
<1>1. r.calls = e.calls /\ r.intel = e.intel
  BY DEF Annotated
<1>2. \A i : Reached(r, d, i) = Reached(e, d, i)
  BY AnnotatedReached
<1>3. \A i, h : ToldAt(r, d, i, h) <=> ToldAt(e, d, i, h)
  BY <1>1, <1>2 DEF ToldAt, DeclaredBefore
<1>4. \A h : StandsAtHorizon(r, d, h) <=> StandsAtHorizon(e, d, h)
  BY <1>1, <1>2 DEF StandsAtHorizon
<1>5. FlagsSound(r) /\ CallsTold(r, d)
  BY <1>1, <1>3 DEF Told, FlagsSound, CallsTold
<1> QED
  BY <1>1, <1>4, <1>5 DEF Told


(* Calls of the operator that are not payments. *)
LEMMA CallTaken ==
  ASSUME NEW e, NEW d, NEW n, NEW p, EngineOf(e, d, n, p), NEW c, c.call # "authorize"
  PROVE  EngineOf([e EXCEPT !.calls = Append(@, c)], d, n,
                  IF c.call = "setPolicy" THEN c.policy ELSE p)
<1> DEFINE r == [e EXCEPT !.calls = Append(@, c)]
<1>1. IsEngine(e) /\ RunOf(e, d, n) /\ PolicyOf(e) = p /\ Told(e, d) /\ e.scratch \in {None, d}
  BY DEF EngineOf
<1>2. r = [policy |-> e.policy, calls |-> Append(e.calls, c), intel |-> e.intel,
           flagged |-> e.flagged, confirmed |-> e.confirmed, victims |-> e.victims,
           scratch |-> e.scratch]
  <2>1. PICK a, y, q, x, f, k, v, s :
          /\ a = Append(e.calls, c) /\ y = e.policy /\ q = e.calls /\ x = e.intel /\ f = e.flagged
          /\ k = e.confirmed /\ v = e.victims /\ s = e.scratch
    OBVIOUS
  <2>2. e = [policy |-> y, calls |-> q, intel |-> x, flagged |-> f, confirmed |-> k,
             victims |-> v, scratch |-> s]
    BY <1>1, <2>1 DEF IsEngine
  <2>3. r = [e EXCEPT !.calls = a]
    BY <2>1, <2>2
  <2>4. r = [policy |-> y, calls |-> a, intel |-> x, flagged |-> f, confirmed |-> k,
             victims |-> v, scratch |-> s]
    BY <2>2, <2>3
  <2> QED
    BY <2>1, <2>4
<1> HIDE DEF r
<1>3. OneMore(r, e, c) /\ r.intel = e.intel /\ r.flagged = e.flagged /\ r.confirmed = e.confirmed
  BY <1>1, <1>2, CallMade
<1>4. Told(r, d)
  BY <1>1, <1>3, OtherCallTold
<1>5. RunOf(r, d, n)
  BY <1>1, <1>3, RunKept DEF IsReplay
<1>6. PolicyOf(r) = IF c.call = "setPolicy" THEN c.policy ELSE p
  BY <1>1, <1>3, PolicyKept, PolicyChanged
<1>7. IsEngine(r) /\ r.scratch = e.scratch
  BY <1>3 DEF OneMore
<1> QED
  BY <1>1, <1>4, <1>5, <1>6, <1>7 DEF EngineOf, r

LEMMA PayeeFlagged ==
  ASSUME NEW e, NEW d, NEW n, NEW p, EngineOf(e, d, n, p), NEW payee
  PROVE  EngineOf([e EXCEPT !.confirmed = @ \cup {payee},
                            !.flagged   = @ \cup {<< payee, Len(e.calls) >>}], d, n, p)
<1> DEFINE r == [e EXCEPT !.confirmed = @ \cup {payee},
                          !.flagged   = @ \cup {<< payee, Len(e.calls) >>}]
<1>1. IsEngine(e) /\ RunOf(e, d, n) /\ PolicyOf(e) = p /\ Told(e, d) /\ e.scratch \in {None, d}
  BY DEF EngineOf
<1>2. PICK k, f : k = e.confirmed \cup {payee} /\ f = e.flagged \cup {<< payee, Len(e.calls) >>}
  OBVIOUS
<1>3. r = [policy |-> e.policy, calls |-> e.calls, intel |-> e.intel, flagged |-> f,
           confirmed |-> k, victims |-> e.victims, scratch |-> e.scratch]
  <2>1. PICK y, q, x, f0, k0, v, s :
          /\ y = e.policy /\ q = e.calls /\ x = e.intel /\ f0 = e.flagged
          /\ k0 = e.confirmed /\ v = e.victims /\ s = e.scratch
    OBVIOUS
  <2>2. e = [policy |-> y, calls |-> q, intel |-> x, flagged |-> f0, confirmed |-> k0,
             victims |-> v, scratch |-> s]
    BY <1>1, <2>1 DEF IsEngine
  <2>3. r = [e EXCEPT !.confirmed = k, !.flagged = f]
    BY <1>2, <2>1, <2>2
  <2> HIDE DEF r
  <2>4. r = [policy |-> y, calls |-> q, intel |-> x, flagged |-> f, confirmed |-> k,
             victims |-> v, scratch |-> s]
    BY <2>2, <2>3
  <2> QED
    BY <2>1, <2>4
<1> HIDE DEF r
<1>4. /\ Annotated(r, e) /\ r.flagged = f /\ r.confirmed = k /\ r.scratch = e.scratch
  BY <1>1, <1>3, Annotating
<1>5. Told(r, d)
  BY <1>1, <1>2, <1>4, FlagRaised
<1>6. RunOf(r, d, n) /\ PolicyOf(r) = p
  BY <1>1, <1>4, AnnotatedRun
<1> QED
  BY <1>1, <1>4, <1>5, <1>6 DEF EngineOf, Annotated, r

LEMMA VictimChosen ==
  ASSUME NEW e, NEW d, NEW n, NEW p, EngineOf(e, d, n, p), NEW payer
  PROVE  EngineOf([e EXCEPT !.victims = @ \cup {payer}], d, n, p)
<1> DEFINE r == [e EXCEPT !.victims = @ \cup {payer}]
<1>1. IsEngine(e) /\ RunOf(e, d, n) /\ PolicyOf(e) = p /\ Told(e, d) /\ e.scratch \in {None, d}
  BY DEF EngineOf
<1>2. PICK w : w = e.victims \cup {payer}
  OBVIOUS
<1>3. r = [policy |-> e.policy, calls |-> e.calls, intel |-> e.intel, flagged |-> e.flagged,
           confirmed |-> e.confirmed, victims |-> w, scratch |-> e.scratch]
  <2>1. PICK y, q, x, f0, k0, v, s :
          /\ y = e.policy /\ q = e.calls /\ x = e.intel /\ f0 = e.flagged
          /\ k0 = e.confirmed /\ v = e.victims /\ s = e.scratch
    OBVIOUS
  <2>2. e = [policy |-> y, calls |-> q, intel |-> x, flagged |-> f0, confirmed |-> k0,
             victims |-> v, scratch |-> s]
    BY <1>1, <2>1 DEF IsEngine
  <2>3. r = [e EXCEPT !.victims = w]
    BY <1>2, <2>1, <2>2
  <2>4. r = [policy |-> y, calls |-> q, intel |-> x, flagged |-> f0, confirmed |-> k0,
             victims |-> w, scratch |-> s]
    BY <2>2, <2>3
  <2> QED
    BY <2>1, <2>4
<1> HIDE DEF r
<1>4. /\ Annotated(r, e) /\ r.flagged = e.flagged /\ r.confirmed = e.confirmed
      /\ r.scratch = e.scratch
  BY <1>1, <1>3, Annotating
<1>5. Told(r, d)
  BY <1>1, <1>4, NothingTold DEF Annotated
<1>6. RunOf(r, d, n) /\ PolicyOf(r) = p
  BY <1>1, <1>4, AnnotatedRun
<1> QED
  BY <1>1, <1>4, <1>5, <1>6 DEF EngineOf, Annotated, r

LEMMA SamplesTaken ==
  ASSUME NEW e, NEW d, NEW n, NEW p, EngineOf(e, d, n, p)
  PROVE  EngineOf([e EXCEPT !.scratch = d], d, n, p)
<1> DEFINE r == [e EXCEPT !.scratch = d]
<1>1. IsEngine(e) /\ RunOf(e, d, n) /\ PolicyOf(e) = p /\ Told(e, d)
  BY DEF EngineOf
<1>2. r = [policy |-> e.policy, calls |-> e.calls, intel |-> e.intel, flagged |-> e.flagged,
           confirmed |-> e.confirmed, victims |-> e.victims, scratch |-> d]
  <2>1. PICK y, q, x, f0, k0, v, s :
          /\ y = e.policy /\ q = e.calls /\ x = e.intel /\ f0 = e.flagged
          /\ k0 = e.confirmed /\ v = e.victims /\ s = e.scratch
    OBVIOUS
  <2>2. e = [policy |-> y, calls |-> q, intel |-> x, flagged |-> f0, confirmed |-> k0,
             victims |-> v, scratch |-> s]
    BY <1>1, <2>1 DEF IsEngine
  <2>3. r = [e EXCEPT !.scratch = d]
    OBVIOUS
  <2>4. r = [policy |-> y, calls |-> q, intel |-> x, flagged |-> f0, confirmed |-> k0,
             victims |-> v, scratch |-> d]
    BY <2>2, <2>3
  <2> QED
    BY <2>1, <2>4
<1> HIDE DEF r
<1>3. /\ Annotated(r, e) /\ r.flagged = e.flagged /\ r.confirmed = e.confirmed
      /\ r.scratch = d
  BY <1>1, <1>2, Annotating
<1>4. Told(r, d)
  BY <1>1, <1>3, NothingTold DEF Annotated
<1>5. RunOf(r, d, n) /\ PolicyOf(r) = p
  BY <1>1, <1>3, AnnotatedRun
<1> QED
  BY <1>3, <1>4, <1>5 DEF EngineOf, Annotated, r

(* A boot stands just before the window and has called nothing. *)
LEMMA BootedEngineIsSound ==
  ASSUME NEW s, NEW d \in Datasets
  PROVE  EngineOf(BootedEngine(s, d), d, 0, s.policy)
<1> DEFINE all == Corpus[d].intel
           start == Corpus[d].from - 1
           e == BootedEngine(s, d)
<1>1. PICK x, y : x = AdvanceTo(NewTimeline(all), start) /\ y = s.policy
  OBVIOUS
<1>2. e = [policy |-> y, calls |-> << >>, intel |-> x, flagged |-> {}, confirmed |-> {},
           victims |-> {}, scratch |-> None]
  <2>1. PICK z : z = NewTimeline(<< >>)
    OBVIOUS
  <2>2. NoEngine = [policy |-> None, calls |-> << >>, intel |-> z,
                    flagged |-> {}, confirmed |-> {}, victims |-> {}, scratch |-> None]
    BY <2>1 DEF NoEngine
  <2>3. e = [NoEngine EXCEPT !.policy = y, !.intel = x]
    BY <1>1 DEF BootedEngine
  <2> HIDE DEF e, all, start
  <2> QED
    BY <2>2, <2>3
<1> HIDE DEF e
<1>3. /\ e.policy = y /\ e.calls = << >> /\ e.intel = x /\ e.flagged = {} /\ e.confirmed = {}
      /\ e.victims = {} /\ e.scratch = None
  BY <1>2
<1>4. IsEngine(e) /\ Len(e.calls) = 0 /\ DOMAIN e.calls = {}
  BY <1>2, <1>3, EmptyIsSequence DEF IsEngine
<1>5. ReplayedAt(e) = {} /\ ChangedAt(e) = {}
  BY <1>4 DEF ReplayedAt, ChangedAt
<1>6. RunOf(e, d, 0)
  BY <1>5, FS_EmptySet DEF RunOf
<1>7. PolicyOf(e) = s.policy
  BY <1>1, <1>3, <1>5 DEF PolicyOf
<1>8. IsIntel(all) /\ start \in Int
  BY CorpusIsIntel, ConsoleAssumption
<1>9. TimelineOf(NewTimeline(all), all) /\ NewTimeline(all).cursor = 0
  BY <1>8, NewTimelineIsTimeline
<1>10. PICK t : t = NewTimeline(all)
  OBVIOUS
<1>11. TimelineOf(x, all) /\ MovedOn(x, t, start)
  BY <1>1, <1>8, <1>9, <1>10, AdvanceMovesOn
<1>12. StandsAt(x, start)
  <2>1. \A i \in 1..Len(t.events) : ~(i <= t.cursor)
    <3>1. t.cursor = 0 /\ Len(t.events) \in Nat
      BY <1>9, <1>10, LengthIsNatural DEF TimelineOf, IsIntel
    <3> QED
      BY <3>1
  <2> QED
    BY <1>11, <2>1 DEF StandsAt, MovedOn
<1>13. IsTop(start, Reached(e, d, Len(e.calls)))
  <2>1. AuthorizedBy(e, 0) = {}
    BY DEF AuthorizedBy
  <2>2. Reached(e, d, 0) = {start}
    BY <2>1 DEF Reached
  <2> QED
    BY <1>4, <1>8, <2>2 DEF IsTop
<1>14. Told(e, d)
  <2>1. StandsAtHorizon(e, d, start)
    BY <1>3, <1>12, <1>13 DEF StandsAtHorizon
  <2>2. FlagsSound(e) /\ CallsTold(e, d)
    BY <1>3, <1>4 DEF FlagsSound, CallsTold
  <2>3. TimelineOf(e.intel, Corpus[d].intel) /\ start \in Int
    BY <1>3, <1>8, <1>11
  <2> QED
    BY <2>1, <2>2, <2>3 DEF Told
<1> QED
  BY <1>3, <1>4, <1>6, <1>7, <1>14 DEF EngineOf, e


-----------------------------------------------------------------------------
(* Steps of the feed *)

LEMMA NextPaymentsFollow ==
  ASSUME NEW s, s.dataset \in Datasets, s.cursor \in 0..Len(Txns(s.dataset)), NEW n \in Nat
  PROVE  /\ Len(NextPayments(s, n)) \in Nat
         /\ \A i \in 1..Len(NextPayments(s, n)) :
              /\ NextPayments(s, n)[i] = Txns(s.dataset)[s.cursor + i]
              /\ NextPayments(s, n)[i].ts \in Int
<1> DEFINE t == Txns(s.dataset)
           q == NextPayments(s, n)
<1>1. PICK S : t \in Seq(S) /\ \A x \in S : x.ts \in Int
  <2>1. t \in Seq(ToSet(t)) /\ \A x \in ToSet(t) : x.ts \in Int
    BY ConsoleAssumption DEF Txns
  <2> QED
    BY <2>1
<1>2. /\ Len(q) \in Nat /\ s.cursor + Len(q) <= Len(t)
      /\ \A i \in 1..Len(q) : q[i] = t[s.cursor + i]
  BY NextPaymentsAreLeft
<1>3. Len(t) \in Nat /\ s.cursor \in Nat
  BY <1>1
<1> HIDE DEF t, q
<1>4. \A i \in 1..Len(q) : s.cursor + i \in 1..Len(t)
  BY <1>2, <1>3
<1>5. \A i \in 1..Len(q) : q[i].ts \in Int
  BY <1>1, <1>2, <1>4
<1> QED
  BY <1>2, <1>5 DEF t, q

(* A step scores the next payments and moves the cursor behind them.       *)
LEMMA StepReplays ==
  ASSUME NEW s, IsSnapshot(s), s.dataset \in Datasets, s.cursor \in 0..Len(Txns(s.dataset)),
         s.clock \in Int, NEW e, EngineOf(e, s.dataset, s.cursor, s.policy), NEW n \in Nat
  PROVE  /\ EngineOf(SteppedEngine(s, e, n), s.dataset, SteppedSnapshot(s, n).cursor,
                     SteppedSnapshot(s, n).policy)
         /\ SteppedSnapshot(s, n).clock \in Int
<1> DEFINE q == NextPayments(s, n)
           t == SteppedSnapshot(s, n)
<1>1. /\ Len(q) \in Nat
      /\ \A i \in 1..Len(q) : q[i] = Txns(s.dataset)[s.cursor + i] /\ q[i].ts \in Int
  BY NextPaymentsFollow
<1>2. /\ t.cursor = s.cursor + Len(q) /\ t.policy = s.policy
      /\ t.clock = IF q = << >> THEN s.clock ELSE Last(q).ts
  BY Stepped
<1>3. q = << >> <=> Len(q) = 0
  BY NextPaymentsAreLeft
<1>4. SteppedEngine(s, e, n) = AuthorizedAll(e, q, "replayed")
  BY DEF SteppedEngine
<1> HIDE DEF q, t
<1>5. s.cursor \in Nat /\ Position("replayed", s.cursor, Len(q)) = s.cursor + Len(q)
  <2>1. PICK S : Txns(s.dataset) \in Seq(S)
    BY ConsoleAssumption DEF Txns
  <2>2. Len(Txns(s.dataset)) \in Nat
    BY <2>1
  <2> QED
    BY <2>2 DEF Position
<1>6. EngineOf(AuthorizedAll(e, q, "replayed"), s.dataset,
               Position("replayed", s.cursor, Len(q)), s.policy)
  BY <1>1, <1>5, PaymentsScored
<1>7. t.clock \in Int
  <2>1. CASE q = << >>
    BY <1>2, <2>1
  <2>2. CASE q # << >>
    <3>1. Len(q) \in 1..Len(q)
      BY <1>1, <1>3, <2>2
    <3>2. Last(q) = q[Len(q)]
      BY DEF Last
    <3> QED
      BY <1>1, <1>2, <2>2, <3>1, <3>2
  <2> QED
    BY <2>1, <2>2
<1> QED
  BY <1>2, <1>4, <1>5, <1>6, <1>7 DEF t

(* The recursion of Elapsed, through the first n delays.                   *)
DelayFollows(f, delays, n) ==
  /\ f = [i \in 0..n |-> f[i]]
  /\ f[0] = 0
  /\ \A i \in 1..n : f[i] = f[i - 1] + delays[i]

LEMMA DelayExists ==
  ASSUME NEW delays, NEW n \in Nat
  PROVE  \E f : DelayFollows(f, delays, n)
<1> DEFINE T == {k \in Nat : \E f : DelayFollows(f, delays, k)}
<1>1. 0 \in T
  <2> DEFINE f == [i \in 0..0 |-> 0]
  <2>1. f[0] = 0 /\ f = [i \in 0..0 |-> f[i]]
    OBVIOUS
  <2> HIDE DEF f
  <2>2. DelayFollows(f, delays, 0)
    BY <2>1 DEF DelayFollows
  <2> QED
    BY <2>2
<1>2. ASSUME NEW k \in Nat, k \in T PROVE k + 1 \in T
  <2>1. PICK f : DelayFollows(f, delays, k)
    BY <1>2
  <2>2. PICK next : next = f[k] + delays[(k + 1)]
    OBVIOUS
  <2> DEFINE g == [i \in 0..(k + 1) |-> IF i <= k THEN f[i] ELSE next]
  <2>3. g = [i \in 0..(k + 1) |-> g[i]] /\ g[0] = 0
    BY <2>1 DEF DelayFollows
  <2>4. ASSUME NEW i \in 1..(k + 1) PROVE g[i] = g[i - 1] + delays[i]
    <3>1. g[i - 1] = f[i - 1]
      OBVIOUS
    <3>2. CASE i <= k
      <4>1. i \in 1..k /\ g[i] = f[i]
        BY <3>2
      <4> QED
        BY <2>1, <3>1, <4>1 DEF DelayFollows
    <3>3. CASE ~(i <= k)
      <4>1. i = k + 1 /\ i - 1 = k /\ g[i] = next
        BY <3>3
      <4> QED
        BY <2>2, <3>1, <4>1
    <3> QED
      BY <3>2, <3>3
  <2> HIDE DEF g
  <2>5. DelayFollows(g, delays, k + 1)
    BY <2>3, <2>4 DEF DelayFollows
  <2> QED
    BY <2>5
<1> HIDE DEF T
<1>3. Nat \subseteq T
  BY <1>1, <1>2, SetInduction
<1>4. n \in T
  BY <1>3
<1> QED
  BY <1>4 DEF T

LEMMA DelayUnfolds ==
  ASSUME NEW delays, NEW m \in Nat
  PROVE  \E f : DelayFollows(f, delays, m) /\ Elapsed(delays, m) = f[m]
<1> DEFINE n == m
           Body(g) == [i \in 0..n |-> IF i = 0 THEN 0 ELSE g[i - 1] + delays[i]]
           after == CHOOSE g : g = Body(g)
<1>1. Elapsed(delays, m) = after[n]
  BY DEF Elapsed
<1>2. n \in Nat
  OBVIOUS
<1>3. \E g : g = Body(g)
  <2>1. PICK f : DelayFollows(f, delays, n)
    BY <1>2, DelayExists
  <2>2. f = [i \in 0..n |-> f[i]]
    BY <2>1 DEF DelayFollows
  <2>3. \A i \in 0..n : f[i] = IF i = 0 THEN 0 ELSE f[i - 1] + delays[i]
    <3> TAKE i \in 0..n
    <3>1. CASE i = 0
      BY <2>1, <3>1 DEF DelayFollows
    <3>2. CASE i # 0
      <4>1. i \in 1..n
        BY <1>2, <3>2
      <4> QED
        BY <2>1, <3>2, <4>1 DEF DelayFollows
    <3> QED
      BY <3>1, <3>2
  <2>4. f = Body(f)
    BY <2>2, <2>3
  <2> QED
    BY <2>4
<1>4. after = Body(after)
  BY <1>3
<1> HIDE DEF after
<1>5. \A i \in 0..n : after[i] = IF i = 0 THEN 0 ELSE after[i - 1] + delays[i]
  BY <1>4
<1>6. after[0] = 0 /\ \A i \in 1..n : after[i] = after[i - 1] + delays[i]
  <2>1. 0 \in 0..n /\ \A i \in 1..n : i \in 0..n /\ i # 0
    BY <1>2
  <2> QED
    BY <1>5, <2>1
<1>7. after = [i \in 0..n |-> after[i]]
  BY <1>4
<1> HIDE DEF Body, n
<1>8. DelayFollows(after, delays, n)
  BY <1>6, <1>7 DEF DelayFollows
<1> QED
  BY <1>1, <1>8 DEF n


LEMMA ElapsedIsNatural ==
  ASSUME NEW delays \in Seq(Nat), NEW m \in 0..Len(delays)
  PROVE  Elapsed(delays, m) \in Nat
<1>1. m \in Nat /\ Len(delays) \in Nat
  OBVIOUS
<1>2. PICK f : DelayFollows(f, delays, m) /\ Elapsed(delays, m) = f[m]
  BY <1>1, DelayUnfolds
<1> DEFINE T == {k \in Nat : k <= m => f[k] \in Nat}
<1>3. 0 \in T
  BY <1>2 DEF DelayFollows
<1>4. ASSUME NEW k \in Nat, k \in T PROVE k + 1 \in T
  <2> SUFFICES ASSUME k + 1 <= m PROVE f[k + 1] \in Nat
    OBVIOUS
  <2>1. k + 1 \in 1..m /\ (k + 1) - 1 = k /\ k <= m /\ k + 1 \in 1..Len(delays)
    BY <1>1
  <2>2. f[k + 1] = f[k] + delays[k + 1]
    BY <1>2, <2>1 DEF DelayFollows
  <2>3. f[k] \in Nat /\ delays[k + 1] \in Nat
    BY <1>4, <2>1
  <2> QED
    BY <2>2, <2>3
<1> HIDE DEF T
<1>5. Nat \subseteq T
  BY <1>3, <1>4, SetInduction
<1>6. m \in T
  BY <1>1, <1>5
<1> QED
  BY <1>1, <1>2, <1>6 DEF T


-----------------------------------------------------------------------------
(* The inductive invariant *)

(* Once there is a model, the engine is that of the run on screen.         *)
FeedSound ==
  IF snapshot.model
  THEN /\ EngineOf(engine, snapshot.dataset, snapshot.cursor, snapshot.policy)
       /\ snapshot.clock \in Int
  ELSE engine = NoEngine

(* What leaves the run, its policy and its clock leaves it sound. *)
LEMMA FeedKept ==
  ASSUME FeedSound, snapshot'.model = snapshot.model, snapshot'.dataset = snapshot.dataset,
         snapshot'.cursor = snapshot.cursor, snapshot'.policy = snapshot.policy,
         snapshot'.clock = snapshot.clock, engine' = engine
  PROVE  FeedSound'
<1>1. CASE snapshot.model
  <2>1. /\ EngineOf(engine, snapshot.dataset, snapshot.cursor, snapshot.policy)
        /\ snapshot.clock \in Int
    BY <1>1 DEF FeedSound
  <2>2. EngineOf(engine', snapshot'.dataset, snapshot'.cursor, snapshot'.policy)
    BY <2>1, Zenon
  <2> QED
    BY <1>1, <2>1, <2>2 DEF FeedSound
<1>2. CASE ~snapshot.model
  <2>1. NoEngine' = NoEngine
    BY DEF NoEngine, NewTimeline, SortedByTime
  <2> QED
    BY <1>2, <2>1 DEF FeedSound
<1> QED
  BY <1>1, <1>2


LEMMA FeedReached ==
  ASSUME NEW e, NEW d, NEW n, NEW p, EngineOf(e, d, n, p),
         engine' = e, snapshot'.model = TRUE, snapshot'.dataset = d, snapshot'.cursor = n,
         snapshot'.policy = p, snapshot'.clock \in Int
  PROVE  FeedSound'
<1>1. EngineOf(engine', snapshot'.dataset, snapshot'.cursor, snapshot'.policy)
  BY Zenon
<1> QED
  BY <1>1 DEF FeedSound

LEMMA FeedBoots ==
  ASSUME NEW d \in Datasets, NEW s, IsSnapshot(s), s.policy = snapshot.policy,
         snapshot' = BootedSnapshot(s, d), engine' = BootedEngine(snapshot, d)
  PROVE  FeedSound'
<1>1. BootOf(snapshot', s, d)
  BY Booted
<1>2. /\ snapshot'.model = TRUE /\ snapshot'.dataset = d /\ snapshot'.cursor = 0
      /\ snapshot'.policy = snapshot.policy /\ snapshot'.clock = Corpus[d].from
  BY <1>1 DEF BootOf
<1>3. snapshot'.clock \in Int
  BY <1>2, ConsoleAssumption
<1>4. EngineOf(BootedEngine(snapshot, d), d, 0, snapshot.policy)
  BY BootedEngineIsSound
<1> QED
  BY <1>2, <1>3, <1>4, FeedReached

LEMMA FeedSteps ==
  ASSUME NEW n \in Nat, SessionInv, FeedSound, snapshot.model,
         snapshot' = SteppedSnapshot(snapshot, n), engine' = SteppedEngine(snapshot, engine, n)
  PROVE  FeedSound'
<1>1. /\ IsSnapshot(snapshot) /\ snapshot.dataset \in Datasets
      /\ snapshot.cursor \in 0..Len(Txns(snapshot.dataset)) /\ snapshot.model = TRUE
  BY DEF SessionInv, SnapshotSound, TypeOK
<1>2. /\ EngineOf(engine, snapshot.dataset, snapshot.cursor, snapshot.policy)
      /\ snapshot.clock \in Int
  BY DEF FeedSound
<1>3. /\ EngineOf(SteppedEngine(snapshot, engine, n), snapshot.dataset, snapshot'.cursor,
                  snapshot'.policy)
      /\ snapshot'.clock \in Int
  BY <1>1, <1>2, StepReplays
<1>4. snapshot'.model = TRUE /\ snapshot'.dataset = snapshot.dataset
  BY <1>1, Stepped
<1> QED
  BY <1>3, <1>4, FeedReached

LEMMA SubmitTold ==
  ASSUME NEW payee, NEW mule, SessionInv, FeedSound, Submit(payee, mule) PROVE FeedSound'
<1>1. /\ IsSnapshot(snapshot) /\ snapshot.dataset \in Datasets /\ snapshot.model = TRUE
      /\ snapshot.cursor \in Nat
  <2>1. IsSnapshot(snapshot) /\ TypeOK /\ snapshot.model
    BY DEF SessionInv, SnapshotSound, Submit, MayCall
  <2>2. PICK S : Txns(snapshot.dataset) \in Seq(S)
    BY <2>1, ConsoleAssumption DEF Txns, TypeOK
  <2>3. Len(Txns(snapshot.dataset)) \in Nat
    BY <2>2
  <2> QED
    BY <2>1, <2>3 DEF TypeOK
<1>2. /\ EngineOf(engine, snapshot.dataset, snapshot.cursor, snapshot.policy)
      /\ snapshot.clock \in Int
  BY <1>1 DEF FeedSound
<1>3. PICK txn : txn = Composed(payee)
  OBVIOUS
<1>4. txn.ts = snapshot.clock + 1
  BY <1>3 DEF Composed
<1>5. PICK told : told = IF mule THEN [engine EXCEPT !.confirmed = @ \cup {payee},
                                             !.flagged   = @ \cup {<< payee, Len(engine.calls) >>}]
                         ELSE engine
  OBVIOUS
<1>6. engine' = Authorized(told, txn, "composed")
      /\ snapshot' = [Paused(snapshot) EXCEPT !.clock = Max({@, txn.ts})]
  BY <1>3, <1>5 DEF Submit
<1>7. EngineOf(told, snapshot.dataset, snapshot.cursor, snapshot.policy)
  BY <1>2, <1>5, PayeeFlagged
<1>8. EngineOf(engine', snapshot.dataset, snapshot.cursor, snapshot.policy)
  <2>1. txn.ts \in Int /\ "composed" # "replayed"
    BY <1>2, <1>4
  <2>2. Position("composed", snapshot.cursor, 1) = snapshot.cursor
    BY DEF Position
  <2> QED
    BY <1>1, <1>6, <1>7, <2>1, <2>2, PaymentScored
<1>9. PICK v : v = Max({Paused(snapshot).clock, txn.ts})
  OBVIOUS
<1>10. /\ IsSnapshot(Paused(snapshot)) /\ Paused(snapshot).clock = snapshot.clock
       /\ Paused(snapshot).model = snapshot.model /\ Paused(snapshot).dataset = snapshot.dataset
       /\ Paused(snapshot).cursor = snapshot.cursor /\ Paused(snapshot).policy = snapshot.policy
  BY <1>1, PausedKeeps
<1>11. v \in Int
  <2>1. Max({snapshot.clock, txn.ts}) \in {snapshot.clock, txn.ts}
    <3>1. snapshot.clock < txn.ts
      BY <1>2, <1>4
    <3>2. \E x \in {snapshot.clock, txn.ts} : \A y \in {snapshot.clock, txn.ts} : x >= y
      BY <1>2, <1>4, <3>1
    <3> QED
      BY <3>2 DEF Max
  <2> QED
    BY <1>2, <1>4, <1>9, <1>10, <2>1
<1>12. snapshot' = [Paused(snapshot) EXCEPT !.clock = v]
  BY <1>6, <1>9
<1>13. SameRun(snapshot', Paused(snapshot)) /\ snapshot'.clock = v
       /\ snapshot'.policy = Paused(snapshot).policy
  BY <1>10, <1>12, ClockSet
<1>14. /\ snapshot'.model = TRUE /\ snapshot'.dataset = snapshot.dataset
       /\ snapshot'.cursor = snapshot.cursor /\ snapshot'.policy = snapshot.policy
       /\ snapshot'.clock \in Int
  BY <1>1, <1>10, <1>11, <1>13 DEF SameRun
<1> QED
  BY <1>8, <1>14, FeedReached

LEMMA EpisodeIsTimed ==
  ASSUME NEW scenario \in Scenarios, NEW template, snapshot.clock \in Int
  PROVE  /\ Len(Episode(scenario, template)) \in Nat \ {0}
         /\ \A i \in 1..Len(Episode(scenario, template)) :
              Episode(scenario, template)[i].ts \in Int
<1> DEFINE q == Episode(scenario, template)
           after == scenario.after
           m == Len(after)
<1>1. after \in Seq(Nat) /\ after # << >>
  BY ConsoleAssumption
<1>2. m \in Nat \ {0} /\ DOMAIN after = 1..m
  BY <1>1
<1>3. /\ DOMAIN q = 1..m
      /\ \A i \in 1..m : q[i].ts = snapshot.clock + 1 + Elapsed(after, i)
  BY <1>2 DEF Episode
<1>4. \A i \in 1..m : Elapsed(after, i) \in Nat
  <2> TAKE i \in 1..m
  <2>1. i \in 0..Len(after)
    BY <1>2
  <2> QED
    BY <1>1, <2>1, ElapsedIsNatural
<1>5. Len(q) = m
  <2>1. \E S : q \in [1..m -> S]
    <3> DEFINE S == {q[i] : i \in 1..m}
    <3>1. q = [i \in 1..m |-> q[i]]
      BY <1>2 DEF Episode
    <3> HIDE DEF q
    <3>2. q \in [1..m -> S]
      BY <3>1
    <3> QED
      BY <3>2
  <2>2. PICK S : q \in [1..m -> S]
    BY <2>1
  <2>3. DOMAIN q = 1..m /\ m \in Nat
    BY <1>2, <1>3
  <2> HIDE DEF q, m
  <2>4. q \in Seq(S)
    BY <2>2, <2>3
  <2> QED
    BY <2>3, <2>4
<1> HIDE DEF q, after, m
<1>6. \A i \in 1..m : q[i].ts \in Int
  BY <1>3, <1>4
<1> QED
  BY <1>2, <1>5, <1>6 DEF q


LEMMA RunInModel ==
  ASSUME SessionInv, FeedSound, snapshot.model
  PROVE  /\ IsSnapshot(snapshot) /\ snapshot.dataset \in Datasets /\ snapshot.model = TRUE
         /\ snapshot.cursor \in Nat /\ snapshot.clock \in Int
         /\ EngineOf(engine, snapshot.dataset, snapshot.cursor, snapshot.policy)
<1>1. IsSnapshot(snapshot) /\ TypeOK /\ snapshot.model = TRUE
  BY DEF SessionInv, SnapshotSound, TypeOK
<1>2. PICK S : Txns(snapshot.dataset) \in Seq(S)
  BY <1>1, ConsoleAssumption DEF Txns, TypeOK
<1>3. Len(Txns(snapshot.dataset)) \in Nat
  BY <1>2
<1> QED
  BY <1>1, <1>3 DEF TypeOK, FeedSound

LEMMA InjectTold ==
  ASSUME NEW scenario \in Scenarios, NEW eligible, SessionInv, FeedSound,
         Inject(scenario, eligible)
  PROVE  FeedSound'
<1>1. /\ IsSnapshot(snapshot) /\ snapshot.dataset \in Datasets /\ snapshot.model = TRUE
      /\ snapshot.cursor \in Nat /\ snapshot.clock \in Int
      /\ EngineOf(engine, snapshot.dataset, snapshot.cursor, snapshot.policy)
  BY RunInModel DEF Inject, MayCall
<1>2. PICK template : template = Template(Pool, eligible)
  OBVIOUS
<1>3. PICK txns : txns = Episode(scenario, template)
  OBVIOUS
<1>4. PICK chosen : chosen = [engine EXCEPT !.victims = @ \cup {template.payer}]
  OBVIOUS
<1>5. /\ engine' = AuthorizedAll(chosen, txns, scenario.id)
      /\ snapshot' = [Paused(snapshot) EXCEPT !.clock = Last(txns).ts]
  BY <1>2, <1>3, <1>4 DEF Inject
<1>6. Len(txns) \in Nat \ {0} /\ \A i \in 1..Len(txns) : txns[i].ts \in Int
  BY <1>1, <1>3, EpisodeIsTimed
<1>7. EngineOf(chosen, snapshot.dataset, snapshot.cursor, snapshot.policy)
  BY <1>1, <1>4, VictimChosen
<1>8. EngineOf(engine', snapshot.dataset, snapshot.cursor, snapshot.policy)
  <2>1. scenario.id # "replayed"
    BY ConsoleAssumption
  <2>2. Position(scenario.id, snapshot.cursor, Len(txns)) = snapshot.cursor
    BY <2>1 DEF Position
  <2>3. EngineOf(AuthorizedAll(chosen, txns, scenario.id), snapshot.dataset,
                 Position(scenario.id, snapshot.cursor, Len(txns)), snapshot.policy)
    BY <1>1, <1>6, <1>7, <2>1, PaymentsScored
  <2> QED
    BY <1>5, <2>2, <2>3
<1>9. PICK v : v = Last(txns).ts
  OBVIOUS
<1>10. v \in Int
  <2>1. Len(txns) \in 1..Len(txns) /\ Last(txns) = txns[Len(txns)]
    BY <1>6 DEF Last
  <2> QED
    BY <1>6, <1>9, <2>1
<1>11. /\ IsSnapshot(Paused(snapshot))
       /\ Paused(snapshot).model = snapshot.model /\ Paused(snapshot).dataset = snapshot.dataset
       /\ Paused(snapshot).cursor = snapshot.cursor /\ Paused(snapshot).policy = snapshot.policy
  BY <1>1, PausedKeeps
<1>12. snapshot' = [Paused(snapshot) EXCEPT !.clock = v]
  BY <1>5, <1>9
<1>13. SameRun(snapshot', Paused(snapshot)) /\ snapshot'.clock = v
       /\ snapshot'.policy = Paused(snapshot).policy
  BY <1>11, <1>12, ClockSet
<1>14. /\ snapshot'.model = TRUE /\ snapshot'.dataset = snapshot.dataset
       /\ snapshot'.cursor = snapshot.cursor /\ snapshot'.policy = snapshot.policy
       /\ snapshot'.clock \in Int
  BY <1>1, <1>10, <1>11, <1>13 DEF SameRun
<1> QED
  BY <1>8, <1>14, FeedReached

LEMMA SetPolicyTold ==
  ASSUME NEW p, SessionInv, FeedSound, SetPolicy(p) PROVE FeedSound'
<1>1. IsSnapshot(snapshot)
  BY DEF SessionInv, SnapshotSound
<1>2. /\ SameRun(snapshot', snapshot)
      /\ snapshot'.policy = p /\ snapshot'.clock = snapshot.clock
  BY <1>1, PolicySet DEF SetPolicy
<1>3. CASE snapshot.model
  <2>1. /\ snapshot.model = TRUE /\ snapshot.clock \in Int
        /\ EngineOf(engine, snapshot.dataset, snapshot.cursor, snapshot.policy)
    BY <1>3, RunInModel
  <2>2. PICK c : c = [call |-> "setPolicy", policy |-> p]
    OBVIOUS
  <2>3. c.call = "setPolicy" /\ c.policy = p /\ c.call # "authorize"
    BY <2>2
  <2>4. engine' = [engine EXCEPT !.calls = Append(@, c)]
    BY <1>3, <2>2 DEF SetPolicy
  <2>5. EngineOf([engine EXCEPT !.calls = Append(@, c)], snapshot.dataset, snapshot.cursor,
                 IF c.call = "setPolicy" THEN c.policy ELSE snapshot.policy)
    BY <2>1, <2>3, CallTaken
  <2>6. EngineOf(engine', snapshot.dataset, snapshot.cursor, p)
    BY <2>3, <2>4, <2>5
  <2>7. /\ snapshot'.model = TRUE /\ snapshot'.dataset = snapshot.dataset
        /\ snapshot'.cursor = snapshot.cursor /\ snapshot'.clock \in Int
    BY <1>2, <2>1 DEF SameRun
  <2> QED
    BY <1>2, <2>6, <2>7, FeedReached
<1>4. CASE ~snapshot.model
  <2>1. engine' = engine /\ ~snapshot'.model
    BY <1>2, <1>4 DEF SetPolicy, SameRun
  <2>2. NoEngine' = NoEngine
    BY DEF NoEngine, NewTimeline, SortedByTime
  <2> QED
    BY <1>4, <2>1, <2>2 DEF FeedSound
<1> QED
  BY <1>3, <1>4

(* Calls that leave the snapshot where it is. *)
LEMMA EngineCallTold ==
  ASSUME SessionInv, FeedSound, snapshot.model, snapshot' = snapshot, NEW c,
         c.call \notin {"authorize", "setPolicy"},
         engine' = [engine EXCEPT !.calls = Append(@, c)]
  PROVE  FeedSound'
<1>1. /\ snapshot.model = TRUE /\ snapshot.clock \in Int
      /\ EngineOf(engine, snapshot.dataset, snapshot.cursor, snapshot.policy)
  BY RunInModel
<1>2. EngineOf([engine EXCEPT !.calls = Append(@, c)], snapshot.dataset, snapshot.cursor,
               IF c.call = "setPolicy" THEN c.policy ELSE snapshot.policy)
  BY <1>1, CallTaken
<1>3. EngineOf(engine', snapshot.dataset, snapshot.cursor, snapshot.policy)
  BY <1>2
<1>4. /\ snapshot'.model = TRUE /\ snapshot'.dataset = snapshot.dataset
      /\ snapshot'.cursor = snapshot.cursor /\ snapshot'.policy = snapshot.policy
      /\ snapshot'.clock \in Int
  BY <1>1
<1> QED
  BY <1>3, <1>4, FeedReached

LEMMA ResolveHoldTold ==
  ASSUME NEW id, SessionInv, FeedSound, ResolveHold(id) PROVE FeedSound'
<1>1. PICK c : c = [call |-> "resolve", hold |-> id, at |-> snapshot.clock + 1]
  OBVIOUS
<1>2. c.call \notin {"authorize", "setPolicy"}
  BY <1>1
<1> QED
  BY <1>1, <1>2, EngineCallTold DEF ResolveHold, MayCall

LEMMA SweepTold == ASSUME SessionInv, FeedSound, Sweep PROVE FeedSound'
<1>1. PICK c : c = [call |-> "sweep", at |-> snapshot.clock]
  OBVIOUS
<1>2. c.call \notin {"authorize", "setPolicy"}
  BY <1>1
<1> QED
  BY <1>1, <1>2, EngineCallTold DEF Sweep, MayCall

LEMMA SliceSamplesTold == ASSUME SessionInv, FeedSound, SliceSamples PROVE FeedSound'
<1>1. /\ snapshot.model = TRUE /\ snapshot.clock \in Int
      /\ EngineOf(engine, snapshot.dataset, snapshot.cursor, snapshot.policy)
  BY RunInModel DEF SliceSamples
<1>2. PICK d : d = snapshot.dataset
  OBVIOUS
<1>3. EngineOf([engine EXCEPT !.scratch = d], d, snapshot.cursor, snapshot.policy)
  BY <1>1, <1>2, SamplesTaken
<1>4. /\ engine' = [engine EXCEPT !.scratch = d] /\ snapshot' = snapshot
  BY <1>2 DEF SliceSamples
<1>5. /\ snapshot'.model = TRUE /\ snapshot'.dataset = d
      /\ snapshot'.cursor = snapshot.cursor /\ snapshot'.policy = snapshot.policy
      /\ snapshot'.clock \in Int
  BY <1>1, <1>2, <1>4
<1> QED
  BY <1>3, <1>4, <1>5, FeedReached


LEMMA LoadingTold ==
  ASSUME SessionInv, FeedSound, EnsureLoaded \/ LoadFails PROVE FeedSound'
<1>1. IsSnapshot(snapshot) /\ ~snapshot.model
  BY DEF SessionInv, SnapshotSound, EnsureLoaded, LoadFails
<1>2. PICK v : snapshot' = [snapshot EXCEPT !.status = v]
  BY DEF EnsureLoaded, LoadFails
<1>3. ~snapshot'.model /\ engine' = engine
  BY <1>1, <1>2, StatusSet DEF EnsureLoaded, LoadFails
<1>4. NoEngine' = NoEngine
  BY DEF NoEngine, NewTimeline, SortedByTime
<1> QED
  BY <1>1, <1>3, <1>4 DEF FeedSound

LEMMA ReloadTold == ASSUME SessionInv, Reload PROVE FeedSound'
<1>1. ~snapshot'.model /\ engine' = NoEngine
  BY DEF Reload, InitialSnapshot
<1>2. NoEngine' = NoEngine
  BY DEF NoEngine, NewTimeline, SortedByTime
<1> QED
  BY <1>1, <1>2 DEF FeedSound

LEMMA BootsTold ==
  ASSUME SessionInv, FeedSound,
         LoadSucceeds \/ RestoreShipped \/ Reset \/ \E d \in Imports : LoadImported(d)
  PROVE  FeedSound'
<1>1. IsSnapshot(snapshot) /\ TypeOK
  BY DEF SessionInv, SnapshotSound
<1>2. IsSnapshot(Paused(snapshot)) /\ Paused(snapshot).policy = snapshot.policy
  BY <1>1, PausedKeeps
<1>3. Shipped \in Datasets /\ Imports \subseteq Datasets
  BY DEF Datasets
<1>4. CASE LoadSucceeds
  BY <1>1, <1>3, <1>4, FeedBoots DEF LoadSucceeds
<1>5. CASE RestoreShipped
  <2>1. CASE snapshot.model
    BY <1>2, <1>3, <1>5, <2>1, FeedBoots DEF RestoreShipped
  <2>2. CASE ~snapshot.model
    BY <1>5, <2>2, FeedKept DEF RestoreShipped
  <2> QED
    BY <2>1, <2>2
<1>6. CASE Reset
  <2>1. PICK d : d = snapshot.dataset
    OBVIOUS
  <2>2. /\ d \in Datasets /\ snapshot' = BootedSnapshot(Paused(snapshot), d)
        /\ engine' = BootedEngine(snapshot, d)
    BY <1>1, <1>6, <2>1 DEF Reset, TypeOK
  <2> QED
    BY <1>2, <2>2, FeedBoots
<1>7. CASE \E d \in Imports : LoadImported(d)
  <2>1. PICK d \in Imports : LoadImported(d)
    BY <1>7
  <2> QED
    BY <1>2, <1>3, <2>1, FeedBoots DEF LoadImported
<1> QED
  BY <1>4, <1>5, <1>6, <1>7

(* A restore boots the saved dataset and steps to the saved position.      *)
LEMMA RestoreTold ==
  ASSUME SessionInv, NEW saved, saved.dataset \in Imports, saved.cursor \in Nat, Restore(saved)
  PROVE  FeedSound'
<1>1. PICK d, n : d = saved.dataset /\ n = saved.cursor
  OBVIOUS
<1>2. PICK s, e : s = BootedSnapshot(Paused(snapshot), d) /\ e = BootedEngine(snapshot, d)
  OBVIOUS
<1>3. snapshot' = SteppedSnapshot(s, n) /\ engine' = SteppedEngine(s, e, n)
  BY <1>1, <1>2 DEF Restore
<1>4. d \in Datasets /\ n \in Nat
  BY <1>1 DEF Datasets
<1>5. IsSnapshot(Paused(snapshot)) /\ Paused(snapshot).policy = snapshot.policy
  BY PausedKeeps DEF SessionInv, SnapshotSound
<1>6. BootOf(s, Paused(snapshot), d)
  BY <1>2, <1>5, Booted
<1>7. /\ IsSnapshot(s) /\ s.model = TRUE /\ s.dataset = d /\ s.cursor = 0
      /\ s.policy = snapshot.policy /\ s.clock \in Int
  BY <1>4, <1>5, <1>6, ConsoleAssumption DEF BootOf
<1>8. EngineOf(e, d, 0, snapshot.policy)
  BY <1>2, <1>4, BootedEngineIsSound
<1>9. s.cursor \in 0..Len(Txns(s.dataset))
  <2>1. PICK S : Txns(d) \in Seq(S)
    BY <1>4, ConsoleAssumption DEF Txns
  <2>2. Len(Txns(d)) \in Nat
    BY <2>1
  <2> QED
    BY <1>7, <2>2
<1>10. EngineOf(e, s.dataset, s.cursor, s.policy)
  BY <1>7, <1>8
<1>11. s.dataset \in Datasets
  BY <1>4, <1>7
<1>12. /\ EngineOf(engine', s.dataset, snapshot'.cursor, snapshot'.policy)
       /\ snapshot'.clock \in Int
  BY <1>3, <1>4, <1>7, <1>9, <1>10, <1>11, StepReplays
<1>13. snapshot'.model = TRUE /\ snapshot'.dataset = s.dataset
  BY <1>3, <1>4, <1>7, <1>9, <1>11, Stepped
<1> QED
  BY <1>12, <1>13, FeedReached

LEMMA ServeReadTold ==
  ASSUME SessionInv, FeedSound, ServeRead PROVE FeedSound'
<1>1. CASE disk # << >> /\ disk[1].dataset # None /\ Restore(disk[1])
  <2>1. disk[1].dataset \in Imports /\ disk[1].cursor \in Nat
    BY <1>1 DEF SessionInv, DiskSound, Usable
  <2> QED
    BY <1>1, <2>1, RestoreTold
<1>2. CASE UNCHANGED << snapshot, engine >>
  BY <1>2, FeedKept
<1> QED
  BY <1>1, <1>2 DEF ServeRead

LEMMA PlaybackTold ==
  ASSUME SessionInv, FeedSound, Play \/ Pause \/ Tick \/ Step \/ \E v \in Speeds : SetSpeed(v)
  PROVE  FeedSound'
<1>1. IsSnapshot(snapshot) /\ snapshot.speed \in 1..60
  BY DEF SessionInv, SnapshotSound, IntervalSound
<1>2. CASE Play \/ Pause \/ (Tick /\ NextPayments(snapshot, 1) = << >>)
  <2>1. PICK v : snapshot' = [snapshot EXCEPT !.playing = v]
    BY <1>2 DEF Play, Pause, Tick, Paused
  <2>2. /\ SameRun(snapshot', snapshot)
        /\ snapshot'.policy = snapshot.policy /\ snapshot'.clock = snapshot.clock
    BY <1>1, <2>1, PlayingSet
  <2>3. engine' = engine
    BY <1>2 DEF Play, Pause, Tick
  <2> QED
    BY <2>2, <2>3, FeedKept DEF SameRun
<1>3. CASE \E v \in Speeds : SetSpeed(v)
  <2>1. PICK v : snapshot' = [snapshot EXCEPT !.speed = v] /\ engine' = engine
    BY <1>3 DEF SetSpeed
  <2>2. /\ SameRun(snapshot', snapshot)
        /\ snapshot'.policy = snapshot.policy /\ snapshot'.clock = snapshot.clock
    BY <1>1, <2>1, SpeedSet
  <2> QED
    BY <2>1, <2>2, FeedKept DEF SameRun
<1>4. CASE Tick /\ NextPayments(snapshot, 1) # << >>
  <2>1. snapshot.model
    BY <1>4 DEF SessionInv, SnapshotSound, TypeOK, IntervalSound, TimerMatchesPlaying, Tick
  <2>2. PICK n : n = PerTick(snapshot.speed)
    OBVIOUS
  <2>3. n \in Nat
    BY <1>1, <2>2, PerTickIsPositive
  <2>4. snapshot' = SteppedSnapshot(snapshot, n) /\ engine' = SteppedEngine(snapshot, engine, n)
    BY <1>4, <2>2 DEF Tick
  <2> QED
    BY <2>1, <2>3, <2>4, FeedSteps
<1>5. CASE Step
  <2>1. 1 \in Nat
    OBVIOUS
  <2> QED
    BY <1>5, <2>1, FeedSteps DEF Step
<1> QED
  BY <1>2, <1>3, <1>4, <1>5

LEMMA NextTold == SessionInv /\ FeedSound /\ [Next]_vars => FeedSound'
<1> SUFFICES ASSUME SessionInv, FeedSound, [Next]_vars PROVE FeedSound'
  OBVIOUS
<1>1. CASE EnsureLoaded \/ LoadFails
  BY <1>1, LoadingTold
<1>2. CASE LoadSucceeds \/ RestoreShipped \/ Reset \/ \E d \in Imports : LoadImported(d)
  BY <1>2, BootsTold
<1>3. CASE ServeRead
  BY <1>3, ServeReadTold
<1>4. CASE Reload
  BY <1>4, ReloadTold
<1>5. CASE Play \/ Pause \/ Tick \/ Step \/ \E v \in Speeds : SetSpeed(v)
  BY <1>5, PlaybackTold
<1>6. CASE UNCHANGED << snapshot, engine >>
  BY <1>6, FeedKept
<1>7. ASSUME NEW payee \in Payees, NEW mule \in BOOLEAN, Submit(payee, mule) PROVE FeedSound'
  BY <1>7, SubmitTold
<1>8. ASSUME NEW s \in Scenarios, NEW eligible \in SUBSET Payers, Inject(s, eligible)
      PROVE  FeedSound'
  BY <1>8, InjectTold
<1>9. ASSUME NEW i \in DOMAIN Policies, SetPolicy(Policies[i]) PROVE FeedSound'
  BY <1>9, SetPolicyTold
<1>10. ASSUME NEW t \in Seen, ResolveHold(t.id) PROVE FeedSound'
  BY <1>10, ResolveHoldTold
<1>11. CASE Sweep
  BY <1>11, SweepTold
<1>12. CASE SliceSamples
  BY <1>12, SliceSamplesTold
<1>13. ServeWrite \/ PersistTimerFires \/ UNCHANGED vars => UNCHANGED << snapshot, engine >>
  BY DEF ServeWrite, PersistTimerFires, vars
<1> QED
  BY <1>1, <1>2, <1>3, <1>4, <1>5, <1>6, <1>7, <1>8, <1>9, <1>10, <1>11, <1>12, <1>13, Zenon
  DEF Next

(* The invariant says that what is on screen is one thing. *)
LEMMA FeedTellsTheScreen == SessionInv /\ FeedSound => SessionIsSound
<1> SUFFICES ASSUME SessionInv, FeedSound PROVE SessionIsSound
  OBVIOUS
<1>1. TypeOK /\ TimerMatchesPlaying
  BY DEF SessionInv, SnapshotSound, IntervalSound
<1>2. CASE snapshot.model
  <2>1. EngineOf(engine, snapshot.dataset, snapshot.cursor, snapshot.policy)
    BY <1>2 DEF FeedSound
  <2>2. ReplayIsPrefix
    BY <2>1 DEF EngineOf, RunOf, ReplayIsPrefix
  <2>3. EngineFollowsPolicy
    BY <2>1 DEF EngineOf, EngineFollowsPolicy
  <2>4. SamplesAreCurrent
    BY <2>1 DEF EngineOf, SamplesAreCurrent
  <2>5. ASSUME NEW i \in DOMAIN engine.calls, engine.calls[i].call = "authorize"
        PROVE  Timely(engine, snapshot.dataset, i)
    <3>1. i \in 1..Len(engine.calls)
      BY <2>1, LengthIsNatural DEF EngineOf, IsEngine
    <3>2. PICK h \in Int : ToldAt(engine, snapshot.dataset, i, h)
      BY <2>1, <2>5, <3>1 DEF EngineOf, Told, CallsTold
    <3>3. Horizon(engine, snapshot.dataset, i) = h
      BY <3>2, HorizonIsTop DEF ToldAt
    <3> QED
      BY <3>2, <3>3, Zenon DEF ToldAt, Timely, DeclaredBefore
  <2>6. IntelIsTimely
    BY <2>5 DEF IntelIsTimely
  <2> QED
    BY <1>1, <2>2, <2>3, <2>4, <2>6 DEF SessionIsSound
<1>3. CASE ~snapshot.model
  <2>1. engine.calls = << >> /\ engine.scratch = None
    BY <1>3 DEF FeedSound, NoEngine
  <2>2. ReplayIsPrefix /\ EngineFollowsPolicy
    BY <1>3 DEF ReplayIsPrefix, EngineFollowsPolicy
  <2>3. IntelIsTimely /\ SamplesAreCurrent
    BY <2>1 DEF IntelIsTimely, SamplesAreCurrent
  <2> QED
    BY <1>1, <2>2, <2>3 DEF SessionIsSound
<1> QED
  BY <1>2, <1>3

(* Whatever ticks, steps, payments by hand, policies, imports, restores    *)
(* and reloads come: the feed has replayed exactly the slice up to the     *)
(* cursor, the engine decides with the policy shown, every payment was     *)
(* scored with what was asserted about its beneficiary by the latest       *)
(* moment reached and nothing later, and the samples are those of the      *)
(* dataset on screen.                                                      *)
THEOREM ScreenIsOneThing == Spec => []SessionIsSound
<1>1. Init => FeedSound
  <2> SUFFICES ASSUME Init PROVE FeedSound
    OBVIOUS
  <2>1. ~snapshot.model /\ engine = NoEngine
    BY DEF Init, InitialSnapshot
  <2> QED
    BY <2>1 DEF FeedSound
<1>2. SessionInv /\ FeedSound /\ [Next]_vars => FeedSound'
  BY NextTold
<1>3. SessionInv /\ FeedSound => SessionIsSound
  BY FeedTellsTheScreen
<1>4. Spec => []SessionInv
  BY SessionInvariant, PTL
<1> QED
  BY <1>1, <1>2, <1>3, <1>4, PTL DEF Spec

-----------------------------------------------------------------------------
(***************************************************************************)
(* The saved run.  A run of replayed payments only is determined by its    *)
(* slice and its position (CallsOf), so that a record saved at a position  *)
(* and an engine stepped to it have the same calls.  The parts: an engine  *)
(* extended by payments; what an engine of such a run has called; the      *)
(* records on their way to the disk; the invariant and the theorem.        *)
(***************************************************************************)

(* r has scored payments of a source after what e has done. *)
Adds(r, e, source) ==
  /\ r.flagged = e.flagged
  /\ Len(e.calls) \in Nat /\ Len(r.calls) \in Nat /\ Len(e.calls) <= Len(r.calls)
  /\ \A i \in 1..Len(e.calls) : r.calls[i] = e.calls[i]
  /\ \A i \in 1..Len(r.calls) :
       i > Len(e.calls) =>
         /\ IsPayment(r.calls[i]) /\ r.calls[i].call = "authorize" /\ r.calls[i].source = source

LEMMA PaymentAdds ==
  ASSUME NEW e, IsEngine(e), NEW txn, NEW source
  PROVE  /\ IsEngine(Authorized(e, txn, source))
         /\ Len(Authorized(e, txn, source).calls) = Len(e.calls) + 1
         /\ Adds(Authorized(e, txn, source), e, source)
<1> DEFINE r == Authorized(e, txn, source)
<1>1. PICK c : OneMore(r, e, c) /\ ScoredWith(r, e, c, txn) /\ c.source = source /\ IsPayment(c)
  BY AuthorizedScores DEF Scores
<1> HIDE DEF r
<1>2. /\ Len(e.calls) \in Nat /\ Len(r.calls) = Len(e.calls) + 1
      /\ \A i \in 1..Len(e.calls) : r.calls[i] = e.calls[i]
      /\ r.calls[Len(e.calls) + 1] = c
  BY <1>1, OneMoreCall
<1>3. c.call = "authorize" /\ r.flagged = e.flagged
  BY <1>1 DEF ScoredWith
<1>4. \A i \in 1..Len(r.calls) : i > Len(e.calls) => i = Len(e.calls) + 1
  BY <1>2
<1>5. Adds(r, e, source)
  BY <1>1, <1>2, <1>3, <1>4 DEF Adds
<1> QED
  BY <1>1, <1>2, <1>5 DEF OneMore, r

LEMMA AddsFollow ==
  ASSUME NEW e, NEW f, NEW g, NEW source, Adds(f, e, source), Adds(g, f, source)
  PROVE  Adds(g, e, source)
<1> DEFINE l == Len(e.calls)
           m == Len(f.calls)
           n == Len(g.calls)
<1>1. l \in Nat /\ m \in Nat /\ n \in Nat /\ l <= m /\ m <= n /\ g.flagged = e.flagged
  BY DEF Adds
<1>2. /\ \A i \in 1..l : f.calls[i] = e.calls[i]
      /\ \A i \in 1..m : g.calls[i] = f.calls[i]
  BY DEF Adds
<1>3. \A i \in 1..m :
        i > l => IsPayment(f.calls[i]) /\ f.calls[i].call = "authorize" /\ f.calls[i].source = source
  BY DEF Adds
<1>4. \A i \in 1..n :
        i > m => IsPayment(g.calls[i]) /\ g.calls[i].call = "authorize" /\ g.calls[i].source = source
  BY DEF Adds
<1>5. Adds(g, e, source) <=>
        /\ g.flagged = e.flagged /\ l \in Nat /\ n \in Nat /\ l <= n
        /\ \A i \in 1..l : g.calls[i] = e.calls[i]
        /\ \A i \in 1..n :
             i > l => IsPayment(g.calls[i]) /\ g.calls[i].call = "authorize" /\ g.calls[i].source = source
  BY DEF Adds
<1> HIDE DEF l, m, n
<1>6. \A i \in 1..l : i \in 1..m
  BY <1>1
<1>7. ASSUME NEW i \in 1..n, i > l
      PROVE  IsPayment(g.calls[i]) /\ g.calls[i].call = "authorize" /\ g.calls[i].source = source
  <2>1. CASE i > m
    BY <1>4, <2>1
  <2>2. CASE ~(i > m)
    <3>1. i \in 1..m
      BY <1>1, <2>2
    <3> QED
      BY <1>2, <1>3, <1>7, <3>1
  <2> QED
    BY <2>1, <2>2
<1>8. l <= n
  BY <1>1
<1> QED
  BY <1>1, <1>2, <1>5, <1>6, <1>7, <1>8

LEMMA PaymentsAdd ==
  ASSUME NEW e, IsEngine(e), NEW txns, Len(txns) \in Nat, NEW source
  PROVE  /\ IsEngine(AuthorizedAll(e, txns, source))
         /\ Adds(AuthorizedAll(e, txns, source), e, source)
<1> DEFINE m == Len(txns)
<1>1. PICK f : ScoringFollows(f, e, txns, source, m) /\ AuthorizedAll(e, txns, source) = f[m]
  BY ScoringUnfolds
<1> DEFINE T == {k \in Nat : k <= m => IsEngine(f[k]) /\ Adds(f[k], e, source)}
<1>2. 0 \in T
  <2>1. f[0] = e
    BY <1>1 DEF ScoringFollows
  <2>2. Len(e.calls) \in Nat
    BY LengthIsNatural DEF IsEngine
  <2>3. \A i \in 1..Len(e.calls) : ~(i > Len(e.calls))
    BY <2>2
  <2>4. Adds(e, e, source)
    BY <2>2, <2>3 DEF Adds
  <2> QED
    BY <2>1, <2>4
<1>3. ASSUME NEW k \in Nat, k \in T PROVE k + 1 \in T
  <2> SUFFICES ASSUME k + 1 <= m PROVE IsEngine(f[k + 1]) /\ Adds(f[k + 1], e, source)
    OBVIOUS
  <2>1. k + 1 \in 1..m /\ (k + 1) - 1 = k /\ k <= m
    OBVIOUS
  <2>2. IsEngine(f[k]) /\ Adds(f[k], e, source)
    BY <1>3, <2>1
  <2>3. f[k + 1] = Authorized(f[k], txns[k + 1], source)
    BY <1>1, <2>1 DEF ScoringFollows
  <2>4. /\ IsEngine(Authorized(f[k], txns[k + 1], source))
        /\ Adds(Authorized(f[k], txns[k + 1], source), f[k], source)
    BY <2>2, PaymentAdds
  <2>5. Adds(Authorized(f[k], txns[k + 1], source), e, source)
    BY <2>2, <2>4, AddsFollow
  <2> QED
    BY <2>3, <2>4, <2>5
<1> HIDE DEF T
<1>4. Nat \subseteq T
  BY <1>2, <1>3, SetInduction
<1>5. m \in T
  BY <1>4
<1> QED
  BY <1>1, <1>5 DEF T

-----------------------------------------------------------------------------
(* What was called, when nothing was called by hand *)

AssertedAt(d, i) ==
  AssertedBy(Corpus[d].intel, Txns(d)[i].payee,
             Max({Corpus[d].from - 1} \cup {Txns(d)[k].ts : k \in 1..i}))

(* The calls of a run that replayed the first n payments of d.             *)
CallsOf(d, n) ==
  [i \in 1..n |-> [call |-> "authorize", txn |-> Txns(d)[i], source |-> "replayed",
                   confirmed |-> AssertedAt(d, i).confirmed, hop |-> AssertedAt(d, i).hop]]

(* Replayed payments are recorded whole; a flag was raised for a payment   *)
(* by hand, the call right after it.                                       *)
ByTheBook(e) ==
  /\ \A i \in 1..Len(e.calls) : IsReplay(e.calls[i]) => IsPayment(e.calls[i])
  /\ \A f \in e.flagged : f[2] + 1 \in 1..Len(e.calls) /\ ~IsReplay(e.calls[f[2] + 1])

LEMMA PlayedBackCalls ==
  ASSUME NEW d \in Datasets, NEW n \in Nat, NEW p, NEW e, EngineOf(e, d, n, p), ByTheBook(e),
         PlayedBack(e)
  PROVE  e.calls = CallsOf(d, n)
<1> DEFINE l == Len(e.calls)
<1>1. IsEngine(e) /\ RunOf(e, d, n) /\ Told(e, d)
  BY DEF EngineOf
<1>2. l \in Nat /\ DOMAIN e.calls = 1..l
  BY <1>1, LengthIsNatural DEF IsEngine
<1>3. ReplayedAt(e) = 1..l
  BY <1>2 DEF PlayedBack
<1>4. \A i \in 1..l : IsReplay(e.calls[i])
  <2>1. \A i \in ReplayedAt(e) : IsReplay(e.calls[i])
    BY DEF ReplayedAt, IsReplay
  <2> QED
    BY <1>3, <2>1
<1>5. e.flagged = {}
  BY <1>4 DEF ByTheBook
<1>6. Cardinality(1..l) = n /\ \A i \in 1..l : e.calls[i].txn = Txns(d)[Cardinality({j \in 1..l : j <= i})]
  BY <1>1, <1>3 DEF RunOf
<1>7. e.calls = [i \in 1..l |-> e.calls[i]]
  BY <1>1, <1>2 DEF IsEngine, IsSequence
<1>8. CallsTold(e, d)
  BY <1>1 DEF Told
<1>9. \A i \in 1..l : IsPayment(e.calls[i])
  BY <1>4 DEF ByTheBook
<1>10. \A i \in 1..l : e.calls[i].call = "authorize" => \E h \in Int : ToldAt(e, d, i, h)
  BY <1>8 DEF CallsTold
<1> HIDE DEF l
<1>11. l = n
  BY <1>2, <1>6, FS_Interval
<1>12. ASSUME NEW i \in 1..l PROVE e.calls[i].txn = Txns(d)[i]
  <2>1. {j \in 1..l : j <= i} = 1..i
    BY <1>2
  <2>2. Cardinality(1..i) = i
    BY <1>2, FS_Interval
  <2> QED
    BY <1>6, <2>1, <2>2
<1>13. ASSUME NEW i \in 1..l
       PROVE  e.calls[i] = [call |-> "authorize", txn |-> Txns(d)[i], source |-> "replayed",
                            confirmed |-> AssertedAt(d, i).confirmed, hop |-> AssertedAt(d, i).hop]
  <2>1. PICK c : c = e.calls[i]
    OBVIOUS
  <2>2. c.call = "authorize" /\ c.source = "replayed" /\ c.txn = Txns(d)[i] /\ IsPayment(c)
    BY <1>4, <1>9, <1>12, <2>1 DEF IsReplay
  <2>3. PICK h \in Int : ToldAt(e, d, i, h)
    BY <1>10, <2>1, <2>2
  <2>4. Reached(e, d, i) = {Corpus[d].from - 1} \cup {Txns(d)[k].ts : k \in 1..i}
    <3>1. 1..i \subseteq 1..l
      BY <1>2
    <3>2. AuthorizedBy(e, i) = 1..i
      BY <1>4, <3>1 DEF AuthorizedBy, IsReplay
    <3>3. \A k \in 1..i : e.calls[k].txn = Txns(d)[k]
      BY <1>12, <3>1
    <3> QED
      BY <3>2, <3>3 DEF Reached
  <2>5. Max({Corpus[d].from - 1} \cup {Txns(d)[k].ts : k \in 1..i}) = h
    BY <2>3, <2>4, TopIsMax DEF ToldAt
  <2>6. AssertedAt(d, i) = AssertedBy(Corpus[d].intel, Txns(d)[i].payee, h)
    BY <2>5 DEF AssertedAt
  <2>7. ~DeclaredBefore(e, Txns(d)[i].payee, i)
    BY <1>5 DEF DeclaredBefore
  <2>8. /\ c.confirmed = (AssertedAt(d, i).confirmed \/ DeclaredBefore(e, Txns(d)[i].payee, i))
        /\ c.hop = AssertedAt(d, i).hop
    BY <2>1, <2>2, <2>3, <2>6, Zenon DEF ToldAt
  <2>9. AssertedAt(d, i).confirmed \in BOOLEAN
    BY AssertedIsBoolean DEF AssertedAt
  <2>10. c.confirmed = AssertedAt(d, i).confirmed
    BY <2>7, <2>8, <2>9, Zenon
  <2> QED
    BY <2>1, <2>2, <2>8, <2>10 DEF IsPayment
<1> QED
  BY <1>7, <1>11, <1>13 DEF CallsOf

-----------------------------------------------------------------------------
(* The engine stays by the book *)

LEMMA BookKept ==
  ASSUME NEW e, ByTheBook(e), NEW r, NEW source, Adds(r, e, source)
  PROVE  ByTheBook(r)
<1> DEFINE l == Len(e.calls)
           m == Len(r.calls)
<1>1. /\ l \in Nat /\ m \in Nat /\ l <= m /\ r.flagged = e.flagged
      /\ \A i \in 1..l : r.calls[i] = e.calls[i]
      /\ \A i \in 1..m : i > l => IsPayment(r.calls[i])
  BY DEF Adds
<1>2. /\ \A i \in 1..l : IsReplay(e.calls[i]) => IsPayment(e.calls[i])
      /\ \A f \in e.flagged : f[2] + 1 \in 1..l /\ ~IsReplay(e.calls[f[2] + 1])
  BY DEF ByTheBook
<1>3. ByTheBook(r) <=>
        /\ \A i \in 1..m : IsReplay(r.calls[i]) => IsPayment(r.calls[i])
        /\ \A f \in r.flagged : f[2] + 1 \in 1..m /\ ~IsReplay(r.calls[f[2] + 1])
  BY DEF ByTheBook
<1> HIDE DEF l, m
<1>4. /\ \A i \in 1..m : i \in 1..l \/ i > l
      /\ \A i \in 1..l : i \in 1..m
  BY <1>1
<1>5. \A i \in 1..m : IsReplay(r.calls[i]) => IsPayment(r.calls[i])
  BY <1>1, <1>2, <1>4
<1>6. ASSUME NEW f \in r.flagged PROVE f[2] + 1 \in 1..m /\ ~IsReplay(r.calls[f[2] + 1])
  <2>1. f[2] + 1 \in 1..l /\ ~IsReplay(e.calls[f[2] + 1])
    BY <1>1, <1>2
  <2> QED
    BY <1>1, <1>4, <2>1
<1> QED
  BY <1>3, <1>5, <1>6

LEMMA PaymentsByTheBook ==
  ASSUME NEW e, IsEngine(e), ByTheBook(e), NEW txns, Len(txns) \in Nat, NEW source
  PROVE  ByTheBook(AuthorizedAll(e, txns, source))
BY PaymentsAdd, BookKept

(* Nothing is called and nothing is flagged. *)
LEMMA FreshIsByTheBook ==
  ASSUME NEW e, e.calls = << >>, e.flagged = {} PROVE ByTheBook(e)
<1>1. Len(e.calls) = 0
  BY EmptyHasNoLength
<1> QED
  BY <1>1 DEF ByTheBook

LEMMA BootedByTheBook ==
  ASSUME NEW s, NEW d
  PROVE  /\ BootedEngine(s, d).calls = << >> /\ BootedEngine(s, d).flagged = {}
         /\ ByTheBook(BootedEngine(s, d))
<1>1. PICK x, y, z : /\ x = AdvanceTo(NewTimeline(Corpus[d].intel), Corpus[d].from - 1) /\ y = s.policy
                     /\ z = NewTimeline(<< >>)
  OBVIOUS
<1>2. NoEngine = [policy |-> None, calls |-> << >>, intel |-> z,
                  flagged |-> {}, confirmed |-> {}, victims |-> {}, scratch |-> None]
  BY <1>1 DEF NoEngine
<1>3. BootedEngine(s, d) = [NoEngine EXCEPT !.policy = y, !.intel = x]
  BY <1>1 DEF BootedEngine
<1>4. BootedEngine(s, d).calls = << >> /\ BootedEngine(s, d).flagged = {}
  BY <1>2, <1>3
<1> QED
  BY <1>4, FreshIsByTheBook

LEMMA NoEngineByTheBook == ByTheBook(NoEngine)
<1>1. NoEngine.calls = << >> /\ NoEngine.flagged = {}
  BY DEF NoEngine
<1> QED
  BY <1>1, FreshIsByTheBook

(* A call that is not a payment. *)
LEMMA CallByTheBook ==
  ASSUME NEW e, IsEngine(e), ByTheBook(e), NEW c, c.call # "authorize",
         NEW r, r = [e EXCEPT !.calls = Append(@, c)]
  PROVE  ByTheBook(r)
<1>1. r.calls = Append(e.calls, c) /\ r.flagged = e.flagged
  BY DEF IsEngine
<1>2. /\ Len(e.calls) \in Nat /\ Len(r.calls) = Len(e.calls) + 1
      /\ \A i \in 1..Len(e.calls) : r.calls[i] = e.calls[i]
      /\ r.calls[Len(e.calls) + 1] = c
  BY <1>1, Appended DEF IsEngine
<1>3. /\ \A i \in 1..Len(r.calls) : i \in 1..Len(e.calls) \/ i = Len(e.calls) + 1
      /\ \A i \in 1..Len(e.calls) : i \in 1..Len(r.calls)
  BY <1>2
<1>4. ~IsReplay(c)
  BY DEF IsReplay
<1>5. \A i \in 1..Len(r.calls) : IsReplay(r.calls[i]) => IsPayment(r.calls[i])
  BY <1>2, <1>3, <1>4 DEF ByTheBook
<1>6. ASSUME NEW f \in r.flagged
      PROVE  f[2] + 1 \in 1..Len(r.calls) /\ ~IsReplay(r.calls[f[2] + 1])
  <2>1. f[2] + 1 \in 1..Len(e.calls) /\ ~IsReplay(e.calls[f[2] + 1])
    BY <1>1 DEF ByTheBook
  <2> QED
    BY <1>2, <1>3, <2>1
<1> QED
  BY <1>5, <1>6 DEF ByTheBook

(* A payment composed for a beneficiary who was flagged for it. *)
LEMMA ComposedByTheBook ==
  ASSUME NEW e, IsEngine(e), ByTheBook(e), NEW told, IsEngine(told), told.calls = e.calls,
         NEW payee, told.flagged \subseteq e.flagged \cup {<< payee, Len(e.calls) >>}, NEW txn
  PROVE  ByTheBook(Authorized(told, txn, "composed"))
<1> DEFINE r == Authorized(told, txn, "composed")
           l == Len(e.calls)
<1>1. Adds(r, told, "composed") /\ Len(r.calls) = l + 1
  BY PaymentAdds
<1> HIDE DEF r
<1>2. l \in Nat /\ r.flagged = told.flagged /\ \A i \in 1..l : r.calls[i] = e.calls[i]
  BY <1>1 DEF Adds
<1>3. IsPayment(r.calls[l + 1]) /\ r.calls[l + 1].source = "composed"
  <2>1. \A i \in 1..Len(r.calls) : i > l => IsPayment(r.calls[i]) /\ r.calls[i].source = "composed"
    BY <1>1 DEF Adds
  <2>2. l + 1 \in 1..Len(r.calls) /\ l + 1 > l
    BY <1>1, <1>2
  <2> QED
    BY <2>1, <2>2
<1>4. ~IsReplay(r.calls[l + 1])
  BY <1>3 DEF IsReplay
<1>5. /\ \A i \in 1..l : IsReplay(e.calls[i]) => IsPayment(e.calls[i])
      /\ \A f \in e.flagged : f[2] + 1 \in 1..l /\ ~IsReplay(e.calls[f[2] + 1])
  BY DEF ByTheBook
<1>6. told.flagged \subseteq e.flagged \cup {<< payee, l >>}
  OBVIOUS
<1> HIDE DEF l
<1>7. /\ \A i \in 1..(l + 1) : i \in 1..l \/ i = l + 1
      /\ \A i \in 1..l : i \in 1..(l + 1)
      /\ l + 1 \in 1..(l + 1)
  BY <1>2
<1>8. \A i \in 1..(l + 1) : IsReplay(r.calls[i]) => IsPayment(r.calls[i])
  BY <1>2, <1>3, <1>5, <1>7
<1>9. ASSUME NEW f \in r.flagged PROVE f[2] + 1 \in 1..(l + 1) /\ ~IsReplay(r.calls[f[2] + 1])
  <2>1. CASE f \in e.flagged
    <3>1. f[2] + 1 \in 1..l /\ ~IsReplay(e.calls[f[2] + 1])
      BY <1>5, <2>1
    <3> QED
      BY <1>2, <1>7, <3>1
  <2>2. CASE f \notin e.flagged
    <3>1. f = << payee, l >>
      BY <1>2, <1>6, <2>2
    <3>2. f[2] = l
      BY <3>1
    <3> QED
      BY <1>4, <1>7, <3>2
  <2> QED
    BY <2>1, <2>2
<1> QED
  BY <1>1, <1>8, <1>9 DEF ByTheBook, r

(* Who is confirmed, the victims and the samples are not in the book.      *)
LEMMA SameBook ==
  ASSUME NEW e, ByTheBook(e), NEW r, r.calls = e.calls, r.flagged = e.flagged
  PROVE  ByTheBook(r)
BY DEF ByTheBook

-----------------------------------------------------------------------------
(* The engine of the session stays by the book *)

LEMMA SteppedByTheBook ==
  ASSUME NEW s, s.dataset \in Datasets, s.cursor \in 0..Len(Txns(s.dataset)), NEW n \in Nat,
         NEW e, IsEngine(e), ByTheBook(e)
  PROVE  ByTheBook(SteppedEngine(s, e, n))
<1>1. Len(NextPayments(s, n)) \in Nat
  BY NextPaymentsFollow
<1> QED
  BY <1>1, PaymentsByTheBook DEF SteppedEngine

(* Who is flagged and who is a victim changes no call.                     *)
Flagging(e, k, f) == [e EXCEPT !.confirmed = k, !.flagged = f]

LEMMA FlagNoted ==
  ASSUME NEW e, IsEngine(e), NEW k, NEW f
  PROVE  /\ IsEngine(Flagging(e, k, f))
         /\ Flagging(e, k, f).calls = e.calls /\ Flagging(e, k, f).flagged = f
<1> DEFINE r == Flagging(e, k, f)
<1>1. PICK y, q, x, f0, k0, v0, s0 :
        /\ y = e.policy /\ q = e.calls /\ x = e.intel /\ f0 = e.flagged
        /\ k0 = e.confirmed /\ v0 = e.victims /\ s0 = e.scratch
  OBVIOUS
<1>2. e = [policy |-> y, calls |-> q, intel |-> x, flagged |-> f0, confirmed |-> k0,
           victims |-> v0, scratch |-> s0]
  BY <1>1 DEF IsEngine
<1>3. r = [policy |-> y, calls |-> q, intel |-> x, flagged |-> f, confirmed |-> k,
           victims |-> v0, scratch |-> s0]
  <2>1. r = [e EXCEPT !.confirmed = k, !.flagged = f]
    BY DEF Flagging
  <2> HIDE DEF r
  <2> QED
    BY <1>2, <2>1
<1> HIDE DEF r
<1>4. /\ r.policy = y /\ r.calls = q /\ r.intel = x /\ r.flagged = f /\ r.confirmed = k
      /\ r.victims = v0 /\ r.scratch = s0
  BY <1>3
<1>5. IsSequence(q)
  BY <1>1 DEF IsEngine
<1>6. IsEngine(r)
  BY <1>3, <1>4, <1>5 DEF IsEngine
<1> QED
  BY <1>1, <1>4, <1>6 DEF r

LEMMA VictimNoted ==
  ASSUME NEW e, IsEngine(e), NEW v, NEW r, r = [e EXCEPT !.victims = v]
  PROVE  IsEngine(r) /\ r.calls = e.calls /\ r.flagged = e.flagged
<1>1. PICK y, q, x, f0, k0, v0, s0 :
        /\ y = e.policy /\ q = e.calls /\ x = e.intel /\ f0 = e.flagged
        /\ k0 = e.confirmed /\ v0 = e.victims /\ s0 = e.scratch
  OBVIOUS
<1>2. e = [policy |-> y, calls |-> q, intel |-> x, flagged |-> f0, confirmed |-> k0,
           victims |-> v0, scratch |-> s0]
  BY <1>1 DEF IsEngine
<1>3. r = [policy |-> y, calls |-> q, intel |-> x, flagged |-> f0, confirmed |-> k0,
           victims |-> v, scratch |-> s0]
  BY <1>1, <1>2
<1>4. r.calls = q /\ r.flagged = f0
  BY <1>3
<1>5. IsEngine(r)
  <2>1. IsSequence(q)
    BY <1>1 DEF IsEngine
  <2> QED
    BY <1>3, <1>4, <2>1 DEF IsEngine
<1> QED
  BY <1>1, <1>4, <1>5

LEMMA CallsByTheBook ==
  ASSUME SessionInv, FeedSound, ByTheBook(engine), snapshot.model,
         \/ \E payee, mule : Submit(payee, mule)
         \/ \E s \in Scenarios : \E eligible : Inject(s, eligible)
         \/ \E p : SetPolicy(p)
         \/ \E id : ResolveHold(id)
         \/ Sweep \/ SliceSamples
  PROVE  ByTheBook(engine')
<1>1. IsEngine(engine) /\ snapshot.clock \in Int
  BY RunInModel DEF EngineOf
<1>2. ASSUME NEW payee, NEW mule, Submit(payee, mule) PROVE ByTheBook(engine')
  <2>1. PICK k, f : k = engine.confirmed \cup {payee} /\ f = engine.flagged \cup {<< payee, Len(engine.calls) >>}
    OBVIOUS
  <2>2. PICK told : told = IF mule THEN [engine EXCEPT !.confirmed = @ \cup {payee},
                                             !.flagged   = @ \cup {<< payee, Len(engine.calls) >>}]
                           ELSE engine
    OBVIOUS
  <2>3. engine' = Authorized(told, Composed(payee), "composed")
    BY <1>2, <2>2 DEF Submit
  <2>4. mule => told = [engine EXCEPT !.confirmed = k, !.flagged = f]
    BY <1>1, <2>1, <2>2 DEF IsEngine
  <2>5. /\ IsEngine(told) /\ told.calls = engine.calls
        /\ told.flagged \subseteq engine.flagged \cup {<< payee, Len(engine.calls) >>}
    <3>1. CASE mule
      <4>1. told = Flagging(engine, k, f)
        BY <2>4, <3>1 DEF Flagging
      <4>2. IsEngine(told) /\ told.calls = engine.calls /\ told.flagged = f
        BY <1>1, <4>1, FlagNoted
      <4> QED
        BY <2>1, <4>2
    <3>2. CASE ~mule
      BY <1>1, <2>2, <3>2
    <3> QED
      BY <3>1, <3>2
  <2> QED
    BY <1>1, <2>3, <2>5, ComposedByTheBook
<1>3. ASSUME NEW s \in Scenarios, NEW eligible, Inject(s, eligible) PROVE ByTheBook(engine')
  <2>1. PICK template : template = Template(Pool, eligible)
    OBVIOUS
  <2>2. PICK txns : txns = Episode(s, template)
    OBVIOUS
  <2>3. PICK v : v = engine.victims \cup {template.payer}
    OBVIOUS
  <2>4. PICK chosen : chosen = [engine EXCEPT !.victims = v]
    OBVIOUS
  <2>5. [engine EXCEPT !.victims = @ \cup {template.payer}] = chosen
    BY <1>1, <2>3, <2>4 DEF IsEngine
  <2>6. engine' = AuthorizedAll(chosen, txns, s.id)
    BY <1>3, <2>1, <2>2, <2>5 DEF Inject
  <2>7. IsEngine(chosen) /\ chosen.calls = engine.calls /\ chosen.flagged = engine.flagged
    BY <1>1, <2>4, VictimNoted
  <2>8. Len(txns) \in Nat
    BY <1>1, <2>2, EpisodeIsTimed
  <2> QED
    BY <2>6, <2>7, <2>8, SameBook, PaymentsByTheBook
<1>4. ASSUME NEW c, c.call # "authorize", engine' = [engine EXCEPT !.calls = Append(@, c)]
      PROVE  ByTheBook(engine')
  BY <1>1, <1>4, CallByTheBook
<1>5. ASSUME NEW p, SetPolicy(p) PROVE ByTheBook(engine')
  <2>1. PICK c : c = [call |-> "setPolicy", policy |-> p]
    OBVIOUS
  <2>2. c.call # "authorize" /\ engine' = [engine EXCEPT !.calls = Append(@, c)]
    BY <1>5, <2>1 DEF SetPolicy
  <2> QED
    BY <1>4, <2>2
<1>6. ASSUME NEW id, ResolveHold(id) PROVE ByTheBook(engine')
  <2>1. PICK c : c = [call |-> "resolve", hold |-> id, at |-> snapshot.clock + 1]
    OBVIOUS
  <2>2. c.call # "authorize" /\ engine' = [engine EXCEPT !.calls = Append(@, c)]
    BY <1>6, <2>1 DEF ResolveHold
  <2> QED
    BY <1>4, <2>2
<1>7. CASE Sweep
  <2>1. PICK c : c = [call |-> "sweep", at |-> snapshot.clock]
    OBVIOUS
  <2>2. c.call # "authorize" /\ engine' = [engine EXCEPT !.calls = Append(@, c)]
    BY <1>7, <2>1 DEF Sweep
  <2> QED
    BY <1>4, <2>2
<1>8. CASE SliceSamples
  <2>1. PICK r : r = [engine EXCEPT !.scratch = snapshot.dataset]
    OBVIOUS
  <2>2. r.calls = engine.calls /\ r.flagged = engine.flagged
    BY <1>1, <2>1 DEF IsEngine
  <2> QED
    BY <1>8, <2>1, <2>2, SameBook DEF SliceSamples
<1> QED
  BY <1>2, <1>3, <1>5, <1>6, <1>7, <1>8

(* A restore boots an engine that has called nothing, and steps it.        *)
LEMMA RestoredEngine ==
  ASSUME NEW saved, saved.dataset \in Datasets, saved.cursor \in Nat, SessionInv, Restore(saved)
  PROVE  \E e : /\ e.calls = << >> /\ ByTheBook(e)
                /\ Adds(engine', e, "replayed") /\ ByTheBook(engine')
<1>1. PICK d, n : d = saved.dataset /\ n = saved.cursor
  OBVIOUS
<1>2. PICK s, e : s = BootedSnapshot(Paused(snapshot), d) /\ e = BootedEngine(snapshot, d)
  OBVIOUS
<1>3. engine' = AuthorizedAll(e, NextPayments(s, n), "replayed")
  BY <1>1, <1>2 DEF Restore, SteppedEngine
<1>4. s.dataset = d /\ s.cursor = 0
  <2>1. IsSnapshot(Paused(snapshot))
    BY PausedKeeps DEF SessionInv, SnapshotSound
  <2> QED
    BY ZenonT(40), <1>2, <2>1, Booted DEF BootOf
<1>5. d \in Datasets /\ n \in Nat
  BY <1>1
<1>6. s.dataset \in Datasets /\ s.cursor \in 0..Len(Txns(s.dataset))
  BY <1>4, <1>5, ConsoleAssumption DEF Txns
<1>7. Len(NextPayments(s, n)) \in Nat
  BY <1>5, <1>6, NextPaymentsFollow
<1>8. e.calls = << >> /\ ByTheBook(e)
  BY <1>2, BootedByTheBook
<1>9. IsEngine(e)
  BY <1>2, <1>5, BootedEngineIsSound DEF EngineOf
<1>10. Adds(engine', e, "replayed")
  BY <1>3, <1>7, <1>9, PaymentsAdd
<1>11. ByTheBook(engine')
  BY <1>8, <1>10, BookKept
<1> QED
  BY <1>8, <1>10, <1>11

LEMMA PlaybackByTheBook ==
  ASSUME SessionInv, FeedSound, ByTheBook(engine), Tick \/ Step
  PROVE  ByTheBook(engine')
<1>1. CASE engine' = engine
  BY <1>1
<1>2. ASSUME NEW n \in Nat, snapshot.model, engine' = SteppedEngine(snapshot, engine, n)
      PROVE  ByTheBook(engine')
  <2>1. IsEngine(engine)
    BY <1>2, RunInModel DEF EngineOf
  <2>2. snapshot.dataset \in Datasets /\ snapshot.cursor \in 0..Len(Txns(snapshot.dataset))
    BY DEF SessionInv, SnapshotSound, TypeOK
  <2> QED
    BY <1>2, <2>1, <2>2, SteppedByTheBook
<1>3. CASE Step
  <2>1. 1 \in Nat
    OBVIOUS
  <2> QED
    BY <1>2, <1>3, <2>1 DEF Step
<1>4. CASE Tick
  <2>1. snapshot.model /\ snapshot.speed \in 1..60
    BY <1>4 DEF SessionInv, SnapshotSound, TypeOK, IntervalSound, TimerMatchesPlaying, Tick
  <2>2. PerTick(snapshot.speed) \in Nat
    BY <2>1, PerTickIsPositive
  <2> QED
    BY <1>1, <1>2, <1>4, <2>1, <2>2 DEF Tick
<1> QED
  BY <1>3, <1>4

LEMMA NextByTheBook ==
  ASSUME SessionInv, FeedSound, ByTheBook(engine), [Next]_vars
  PROVE  ByTheBook(engine')
<1>1. CASE UNCHANGED engine
  BY <1>1
<1>2. CASE \E s, d : engine' = BootedEngine(s, d)
  BY <1>2, BootedByTheBook
<1>3. CASE Reload
  BY <1>3, NoEngineByTheBook DEF Reload
<1>4. CASE ServeRead
  <2>1. CASE disk # << >> /\ disk[1].dataset # None /\ Restore(disk[1])
    <3>1. disk[1].dataset \in Datasets /\ disk[1].cursor \in Nat
      BY <2>1 DEF SessionInv, DiskSound, Usable, Datasets
    <3> QED
      BY <2>1, <3>1, RestoredEngine
  <2> QED
    BY <1>1, <1>4, <2>1 DEF ServeRead
<1>5. CASE Tick \/ Step
  BY <1>5, PlaybackByTheBook
<1>6. CASE \/ \E payee, mule : Submit(payee, mule)
           \/ \E s \in Scenarios : \E eligible : Inject(s, eligible)
           \/ \E id : ResolveHold(id)
           \/ Sweep \/ SliceSamples
  <2>1. snapshot.model
    BY <1>6 DEF Submit, Inject, ResolveHold, Sweep, SliceSamples, MayCall
  <2> QED
    BY <1>6, <2>1, CallsByTheBook
<1>7. ASSUME NEW p, SetPolicy(p) PROVE ByTheBook(engine')
  <2>1. CASE snapshot.model
    BY <1>7, <2>1, CallsByTheBook
  <2>2. CASE ~snapshot.model
    BY <1>1, <1>7, <2>2 DEF SetPolicy
  <2> QED
    BY <2>1, <2>2
<1>8. \/ UNCHANGED engine \/ (\E s, d : engine' = BootedEngine(s, d)) \/ Reload \/ ServeRead
      \/ Tick \/ Step
      \/ \E payee, mule : Submit(payee, mule)
      \/ \E s \in Scenarios : \E eligible : Inject(s, eligible)
      \/ \E p : SetPolicy(p)
      \/ \E id : ResolveHold(id)
      \/ Sweep \/ SliceSamples
  <2>1. EnsureLoaded \/ LoadFails \/ ServeWrite \/ Play \/ Pause \/ PersistTimerFires \/ UNCHANGED vars
          => UNCHANGED engine
    BY DEF EnsureLoaded, LoadFails, ServeWrite, Play, Pause, PersistTimerFires, vars
  <2>2. \A v : SetSpeed(v) => UNCHANGED engine
    BY DEF SetSpeed
  <2>3. LoadSucceeds \/ Reset \/ (\E d : LoadImported(d)) => \E s, d : engine' = BootedEngine(s, d)
    BY DEF LoadSucceeds, Reset, LoadImported
  <2>4. RestoreShipped => UNCHANGED engine \/ \E s, d : engine' = BootedEngine(s, d)
    BY DEF RestoreShipped
  <2> QED
    BY <2>1, <2>2, <2>3, <2>4, Zenon DEF Next
<1> QED
  BY <1>1, <1>2, <1>3, <1>4, <1>5, <1>6, <1>7, <1>8

-----------------------------------------------------------------------------
(* Records on their way to the disk *)

(* A record of a run; one that was replayed only has the calls of its      *)
(* position.                                                               *)
RunSaved(v) ==
  /\ v.dataset \in Datasets /\ v.cursor \in 0..Len(Txns(v.dataset))
  /\ PlayedBack(v.engine) => v.engine.calls = CallsOf(v.dataset, v.cursor)

QueueSaved == \A i \in 1..Len(io) : io[i].op = "put" => RunSaved(io[i].value)

DiskSaved == disk # << >> => disk[1].dataset = None \/ RunSaved(disk[1])

SavedInv == ByTheBook(engine) /\ QueueSaved /\ DiskSaved

LEMMA RunRecorded ==
  ASSUME NEW s, s.dataset \in Datasets, s.cursor \in 0..Len(Txns(s.dataset)),
         NEW p, NEW e, EngineOf(e, s.dataset, s.cursor, p), ByTheBook(e)
  PROVE  RunSaved(Record(s, e, s.dataset))
<1> DEFINE v == Record(s, e, s.dataset)
<1>1. v.dataset = s.dataset /\ v.cursor = s.cursor /\ v.engine.calls = e.calls
  BY DEF Record
<1>2. PlayedBack(v.engine) <=> PlayedBack(e)
  BY <1>1 DEF PlayedBack, ReplayedAt
<1>3. s.cursor \in Nat
  BY ConsoleAssumption DEF Txns
<1>4. PlayedBack(e) => e.calls = CallsOf(s.dataset, s.cursor)
  BY <1>3, PlayedBackCalls
<1> HIDE DEF v
<1> QED
  BY <1>1, <1>2, <1>4 DEF RunSaved, v

(* Whatever becomes of the queue: what is put is the record of a run.      *)
LEMMA QueueSavedGrows ==
  ASSUME QueueSound, QueueSaved, NEW o, o.op = "put" => RunSaved(o.value), io' = Append(io, o)
  PROVE  QueueSaved'
<1>1. /\ Len(io) \in Nat /\ Len(io') = Len(io) + 1
      /\ \A i \in 1..Len(io) : io'[i] = io[i]
      /\ io'[Len(io) + 1] = o
  BY Appended DEF QueueSound
<1>2. \A i \in 1..Len(io') : i \in 1..Len(io) \/ io'[i] = o
  BY <1>1
<1> QED
  BY <1>1, <1>2 DEF QueueSaved

LEMMA QueueSavedServed ==
  ASSUME QueueSound, QueueSaved, io # << >>
  PROVE  /\ \A i \in 1..Len(Tail(io)) : Tail(io)[i].op = "put" => RunSaved(Tail(io)[i].value)
         /\ Head(io).op = "put" => RunSaved(Head(io).value)
<1>1. /\ Len(io) \in Nat /\ Len(io) > 0
      /\ Len(Tail(io)) = Len(io) - 1
      /\ \A i \in 1..(Len(io) - 1) : Tail(io)[i] = io[i + 1]
      /\ Head(io) = io[1]
  BY Served DEF QueueSound
<1>2. 1 \in 1..Len(io) /\ \A i \in 1..(Len(io) - 1) : i + 1 \in 1..Len(io)
  BY <1>1
<1> QED
  BY <1>1, <1>2 DEF QueueSaved

LEMMA CommandsPutNothing == Clear.op # "put" /\ Read.op # "put"
BY DEF Clear, Read

(* The queue and the disk, as the storage serves them. *)
LEMMA StorageSaved ==
  ASSUME SessionInv, SavedInv, ServeRead \/ ServeWrite
  PROVE  QueueSaved' /\ DiskSaved'
<1>1. QueueSound /\ QueueSaved /\ DiskSaved
  BY DEF SessionInv, SavedInv
<1>2. io # << >>
  BY DEF ServeRead, ServeWrite
<1>3. /\ \A i \in 1..Len(Tail(io)) : Tail(io)[i].op = "put" => RunSaved(Tail(io)[i].value)
      /\ Head(io).op = "put" => RunSaved(Head(io).value)
  BY <1>1, <1>2, QueueSavedServed
<1>4. CASE io' = Tail(io)
  <2>1. QueueSaved'
    BY <1>3, <1>4 DEF QueueSaved
  <2>2. CASE disk' = disk
    BY <1>1, <2>1, <2>2 DEF DiskSaved
  <2>3. CASE disk' = << >>
    BY <2>1, <2>3 DEF DiskSaved
  <2>4. CASE Head(io) # Clear /\ Head(io) # Read /\ disk' = << Head(io).value >>
    <3>1. Head(io).op = "put"
      <4>1. 1 \in 1..Len(io) /\ Head(io) = io[1]
        BY <1>1, <1>2, Served DEF QueueSound
      <4>2. IsWrite(io[1])
        BY <1>1, <2>4, <4>1 DEF QueueSound
      <4> QED
        BY <2>4, <4>1, <4>2 DEF IsWrite
    <3>2. RunSaved(disk'[1])
      BY <1>3, <2>4, <3>1
    <3> QED
      BY <2>1, <3>2 DEF DiskSaved
  <2> QED
    BY <2>2, <2>3, <2>4 DEF ServeRead, ServeWrite
<1>5. CASE io' = Append(Tail(io), Clear) /\ ServeRead
  <2>1. disk' = disk
    BY <1>5 DEF ServeRead
  <2>2. PICK q : q = Tail(io)
    OBVIOUS
  <2>3. IsSequence(q)
    BY <1>1, <1>2, <2>2, Served DEF QueueSound
  <2>4. /\ Len(q) \in Nat /\ Len(io') = Len(q) + 1
        /\ \A i \in 1..Len(q) : io'[i] = q[i]
        /\ io'[Len(q) + 1] = Clear
    BY <1>5, <2>2, <2>3, Appended
  <2>5. \A i \in 1..Len(io') : i \in 1..Len(q) \/ io'[i] = Clear
    BY <2>4
  <2>6. QueueSaved'
    BY <1>3, <2>2, <2>4, <2>5, CommandsPutNothing DEF QueueSaved
  <2> QED
    BY <1>1, <2>1, <2>6 DEF DiskSaved
<1>6. io' = Tail(io) \/ (io' = Append(Tail(io), Clear) /\ ServeRead)
  BY DEF ServeRead, ServeWrite
<1> QED
  BY <1>4, <1>5, <1>6

(* A run is saved as it is on screen, or as it was booted. *)
LEMMA RunIsSaved ==
  ASSUME SessionInv, FeedSound, SavedInv,
         PersistTimerFires \/ \E d \in Imports : LoadImported(d)
  PROVE  QueueSaved' /\ DiskSaved'
<1>1. QueueSound /\ QueueSaved /\ DiskSaved /\ ByTheBook(engine)
  BY DEF SessionInv, SavedInv
<1>2. DiskSaved'
  BY <1>1 DEF DiskSaved, PersistTimerFires, LoadImported
<1>3. CASE io' = io
  BY <1>1, <1>2, <1>3 DEF QueueSaved
<1>4. CASE PersistTimerFires /\ io' # io
  <2>1. io' = Append(io, Save(snapshot, engine, imported)) /\ imported # None /\ snapshot.dataset # Shipped
    BY <1>4 DEF PersistTimerFires, Persist
  <2>2. /\ snapshot.model /\ imported = snapshot.dataset /\ snapshot.dataset \in Datasets
        /\ snapshot.cursor \in 0..Len(Txns(snapshot.dataset))
    BY <2>1 DEF SessionInv, SnapshotSound, TypeOK
  <2>3. EngineOf(engine, snapshot.dataset, snapshot.cursor, snapshot.policy)
    BY <2>2 DEF FeedSound
  <2>4. RunSaved(Record(snapshot, engine, snapshot.dataset))
    BY <1>1, <2>2, <2>3, RunRecorded
  <2>5. PICK o : o = Save(snapshot, engine, imported)
    OBVIOUS
  <2>6. o.value = Record(snapshot, engine, snapshot.dataset)
    BY <2>2, <2>5 DEF Save
  <2> QED
    BY <1>1, <1>2, <2>1, <2>4, <2>5, <2>6, QueueSavedGrows
<1>5. ASSUME NEW d \in Imports, LoadImported(d), io' # io PROVE QueueSaved'
  <2>1. PICK s, e : s = snapshot' /\ e = engine'
    OBVIOUS
  <2>2. PICK o : o = Save(s, e, d)
    OBVIOUS
  <2>3. io' = Append(io, o)
    BY <1>5, <2>1, <2>2 DEF LoadImported, Persist
  <2>4. d \in Datasets
    BY DEF Datasets
  <2>5. s.dataset = d /\ s.cursor = 0
    <3>1. IsSnapshot(Paused(snapshot))
      BY PausedKeeps DEF SessionInv, SnapshotSound
    <3>2. BootOf(BootedSnapshot(Paused(snapshot), d), Paused(snapshot), d)
      BY <3>1, Booted
    <3> QED
      BY <1>5, <2>1, <3>2 DEF LoadImported, BootOf
  <2>6. EngineOf(e, d, 0, snapshot.policy) /\ ByTheBook(e)
    BY <1>5, <2>1, <2>4, BootedEngineIsSound, BootedByTheBook DEF LoadImported
  <2>7. s.cursor \in 0..Len(Txns(s.dataset)) /\ s.dataset \in Datasets
    BY <2>4, <2>5, ConsoleAssumption DEF Txns
  <2>8. EngineOf(e, s.dataset, s.cursor, snapshot.policy)
    BY <2>5, <2>6
  <2>9. RunSaved(Record(s, e, s.dataset))
    BY <2>6, <2>7, <2>8, RunRecorded
  <2>10. o.value = Record(s, e, s.dataset)
    BY <2>2, <2>5 DEF Save
  <2> QED
    BY <1>1, <2>3, <2>9, <2>10, QueueSavedGrows
<1> QED
  BY <1>2, <1>3, <1>4, <1>5

LEMMA NextSaved ==
  ASSUME SessionInv, FeedSound, SavedInv, [Next]_vars PROVE SavedInv'
<1>1. QueueSound /\ QueueSaved /\ DiskSaved /\ ByTheBook(engine)
  BY DEF SessionInv, SavedInv
<1>2. ByTheBook(engine')
  BY <1>1, NextByTheBook
<1> SUFFICES QueueSaved' /\ DiskSaved'
  BY <1>2 DEF SavedInv
<1>3. CASE UNCHANGED << io, disk >>
  BY <1>1, <1>3 DEF QueueSaved, DiskSaved
<1>4. CASE LoadSucceeds \/ RestoreShipped
  <2>1. disk' = disk /\ (io' = Append(io, Read) \/ io' = Append(io, Clear))
    BY <1>4 DEF LoadSucceeds, RestoreShipped
  <2>2. QueueSaved'
    BY <1>1, <2>1, CommandsPutNothing, QueueSavedGrows
  <2> QED
    BY <1>1, <2>1, <2>2 DEF DiskSaved
<1>5. CASE Reload
  <2>1. io' = << >> /\ disk' = disk
    BY <1>5 DEF Reload
  <2>2. Len(io') = 0
    BY <2>1, EmptyHasNoLength
  <2> QED
    BY <1>1, <2>1, <2>2 DEF QueueSaved, DiskSaved
<1>6. CASE ServeRead \/ ServeWrite
  BY <1>6, StorageSaved
<1>7. CASE PersistTimerFires \/ \E d \in Imports : LoadImported(d)
  BY <1>7, RunIsSaved
<1>8. \/ UNCHANGED << io, disk >> \/ LoadSucceeds \/ RestoreShipped \/ Reload
      \/ ServeRead \/ ServeWrite \/ PersistTimerFires \/ \E d \in Imports : LoadImported(d)
  <2>1. EnsureLoaded \/ LoadFails \/ Reset \/ Play \/ Pause \/ Tick \/ Step \/ Sweep \/ SliceSamples
          \/ UNCHANGED vars => UNCHANGED << io, disk >>
    BY DEF EnsureLoaded, LoadFails, Reset, Play, Pause, Tick, Step, Sweep, SliceSamples, vars
  <2>2. \A v : SetSpeed(v) \/ SetPolicy(v) \/ ResolveHold(v) => UNCHANGED << io, disk >>
    BY DEF SetSpeed, SetPolicy, ResolveHold
  <2>3. \A v, w : Submit(v, w) \/ Inject(v, w) => UNCHANGED << io, disk >>
    BY DEF Submit, Inject
  <2> QED
    BY <2>1, <2>2, <2>3, Zenon DEF Next
<1> QED
  BY <1>3, <1>4, <1>5, <1>6, <1>7, <1>8

(* The read finds a record: the session is where it was saved. *)
LEMMA SavedRunComesBack ==
  ASSUME SessionInv, FeedSound, SavedInv, [Next]_vars, Restores, PlayedBack(disk[1].engine)
  PROVE  engine'.calls = disk[1].engine.calls /\ snapshot'.cursor = disk[1].cursor
<1>1. /\ disk # << >> /\ disk[1].dataset # None /\ Restore(disk[1])
  <2>1. engine' # engine /\ load = "reading" /\ load' = "done"
    BY DEF Restores
  <2>2. ServeRead
    <3>1. EnsureLoaded \/ LoadSucceeds \/ LoadFails => load # "reading"
      BY DEF EnsureLoaded, LoadSucceeds, LoadFails
    <3>2. Reload \/ ServeWrite \/ RestoreShipped \/ Reset \/ Play \/ Pause \/ Tick \/ Step
            \/ PersistTimerFires \/ Sweep \/ SliceSamples \/ UNCHANGED vars => load' # "done" \/ load' = load
      BY DEF Reload, ServeWrite, RestoreShipped, Reset, Play, Pause, Tick, Step, PersistTimerFires,
             Sweep, SliceSamples, vars
    <3>3. \A v : LoadImported(v) \/ SetSpeed(v) \/ SetPolicy(v) \/ ResolveHold(v) => load' = load
      BY DEF LoadImported, SetSpeed, SetPolicy, ResolveHold
    <3>4. \A v, w : Submit(v, w) \/ Inject(v, w) => load' = load
      BY DEF Submit, Inject
    <3>5. load # "done" /\ load' # load
      BY <2>1
    <3> QED
      BY <2>1, <3>1, <3>2, <3>3, <3>4, <3>5, Zenon DEF Next
  <2> QED
    BY <2>1, <2>2 DEF ServeRead
<1>2. PICK v : v = disk[1]
  OBVIOUS
<1>3. RunSaved(v) /\ v.engine.calls = CallsOf(v.dataset, v.cursor)
  BY <1>1, <1>2 DEF SavedInv, DiskSaved, RunSaved
<1>4. v.dataset \in Datasets /\ v.cursor \in 0..Len(Txns(v.dataset)) /\ v.cursor \in Nat
  BY <1>3, ConsoleAssumption DEF RunSaved, Txns
<1>5. Restore(v)
  BY <1>1, <1>2
<1>6. snapshot'.cursor = v.cursor /\ snapshot'.dataset = v.dataset /\ snapshot'.model = TRUE
  <2>1. PICK s : s = BootedSnapshot(Paused(snapshot), v.dataset)
    OBVIOUS
  <2>2. BootOf(s, Paused(snapshot), v.dataset)
    <3>1. IsSnapshot(Paused(snapshot))
      BY PausedKeeps DEF SessionInv, SnapshotSound
    <3> QED
      BY <2>1, <3>1, Booted
  <2>3. IsSnapshot(s) /\ s.dataset = v.dataset /\ s.cursor = 0 /\ s.model = TRUE
    BY <2>2 DEF BootOf
  <2>4. PICK n : n = v.cursor
    OBVIOUS
  <2>5. snapshot' = SteppedSnapshot(s, n)
    BY <1>5, <2>1, <2>4 DEF Restore
  <2>6. n \in Nat /\ s.cursor \in 0..Len(Txns(s.dataset)) /\ s.dataset \in Datasets /\ n <= Len(Txns(s.dataset))
    BY <1>4, <2>3, <2>4
  <2>7. /\ snapshot'.cursor = s.cursor + Len(NextPayments(s, n))
        /\ snapshot'.dataset = s.dataset /\ snapshot'.model = s.model
    BY <2>3, <2>5, <2>6, Stepped
  <2>8. Len(NextPayments(s, n)) = n
    BY <2>3, <2>6, AllAreLeft
  <2> QED
    BY <2>3, <2>4, <2>6, <2>7, <2>8
<1>7. EngineOf(engine', v.dataset, v.cursor, snapshot'.policy)
  <2>1. v.dataset \in Imports
    BY <1>1, <1>2 DEF SessionInv, DiskSound, Usable
  <2>2. FeedSound'
    BY <1>4, <1>5, <2>1, RestoreTold
  <2>3. EngineOf(engine', snapshot'.dataset, snapshot'.cursor, snapshot'.policy)
    BY <1>6, <2>2 DEF FeedSound
  <2> QED
    BY <1>6, <2>3
<1>8. ByTheBook(engine') /\ PlayedBack(engine')
  <2>1. PICK e : e.calls = << >> /\ Adds(engine', e, "replayed") /\ ByTheBook(engine')
    BY <1>4, <1>5, RestoredEngine
  <2>2. Len(e.calls) = 0
    BY <2>1, EmptyHasNoLength
  <2>3. \A i \in 1..Len(engine'.calls) :
          i > 0 => engine'.calls[i].call = "authorize" /\ engine'.calls[i].source = "replayed"
    BY <2>1, <2>2 DEF Adds
  <2>4. DOMAIN engine'.calls = 1..Len(engine'.calls) /\ Len(engine'.calls) \in Nat
    BY <1>7, LengthIsNatural DEF EngineOf, IsEngine
  <2>5. \A i \in 1..Len(engine'.calls) : i > 0
    BY <2>4
  <2> QED
    BY <2>1, <2>3, <2>4, <2>5 DEF PlayedBack, ReplayedAt
<1>9. engine'.calls = CallsOf(v.dataset, v.cursor)
  BY <1>4, <1>7, <1>8, PlayedBackCalls
<1> QED
  BY <1>2, <1>3, <1>6, <1>9

(* Whatever was stepped, imported, put away and reloaded, and in whatever  *)
(* order the storage and the debounced save came: a reload that finds a    *)
(* record of a run without calls by hand replays it to the same position,  *)
(* with the same calls, each told what it was told before.                 *)
THEOREM SavedRunIsReplayed == Spec => RestoreReplaysTheSavedRun
<1>1. Init => FeedSound /\ SavedInv
  <2> SUFFICES ASSUME Init PROVE FeedSound /\ SavedInv
    OBVIOUS
  <2>1. ~snapshot.model /\ engine = NoEngine
    BY DEF Init, InitialSnapshot
  <2>2. io = << >> /\ (disk = << >> \/ disk = << [dataset |-> None] >>)
    BY DEF Init
  <2>3. Len(io) = 0
    BY <2>2, EmptyHasNoLength
  <2>4. disk # << >> => disk[1].dataset = None
    BY <2>2
  <2> QED
    BY <2>1, <2>3, <2>4, NoEngineByTheBook DEF FeedSound, SavedInv, QueueSaved, DiskSaved
<1>2. SessionInv /\ FeedSound /\ [Next]_vars => FeedSound'
  BY NextTold
<1>3. SessionInv /\ FeedSound /\ SavedInv /\ [Next]_vars => SavedInv'
  BY NextSaved
<1>4. SessionInv /\ FeedSound /\ SavedInv /\ [Next]_vars =>
        [(Restores /\ PlayedBack(disk[1].engine)) =>
            engine'.calls = disk[1].engine.calls /\ snapshot'.cursor = disk[1].cursor]_vars
  BY SavedRunComesBack
<1>5. Spec => []SessionInv
  BY SessionInvariant, PTL
<1> QED
  BY <1>1, <1>2, <1>3, <1>4, <1>5, PTL DEF Spec, RestoreReplaysTheSavedRun
=============================================================================
