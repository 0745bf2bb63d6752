--------------------------- MODULE ConsoleSession ---------------------------
(***************************************************************************)
(* The console session (apps/web/lib/session.ts) over its local storage    *)
(* (apps/web/lib/persist.ts).  One engine lives in the browser tab; the    *)
(* operator plays, steps, composes and injects payments, changes policy,   *)
(* imports a file or goes back to the shipped corpus, while the data load, *)
(* the answer of the storage, the playback interval and the debounced save *)
(* come when they come.  A reload loses everything but the storage.        *)
(*                                                                         *)
(* The engine is deterministic, so its state is the policy it was built    *)
(* with and the calls it has taken since.                                  *)
(***************************************************************************)
EXTENDS IntelTimeline, TLC

CONSTANTS Imports,     \* files an operator may import
          Shipped,     \* the corpus the console ships with
          Corpus,      \* of each: its payments, its intelligence, its start
          Policies,    \* the first is the default
          Speeds,      \* positions of the speed control
          Scenarios,   \* injectable episodes
          None

CONSTANTS MaxOps,      \* bound: what the operator does besides playing
          MaxReloads,  \* bound: reloads of the page
          MaxRefusals  \* bound: storage operations that fail

Datasets == Imports \cup {Shipped}

ASSUME ConsoleAssumption ==
  /\ Shipped \notin Imports /\ None \notin Datasets
  /\ DOMAIN Corpus = Datasets
  /\ \A d \in Datasets :
       /\ Corpus[d].txns \in Seq(ToSet(Corpus[d].txns)) /\ Corpus[d].from \in Int
       /\ \A t \in ToSet(Corpus[d].txns) : t.ts \in Int
       /\ Corpus[d].intel \in Seq(ToSet(Corpus[d].intel))
       /\ \A e \in ToSet(Corpus[d].intel) : e.ts \in Int /\ e.hop \in Nat
  /\ \A s \in Scenarios : s.id # "replayed" /\ s.after \in Seq(Nat) /\ s.after # << >>
  /\ Len(Policies) > 0 /\ Speeds \subseteq 1..60

VARIABLES
  snapshot,      \* what the pages render: status, dataset, cursor, clock, ...
  engine,        \* what boot rebuilds: the engine, timeline, victims, samples
  imported,      \* importedDataset
  load,          \* loadPromise: none, fetching, reading, done, dropped or failed
  timer,         \* the playback interval is set
  persistTimer,  \* the debounced save is set
  io,            \* storage operations issued and not yet served, in order
  disk,          \* what IndexedDB holds under its one key: a sequence of at most one value
  ops, reloads, refusals

(* How the screen came to be elsewhere than the last write says, which the *)
(* session does not know: "no", it is not; "rewound" by reset, which saves *)
(* nothing; "erased" by the delete of an old shape, issued after an import *)
(* was; "overtaken" by the answer of the storage, which came over what the *)
(* operator had chosen meanwhile.                                          *)
VARIABLE behind

vars == << snapshot, engine, imported, load, timer, persistTimer, io, disk,
           ops, reloads, refusals, behind >>

Txns(d) == Corpus[d].txns

-----------------------------------------------------------------------------
(* Snapshot and engine *)

InitialSnapshot ==
  [status |-> "idle", model |-> FALSE, dataset |-> Shipped, cursor |-> 0,
   playing |-> FALSE, speed |-> 6, policy |-> Policies[1], clock |-> 0]

NoEngine == [policy |-> None, calls |-> << >>, intel |-> NewTimeline(<< >>),
             flagged |-> {}, confirmed |-> {}, victims |-> {}, scratch |-> None]

(* Mutant: a boot goes back to the default policy. *)
BootedEngineDefaultPolicy(s, d) ==
  [NoEngine EXCEPT !.policy = Policies[1],
     !.intel = AdvanceTo(NewTimeline(Corpus[d].intel), Corpus[d].from - 1)]

(* Mutant: a boot keeps the samples of the slice before. *)
BootedEngineKeepsSamples(s, d) ==
  [NoEngine EXCEPT !.policy = s.policy, !.scratch = engine.scratch,
     !.intel = AdvanceTo(NewTimeline(Corpus[d].intel), Corpus[d].from - 1)]

(* boot: a new store, timeline and engine; what happened before the window *)
(* is already absorbed.  The engine is built with the policy in force.     *)
BootedEngine(s, d) ==
  [NoEngine EXCEPT
     !.policy = s.policy,
     !.intel  = AdvanceTo(NewTimeline(Corpus[d].intel), Corpus[d].from - 1)]

(* Mutant: a boot leaves the cursor where it was. *)
BootedSnapshotKeepsCursor(s, d) ==
  [s EXCEPT !.status = "ready", !.model = TRUE, !.dataset = d, !.clock = Corpus[d].from]

BootedSnapshot(s, d) ==
  [s EXCEPT !.status = "ready", !.model = TRUE, !.dataset = d, !.cursor = 0,
            !.clock = Corpus[d].from]

(* Mutant: pause clears the interval and forgets the flag. *)
PausedOnlyTimer(s) == s

Paused(s) == [s EXCEPT !.playing = FALSE]

(* Mutant: a payment is scored before the intelligence of its moment. *)
AuthorizedLate(e, txn, source) ==
  LET told      == Lookup(e.intel, txn.payee)
      confirmed == told.confirmed \/ txn.payee \in e.confirmed
  IN  [e EXCEPT
         !.intel     = AdvanceTo(e.intel, txn.ts),
         !.confirmed = IF confirmed THEN @ \cup {txn.payee} ELSE @,
         !.calls     = Append(@, [call |-> "authorize", txn |-> txn, source |-> source,
                                  confirmed |-> confirmed, hop |-> told.hop])]

(* The private authorize: intelligence up to the payment, merged into what *)
(* the store already says of the beneficiary, and then the engine.  Where  *)
(* the timeline has no distance the profile keeps the one it had: that is  *)
(* of a beneficiary confirmed since, whose distance nothing reads.         *)
Authorized(e, txn, source) ==
  LET intel     == AdvanceTo(e.intel, txn.ts)
      told      == Lookup(intel, txn.payee)
      confirmed == told.confirmed \/ txn.payee \in e.confirmed
  IN  [e EXCEPT
         !.intel     = intel,
         !.confirmed = IF confirmed THEN @ \cup {txn.payee} ELSE @,
         !.calls     = Append(@, [call |-> "authorize", txn |-> txn, source |-> source,
                                  confirmed |-> confirmed, hop |-> told.hop])]

AuthorizedAll(e, txns, source) ==
  LET after[i \in 0..Len(txns)] ==
        IF i = 0 THEN e ELSE Authorized(after[i - 1], txns[i], source)
  IN  after[Len(txns)]

(* step(n): the next payments of the slice, as many as there are. *)
NextPayments(s, n) ==
  SubSeq(Txns(s.dataset), s.cursor + 1, Min({s.cursor + n, Len(Txns(s.dataset))}))

SteppedEngine(s, e, n) == AuthorizedAll(e, NextPayments(s, n), "replayed")

SteppedSnapshot(s, n) ==
  LET txns == NextPayments(s, n)
  IN  IF txns = << >> THEN s
      ELSE [s EXCEPT !.cursor = @ + Len(txns), !.clock = Last(txns).ts]

PerTick(speed) == Max({1, (speed + 5) \div 10})

Replayed(e) == SelectSeq(e.calls, LAMBDA c : c.call = "authorize" /\ c.source = "replayed")

-----------------------------------------------------------------------------
(* Storage: every operation opens the database and is served in order, or  *)
(* is refused; none rejects.                                               *)

(* Mutant: the position is read one payment late. *)
RecordOneShort(s, e, d) ==
  [dataset |-> d, cursor |-> Max({0, s.cursor - 1}),
   engine |-> [policy |-> e.policy, calls |-> e.calls]]

(* What persist writes, with the engine of that moment as history. *)
Record(s, e, d) == [dataset |-> d, cursor |-> s.cursor,
                    engine |-> [policy |-> e.policy, calls |-> e.calls]]

Save(s, e, d) == [op |-> "put", value |-> Record(s, e, d)]
Clear         == [op |-> "clear"]
Read          == [op |-> "get"]

(* Mutant: the shipped corpus is saved as well. *)
PersistAnything(queue, s, e, d) == Append(queue, Save(s, e, s.dataset))

(* persist: only an imported dataset is worth saving. *)
Persist(queue, s, e, d) ==
  IF s.dataset = Shipped \/ d = None THEN queue ELSE Append(queue, Save(s, e, d))

(* schedulePersist, after a step that ran something. *)
ScheduledPersist(s) == persistTimer \/ s.dataset # Shipped

Init ==
  /\ snapshot = InitialSnapshot /\ engine = NoEngine /\ imported = None
  /\ load = "none" /\ timer = FALSE /\ persistTimer = FALSE
  /\ io = << >>
  /\ disk \in {<< >>, << [dataset |-> None] >>}     \* nothing, or a shape of an older build
  /\ ops = 0 /\ reloads = 0 /\ refusals = 0 /\ behind = "no"

-----------------------------------------------------------------------------
(* Loading *)

EnsureLoaded ==
  /\ load = "none"
  /\ load' = "fetching"
  /\ snapshot' = [snapshot EXCEPT !.status = "loading"]
  /\ UNCHANGED << engine, imported, timer, persistTimer, io, disk, ops, reloads, refusals,
                  behind >>

LoadSucceeds ==
  /\ load = "fetching"
  /\ snapshot' = BootedSnapshot(snapshot, Shipped)
  /\ engine' = BootedEngine(snapshot, Shipped)
  /\ load' = "reading"
  /\ io' = Append(io, Read)
  /\ UNCHANGED << imported, timer, persistTimer, disk, ops, reloads, refusals, behind >>

(* The promise is kept, so a failed load is not tried again. *)
LoadFails ==
  /\ load = "fetching"
  /\ load' = "failed"
  /\ snapshot' = [snapshot EXCEPT !.status = "error"]
  /\ UNCHANGED << engine, imported, timer, persistTimer, io, disk, ops, reloads, refusals,
                  behind >>

(* The answer to loadSession, and all that follows it up to the next await. *)
Restore(saved) ==
  LET d == saved.dataset
      s == BootedSnapshot(Paused(snapshot), d)
      e == BootedEngine(snapshot, d)
  IN  /\ imported' = d
      /\ timer' = FALSE
      /\ snapshot' = SteppedSnapshot(s, saved.cursor)
      /\ engine' = SteppedEngine(s, e, saved.cursor)
      /\ persistTimer' = (persistTimer \/ NextPayments(s, saved.cursor) # << >>)

ServeRead ==
  /\ io # << >> /\ Head(io) = Read
  /\ \/ /\ disk # << >> /\ disk[1].dataset # None
        /\ Restore(disk[1])
        /\ load' = "done" /\ io' = Tail(io)
        /\ behind' = IF Tail(io) = << >> THEN "no" ELSE "overtaken"
        /\ UNCHANGED refusals
     \/ /\ disk # << >> /\ disk[1].dataset = None     \* an unusable shape is dropped
        /\ load' = "dropped" /\ io' = Append(Tail(io), Clear)
        /\ behind' = IF snapshot.dataset = Shipped THEN behind ELSE "erased"
        /\ UNCHANGED << snapshot, engine, imported, timer, persistTimer, refusals >>
     \/ /\ \/ disk = << >> /\ UNCHANGED refusals
           \/ disk # << >> /\ refusals < MaxRefusals /\ refusals' = refusals + 1
        /\ load' = "done" /\ io' = Tail(io)
        /\ UNCHANGED << snapshot, engine, imported, timer, persistTimer, behind >>
  /\ UNCHANGED << disk, ops, reloads >>

ServeWrite ==
  /\ io # << >> /\ Head(io) # Read
  /\ io' = Tail(io)
  /\ \/ disk' = (IF Head(io) = Clear THEN << >> ELSE << Head(io).value >>) /\ UNCHANGED refusals
     \/ refusals < MaxRefusals /\ refusals' = refusals + 1 /\ UNCHANGED disk
  /\ UNCHANGED << snapshot, engine, imported, load, timer, persistTimer, ops, reloads,
                  behind >>

(* A full page reload: the storage is all that is left. *)
Reload ==
  /\ load # "none" /\ reloads < MaxReloads
  /\ reloads' = reloads + 1
  /\ snapshot' = InitialSnapshot /\ engine' = NoEngine /\ imported' = None
  /\ load' = "none" /\ timer' = FALSE /\ persistTimer' = FALSE /\ io' = << >>
  /\ behind' = "no"
  /\ UNCHANGED << disk, ops, refusals >>

-----------------------------------------------------------------------------
(* Datasets *)

(* loadImported: without a model the file is forgotten. *)
LoadImported(d) ==
  /\ ops < MaxOps /\ snapshot.model
  /\ ops' = ops + 1
  /\ timer' = FALSE
  /\ imported' = d
  /\ snapshot' = BootedSnapshot(Paused(snapshot), d)
  /\ engine' = BootedEngine(snapshot, d)
  /\ io' = Persist(io, snapshot', engine', d) /\ behind' = "no"
  /\ UNCHANGED << load, persistTimer, disk, reloads, refusals >>

RestoreShipped ==
  /\ ops < MaxOps /\ load # "none"
  /\ ops' = ops + 1
  /\ timer' = FALSE
  /\ imported' = None
  /\ io' = Append(io, Clear) /\ behind' = "no"
  /\ IF snapshot.model
     THEN /\ snapshot' = BootedSnapshot(Paused(snapshot), Shipped)
          /\ engine' = BootedEngine(snapshot, Shipped)
     ELSE UNCHANGED << snapshot, engine >>
  /\ UNCHANGED << load, persistTimer, disk, reloads, refusals >>

(* Nothing is saved. *)
Reset ==
  /\ ops < MaxOps /\ snapshot.model
  /\ ops' = ops + 1
  /\ timer' = FALSE
  /\ snapshot' = BootedSnapshot(Paused(snapshot), snapshot.dataset)
  /\ engine' = BootedEngine(snapshot, snapshot.dataset)
  /\ behind' = IF snapshot.dataset # Shipped /\ snapshot.cursor > 0 /\ behind = "no"
               THEN "rewound" ELSE behind
  /\ UNCHANGED << imported, load, persistTimer, io, disk, reloads, refusals >>

-----------------------------------------------------------------------------
(* Playback *)

Play ==
  /\ ~snapshot.playing /\ snapshot.status = "ready"
  /\ snapshot' = [snapshot EXCEPT !.playing = TRUE]
  /\ timer' = TRUE
  /\ UNCHANGED << engine, imported, load, persistTimer, io, disk, ops, reloads, refusals,
                  behind >>

Pause ==
  /\ timer
  /\ timer' = FALSE
  /\ snapshot' = Paused(snapshot)
  /\ UNCHANGED << engine, imported, load, persistTimer, io, disk, ops, reloads, refusals,
                  behind >>

SetSpeed(v) ==
  /\ v # snapshot.speed
  /\ snapshot' = [snapshot EXCEPT !.speed = v]
  /\ timer' = (timer \/ snapshot.playing)
  /\ UNCHANGED << engine, imported, load, persistTimer, io, disk, ops, reloads, refusals,
                  behind >>

(* The interval fires; a tick that runs nothing pauses. *)
Tick ==
  /\ timer
  /\ \/ /\ NextPayments(snapshot, 1) = << >>
        /\ timer' = FALSE
        /\ snapshot' = Paused(snapshot)
        /\ UNCHANGED << engine, persistTimer >>
     \/ /\ NextPayments(snapshot, 1) # << >>
        /\ snapshot' = SteppedSnapshot(snapshot, PerTick(snapshot.speed))
        /\ engine' = SteppedEngine(snapshot, engine, PerTick(snapshot.speed))
        /\ persistTimer' = ScheduledPersist(snapshot)
        /\ UNCHANGED timer
  /\ UNCHANGED << imported, load, io, disk, ops, reloads, refusals, behind >>

(* The step button. *)
Step ==
  /\ snapshot.model /\ NextPayments(snapshot, 1) # << >>
  /\ snapshot' = SteppedSnapshot(snapshot, 1)
  /\ engine' = SteppedEngine(snapshot, engine, 1)
  /\ persistTimer' = ScheduledPersist(snapshot)
  /\ UNCHANGED << imported, load, timer, io, disk, ops, reloads, refusals, behind >>

PersistTimerFires ==
  /\ persistTimer
  /\ persistTimer' = FALSE
  /\ io' = Persist(io, snapshot, engine, imported) /\ behind' = "no"
  /\ UNCHANGED << snapshot, engine, imported, load, timer, disk, ops, reloads, refusals >>

-----------------------------------------------------------------------------
(* Calls by hand *)

MayCall == snapshot.model /\ ops < MaxOps /\ ops' = ops + 1

(* SinglePayment composes a payment just after the clock; submit scores it. *)
Composed(payee) == [id |-> "cmp_" \o ToString(snapshot.clock + 1), ts |-> snapshot.clock + 1,
                    payer |-> "composed_payer", payee |-> payee]

Submit(payee, mule) ==
  /\ MayCall
  /\ timer' = FALSE
  /\ LET txn  == Composed(payee)
         told == IF mule THEN [engine EXCEPT !.confirmed = @ \cup {payee},
                                             !.flagged   = @ \cup {<< payee, Len(engine.calls) >>}]
                 ELSE engine
     IN  /\ engine' = Authorized(told, txn, "composed")
         /\ snapshot' = [Paused(snapshot) EXCEPT !.clock = Max({@, txn.ts})]
  /\ UNCHANGED << imported, load, persistTimer, io, disk, reloads, refusals, behind >>

(* inject: the latest payer seen who is eligible and not used as a victim  *)
(* yet, else the latest eligible, else the last of the pool.  Who is       *)
(* eligible (history, median, no open hold) is up to the engine.           *)
Pool == LET seen == Replayed(engine)
        IN  IF seen # << >> THEN [i \in DOMAIN seen |-> seen[i].txn]
            ELSE Txns(snapshot.dataset)

Template(pool, eligible) ==
  LET best(S) == pool[Max(S)]
      able  == {i \in DOMAIN pool : pool[i].payer \in eligible}
      fresh == {i \in able : pool[i].payer \notin engine.victims}
  IN  IF fresh # {} THEN best(fresh)
      ELSE IF able # {} THEN best(able) ELSE best(DOMAIN pool)

(* The delays of an episode up to its i-th payment. *)
Elapsed(after, i) ==
  LET sum[k \in 0..i] == IF k = 0 THEN 0 ELSE sum[k - 1] + after[k]
  IN  sum[i]

(* buildScenario: one payment per step, to a fresh collection account or   *)
(* to the beneficiary of the template.                                     *)
Episode(scenario, template) ==
  [i \in DOMAIN scenario.after |->
     [id    |-> scenario.id \o ToString(Len(engine.calls) + i),
      ts    |-> snapshot.clock + 1 + Elapsed(scenario.after, i),
      payer |-> template.payer,
      payee |-> IF scenario.knownPayee THEN template.payee ELSE "mule_" \o ToString(Len(engine.calls))]]

Inject(scenario, eligible) ==
  /\ MayCall
  /\ timer' = FALSE
  /\ LET template == Template(Pool, eligible)
         txns     == Episode(scenario, template)
         chosen   == [engine EXCEPT !.victims = @ \cup {template.payer}]
     IN  /\ engine' = AuthorizedAll(chosen, txns, scenario.id)
         /\ snapshot' = [Paused(snapshot) EXCEPT !.clock = Last(txns).ts]
  /\ UNCHANGED << imported, load, persistTimer, io, disk, reloads, refusals, behind >>

(* setPolicy does nothing to the engine when the hash is the same; before  *)
(* the engine exists it only changes the snapshot.                         *)
SetPolicy(p) ==
  /\ p # snapshot.policy
  /\ ops < MaxOps /\ ops' = ops + 1
  /\ snapshot' = [snapshot EXCEPT !.policy = p]
  /\ engine' = IF snapshot.model
               THEN [engine EXCEPT !.calls = Append(@, [call |-> "setPolicy", policy |-> p])]
               ELSE engine
  /\ UNCHANGED << imported, load, timer, persistTimer, io, disk, reloads, refusals,
                  behind >>

(* resolveHold: half a minute after the clock. *)
ResolveHold(id) ==
  /\ MayCall
  /\ engine' = [engine EXCEPT
                  !.calls = Append(@, [call |-> "resolve", hold |-> id, at |-> snapshot.clock + 1])]
  /\ UNCHANGED << snapshot, imported, load, timer, persistTimer, io, disk, reloads, refusals,
                  behind >>

(* sweep: the payers of every decision so far. *)
Sweep ==
  /\ MayCall
  /\ engine' = [engine EXCEPT
                  !.calls = Append(@, [call |-> "sweep", at |-> snapshot.clock])]
  /\ UNCHANGED << snapshot, imported, load, timer, persistTimer, io, disk, reloads, refusals,
                  behind >>

(* sliceSamples: a scratch session replays the whole slice, once per boot. *)
SliceSamples ==
  /\ snapshot.model /\ engine.scratch = None
  /\ engine' = [engine EXCEPT !.scratch = snapshot.dataset]
  /\ UNCHANGED << snapshot, imported, load, timer, persistTimer, io, disk, ops, reloads, refusals,
                  behind >>

Seen == {engine.calls[i].txn : i \in {k \in DOMAIN engine.calls : engine.calls[k].call = "authorize"}}
Payers == UNION {{Txns(d)[i].payer : i \in DOMAIN Txns(d)} : d \in Datasets}
Payees == UNION {{Txns(d)[i].payee : i \in DOMAIN Txns(d)} : d \in Datasets}

Next ==
  \/ EnsureLoaded \/ LoadSucceeds \/ LoadFails \/ ServeRead \/ ServeWrite \/ Reload
  \/ \E d \in Imports : LoadImported(d)
  \/ RestoreShipped \/ Reset
  \/ Play \/ Pause \/ Tick \/ Step \/ PersistTimerFires
  \/ \E v \in Speeds : SetSpeed(v)
  \/ \E payee \in Payees, mule \in BOOLEAN : Submit(payee, mule)
  \/ \E s \in Scenarios, eligible \in SUBSET Payers : Inject(s, eligible)
  \/ \E i \in DOMAIN Policies : SetPolicy(Policies[i])
  \/ \E t \in Seen : ResolveHold(t.id)
  \/ Sweep \/ SliceSamples

(* setInterval keeps firing while it is set: weak fairness of Tick, which  *)
(* is enabled exactly while the interval is set.                           *)
Fairness == []<>~timer \/ []<><<Tick>>_vars

Spec == Init /\ [][Next]_vars /\ Fairness

-----------------------------------------------------------------------------
(* Properties *)

(* The shape of the session. *)
TypeOK ==
  /\ snapshot.status \in {"idle", "loading", "ready", "error"}
  /\ snapshot.dataset \in Datasets
  /\ snapshot.cursor \in 0..Len(Txns(snapshot.dataset))
  /\ snapshot.model = (snapshot.status = "ready")
  /\ imported \in Imports \cup {None}
  /\ load \in {"none", "fetching", "reading", "done", "dropped", "failed"}
  /\ snapshot.dataset = IF imported = None THEN Shipped ELSE imported

(* The feed replays the slice on screen from its start, every payment once *)
(* and in order, whatever ticks, steps, injections, imports and restores   *)
(* came in between: the k-th replayed call is for the k-th payment, and    *)
(* there are as many as the cursor says.                                   *)
ReplayedAt(e) ==
  {i \in DOMAIN e.calls : e.calls[i].call = "authorize" /\ e.calls[i].source = "replayed"}

ReplayIsPrefix ==
  snapshot.model =>
    /\ Cardinality(ReplayedAt(engine)) = snapshot.cursor
    /\ \A i \in ReplayedAt(engine) :
         engine.calls[i].txn =
           Txns(snapshot.dataset)[Cardinality({j \in ReplayedAt(engine) : j <= i})]

(* The policy on screen is the one the engine decides with, also when it   *)
(* was chosen before the engine existed or kept over a boot.               *)
ChangedAt(e) == {i \in DOMAIN e.calls : e.calls[i].call = "setPolicy"}

PolicyOf(e) ==
  IF ChangedAt(e) = {} THEN e.policy ELSE e.calls[Max(ChangedAt(e))].policy

EngineFollowsPolicy == snapshot.model => snapshot.policy = PolicyOf(engine)

(* The latest moment a session with dataset d had reached by call i.        *)
Horizon(e, d, i) ==
  Max({Corpus[d].from - 1} \cup
      {e.calls[k].txn.ts : k \in {j \in 1..i : e.calls[j].call = "authorize"}})

(* A payment is scored with everything asserted about its beneficiary by   *)
(* the latest moment the session has reached, and with nothing later: the  *)
(* cursor of the timeline loses no event and reads none ahead, although    *)
(* injected payments run ahead of the replay and the replay then goes on.  *)
Timely(e, d, i) ==
  LET c        == e.calls[i]
      asserted == AssertedBy(Corpus[d].intel, c.txn.payee, Horizon(e, d, i))
      declared == \E f \in e.flagged : f[1] = c.txn.payee /\ f[2] < i
  IN  /\ c.confirmed = (asserted.confirmed \/ declared)
      /\ c.hop = asserted.hop

IntelIsTimely ==
  \A i \in DOMAIN engine.calls :
    engine.calls[i].call = "authorize" => Timely(engine, snapshot.dataset, i)

(* What the storage holds, or is to hold, of an import on screen. *)
Agrees(stored) ==
  LET kept == stored # << >> /\ stored[1].dataset = snapshot.dataset
  IN  CASE behind = "no"      -> kept /\ stored[1].cursor = snapshot.cursor
        [] behind = "rewound" -> kept /\ snapshot.cursor = 0
        [] behind = "erased"  -> stored = << >>
        [] OTHER              -> snapshot.cursor = 0

(* When the storage has served everything, refused nothing and no save is  *)
(* due by the timer: under the shipped corpus it holds nothing, so that a  *)
(* reload does not bring back a file the operator has put away, and under  *)
(* an import it holds the import at the position on screen, its start      *)
(* included.  Three things set them apart, and only until the next save:   *)
(*  - reset rewinds the screen and saves nothing (session.ts:382): the     *)
(*    storage keeps the import at a position it had;                       *)
(*  - the shape of an older build is dropped when the read is answered     *)
(*    (persist.ts:108), which erases what was imported meanwhile;          *)
(*  - a session restored while a write is queued is on screen over what    *)
(*    that write says.  It stands at its start, or a save would be due.    *)
StorageCatchesUp ==
  (snapshot.model /\ refusals = 0 /\ io = << >> /\ ~persistTimer) =>
    /\ snapshot.dataset = Shipped => disk = << >>
    /\ snapshot.dataset # Shipped => Agrees(disk)

(* The population the policy studio prices is the one on screen. *)
SamplesAreCurrent == engine.scratch \in {None, snapshot.dataset}

(* There is an interval exactly while the feed plays: none left running    *)
(* behind a pause, a boot or a new dataset.                                *)
TimerMatchesPlaying ==
  timer = snapshot.playing /\ (timer => snapshot.status = "ready")

(* What is on screen is one thing: the session keeps its shape, and the    *)
(* feed, the engine's policy, its intelligence, the samples of the studio  *)
(* and the interval belong to the same dataset and the same state.         *)
SessionIsSound ==
  TypeOK /\ ReplayIsPrefix /\ EngineFollowsPolicy /\ IntelIsTimely /\ SamplesAreCurrent /\ TimerMatchesPlaying

(* A run of replayed payments only, saved and restored after a reload, is  *)
(* replayed to the same position with the same calls.                      *)
Restores == load = "reading" /\ load' = "done" /\ engine' # engine
PlayedBack(e) == ReplayedAt(e) = DOMAIN e.calls

RestoreReplaysTheSavedRun ==
  [][(Restores /\ PlayedBack(disk[1].engine)) =>
       engine'.calls = disk[1].engine.calls /\ snapshot'.cursor = disk[1].cursor]_vars

(* Playback left alone comes to its end and stops its interval. *)
PlaybackEnds == snapshot.playing ~> ~snapshot.playing
=============================================================================
