------------------------------- MODULE Replay -------------------------------
(***************************************************************************)
(* The two chronological walks over a corpus (packages/sim/src/replay.ts), *)
(* side by side: buildFeatureStream, which the model is fitted from (and   *)
(* collectContexts, which captures the contexts of the same walk), and     *)
(* replay, which runs the engine (packages/core/src/engine.ts) from a      *)
(* moment on and may warm the profiles before it.  Payments reach both in  *)
(* the order of the corpus; each walk has a store and a timeline of its    *)
(* own.  What the engine decides is open; the hold it opens is not.        *)
(***************************************************************************)
EXTENDS Profiles, IntelTimeline, HoldProtocol

CONSTANTS Kinds,          \* what a payment is, but for its time
          Gaps,           \* half-hours from one payment to the next
          Intels,         \* sets of intelligence events a corpus comes with
          Attributes,     \* what the network supplies about beneficiaries
          Starts,         \* options of an engine replay: [fromMs, warmUp]
          HoldPolicy,     \* the terms of a hold
          Responses,      \* how a payer answers a hold a minute later, or "ignore"
          TrainOf,        \* the training share of a split: <<numerator, denominator>>
          Opening,        \* the moment before the first payment
          MaxPayments     \* bound: payments of a corpus

(* Times, amounts and distances are numbers; the training share leaves     *)
(* something to test (chronologicalSplit is called with 0.6).              *)
ASSUME ReplayAssumption ==
  /\ Opening \in Nat /\ Gaps \subseteq Nat /\ MaxPayments \in Nat
  /\ \A k \in Kinds : k.amount \in Nat /\ k.session.isNewDevice \in BOOLEAN
  /\ \A all \in Intels : /\ all \in Seq(ToSet(all))
                         /\ \A e \in ToSet(all) : e.ts \in Int /\ e.hop \in Nat
  /\ AmountThresholds \subseteq Nat
  /\ HoldPolicy.holdWindow \in Nat /\ HoldPolicy.attemptBudget \in Nat
  /\ TrainOf[1] \in Nat /\ TrainOf[2] \in Nat /\ TrainOf[1] < TrainOf[2]

VARIABLES
  events,    \* the corpus's intelligence
  fromMs,    \* ReplayOptions.fromMs
  warmUp,    \* ReplayOptions.warmUp
  fed,       \* the payments walked so far
  stream,    \* the feature walk: [store, timeline]
  engine,    \* the engine walk: [store, timeline, holds]
  row,       \* the last feature row, with the context it was taken in
  outcome,   \* the last payment the engine scored: [id, ctx, raw], or Nothing
  scored     \* the payments the engine scored

vars == << events, fromMs, warmUp, fed, stream, engine, row, outcome, scored >>

Nothing == [id |-> 0, ctx |-> << >>, raw |-> << >>]

-----------------------------------------------------------------------------
(* Slip the checks must notice: what is known in the end is known at once. *)
AttachedInHindsight(p, payee, timeline) ==
  LET known == Lookup(AdvanceTo(timeline, Opening + MaxPayments * Max(Gaps)), payee)
      given == At(Attributes, payee, [firstSeen |-> p.firstSeen, velocity |-> p.velocity])
  IN  [p EXCEPT !.firstSeen = given.firstSeen, !.velocity = given.velocity,
                !.confirmed = known.confirmed, !.hop = known.hop]

(* Supplied beneficiary attributes over what the store derived. *)
Attached(p, payee, timeline) ==
  LET known == Lookup(timeline, payee)
      given == At(Attributes, payee, [firstSeen |-> p.firstSeen, velocity |-> p.velocity])
  IN  [p EXCEPT !.firstSeen = given.firstSeen, !.velocity = given.velocity,
                !.confirmed = known.confirmed, !.hop = known.hop]

Context(store, payee, holds, txn) ==
  [payer       |-> store.payers[txn.payer],
   payee       |-> payee,
   recent      |-> RecentPayerTxns(store, txn.payer, txn.ts - Day),
   activeHolds |-> holds,
   now         |-> txn.ts]

Ensured(store, txn) == EnsurePayee(EnsurePayer(store, txn.payer, txn.ts), txn.payee, txn.ts)

(* One payment of the feature walk: the row, then the profiles. *)
FeatureStep(walk, txn) ==
  LET timeline == AdvanceTo(walk.timeline, txn.ts)
      store    == Ensured(walk.store, txn)
      payee    == Attached(RefreshPayeeWindow(store.payees[txn.payee], txn.ts), txn.payee, timeline)
      ctx      == Context(store, payee, {}, txn)
  IN  [walk |-> [store    |-> Learn(store, ctx.payer, payee, txn), timeline |-> timeline],
       row  |-> [id |-> txn.id, ctx |-> ctx, raw |-> Extract(txn, ctx)]]

-----------------------------------------------------------------------------
(* What both branches of the engine walk start with. *)
Supplied(walk, txn) ==
  LET timeline == AdvanceTo(walk.timeline, txn.ts)
      store    == EnsurePayee(walk.store, txn.payee, txn.ts)
  IN  [walk EXCEPT !.timeline = timeline,
                   !.store = PutPayee(store, txn.payee, Attached(store.payees[txn.payee], txn.payee, timeline))]

InWindow(txn) == txn.ts >= fromMs

(* Slip: warming counts the payment and leaves the beneficiary alone. *)
WarmStepPayerOnly(walk, txn) ==
  LET store == EnsurePayer(walk.store, txn.payer, txn.ts)
  IN  [walk EXCEPT !.store = RecordTransaction(
         PutPayer(store, txn.payer, UpdatePayerProfile(store.payers[txn.payer], txn)), txn)]

WarmStep(walk, txn) ==
  LET store == EnsurePayer(walk.store, txn.payer, txn.ts)
  IN  [walk EXCEPT !.store = Learn(store, store.payers[txn.payer], store.payees[txn.payee], txn)]

(* The payment as the hold protocol sees it. *)
Attempt(txn) == [txnId |-> txn.id, payerId |-> txn.payer, payeeId |-> txn.payee, ts |-> txn.ts,
                 context |-> ContextWith(IF txn.session.isNewDevice THEN {"isNewDevice"} ELSE {})]

(* authorize up to the decision: the state it reads, the holds aged, the   *)
(* attempt registered against the open one, the context it scores in.      *)
Assessed(walk, txn) ==
  LET ensured == Ensured(walk.store, txn)
      payee   == RefreshPayeeWindow(ensured.payees[txn.payee], txn.ts)
      aged    == {IF h.payerId = txn.payer THEN ExpireIfDue(h, txn.ts) ELSE h : h \in walk.holds}
      pay     == Attempt(txn)
      linked  == {h \in aged : h.payerId = txn.payer /\ Related(h, pay)}
      holds   == (aged \ linked) \cup {RegisterAttempt(h, pay) : h \in linked}
      store   == PutPayee(ensured, txn.payee, payee)
      ctx     == Context(store, payee, {h \in holds : h.payerId = txn.payer /\ IsOpen(h)}, txn)
  IN  [store |-> store, holds |-> holds, linked |-> linked, ctx |-> ctx]

(* The rest of authorize and the responder's answer a minute later: a      *)
(* step-up opens a hold unless one was open, and the hold of this payment, *)
(* opened or linked, is resolved if it is still open.                      *)
Settled(walk, txn, assessed, stepUp, response) ==
  LET pay    == Attempt(txn)
      opened == IF stepUp /\ assessed.linked = {} THEN {OpenHold(pay, HoldPolicy)} ELSE {}
      holds  == assessed.holds \cup opened
      own    == {h \in holds : h \in opened \/ h.txnId \in {l.txnId : l \in assessed.linked}}
  IN  [walk EXCEPT
         !.store = Learn(assessed.store, assessed.ctx.payer, assessed.ctx.payee, txn),
         !.holds = IF response = "ignore" THEN holds
                   ELSE (holds \ own) \cup {ResolveHold(h, response) : h \in own}]

-----------------------------------------------------------------------------
Init ==
  /\ events \in Intels
  /\ \E options \in Starts : fromMs = options.fromMs /\ warmUp = options.warmUp
  /\ fed = << >>
  /\ stream = [store |-> EmptyStore, timeline |-> NewTimeline(events)]
  /\ engine = [store |-> EmptyStore, timeline |-> NewTimeline(events), holds |-> {}]
  /\ row = Nothing
  /\ outcome = Nothing
  /\ scored = {}

(* The next payment of the corpus: its time is not before the last one's. *)
NextPayment(kind, gap) ==
  [id |-> Len(fed) + 1, payer |-> kind.payer, payee |-> kind.payee, amount |-> kind.amount,
   device |-> kind.device, session |-> kind.session, addedAt |-> kind.addedAt,
   ts |-> gap + (IF fed = << >> THEN Opening ELSE Last(fed).ts)]

Feed(txn) ==
  LET step == FeatureStep(stream, txn)
  IN  /\ Len(fed) < MaxPayments
      /\ fed' = Append(fed, txn)
      /\ stream' = step.walk
      /\ row' = step.row
      /\ UNCHANGED << events, fromMs, warmUp >>

(* Before the window: only the supplied attributes, or the profiles too. *)
Skip(txn) ==
  /\ ~InWindow(txn)
  /\ ~warmUp
  /\ Feed(txn)
  /\ engine' = Supplied(engine, txn)
  /\ outcome' = Nothing
  /\ UNCHANGED scored

Warm(txn) ==
  /\ ~InWindow(txn)
  /\ warmUp
  /\ Feed(txn)
  /\ engine' = WarmStep(Supplied(engine, txn), txn)
  /\ outcome' = Nothing
  /\ UNCHANGED scored

Score(txn) ==
  /\ InWindow(txn)
  /\ Feed(txn)
  /\ LET walk     == Supplied(engine, txn)
         assessed == Assessed(walk, txn)
     IN  /\ \E stepUp \in BOOLEAN, response \in Responses :
              engine' = Settled(walk, txn, assessed, stepUp, response)
         /\ outcome' = [id |-> txn.id, ctx |-> assessed.ctx, raw |-> Extract(txn, assessed.ctx)]
  /\ scored' = scored \cup {txn.id}

Next ==
  \E kind \in Kinds, gap \in Gaps :
    LET txn == NextPayment(kind, gap) IN Skip(txn) \/ Warm(txn) \/ Score(txn)

Spec == Init /\ [][Next]_vars

-----------------------------------------------------------------------------
(* Slip: the moment of the cut is the second test row's. *)
SplitOneLater(rows) ==
  LET cut == (Len(rows) * TrainOf[1]) \div TrainOf[2]
  IN  [train |-> SubSeq(rows, 1, cut), test |-> SubSeq(rows, cut + 1, Len(rows)),
       splitAtMs |-> IF cut + 1 < Len(rows) THEN rows[cut + 2].ts ELSE 0]

Earlier(a, b) == a.ts < b.ts \/ (a.ts = b.ts /\ a.id < b.id)

(* The earlier share trains, the later one tests. *)
ChronologicalSplit(rows) ==
  LET place(i) == 1 + Cardinality({j \in DOMAIN rows : Earlier(rows[j], rows[i])})
      sorted == [n \in DOMAIN rows |-> rows[CHOOSE i \in DOMAIN rows : place(i) = n]]
      cut    == (Len(rows) * TrainOf[1]) \div TrainOf[2]
  IN  [train     |-> SubSeq(sorted, 1, cut),
       test      |-> SubSeq(sorted, cut + 1, Len(rows)),
       splitAtMs |-> IF cut < Len(rows) THEN sorted[cut + 1].ts ELSE 0]

-----------------------------------------------------------------------------
(* The slice of a corpus the console ships with, and the engine booted     *)
(* from it: packages/sim/src/scripts/seed.ts cuts the snapshot,            *)
(* apps/web/lib/data.ts types it, apps/web/lib/session.ts hydrates it and  *)
(* authorises over it.  The slice is cut from the payments walked so far,  *)
(* so every state of Replay is also a corpus a slice could come from.  The *)
(* rounding of the shipped statistics and the holds are left out.          *)

Window(corpus, count) == SubSeq(corpus, Len(corpus) - count + 1, Len(corpus))

(* The replay that only warms, up to the window. *)
WarmedOver(corpus) ==
  FoldLeft(LAMBDA walk, txn : WarmStep(Supplied(walk, txn), txn),
           [store |-> EmptyStore, timeline |-> NewTimeline(events), holds |-> {}], corpus)

(* Slip: only the first beneficiary a payer pays in the window is kept. *)
FirstAcquaintance(profile, id, window) ==
  LET paid == {i \in DOMAIN window : window[i].payer = id}
  IN  [profile EXCEPT !.knownPayees = Restrict(@, DOMAIN @ \cap {window[Min(paid)].payee})]

(* Of the beneficiaries a payer knows, those it pays in the window. *)
Acquaintances(profile, id, window) ==
  LET keep == {window[i].payee : i \in {k \in DOMAIN window : window[k].payer = id}}
  IN  [profile EXCEPT !.knownPayees = Restrict(@, DOMAIN @ \cap keep)]

(* A payer's payments of the day before the window, as the store lists     *)
(* them: the newest first.                                                 *)
PriorDay(store, id, start) ==
  LET recent == RecentPayerTxns(store, id, start - Day)
  IN  [i \in DOMAIN recent |-> [payer |-> id, ts |-> recent[i].ts, amount |-> recent[i].amount]]

WebSlice(corpus, count) ==
  LET window == Window(corpus, count)
      start  == window[1].ts
      store  == WarmedOver(SubSeq(corpus, 1, Len(corpus) - count)).store
      payers == {window[i].payer : i \in DOMAIN window}
      payees == {window[i].payee : i \in DOMAIN window}
  IN  [from         |-> start,
       transactions |-> window,
       intel        |-> SelectSeq(events, LAMBDA e : e.payee \in payees),
       payers       |-> [id \in payers \cap DOMAIN store.payers |-> Acquaintances(store.payers[id], id, window)],
       payees       |-> [id \in payees \cap DOMAIN store.payees |-> RefreshPayeeWindow(store.payees[id], start)],
       recent       |-> FlattenSeq(SetToSeq({PriorDay(store, id, start) : id \in payers}))]

-----------------------------------------------------------------------------
(* The engine at the start of the window: the profiles as shipped, the     *)
(* prior payments recorded in the order of the slice, the intelligence     *)
(* already in the profiles passed over.                                    *)
Boot(slice) ==
  [store    |-> FoldLeft(RecordTransaction,
                         [EmptyStore EXCEPT !.payers = slice.payers, !.payees = slice.payees], slice.recent),
   timeline |-> AdvanceTo(NewTimeline(slice.intel), slice.from - 1),
   holds    |-> {}]

(* The session's steps before the engine's own. *)
Presented(walk, txn) ==
  LET timeline == AdvanceTo(walk.timeline, txn.ts)
      store    == EnsurePayee(walk.store, txn.payee, txn.ts)
      existing == store.payees[txn.payee]
      told     == Attached(RefreshPayeeWindow(existing, txn.ts), txn.payee, timeline)
      merged   == [told EXCEPT !.confirmed = @ \/ existing.confirmed,
                               !.hop = IF @ = -1 THEN existing.hop ELSE @]
  IN  [walk EXCEPT !.timeline = timeline, !.store = PutPayee(store, txn.payee, merged)]

(* One payment of the console: what it is measured at, and what is learnt. *)
ConsoleStep(console, txn) ==
  LET walk     == Presented(console.walk, txn)
      assessed == Assessed(walk, txn)
  IN  [walk |-> [walk EXCEPT !.store = Learn(assessed.store, assessed.ctx.payer, assessed.ctx.payee, txn)],
       raw  |-> Extract(txn, assessed.ctx)]

(* The statistics of the last payment when the console replays the slice. *)
ShownOf(slice) ==
  FoldLeft(ConsoleStep, [walk |-> Boot(slice), raw |-> << >>], slice.transactions).raw

-----------------------------------------------------------------------------
(* What the two walks must agree on, and with the corpus.                  *)
Past      == SubSeq(fed, 1, Len(fed) - 1)
Now       == Last(fed)
Of(payer) == Entries(Past, {i \in DOMAIN Past : Past[i].payer = payer})
To(payee) == Entries(Past, {i \in DOMAIN Past : Past[i].payee = payee})
InTheDay(txns) == Since(txns, Now.ts - Day)

(* No stored window outgrows its bound, and time in a store is the time of *)
(* a payment it was shown.                                                 *)
TypeOK ==
  /\ scored \subseteq 1..Len(fed)
  /\ row.id = Len(fed)
  /\ \A walk \in {stream, engine} :
       /\ \A id \in DOMAIN walk.store.payers :
            /\ Len(walk.store.payers[id].logAmounts) <= AmountWindow
            /\ Cardinality(DOMAIN walk.store.payers[id].dailyCounts) <= DayWindow
       /\ \A id \in DOMAIN walk.store.txns : Len(walk.store.txns[id]) <= Retention
  /\ \A h \in engine.holds : h.state \in HoldStates

(* A beneficiary's fan-in, when a payment to it is scored, counts exactly  *)
(* the payments of the 24 hours up to that moment: no quiet day is carried *)
(* on and nothing later is seen (replay.ts, second leak; profiles.ts,      *)
(* refreshPayeeWindow).                                                    *)
FanInIsTheLastDay ==
  fed # << >> =>
    LET inbound == InTheDay(To(Now.payee))
    IN  row.ctx.payee.window =
          [i \in DOMAIN inbound |-> [payer |-> inbound[i].payer, ts |-> inbound[i].ts, amount |-> inbound[i].amount]]

(* The windowed signals see every payment the payer made in the 24 hours   *)
(* before, newest first, up to the number retained (store.ts).             *)
RecentIsTheLastDay ==
  fed # << >> => row.ctx.recent = Reverse(InTheDay(Keep(Of(Now.payer), Retention)))

(* A profile is what the payments past come to, and no more: counts, first *)
(* acquaintances, the last amounts and the latest active days.             *)
ComesTo(p, past, opened) ==
  LET days     == {IstDay(past[i].ts) : i \in DOMAIN past}
      kept     == {d \in days : Cardinality({e \in days : e > d}) < DayWindow}
      First(b) == Min({past[i].ts : i \in {k \in DOMAIN past : past[k].payee = b}})
  IN  /\ p.txnCount = Len(past)
      /\ p.firstSeen = IF past = << >> THEN opened ELSE past[1].ts
      /\ p.totalValue = Total([i \in DOMAIN past |-> past[i].amount])
      /\ p.maxAmount = Max({0} \cup {past[i].amount : i \in DOMAIN past})
      /\ p.logAmounts = Keep([i \in DOMAIN past |-> LogOf[past[i].amount]], AmountWindow)
      /\ p.dailyCounts = [d \in kept |-> Cardinality({i \in DOMAIN past : IstDay(past[i].ts) = d})]
      /\ p.knownPayees = [b \in {past[i].payee : i \in DOMAIN past} |-> First(b)]

(* The baseline a payment is measured against is the payer's history       *)
(* before it, and only that (replay.ts, first leak; profiles.ts).          *)
BaselineIsThePast == fed # << >> => ComesTo(row.ctx.payer, Of(Now.payer), Now.ts)

(* A beneficiary is a confirmed mule, or near one, from the moment the     *)
(* intelligence says so and not a payment earlier, in both walks           *)
(* (replay.ts, third leak).                                                *)
IntelIsNotForeseen ==
  fed # << >> =>
    \A ctx \in {row.ctx} \cup IF outcome = Nothing THEN {} ELSE {outcome.ctx} :
      [confirmed |-> ctx.payee.confirmed, hop |-> ctx.payee.hop] = AssertedBy(events, Now.payee, Now.ts)

(* Payments that each stay under a monitored amount and together reach it  *)
(* within a day raise the structuring index of the last of them, unless    *)
(* there were more of them than are retained (extract.ts, rule c).         *)
SplitPaymentsAreSeen ==
  fed # << >> =>
    LET day == Append(InTheDay(Of(Now.payer)), Now)
    IN  (/\ Len(day) <= Retention + 1
         /\ \E t \in AmountThresholds : /\ \A i \in DOMAIN day : day[i].amount < t
                                  /\ Total([i \in DOMAIN day |-> day[i].amount]) >= t)
        => row.raw.STRUCTURING >= 90

(* Whatever is read back over a window is the whole of the window and no   *)
(* more.                                                                   *)
WindowsAreTheLastDay == TypeOK /\ FanInIsTheLastDay /\ RecentIsTheLastDay /\ SplitPaymentsAreSeen

(* Nothing a payment is scored with is known only later.                   *)
NothingIsForeseen == BaselineIsThePast /\ IntelIsNotForeseen

(* The engine, warmed up to its window, measures every payment exactly as  *)
(* the row the model was fitted from; only a hold still standing against   *)
(* the same beneficiary is added, at three points (replay.ts, warmUp;      *)
(* extract.ts, rule d).                                                    *)
Stands(h, txn) ==
  /\ IsOpen(h) /\ h.payerId = txn.payer /\ h.payeeId = txn.payee
  /\ txn.ts < h.expiresAt
  /\ ~txn.session.isNewDevice /\ h.attemptsUsed < h.attemptBudget
MeasuredAsFitted ==
  (warmUp \/ \A i \in DOMAIN fed' : fed'[i].ts >= fromMs) /\ outcome' # Nothing =>
    LET txn == Last(fed')
        extra == IF \E h \in engine.holds : Stands(h, txn) THEN 3 * Point ELSE 0
    IN  outcome'.raw = [row'.raw EXCEPT !.STRUCTURING = @ + extra]
(* A replay that starts where the split cut the corpus scores every test   *)
(* row, and no training row but those of the very moment of the cut        *)
(* (replay.ts, chronologicalSplit and fromMs).                             *)
TestWindowIsScored ==
  LET split == ChronologicalSplit(fed)
      Ids(rows) == {rows[i].id : i \in DOMAIN rows}
  IN  Len(fed) = MaxPayments /\ fromMs = split.splitAtMs =>
        /\ Ids(split.test) \subseteq scored
        /\ \A i \in DOMAIN split.train : split.train[i].id \in scored => split.train[i].ts = fromMs

(* What is measured for a model is what it will be asked to judge.         *)
ScoredAsFitted == [][MeasuredAsFitted /\ TestWindowIsScored']_vars

(* A console booted from a slice measures its payments as the full replay  *)
(* does, but for the windowed signals of a payer who had two payments or   *)
(* more in the day before the window: those are shipped newest first and   *)
(* recorded in that order, so once the oldest of them has left the day, or *)
(* too many are retained, newer ones are lost (seed.ts, warmRecent;        *)
(* session.ts, boot; store.ts, recentPayerTxns).                           *)
\* A slice does not depend on where the engine walk starts: one start will do.
WebSlices == {WebSlice(fed, count) : count \in IF warmUp THEN 1..Len(fed) ELSE {}}
OutOfOrder(slice) ==
  LET shipped == SelectSeq(slice.recent, LAMBDA r : r.payer = Now.payer)
      later   == SelectSeq(Front(slice.transactions), LAMBDA t : t.payer = Now.payer)
  IN  /\ Len(shipped) > 1
      /\ Last(shipped).ts < Now.ts - Day \/ Len(shipped) + Len(later) > Retention
SliceMeasuresAsReplayed ==
  \A slice \in WebSlices :
    LET shown    == ShownOf(slice)
        Windowed == {"STRUCTURING", "VELOCITY_BURST"}
    IN  \A s \in DOMAIN shown :
          shown[s] # row.raw[s] => s \in Windowed /\ OutOfOrder(slice)

(* docs/MODELING.md says of the slice: "so no decision in the console      *)
(* differs from the full replay".                                          *)
NoDecisionDiffers == \A slice \in WebSlices : ShownOf(slice) = row.raw
=============================================================================
