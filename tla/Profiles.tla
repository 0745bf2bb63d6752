------------------------------ MODULE Profiles ------------------------------
(***************************************************************************)
(* Behavioural profiles (packages/core/src/profiles.ts), the in-memory     *)
(* store that keeps them (packages/core/src/store.ts), and the twelve raw  *)
(* statistics of a payment that are read off them                          *)
(* (packages/core/src/signals/extract.ts).  A statistic the code stores    *)
(* beside the counts it is derived from is an operator of the profile      *)
(* here: the two never part, and the spread is left out.  Times are        *)
(* half-hours, because the calendar is India's: 5.5 hours ahead.           *)
(***************************************************************************)
EXTENDS Integers, Sequences, SequencesExt, FiniteSets, FiniteSetsExt

CONSTANTS AmountWindow,      \* PROFILE_AMOUNT_WINDOW, log amounts kept
          DayWindow,         \* PROFILE_DAY_WINDOW, calendar days kept
          Retention,         \* PAYER_TXN_RETENTION, payments kept per payer
          BalanceMultiple,   \* BALANCE_PROXY_MULTIPLE
          LogOf,             \* the logarithm of an amount, in steps
          OpeningLog,        \* the prior the amount baseline opens with
          AmountThresholds   \* AMOUNT_THRESHOLDS, the monitored amounts (money.ts)

ASSUME WindowsArePositive == /\ AmountWindow \in Nat \ {0}
                             /\ DayWindow \in Nat \ {0}
                             /\ Retention \in Nat \ {0}

Hour == 2
Day  == 24 * Hour
Ist(ts)     == ts + 11
IstHour(ts) == (Ist(ts) % Day) \div Hour
IstDay(ts)  == Ist(ts) \div Day

Total(xs) ==
  LET upTo[n \in 0..Len(xs)] == IF n = 0 THEN 0 ELSE upTo[n - 1] + xs[n]
  IN  upTo[Len(xs)]
Keep(xs, n) == IF Len(xs) > n THEN SubSeq(xs, Len(xs) - n + 1, Len(xs)) ELSE xs
(* A filter: the entries of xs at the places in I, in their order. *)
Entries(xs, I) ==
  LET upTo[n \in 0..Len(xs)] ==
        IF n = 0 THEN << >>
        ELSE IF n \in I THEN Append(upTo[n - 1], xs[n]) ELSE upTo[n - 1]
  IN  upTo[Len(xs)]
Since(xs, start) == Entries(xs, {i \in DOMAIN xs : xs[i].ts >= start})

At(f, x, default) == IF x \in DOMAIN f THEN f[x] ELSE default
Put(f, x, v) == [y \in DOMAIN f \cup {x} |-> IF y = x THEN v ELSE f[y]]

-----------------------------------------------------------------------------
(* Payers *)

EmptyPayerProfile(now) ==
  [firstSeen |-> now, lastSeen |-> now, txnCount |-> 0, maxAmount |-> 0, totalValue |-> 0,
   logAmounts |-> << >>, hourCounts |-> [h \in 0..23 |-> 0], dailyCounts |-> << >>,
   knownPayees |-> << >>, knownDevices |-> << >>, observedBalance |-> 0]

(* Another: the days kept are never pruned. *)
EveryDay(days) == days

(* The latest DayWindow calendar days; the oldest go first. *)
LatestDays(days) ==
  [d \in {d \in DOMAIN days : Cardinality({e \in DOMAIN days : e > d}) < DayWindow} |-> days[d]]

(* Slip the checks must notice: a payment to a known beneficiary restarts  *)
(* the acquaintance.                                                       *)
RelearningProfile(p, txn) ==
  [p EXCEPT !.lastSeen = IF txn.ts > @ THEN txn.ts ELSE @,
            !.txnCount = @ + 1,
            !.maxAmount = IF txn.amount > @ THEN txn.amount ELSE @,
            !.totalValue = @ + txn.amount,
            !.logAmounts = Keep(Append(@, LogOf[txn.amount]), AmountWindow),
            !.hourCounts[IstHour(txn.ts)] = @ + 1,
            !.dailyCounts = LatestDays(Put(@, IstDay(txn.ts), At(@, IstDay(txn.ts), 0) + 1)),
            !.knownPayees = Put(@, txn.payee, txn.ts),
            !.knownDevices = Put(@, txn.device, At(@, txn.device, txn.ts))]

(* Fold a payment into its payer's profile. *)
UpdatePayerProfile(p, txn) ==
  [p EXCEPT !.lastSeen = IF txn.ts > @ THEN txn.ts ELSE @,
            !.txnCount = @ + 1,
            !.maxAmount = IF txn.amount > @ THEN txn.amount ELSE @,
            !.totalValue = @ + txn.amount,
            !.logAmounts = Keep(Append(@, LogOf[txn.amount]), AmountWindow),
            !.hourCounts[IstHour(txn.ts)] = @ + 1,
            !.dailyCounts = LatestDays(Put(@, IstDay(txn.ts), At(@, IstDay(txn.ts), 0) + 1)),
            !.knownPayees = Put(@, txn.payee, At(@, txn.payee, txn.ts)),
            !.knownDevices = Put(@, txn.device, At(@, txn.device, txn.ts))]

(* The derived statistics.  The median is in half steps, the deviation in  *)
(* quarters; a profile without history has the priors it opened with.      *)
TwiceMedian(xs) ==
  LET s == SortSeq(xs, <)
      n == Len(s)
  IN  IF n = 0 THEN 0 ELSE s[(n + 1) \div 2] + s[(n + 2) \div 2]
LogAmountMedian2(p) == IF p.txnCount = 0 THEN 2 * OpeningLog ELSE TwiceMedian(p.logAmounts)
Distance(x, y) == IF x < y THEN y - x ELSE x - y
LogAmountMad4(p) ==
  IF p.txnCount = 0 THEN 4
  ELSE TwiceMedian([i \in DOMAIN p.logAmounts |-> Distance(2 * p.logAmounts[i], TwiceMedian(p.logAmounts))])

(* The share of an hour, smoothed: <<numerator, denominator>>. *)
HourShare(p, hour) ==
  LET total == MapThenSumSet(LAMBDA h : p.hourCounts[h], 0..23)
  IN  IF p.txnCount = 0 THEN << 1, 24 >> ELSE << 2 * p.hourCounts[hour] + 1, 2 * total + 24 >>

ActiveDays(p)    == Max({Cardinality(DOMAIN p.dailyCounts), 1})
PaymentsInDays(p) == MapThenSumSet(LAMBDA d : p.dailyCounts[d], DOMAIN p.dailyCounts)
DailyValueMean(p) == (2 * p.totalValue + ActiveDays(p)) \div (2 * ActiveDays(p))    \* Math.round
BalanceProxy(p) ==
  IF p.txnCount = 0 THEN 0
  ELSE IF p.observedBalance > 0 THEN p.observedBalance
  ELSE Max({DailyValueMean(p) * BalanceMultiple, p.maxAmount})

-----------------------------------------------------------------------------
(* Payees *)

EmptyPayeeProfile(now) ==
  [firstSeen |-> now, window |-> << >>, distinctPayersAllTime |-> 0, velocity |-> 0,
   confirmed |-> FALSE, hop |-> -1]                  \* hop -1 stands for null

Payers(window)    == {window[i].payer : i \in DOMAIN window}
DistinctPayers(p) == Cardinality(Payers(p.window))

(* The inbound payments of the day up to now. *)
Trailing(window, now) == Since(window, now - Day)

UpdatePayeeProfile(p, txn) ==
  LET window == Append(Trailing(p.window, txn.ts), [payer |-> txn.payer, ts |-> txn.ts, amount |-> txn.amount])
  IN  [p EXCEPT !.window = window,
                !.distinctPayersAllTime = Max({@, Cardinality(Payers(window))})]

(* Slip: reading a beneficiary leaves its window as it was last written. *)
RefreshNothing(p, now) == p

RefreshPayeeWindow(p, now) == [p EXCEPT !.window = Trailing(@, now)]

-----------------------------------------------------------------------------
(* The store: profiles and the last payments of each payer, oldest first. *)

EmptyStore == [payers |-> << >>, payees |-> << >>, txns |-> << >>]

EnsurePayer(store, id, now) ==
  IF id \in DOMAIN store.payers THEN store
  ELSE [store EXCEPT !.payers = Put(@, id, EmptyPayerProfile(now))]
EnsurePayee(store, id, now) ==
  IF id \in DOMAIN store.payees THEN store
  ELSE [store EXCEPT !.payees = Put(@, id, EmptyPayeeProfile(now))]
PutPayer(store, id, p) == [store EXCEPT !.payers = Put(@, id, p)]
PutPayee(store, id, p) == [store EXCEPT !.payees = Put(@, id, p)]

RecordTransaction(store, txn) ==
  [store EXCEPT !.txns = Put(@, txn.payer, Keep(Append(At(@, txn.payer, << >>), txn), Retention))]

(* Slip: the walk starts at the oldest payment and stops there. *)
RecentFromOldest(store, id, since) ==
  LET all == At(store.txns, id, << >>)
      run == {i \in DOMAIN all : \A j \in 1..i : all[j].ts >= since}
  IN  Reverse(SubSeq(all, 1, Max({0} \cup run)))

(* The newest first, up to the first one before the cutoff. *)
RecentPayerTxns(store, id, since) ==
  LET all == At(store.txns, id, << >>)
      run == {i \in DOMAIN all : \A j \in i..Len(all) : all[j].ts >= since}
  IN  Reverse(SubSeq(all, Min({Len(all) + 1} \cup run), Len(all)))

(* What a walk does last with a payment, whatever was decided about it. *)
Learn(store, payer, payee, txn) ==
  RecordTransaction(
    PutPayee(PutPayer(store, txn.payer, UpdatePayerProfile(payer, txn)),
             txn.payee, UpdatePayeeProfile(payee, txn)), txn)

-----------------------------------------------------------------------------
(* The twelve raw statistics.  An index is in sixtieths of a point, a      *)
(* ratio a pair <<numerator, denominator>>.  The sentence of evidence is   *)
(* left out.                                                               *)

Point == 60
Bounded(x, lo, hi) == IF x < lo THEN lo ELSE IF x > hi THEN hi ELSE x
HoursSince(now, then) == IF now > then THEN now - then ELSE 0

(* No anchor means the beneficiary was added in this session. *)
PayeeNovelty(txn, ctx) ==
  LET known   == ctx.payer.knownPayees
      anchors == (IF txn.addedAt >= 0 THEN {txn.addedAt} ELSE {})
                   \cup (IF txn.payee \in DOMAIN known THEN {known[txn.payee]} ELSE {})
  IN  IF anchors = {} THEN 0 ELSE HoursSince(ctx.now, Min(anchors))

(* A robust z-score over a scale with a floor of 0.35. *)
AmountDeviation(txn, ctx) ==
  << 20000 * (2 * LogOf[txn.amount] - LogAmountMedian2(ctx.payer)),
     Max({14826 * LogAmountMad4(ctx.payer), 14000}) >>

(* What the surprisal is taken of: the share of the hour, 1/1200 at least. *)
TemporalAnomaly(txn, ctx) ==
  LET share == HourShare(ctx.payer, IstHour(txn.ts))
  IN  IF share[1] * 1200 < share[2] THEN << 1, 1200 >> ELSE share

DeviceDrift(txn, ctx) ==
  IF txn.session.simChangedRecently THEN 0 ELSE HoursSince(ctx.now, txn.session.deviceBoundAt)

PayeeFanIn(txn, ctx)      == DistinctPayers(ctx.payee) * ctx.payee.velocity
PayeeAccountAge(txn, ctx) == HoursSince(ctx.now, ctx.payee.firstSeen)

(* A tenth of a second of call is worth a hundredth: 600 s are one point. *)
CallConcurrency(txn, ctx) ==
  LET s == txn.session
  IN  (IF s.activeCall THEN Bounded(s.callSeconds \div 10, 12, 90) ELSE 0)
        + (IF s.screenShareActive THEN Point ELSE 0)
        + (IF s.remoteAccessAppRunning THEN 90 ELSE 0)

EntryWeight == [deeplink |-> 90, pasted |-> 60, typed |-> 15, qr |-> 0, contact |-> 0]

SessionUrgency(txn, ctx) ==
  LET s == txn.session
  IN  Bounded(20 * s.appSwitches, 0, 120) + EntryWeight[s.enteredBy]
        + (IF s.secondsToAuthorize < 20 THEN Point ELSE 0)

(* A hold stands open against the same beneficiary. *)
HeldAlready(txn, ctx) == \E h \in ctx.activeHolds : h.payeeId = txn.payee

Value(payments) == Total([i \in DOMAIN payments |-> payments[i].amount])

(* Some monitored amount lies less than num/den of itself above this one. *)
WithinBelow(amount, num, den) ==
  \E t \in AmountThresholds : amount < t /\ (t - amount) * den < t * num

(* A slip the checks must notice: the payment in flight is not summed. *)
CrossesBefore(txn, recent) ==
  \E t \in AmountThresholds : Value(recent) >= t /\ \A i \in DOMAIN recent : recent[i].amount < t

(* The day sums past a monitored amount no single payment reaches. *)
CrossesTogether(txn, recent) ==
  LET all == << txn >> \o recent
  IN  \E t \in AmountThresholds : Value(all) >= t /\ \A i \in DOMAIN all : all[i].amount < t

Structuring(txn, ctx) ==
  LET recent == Since(ctx.recent, ctx.now - Day)
      all    == << txn >> \o recent
      near   == Cardinality({i \in DOMAIN all : WithinBelow(all[i].amount, 12, 100)})
  IN  (IF WithinBelow(txn.amount, 5, 100) THEN 90
       ELSE IF WithinBelow(txn.amount, 12, 100) THEN 45 ELSE 0)
        + (IF near >= 2 THEN 30 * Min({near - 1, 3}) ELSE 0)
        + (IF CrossesTogether(txn, recent) THEN 90 ELSE 0)
        + (IF HeldAlready(txn, ctx) THEN 3 * Point ELSE 0)

(* Payments of the day, this one included, over the mean of an active day, *)
(* which is half a payment at least.                                       *)
VelocityBurst(txn, ctx) ==
  LET count == Len(Since(ctx.recent, ctx.now - Day)) + 1
      p     == ctx.payer
      mean  == IF p.txnCount = 0 THEN << 1, 1 >> ELSE << PaymentsInDays(p), ActiveDays(p) >>
  IN  IF 2 * mean[1] < mean[2] THEN << 2 * count, 1 >> ELSE << count * mean[2], mean[1] >>

DrainRatio(txn, ctx) ==
  << txn.amount,
     Max({1, IF ctx.payer.observedBalance > 0 THEN ctx.payer.observedBalance ELSE BalanceProxy(ctx.payer)}) >>

MuleProximity(txn, ctx) ==
  IF ctx.payee.confirmed THEN 4
  ELSE IF ctx.payee.hop >= 0 /\ ctx.payee.hop <= 3 THEN 4 - ctx.payee.hop ELSE 0

(* Every statistic of one payment in one context. *)
Extract(txn, ctx) ==
  [PAYEE_NOVELTY     |-> PayeeNovelty(txn, ctx),
   AMOUNT_DEVIATION  |-> AmountDeviation(txn, ctx),
   TEMPORAL_ANOMALY  |-> TemporalAnomaly(txn, ctx),
   DEVICE_DRIFT      |-> DeviceDrift(txn, ctx),
   PAYEE_FAN_IN      |-> PayeeFanIn(txn, ctx),
   PAYEE_ACCOUNT_AGE |-> PayeeAccountAge(txn, ctx),
   CALL_CONCURRENCY  |-> CallConcurrency(txn, ctx),
   SESSION_URGENCY   |-> SessionUrgency(txn, ctx),
   STRUCTURING       |-> Structuring(txn, ctx),
   VELOCITY_BURST    |-> VelocityBurst(txn, ctx),
   DRAIN_RATIO       |-> DrainRatio(txn, ctx),
   MULE_PROXIMITY    |-> MuleProximity(txn, ctx)]

=============================================================================
