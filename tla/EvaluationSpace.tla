-------------------------- MODULE EvaluationSpace --------------------------
(***************************************************************************)
(* What is computed about the engine off line, over the inputs it can      *)
(* meet: metrics of scored cases, a model fitted to rows, the calibration  *)
(* of outcomes, the report of a replay, the corpus made of PaySim's table. *)
(* A state is one input, and a step makes it one item longer.              *)
(***************************************************************************)
EXTENDS Fitting

CONSTANTS Unit, Multipliers, NoCap, Unresolved,            \* see PolicySolver, Portfolio
          HourMs, DeviceAge, ThinnedOut, Unpaid, Paise(_)  \* see PaySim

CONSTANTS AmountWindow, DayWindow, Retention, BalanceMultiple, LogOf, OpeningLog,    \* see Profiles
          AmountThresholds, StructuredBelow, Ordinary, Probes, HighCandidates, NewCandidates  \* see Profiles, Campaign

CONSTANTS Scores, Ceilings, BinCount,    \* of scored cases
          RowBins, WeightSets, Config,   \* of a fit
          Payments, Policies, Recovery,  \* of a replayed portfolio
          HoldEndings,                   \* how a hold of it ends
          Lines, Limits,                 \* of PaySim's table
          CampaignModel, PastKinds, Targets, Accounts, GapsOf, Priming, History,   \* of a campaign
          MaxPast, MaxCases, MaxRows, MaxOutcomes, MaxPayments, MaxLines   \* bounds: items of an input

P == INSTANCE PolicySolver
R == INSTANCE Portfolio
S == INSTANCE PaySim
A == INSTANCE Campaign

VARIABLE case

-----------------------------------------------------------------------------
Init ==
  \/ case = [kind |-> "cases", cases |-> << >>]
  \/ \E weights \in WeightSets : case = [kind |-> "rows", rows |-> << >>, weights |-> weights]
  \/ case = [kind |-> "outcomes", xs |-> << >>, ys |-> << >>]
  \/ \E policy \in Policies : case = [kind |-> "portfolio", policy |-> policy, samples |-> << >>, endings |-> << >>]
  \/ \E attack \in DOMAIN A!Attacks, account \in Accounts, policy \in Policies : \E gap \in GapsOf[attack] :
       /\ attack = "mule_rotation" => account.unused
       /\ case = [kind |-> "campaign", attack |-> attack, account |-> account, gap |-> gap,
                  policy |-> policy, past |-> << >>]
  \/ \E limit \in Limits : case = [kind |-> "table", limit |-> limit, lines |-> << >>]

AddCase(score, fraud) ==
  /\ case.kind = "cases" /\ Len(case.cases) < MaxCases
  /\ case' = [case EXCEPT !.cases =
       Append(@, [score |-> score, isFraud |-> fraud, amountPaise |-> Len(@) + 1])]

AddRow(bins, fraud) ==
  /\ case.kind = "rows" /\ Len(case.rows) < MaxRows
  /\ case' = [case EXCEPT !.rows = Append(@, [bins |-> bins, isFraud |-> fraud, amountPaise |-> 1])]

\* The next training row by score: it ties with the last, or scores higher.
AddOutcome(rise, y) ==
  /\ case.kind = "outcomes" /\ Len(case.xs) < MaxOutcomes
  /\ case' = [case EXCEPT !.xs = Append(@, Q(rise + (IF @ = << >> THEN 0 ELSE Last(@).num), 1)),
                          !.ys = Append(@, y)]

AddPayment(sample, ending) ==
  /\ case.kind = "portfolio" /\ Len(case.samples) < MaxPayments
  /\ case' = [case EXCEPT !.samples = Append(@, sample), !.endings = Append(@, ending)]

AddLine(line) ==
  /\ case.kind = "table" /\ Len(case.lines) < MaxLines
  /\ case' = [case EXCEPT !.lines = Append(@, line)]

\* The corpus opens on the fifteenth day, a payment every other hour.
AddPast(kind) ==
  /\ case.kind = "campaign" /\ Len(case.past) < MaxPast
  /\ case' = [case EXCEPT !.past = LET ts == 15 * A!Day + 4 * Len(@)
                                   IN  Append(@, kind @@ [ts |-> ts, addedAt |-> ts - 1])]

Next ==
  \/ \E score \in Scores, fraud \in BOOLEAN : AddCase(score, fraud)
  \/ \E bins \in RowBins, fraud \in BOOLEAN : AddRow(bins, fraud)
  \/ \E rise \in 0..1, y \in 0..1 : AddOutcome(rise, y)
  \/ \E sample \in Payments, ending \in HoldEndings : AddPayment(sample, ending)
  \/ \E kind \in PastKinds : AddPast(kind)
  \/ \E line \in Lines : AddLine(line)

vars == << case >>
Spec == Init /\ [][Next]_vars

-----------------------------------------------------------------------------
(* Metrics. *)
Pairs(cases) == {p \in (DOMAIN cases) \X (DOMAIN cases) : cases[p[1]].isFraud /\ ~cases[p[2]].isFraud}
Points(cases) == {OperatingPoint(cases, t) : t \in {c.score : c \in Range(cases)}}

(* The rank sum is the chance that a fraud outscores a legitimate payment, *)
(* half a chance for a tie (metrics.ts: ties are "handled correctly rather *)
(* than silently ordered by input position").                              *)
AucIsTheChanceToOutscore(cases) ==
  LET Wins(p) == IF QLess(cases[p[2]].score, cases[p[1]].score) THEN 2
                 ELSE IF QEq(cases[p[1]].score, cases[p[2]].score) THEN 1 ELSE 0
  IN  Pairs(cases) # {} =>
        RocAuc(cases) = Q(FoldSet(LAMBDA p, sum : sum + Wins(p), 0, Pairs(cases)), 2 * Cardinality(Pairs(cases)))

(* Average precision is the mean, over the frauds, of the precision where  *)
(* each is caught; the separation is the widest over all thresholds.       *)
CurvesAreTheirPoints(cases) ==
  LET precision(c) == OperatingPoint(cases, c.score).precision
      frauds == SelectSeq(cases, LAMBDA c : c.isFraud)
      ks == KsStatistic(cases).ks
  IN  frauds # << >> =>
        /\ PrAuc(cases) = QMul(Q(1, Len(frauds)), SumOf(precision, frauds))
        /\ Pairs(cases) # {} =>
             /\ \A p \in Points(cases) : ~QLess(ks, QSub(p.recall, p.falsePositiveRate))
             /\ \/ ks.num = 0
                \/ \E p \in Points(cases) : ks = QAbs(QSub(p.recall, p.falsePositiveRate))

(* No figure about the ranking depends on the order the cases came in.     *)
OrderIsImmaterial(cases) ==
  \A m \in {Discrimination(cases)} : Discrimination(Reverse(cases)) = m

(* An operating point keeps its ceiling but for the legitimate payments    *)
(* that score exactly its threshold, and no threshold that stays below the *)
(* ceiling catches more fraud (metrics.ts: "recall achievable").           *)
PointsSitAtTheirCeilings(cases) ==
  LET legit == Negatives(cases)
  IN  legit # << >> =>
        \A i \in DOMAIN Ceilings : \A point \in {RecallAtFpr(cases, Ceilings[i])} :
          /\ ~QLess(Ceilings[i],
                    Share(Len(SelectSeq(legit, LAMBDA c : QLess(point.threshold, c.score))), Len(legit)))
          /\ \A p \in Points(cases) :
               QLess(p.falsePositiveRate, Ceilings[i]) => ~QLess(point.recall, p.recall)

(* metrics.ts says of its operating points that they catch fraud "while    *)
(* holding the false-positive rate at or below a ceiling": here with no    *)
(* two payments of one score, and a ceiling that allows a false positive.  *)
CeilingsAreHeld ==
  case.kind = "cases" /\ IsInjective([i \in DOMAIN case.cases |-> case.cases[i].score]) =>
    \A i \in DOMAIN Ceilings :
      Ceilings[i].num * Len(Negatives(case.cases)) >= Ceilings[i].den =>
        ~QLess(Ceilings[i], RecallAtFpr(case.cases, Ceilings[i]).falsePositiveRate)

(* Every case is in one bin and in one decile, and at the rate of fraud it *)
(* was measured at an operating point has the precision it was measured.   *)
NothingIsCountedTwice(cases) ==
  LET m == FullMetrics(cases, Ceilings, BinCount, BinCount)
  IN  /\ FoldLeft(LAMBDA n, b : n + b.count, 0, m.calibration.bins) = Len(cases)
      /\ ~QLess(m.calibration.mce, m.calibration.ece)
      /\ FoldLeft(LAMBDA n, d : n + d.fraudCount, 0, m.deciles) = Frauds(cases)
      /\ \A i \in DOMAIN Ceilings :
           LET point == m.operatingPoints[i].point
           IN  /\ PrecisionAtPrevalence(point, Share(Frauds(cases), Len(cases))) = point.precision
               /\ point.recall = Q(0, 1) <=> m.operatingPoints[i].valueRecall = Q(0, 1)

MetricsMeanWhatTheySay ==
  case.kind = "cases" /\ case.cases # << >> =>
    /\ AucIsTheChanceToOutscore(case.cases)
    /\ CurvesAreTheirPoints(case.cases)
    /\ OrderIsImmaterial(case.cases)
    /\ PointsSitAtTheirCeilings(case.cases)
    /\ NothingIsCountedTwice(case.cases)

-----------------------------------------------------------------------------
(* Calibration. *)

(* The level of each outcome, read off the blocks in order. *)
Levels(blocks) ==
  FlattenSeq([i \in DOMAIN blocks |-> [j \in 1..blocks[i].weight |-> Q(blocks[i].sum, blocks[i].weight)]])

(* The closest rising levels have a closed form: at each place the largest *)
(* over the starts before it of the smallest mean up to an end after it.   *)
ClosestRising(ys) ==
  LET Mean(a, b) == Q(FoldLeft(+, 0, SubSeq(ys, a, b)), b - a + 1)
      Least(qs) == CHOOSE q \in qs : \A r \in qs : ~QLess(r, q)
      Most(qs)  == CHOOSE q \in qs : \A r \in qs : ~QLess(q, r)
  IN  [i \in DOMAIN ys |-> Most({Least({Mean(a, b) : b \in i..Len(ys)}) : a \in 1..i})]

(* Pooling finds those levels (fit.ts: "the non-decreasing step function   *)
(* closest to the observed outcomes"); thinning the knots keeps both ends, *)
(* fits the limit, and invents none; and the map rises with the score.     *)
CalibrationIsClosestAndRises ==
  case.kind = "outcomes" /\ case.xs # << >> =>
    LET knots == Pava(case.xs, case.ys)
        kept  == CompressKnots(knots, KnotLimit)
        At(x) == ApplyCalibration(Q(x, 2), kept)
    IN  /\ Levels(Blocks(case.xs, case.ys)) = ClosestRising(case.ys)
        /\ Len(kept) <= KnotLimit /\ Range(kept) \subseteq Range(knots)
        /\ Head(kept) = Head(knots) /\ Last(kept).x = Last(knots).x
        /\ \A x \in 0..(2 * MaxOutcomes) : ~QLess(At(x + 1), At(x))

(* What is said of scores and outcomes is what their definitions say; of   *)
(* the operating points, what holds of them: see CeilingsAreHeld for what  *)
(* is said.                                                                *)
ScoresMeanWhatTheySay == MetricsMeanWhatTheySay /\ CalibrationIsClosestAndRises

-----------------------------------------------------------------------------
(* The fit. *)

(* Training and the engine compute the same score (fit.ts: "if the two     *)
(* diverged the committed calibration map would be describing a scoring    *)
(* function the engine does not actually compute"); a bin too sparse to    *)
(* have evidence of its own takes it from an observed one next to it.      *)
FitIsWhatTheEngineRuns ==
  case.kind = "rows" /\ case.rows # << >> =>
    \A fit \in {FitModel(case.rows, case.rows, case.weights, Config)} :
      LET model == fit.model
          engine == [rho |-> model.rho, cappedGroups |-> model.cappedGroups,
                     negativeFloor |-> model.negativeFloor]
      IN  /\ \A row \in Range(case.rows) : \A results \in {EvaluateSignals(AsMeasured(row, model), engine)} :
               QEq(ScoreRow(row, model),
                   QAdd(Q(model.prior, 1), QSum([s \in DOMAIN SignalOrder |-> results[s].contribution])))
          /\ \A s \in DOMAIN SignalOrder : \A raw \in {FitWoe(case.rows, s).llr} :
               LET seen == {b \in DOMAIN raw : << s, b >> \notin fit.filledBins}
               IN  seen # {} =>
                     \A b \in DOMAIN raw :
                       \E c \in seen : /\ model.llr[s][b] = raw[c]
                                       /\ b \in seen => c = b
                                       /\ \A d \in seen : ~(b < d /\ d < c) /\ ~(c < d /\ d < b)

-----------------------------------------------------------------------------
(* The report. *)
Outcomes(c) ==
  [i \in DOMAIN c.samples |->
     [ts |-> i, amountPaise |-> c.samples[i].amountPaise, isFraud |-> c.samples[i].isFraud,
      typology |-> c.samples[i].typology, decision |-> P!Chosen(c.samples[i], c.policy)]]
Holds(c) ==
  LET held == SelectSeq(Indices(Len(c.samples)), LAMBDA i : Outcomes(c)[i].decision = "STEP_UP")
  IN  [k \in DOMAIN held |->
         [state |-> c.endings[held[k]], amountPaise |-> c.samples[held[k]].amountPaise,
          openedAtMs |-> held[k],
          resolvedAtMs |-> IF c.endings[held[k]] \in R!H!OpenStates THEN Unresolved ELSE held[k] + 2]]

(* The report splits what was screened by action, by truth and by the kind *)
(* of fraud without loss; what was avoided and what is left are what would *)
(* have been lost; and it counts the interventions the policy solver       *)
(* counts for the same payments, so that "the report and the decisions     *)
(* cannot disagree" (report.ts).                                           *)
ReportAgreesWithTheDecisions ==
  case.kind = "portfolio" /\ case.samples # << >> =>
    \A report \in {R!BuildPortfolioReport(Outcomes(case), Holds(case), case.policy, Recovery)},
       rates \in {P!EvaluatePolicy(case.samples, case.policy)} :
      LET Sum(f) == FoldFunction(+, 0, f)
          perAction   == [a \in Range(P!Actions) |-> report.byAction[a].valuePaise]
          perTypology == [i \in DOMAIN report.byTypology |-> report.byTypology[i].intervened.valuePaise]
      IN  /\ Sum(perAction) = report.fraud.valuePaise + report.legit.valuePaise
          /\ Sum(perTypology) = report.caughtValuePaise
          /\ report.byAction["STEP_UP"].count = rates.stepUp
          /\ report.byAction["BLOCK"].count = rates.block
          /\ report.truePositives = rates.fraudIntervened
          /\ report.falsePositives = rates.legitIntervened
          /\ report.liabilityAvoidedPaise + report.residualLiabilityPaise = report.unmitigatedLiabilityPaise
          /\ report.residualLiabilityPaise >= 0
          /\ report.holds.opened = rates.stepUp
          /\ Sum(report.holds.byState) = report.holds.opened
          /\ report.holds.releasedValuePaise + report.holds.stoppedValuePaise
               <= report.byAction["STEP_UP"].valuePaise
          /\ report.holds.medianHold \in {0, 2}

-----------------------------------------------------------------------------
(* PaySim. *)

(* The corpus is in time order; a payment is new to its beneficiary        *)
(* exactly when the pair has not paid before; a beneficiary is first seen  *)
(* at its first payment; and no fraud of the table is thinned away.  The   *)
(* velocity of a beneficiary is of the whole table, later rows included    *)
(* (paysim.ts: receivedFrom, sentFrom): of it only the range is stated.    *)
PaySimRowsAreNotForeseen ==
  case.kind = "table" =>
    LET kept   == S!LoadPaySim(case.lines, case.limit)
        corpus == S!PaySimToCorpus(kept)
        txns   == corpus.transactions
        Earlier(i) == {j \in 1..(i - 1) : txns[j].payer = txns[i].payer /\ txns[j].payee = txns[i].payee}
    IN  /\ Len(kept) < case.limit =>
             Frauds(kept) = Frauds(SelectSeq(case.lines, LAMBDA l : l.type \in {"TRANSFER", "CASH_OUT"}))
        /\ corpus.meta.fraudulentTransactions = Frauds(kept)
        /\ \A i \in DOMAIN txns :
             /\ i > 1 => txns[i - 1].ts < txns[i].ts
             /\ IF Earlier(i) = {} THEN txns[i].addedAt = Unpaid
                ELSE txns[i].addedAt = txns[Min(Earlier(i))].ts
             /\ txns[i].deviceBoundAt < txns[i].ts
        /\ \A p \in DOMAIN corpus.payees :
             /\ corpus.payees[p].firstSeen = Min({t.ts : t \in {u \in Range(txns) : u.payee = p}})
             /\ corpus.payees[p].velocity.num \in 0..corpus.payees[p].velocity.den

(* The portfolio report counts every decision and every hold once, and     *)
(* what the PaySim adapter writes on the row of a payment (when the pair   *)
(* first paid, the device) was known before it (report.ts, paysim.ts).     *)
BooksAreTrue == ReportAgreesWithTheDecisions /\ PaySimRowsAreNotForeseen

-----------------------------------------------------------------------------
(* The campaign. *)
Plan(c, target, victim) ==
  [attack |-> c.attack, start |-> Last(c.past).ts + 1, victim |-> victim, mule |-> c.account,
   target |-> target, gap |-> c.gap, priming |-> Priming]

\* The contexts the engine would give the episode's payments, learning from
\* each: those of the payments not stopped before it.
AsInProduction(store, plan) ==
  FoldLeft(LAMBDA walk, txn :
             LET ready == A!EnsurePayee(walk.store, txn.payee, txn.ts)
             IN  [store |-> A!Learn(ready, ready.payers[txn.payer], ready.payees[txn.payee], txn),
                  seen  |-> Append(walk.seen, [payer  |-> ready.payers[txn.payer],
                                               recent |-> A!RecentPayerTxns(ready, txn.payer, txn.ts - A!Day)])],
           [store |-> store, seen |-> << >>], A!BuildEpisode(plan))

\* The contexts the walk gives them when nothing is stopped.
AsWalked(store, plan) ==
  FoldLeft(LAMBDA walk, txn :
             LET ctx == A!WalkContext(walk, store, plan, << >>, txn)
             IN  [A!Advance(walk, txn) EXCEPT !.seen = Append(@, [payer |-> ctx.payer, recent |-> ctx.recent])],
           [working |-> store.payers[plan.victim], prior |-> << >>, leaked |-> 0, seen |-> << >>],
           A!BuildEpisode(plan))

(* An episode in time order is judged against the state its own earlier    *)
(* payments created (adversary.ts: "exactly as they would be in            *)
(* production"): the profile is the engine's, and the day's payments are   *)
(* the engine's but for those made before the episode.                     *)
JudgedOnItsOwnPast(store, plan) ==
  plan.attack # "baseline_building" =>
    LET made   == AsInProduction(store, plan).seen
        walked == AsWalked(store, plan).seen
    IN  \A i \in DOMAIN made :
          /\ walked[i].payer = made[i].payer
          /\ Range(walked[i].recent) = {t \in Range(made[i].recent) : t.ts >= plan.start}

(* The total a structured episode splits never shows in one payment, and   *)
(* is seen together by the second of them.                                 *)
SplittingIsSeen(store, plan) ==
  plan.attack = "structuring" =>
    LET txns == A!BuildEpisode(plan)
    IN  /\ \A i \in DOMAIN txns : txns[i].amount < StructuredBelow
        /\ FoldLeft(LAMBDA sum, t : sum + t.amount, 0, txns) >= plan.target
        /\ A!CrossesTogether(txns[2], << txns[1] >>)

(* The three systems are compared at one rate of interruption: the engine  *)
(* interrupts what it was calibrated on interrupting, and the threshold    *)
(* that many payments, ties aside.                                         *)
FrictionIsMatched(samples, policy, calibrated) ==
  LET Fpr(id) == A!MeasureFpr(id, samples, CampaignModel, policy, Recovery, calibrated.params)
      above   == A!Hits(samples, LAMBDA txn, ctx :
                   A!Probability(txn, ctx, CampaignModel) > calibrated.params.threshold)
  IN  samples # << >> =>
        /\ Fpr("expected_cost") = calibrated.flagged
        /\ Fpr("fixed_threshold") >= calibrated.flagged
        /\ above < calibrated.flagged \/ above = 0

(* With nothing ablated the second scoring path is the engine's, payment   *)
(* by payment, so what an ablation is measured against is the system; and  *)
(* an episode leaks everything exactly when nothing of it is stopped.      *)
CampaignIsFair ==
  case.kind = "campaign" /\ case.past # << >> =>
    LET attributes == case.account.id :> case.account
        live       == A!LiveFanIn(case.past)
    IN  \A walk \in {A!CollectContexts(case.past, attributes)} :
        \A calibrated \in {A!CalibrateDefences(walk.samples, CampaignModel, case.policy, Recovery)} :
          /\ FrictionIsMatched(walk.samples, case.policy, calibrated)
          /\ \A victim \in A!Eligible(walk.store, History) :
               LET plans == [t \in DOMAIN Targets |-> Plan(case, Targets[t], victim)]
               IN  /\ \A plan \in Range(plans) :
                        JudgedOnItsOwnPast(walk.store, plan) /\ SplittingIsSeen(walk.store, plan)
                   /\ \A episodes \in {A!RunAttack(walk.store, plans, live, CampaignModel, case.policy,
                                                   Recovery, calibrated.params)} :
                        /\ \A t \in DOMAIN plans : \A id \in DOMAIN episodes[t] :
                             LET all == FoldLeft(LAMBDA sum, x : sum + x.amount, 0, A!BuildEpisode(plans[t]))
                             IN  episodes[t][id].leaked = all <=> ~episodes[t][id].caught
                        /\ \A result \in {A!AttackResult(episodes)} :
                             result["hardened"] = result["expected_cost"]
=============================================================================
