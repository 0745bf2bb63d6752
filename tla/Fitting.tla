------------------------------ MODULE Fitting ------------------------------
(***************************************************************************)
(* The evaluation metrics (packages/sim/src/metrics.ts) and model fitting  *)
(* (packages/sim/src/fit.ts): ranking metrics over scored cases [score,    *)
(* isFraud, amountPaise] in exact fractions; evidence tables, correlations *)
(* within a group, and the isotonic calibration of the fused score.  The   *)
(* weights come from a regression that is left out: they are an input.  A  *)
(* row is [bins, isFraud, amountPaise], a bin for every signal; a signal   *)
(* is [group, bins], and evidence is read off a grid of likelihood ratios. *)
(***************************************************************************)
EXTENDS Fusion, TLC

CONSTANTS SignalOrder,     \* the signals
          LlrGrid,         \* likelihood ratios, rising: what is measured of a logarithm
          LlrOfNone,       \* how many of them a ratio of one reaches
          MinObservations, \* a bin seen less often is sparse
          KnotLimit,       \* most knots of a calibration map
          FirstTolerance   \* the smallest move of a level that keeps a knot

ASSUME KnotLimitHolds == KnotLimit >= 2

-----------------------------------------------------------------------------
(* Metrics *)

(* Stable sorts, by rising and by falling score. *)
SortedBy(Before(_, _), cases) ==
  LET order == SortSeq([i \in DOMAIN cases |-> i],
                       LAMBDA i, j : \/ Before(cases[i].score, cases[j].score)
                                     \/ QEq(cases[i].score, cases[j].score) /\ i < j)
  IN  [k \in DOMAIN cases |-> cases[order[k]]]
Ascending(cases)  == SortedBy(QLess, cases)
Descending(cases) == SortedBy(LAMBDA x, y : QLess(y, x), cases)

Frauds(cases)    == Len(SelectSeq(cases, LAMBDA c : c.isFraud))
Negatives(cases) == SelectSeq(cases, LAMBDA c : ~c.isFraud)

\* The places of a sorted sequence where a run of tied scores ends.
RunEnds(sorted) == {k \in DOMAIN sorted : k = Len(sorted) \/ sorted[k + 1].score # sorted[k].score}

(* A slip the checks must notice: tied scores keep the order they came in. *)
RocAucByPlace(cases) ==
  LET sorted == Ascending(cases)
      pos == Frauds(cases)
      neg == Len(cases) - pos
      rankSum == FoldLeft(LAMBDA sum, k : sum + (IF sorted[k].isFraud THEN k ELSE 0),
                          0, [k \in DOMAIN sorted |-> k])
  IN  IF pos = 0 \/ neg = 0 THEN Q(1, 2) ELSE Q(2 * rankSum - pos * (pos + 1), 2 * pos * neg)

(* The rank-sum identity, tied scores sharing the middle of their ranks.   *)
RocAuc(cases) ==
  LET sorted == Ascending(cases)
      pos    == Frauds(cases)
      neg    == Len(cases) - pos
      tied(k) == {j \in DOMAIN sorted : sorted[j].score = sorted[k].score}
      twiceRankSum == FoldLeft(LAMBDA sum, k :
                        sum + (IF sorted[k].isFraud THEN Min(tied(k)) + Max(tied(k)) ELSE 0),
                        0, [k \in DOMAIN sorted |-> k])
  IN  IF pos = 0 \/ neg = 0 THEN Q(1, 2)
      ELSE Q(twiceRankSum - pos * (pos + 1), 2 * pos * neg)

(* Average precision, a step at the end of each run of tied scores. *)
PrAuc(cases) ==
  LET sorted == Descending(cases)
      pos    == Frauds(cases)
      tp(k)  == Frauds(SubSeq(sorted, 1, k))
      Step(acc, k) ==
        IF k \notin RunEnds(sorted) THEN acc
        ELSE [ap |-> QAdd(acc.ap, Q((tp(k) - acc.tp) * tp(k), pos * k)), tp |-> tp(k)]
  IN  IF pos = 0 THEN Q(0, 1)
      ELSE FoldLeft(Step, [ap |-> Q(0, 1), tp |-> 0], [k \in DOMAIN sorted |-> k]).ap

(* The widest gap between the two cumulative distributions and the first   *)
(* score it is reached at.                                                 *)
KsStatistic(cases) ==
  LET sorted == Ascending(cases)
      pos    == Frauds(cases)
      neg    == Len(cases) - pos
      gap(k) == LET tp == Frauds(SubSeq(sorted, 1, k))
                IN  QAbs(QSub(Q(tp, pos), Q(k - tp, neg)))
      Wider(best, k) ==
        IF k \in RunEnds(sorted) /\ QLess(best.ks, gap(k))
        THEN [ks |-> gap(k), atScore |-> sorted[k].score] ELSE best
      none   == [ks |-> Q(0, 1), atScore |-> Q(0, 1)]
  IN  IF pos = 0 \/ neg = 0 THEN none
      ELSE FoldLeft(Wider, none, [k \in DOMAIN sorted |-> k])

Discrimination(cases) ==
  [rocAuc |-> RocAuc(cases), prAuc |-> PrAuc(cases), ks |-> KsStatistic(cases).ks,
   ksAtScore |-> KsStatistic(cases).atScore,
   positives |-> Frauds(cases), negatives |-> Len(cases) - Frauds(cases)]

-----------------------------------------------------------------------------
Clamped(score) == IF score.num < 0 THEN Q(0, 1) ELSE IF QLess(Q(1, 1), score) THEN Q(1, 1) ELSE score
SumOf(Value(_), cases) == QSum([i \in DOMAIN cases |-> Value(cases[i])])
CeilDiv(n, d) == (n + d - 1) \div d

\* Consecutive slices of at most size cases.
Slices(sorted, size) ==
  [b \in 1..CeilDiv(Len(sorted), size) |->
     SubSeq(sorted, (b - 1) * size + 1, IF b * size < Len(sorted) THEN b * size ELSE Len(sorted))]

(* Quantile bins: an equal number of cases in each, but for the last. *)
Calibration(cases, binCount) ==
  LET n      == Len(cases)
      bins   == Slices(Ascending(cases), CeilDiv(n, binCount))
      predicted(b) == QMul(Q(1, Len(b)), SumOf(LAMBDA c : Clamped(c.score), b))
      observed(b)  == Q(Frauds(b), Len(b))
      gap(b)       == QAbs(QSub(predicted(b), observed(b)))
      Miss(c)      == QSub(Clamped(c.score), Q(IF c.isFraud THEN 1 ELSE 0, 1))
  IN  IF n = 0 THEN [brier |-> Q(0, 1), ece |-> Q(0, 1), mce |-> Q(0, 1), bins |-> << >>]
      ELSE [brier |-> QMul(Q(1, n), SumOf(LAMBDA c : QMul(Miss(c), Miss(c)), cases)),
            ece   |-> QSum([b \in DOMAIN bins |-> QMul(Q(Len(bins[b]), n), gap(bins[b]))]),
            mce   |-> FoldLeft(LAMBDA worst, b : IF QLess(worst, gap(b)) THEN gap(b) ELSE worst,
                               Q(0, 1), bins),
            bins  |-> [b \in DOMAIN bins |->
                         [lo |-> bins[b][1].score, hi |-> Last(bins[b]).score,
                          count |-> Len(bins[b]),
                          meanPredicted |-> predicted(bins[b]), observedRate |-> observed(bins[b])]]]

-----------------------------------------------------------------------------
(* Confusion counts and rates at a threshold, which is itself flagged. *)
OperatingPoint(cases, threshold) ==
  LET flagged == SelectSeq(cases, LAMBDA c : ~QLess(c.score, threshold))
      tp == Frauds(flagged)
      fp == Len(flagged) - tp
      pos == Frauds(cases)
      neg == Len(cases) - pos
  IN  [threshold |-> threshold, truePositives |-> tp, falsePositives |-> fp,
       trueNegatives |-> neg - fp, falseNegatives |-> pos - tp,
       precision |-> Share(tp, tp + fp), recall |-> Share(tp, pos),
       falsePositiveRate |-> Share(fp, neg)]

(* A slip the checks must notice: the quantile of unsorted scores. *)
RecallAtFprUnsorted(cases, maxFpr) ==
  LET negatives == Negatives(cases)
      n         == Len(negatives)
      idx       == ((maxFpr.den - maxFpr.num) * n) \div maxFpr.den
  IN  IF n = 0 THEN OperatingPoint(cases, Q(1, 1))
      ELSE OperatingPoint(cases, negatives[(IF idx < n - 1 THEN idx ELSE n - 1) + 1].score)

(* The threshold is the (1 - maxFpr) quantile of the negatives' scores:    *)
(* the negative there is flagged too.                                      *)
RecallAtFpr(cases, maxFpr) ==
  LET negatives == Ascending(Negatives(cases))
      n         == Len(negatives)
      idx       == ((maxFpr.den - maxFpr.num) * n) \div maxFpr.den
  IN  IF n = 0 THEN OperatingPoint(cases, Q(1, 1))
      ELSE OperatingPoint(cases, negatives[(IF idx < n - 1 THEN idx ELSE n - 1) + 1].score)

ValueRecallAtFpr(cases, maxFpr) ==
  LET threshold == RecallAtFpr(cases, maxFpr).threshold
      frauds    == SelectSeq(cases, LAMBDA c : c.isFraud)
      Value(cs) == FoldLeft(LAMBDA sum, c : sum + c.amountPaise, 0, cs)
  IN  Share(Value(SelectSeq(frauds, LAMBDA c : ~QLess(c.score, threshold))), Value(frauds))

(* Slices of the cases from the riskiest down. *)
DecileLift(cases, deciles) ==
  LET slices == Slices(Descending(cases), CeilDiv(Len(cases), deciles))
      total  == Frauds(cases)
  IN  IF cases = << >> THEN << >>
      ELSE [d \in DOMAIN slices |->
              [count |-> Len(slices[d]), fraudCount |-> Frauds(slices[d]),
               fraudRate |-> Share(Frauds(slices[d]), Len(slices[d])),
               lift |-> IF total = 0 THEN Q(0, 1)
                        ELSE Q(Frauds(slices[d]) * Len(cases), Len(slices[d]) * total),
               capturedShare |-> Share(Frauds(slices[d]), total)]]

(* The precision of an operating point at another rate of fraud. *)
PrecisionAtPrevalence(point, prevalence) ==
  LET caught == QMul(point.recall, prevalence)
      all    == QAdd(caught, QMul(point.falsePositiveRate, QSub(Q(1, 1), prevalence)))
  IN  IF all.num = 0 THEN Q(0, 1) ELSE Q(caught.num * all.den, caught.den * all.num)

(* Everything in one call, at the ceilings that are reported. *)
FullMetrics(cases, ceilings, binCount, deciles) ==
  [discrimination  |-> Discrimination(cases),
   calibration     |-> Calibration(cases, binCount),
   operatingPoints |-> [i \in DOMAIN ceilings |->
                          [maxFpr |-> ceilings[i], point |-> RecallAtFpr(cases, ceilings[i]),
                           valueRecall |-> ValueRecallAtFpr(cases, ceilings[i])]],
   deciles         |-> DecileLift(cases, deciles)]

-----------------------------------------------------------------------------
(* Fitting *)

Indices(n) == [i \in 1..n |-> i]

-----------------------------------------------------------------------------
(* Stage 1.  Counts per bin, half a case added to each, and the logarithm  *)
(* of their ratio.                                                         *)
Log(ratio) == Cardinality({i \in DOMAIN LlrGrid : ~QLess(ratio, LlrGrid[i])}) - LlrOfNone

FitWoe(rows, s) ==
  LET bins == 0..(SignalOrder[s].bins - 1)
      n    == SignalOrder[s].bins
      Count(b, fraud) == Len(SelectSeq(rows, LAMBDA r : r.bins[s] = b /\ r.isFraud = fraud))
      frauds == Frauds(rows)
      legits == Len(rows) - frauds
  IN  [fraud |-> [b \in bins |-> Count(b, TRUE)],
       legit |-> [b \in bins |-> Count(b, FALSE)],
       llr   |-> [b \in bins |->
                    Log(Q((2 * Count(b, TRUE) + 1) * (2 * legits + n),
                          (2 * Count(b, FALSE) + 1) * (2 * frauds + n)))]]

Observed(table, b) == table.fraud[b] + table.legit[b] >= MinObservations
SeenBelow(table, b) == {c \in DOMAIN table.llr : c < b /\ Observed(table, c)}
SeenAbove(table, b) == {c \in DOMAIN table.llr : c > b /\ Observed(table, c)}

(* A slip the checks must notice: only the first pass is made. *)
FillFromTheLeft(table) ==
  [table EXCEPT !.llr = [b \in DOMAIN @ |->
     IF Observed(table, b) \/ SeenBelow(table, b) = {} THEN table.llr[b]
     ELSE table.llr[Max(SeenBelow(table, b))]]]

(* A sparse bin takes the level of the nearest observed bin on its left;   *)
(* the pass from the right then fills whatever still has its own level.    *)
FillSparseBins(table) ==
  LET own == table.llr
      fromLeft == [b \in DOMAIN own |->
                     IF Observed(table, b) \/ SeenBelow(table, b) = {} THEN own[b]
                     ELSE own[Max(SeenBelow(table, b))]]
  IN  [table EXCEPT !.llr = [b \in DOMAIN own |->
         IF Observed(table, b) \/ SeenAbove(table, b) = {} \/ fromLeft[b] # own[b]
         THEN fromLeft[b]
         ELSE own[Min(SeenAbove(table, b))]]]

-----------------------------------------------------------------------------
(* Stage 2.  The correlation of two series in RhoUnits, rounded down; a    *)
(* negative one counts as none.                                            *)
Dot(xs, ys) == FoldLeft(LAMBDA sum, i : sum + xs[i] * ys[i], 0, Indices(Len(xs)))
Spread(xs, ys) ==
  LET Sum(s) == FoldLeft(+, 0, s) IN Len(xs) * Dot(xs, ys) - Sum(xs) * Sum(ys)

PositivePearson(xs, ys) ==
  LET sxy == Spread(xs, ys)
      sxx == Spread(xs, xs)
      syy == Spread(ys, ys)
  IN  IF Len(xs) < 2 \/ sxx = 0 \/ syy = 0 \/ sxy < 0 THEN 0
      ELSE Max({r \in 0..RhoUnit : r * r * sxx * syy <= sxy * sxy * RhoUnit * RhoUnit})

(* The mean over the pairs of a group; a group of one has none. *)
EstimateGroupCorrelation(series) ==
  [g \in Groups |->
     LET pairs == {p \in (DOMAIN SignalOrder) \X (DOMAIN SignalOrder) :
                     p[1] < p[2] /\ SignalOrder[p[1]].group = g /\ SignalOrder[p[2]].group = g}
     IN  IF pairs = {} THEN 0
         ELSE FoldSet(LAMBDA p, sum : sum + PositivePearson(series[p[1]], series[p[2]]), 0, pairs)
                \div Cardinality(pairs)]

-----------------------------------------------------------------------------
(* What a row scores under a model [prior, rho, weights, llr, cappedGroups,*)
(* negativeFloor]: the computation of the engine, written out again.       *)
SignalContributions(row, model) ==
  LET sigs        == DOMAIN SignalOrder
      Evidence(s) == model.weights[s] * model.llr[s][row.bins[s]]
      In(s, g)    == SignalOrder[s].group = g
      k(g)        == Cardinality({s \in sigs : In(s, g) /\ Evidence(s) # 0})
      shrunk == [s \in sigs |->
                   LET f == GroupShrinkageFactor(model.rho[SignalOrder[s].group], k(SignalOrder[s].group))
                   IN  Q(Evidence(s) * f.num, f.den)]
      Sum(cs, Pick(_)) == QSum([s \in sigs |-> IF Pick(s) THEN cs[s] ELSE Q(0, 1)])
      Floored(cs, g) ==
        LET total    == Sum(cs, LAMBDA s : In(s, g))
            negative == Sum(cs, LAMBDA s : In(s, g) /\ cs[s].num < 0)
            room     == QSub(Q(model.negativeFloor, 1), QSub(total, negative))
        IN  IF ~QLess(total, Q(model.negativeFloor, 1)) \/ negative.num = 0 THEN cs
            ELSE [s \in sigs |-> IF In(s, g) /\ cs[s].num < 0
                                 THEN QMul(cs[s], Q(room.num * negative.den, room.den * negative.num))
                                 ELSE cs[s]]
  IN  FoldLeft(Floored, shrunk, model.cappedGroups)

ScoreRow(row, model) == QAdd(Q(model.prior, 1), QSum(SignalContributions(row, model)))

\* The same row as the engine meets it: bins told apart by unit edges.
AsMeasured(row, model) ==
  [s \in DOMAIN SignalOrder |->
     [group |-> SignalOrder[s].group, edges |-> Indices(SignalOrder[s].bins - 1),
      raw |-> row.bins[s], weight |-> model.weights[s],
      llrByBin |-> [i \in 1..SignalOrder[s].bins |-> model.llr[s][i - 1]]]]

-----------------------------------------------------------------------------
(* Stage 4.  Pool adjacent violators over outcomes sorted by score.  A     *)
(* block is [sum, weight, x]: its outcomes and the score it ends at.       *)
OutOfOrder(a, b) == a.sum * b.weight >= b.sum * a.weight
Pooled(a, b)    == [sum |-> a.sum + b.sum, weight |-> a.weight + b.weight, x |-> b.x]

(* A slip: a new outcome is pooled with the block before it, and no        *)
(* further back.                                                           *)
PushOnce(stack, block) ==
  IF stack # << >> /\ OutOfOrder(Last(stack), block)
  THEN Append(Front(stack), Pooled(Last(stack), block)) ELSE Append(stack, block)

Push(stack, block) ==
  LET Absorb(acc, b) == IF acc.kept = << >> /\ OutOfOrder(b, acc.top)
                        THEN [acc EXCEPT !.top = Pooled(b, @)]
                        ELSE [acc EXCEPT !.kept = << b >> \o @]
      done == FoldLeft(Absorb, [kept |-> << >>, top |-> block], Reverse(stack))
  IN  Append(done.kept, done.top)

Blocks(xs, ys) ==
  FoldLeft(LAMBDA stack, i : Push(stack, [sum |-> ys[i], weight |-> 1, x |-> xs[i]]),
           << >>, Indices(Len(xs)))

Pava(xs, ys) ==
  LET blocks == Blocks(xs, ys)
  IN  [i \in DOMAIN blocks |-> [x |-> blocks[i].x, y |-> Q(blocks[i].sum, blocks[i].weight)]]

(* Knots are kept where the level has moved by the tolerance, which grows  *)
(* by half until they fit; the ends stay, unless both lie at one score.    *)
KeptKnots(knots, tolerance) ==
  LET last  == Last(knots)
      inner == FoldLeft(LAMBDA out, k :
                 IF QLess(QSub(k.y, Last(out).y), tolerance) THEN out ELSE Append(out, k),
                 << Head(knots) >>, SubSeq(knots, 2, Len(knots) - 1))
  IN  IF QLess(Last(inner).x, last.x) THEN Append(inner, last) ELSE inner

CompressKnots(knots, limit) ==
  LET tighten[n \in Nat] ==
        LET kept == KeptKnots(knots, QMul(FirstTolerance, Q(3^n, 2^n)))
        IN  IF Len(kept) <= limit THEN kept ELSE tighten[n + 1]
  IN  IF Len(knots) <= limit THEN knots ELSE tighten[0]

(* Linear between the knots, flat beyond them. *)
ApplyCalibration(score, knots) ==
  LET search[lo \in DOMAIN knots, hi \in DOMAIN knots] ==
        LET mid == (lo + hi) \div 2
        IN  IF hi - lo <= 1 THEN << knots[lo], knots[hi] >>
            ELSE IF ~QLess(score, knots[mid].x) THEN search[mid, hi] ELSE search[lo, mid]
      at   == search[1, Len(knots)]
      span == QSub(at[2].x, at[1].x)
      rise == QMul(QSub(score, at[1].x), QSub(at[2].y, at[1].y))
  IN  IF ~QLess(Head(knots).x, score) THEN Head(knots).y
      ELSE IF ~QLess(score, Last(knots).x) THEN Last(knots).y
      ELSE IF span.num = 0 THEN at[2].y
      ELSE QAdd(at[1].y, Q(rise.num * span.den, rise.den * span.num))

-----------------------------------------------------------------------------
(* The whole fit: on the training rows, then evaluated on the test rows.   *)
MarginalAuc(rows, llr, s) ==
  RocAuc([i \in DOMAIN rows |-> [score |-> Q(llr[rows[i].bins[s]], 1), isFraud |-> rows[i].isFraud]])

Scored(rows, Score(_)) ==
  [i \in DOMAIN rows |-> [score |-> Score(rows[i]), isFraud |-> rows[i].isFraud,
                          amountPaise |-> rows[i].amountPaise]]

\* The model as the rows' tables make it, not calibrated yet.
Drafted(tables, train, weights, config) ==
  LET series == [s \in DOMAIN SignalOrder |-> [i \in DOMAIN train |-> tables[s].llr[train[i].bins[s]]]]
      FiredFrom(s) == LET fires == {b \in DOMAIN tables[s].llr : tables[s].llr[b] >= FireLlr}
                      IN  IF fires = {} THEN SignalOrder[s].bins ELSE Min(fires)
  IN  [prior |-> config.prior, rho |-> EstimateGroupCorrelation(series), weights |-> weights,
       llr |-> [s \in DOMAIN SignalOrder |-> tables[s].llr],
       firedFrom |-> [s \in DOMAIN SignalOrder |-> FiredFrom(s)],
       cappedGroups |-> config.cappedGroups, negativeFloor |-> config.negativeFloor]

KnotsOf(sorted) ==
  CompressKnots(Pava([i \in DOMAIN sorted |-> sorted[i].score],
                     [i \in DOMAIN sorted |-> IF sorted[i].isFraud THEN 1 ELSE 0]), KnotLimit)

Calibrated(draft, train) ==
  draft @@ [calibration |-> KnotsOf(Ascending(Scored(train, LAMBDA r : ScoreRow(r, draft))))]

Evaluated(model, tables, test) ==
  [model       |-> model,
   metrics     |-> Discrimination(Scored(test, LAMBDA r :
                     ApplyCalibration(ScoreRow(r, model), model.calibration))),
   filledBins  |-> UNION {{<< s, b >> : b \in {c \in DOMAIN tables[s].llr : ~Observed(tables[s], c)}} :
                            s \in DOMAIN SignalOrder},
   marginalAuc |-> [s \in DOMAIN SignalOrder |-> MarginalAuc(test, model.llr[s], s)]]

FitFrom(tables, train, test, weights, config) ==
  Evaluated(Calibrated(Drafted(tables, train, weights, config), train), tables, test)

FitModel(train, test, weights, config) ==
  FitFrom([s \in DOMAIN SignalOrder |-> FillSparseBins(FitWoe(train, s))], train, test, weights, config)
=============================================================================
