------------------------------ MODULE Fusion -------------------------------
(***************************************************************************)
(* Score fusion (packages/core/src/fusion.ts, signals/specs.ts): bins,     *)
(* group shrinkage, the floor under what an attacker-controllable group    *)
(* may take off the score, and the calibration map (mathx.ts).  Evidence   *)
(* is in whole units; a contribution is a fraction, because shrinking and  *)
(* capping divide.  A signal is a record [group, edges, raw, weight,       *)
(* llrByBin]: its specification, its measurement and its fitted table.     *)
(***************************************************************************)
EXTENDS Integers, Sequences, SequencesExt, FiniteSetsExt

CONSTANTS Groups,       \* signal groups
          RhoUnit,      \* resolution of a correlation
          RhoCeiling,   \* where the correlation is clamped: 0.95 of RhoUnit
          NaN,          \* a statistic that is not finite
          FireLlr       \* evidence from which a signal is shown as fired

-----------------------------------------------------------------------------
(* Exact fractions in lowest terms, the denominator positive: where the    *)
(* code divides and compares, the model does so without rounding.          *)
gcd[a \in Nat, b \in Nat] == IF b = 0 THEN a ELSE gcd[b, a % b]
Size(n) == IF n < 0 THEN -n ELSE n
Q(n, d) == LET g == gcd[Size(n), Size(d)]
           IN  IF d < 0 THEN [num |-> -(n \div g), den |-> -(d \div g)]
               ELSE [num |-> n \div g, den |-> d \div g]
QAdd(x, y)  == Q(x.num * y.den + y.num * x.den, x.den * y.den)
QSub(x, y)  == Q(x.num * y.den - y.num * x.den, x.den * y.den)
QMul(x, y)  == Q(x.num * y.num, x.den * y.den)
QAbs(x)     == [x EXCEPT !.num = Size(@)]
QLess(x, y) == x.num * y.den < y.num * x.den
QEq(x, y)   == x = y
QSum(qs)    == FoldLeft(QAdd, Q(0, 1), qs)

\* A rate out of n: nothing out of nothing is none.
Share(k, n) == IF n > 0 THEN Q(k, n) ELSE Q(0, 1)

-----------------------------------------------------------------------------
(* Upper-exclusive edges; above the last, the final bin; no number, bin 0. *)
ToBin(edges, raw) ==
  IF raw = NaN THEN 0
  ELSE LET above == {i \in DOMAIN edges : raw < edges[i]}
       IN  IF above = {} THEN Len(edges) ELSE Min(above) - 1

(* A slip the checks must notice: the discount counts the signal itself. *)
GroupShrinkageOfAll(rho, k) ==
  IF k <= 1 THEN Q(1, 1)
  ELSE Q(RhoUnit, RhoUnit + k * (IF rho < 0 THEN 0 ELSE IF rho > RhoCeiling THEN RhoCeiling ELSE rho))

(* 1 / (1 + (k - 1) rho) for k contributing signals. *)
GroupShrinkageFactor(rho, k) ==
  IF k <= 1 THEN Q(1, 1)
  ELSE Q(RhoUnit, RhoUnit + (k - 1) * (IF rho < 0 THEN 0 ELSE IF rho > RhoCeiling THEN RhoCeiling ELSE rho))

Total(results, group) ==
  QSum([i \in DOMAIN results |-> IF results[i].group = group THEN results[i].contribution ELSE Q(0, 1)])
NegativeTotal(results, group) ==
  QSum([i \in DOMAIN results |->
          IF results[i].group = group /\ results[i].contribution.num < 0
          THEN results[i].contribution ELSE Q(0, 1)])

(* Another: the negative side alone is brought to the floor. *)
CapGroupNegative(results, group, floor) ==
  LET negative == NegativeTotal(results, group)
  IN  IF ~QLess(Total(results, group), Q(floor, 1)) \/ negative.num = 0 THEN results
      ELSE [i \in DOMAIN results |->
              IF results[i].group = group /\ results[i].contribution.num < 0
              THEN [results[i] EXCEPT !.contribution = Q(@.num * floor * negative.den, @.den * negative.num)]
              ELSE results[i]]

(* Scales the negative side of each capped group, in the order they are    *)
(* listed, so that its total lands on the floor; the positive side stays.  *)
CapGroup(results, group, floor) ==
  LET total    == Total(results, group)
      negative == NegativeTotal(results, group)
      allowed  == QAdd(Q(floor, 1), QAdd(negative, Q(-total.num, total.den)))  \* floor - positive
      Scaled(q) == Q(q.num * allowed.num * negative.den, q.den * allowed.den * negative.num)
  IN  IF ~QLess(total, Q(floor, 1)) \/ negative.num = 0 THEN results
      ELSE [i \in DOMAIN results |->
              IF results[i].group = group /\ results[i].contribution.num < 0
              THEN [results[i] EXCEPT !.contribution = Scaled(@)]
              ELSE results[i]]

ApplyAsymmetricCap(results, model) ==
  FoldLeft(LAMBDA rs, g : CapGroup(rs, g, model.negativeFloor), results, model.cappedGroups)

(* The passes over the signals of one payment: evidence and group sizes,   *)
(* the group correction, and the floor.                                    *)
Shrunk(signals, model) ==
  LET llr(s)      == s.llrByBin[ToBin(s.edges, s.raw) + 1]
      Unshrunk(s) == s.weight * llr(s)
      k(group)    == Len(SelectSeq(signals, LAMBDA s : s.group = group /\ Unshrunk(s) # 0))
      Result(s)   == LET f == GroupShrinkageFactor(model.rho[s.group], k(s.group))
                     IN  [group        |-> s.group,
                          fired        |-> llr(s) >= FireLlr,
                          contribution |-> Q(Unshrunk(s) * f.num, f.den)]
  IN  [i \in DOMAIN signals |-> Result(signals[i])]

EvaluateSignals(signals, model) == ApplyAsymmetricCap(Shrunk(signals, model), model)

-----------------------------------------------------------------------------
(* Another: the slope between two knots ignores how far apart they are. *)
InterpolateUnscaled(knots, x) ==
  LET last  == Last(knots)
      below == {i \in DOMAIN knots : ~QLess(x, Q(knots[i][1], 1))}
      a     == knots[Max(below)]
      b     == knots[Max(below) + 1]
  IN  IF ~QLess(Q(knots[1][1], 1), x) THEN Q(knots[1][2], 1)
      ELSE IF ~QLess(x, Q(last[1], 1)) THEN Q(last[2], 1)
      ELSE Q(a[2] * x.den + (x.num - a[1] * x.den) * (b[2] - a[2]), x.den)

(* Linear between sorted knots <<x, y>>, flat outside; of two knots at one *)
(* x the later answers.  No knots, no map: the caller falls back.          *)
InterpolatePiecewise(knots, x) ==
  LET first == Head(knots)
      last  == Last(knots)
      search[lo \in DOMAIN knots, hi \in DOMAIN knots] ==
        LET mid == (lo + hi) \div 2
        IN  IF hi - lo <= 1 THEN << lo, hi >>
            ELSE IF ~QLess(x, Q(knots[mid][1], 1)) THEN search[mid, hi] ELSE search[lo, mid]
      at    == search[1, Len(knots)]
      a     == knots[at[1]]
      b     == knots[at[2]]
  IN  IF ~QLess(Q(first[1], 1), x) THEN Q(first[2], 1)
      ELSE IF ~QLess(x, Q(last[1], 1)) THEN Q(last[2], 1)
      ELSE IF b[1] = a[1] THEN Q(b[2], 1)
      ELSE Q(a[2] * (b[1] - a[1]) * x.den + (x.num - a[1] * x.den) * (b[2] - a[2]),
             (b[1] - a[1]) * x.den)

(* The fused score, its calibrated probability, and the fired signals with *)
(* the strongest contribution first (a stable sort).                       *)
Fuse(results, model) ==
  LET score == QAdd(Q(model.prior, 1), QSum([i \in DOMAIN results |-> results[i].contribution]))
      Stronger(i, j) == LET a == results[i].contribution
                            b == results[j].contribution
                        IN  QLess(b, a) \/ (QEq(a, b) /\ i < j)
  IN  [fusedLogOdds |-> score,
       calibratedP  |-> InterpolatePiecewise(model.calibration, score),
       reasons      |-> SetToSortSeq({i \in DOMAIN results : results[i].fired}, Stronger)]

(* Another: the breakdown leaves out the signals that did not fire. *)
ContributionsOfFired(results) ==
  [g \in Groups |-> Total(SelectSeq(results, LAMBDA r : r.fired), g)]

ContributionsByGroup(results) == [g \in Groups |-> Total(results, g)]

(* What the engine requires of its own record before it stores it. *)
VerifyAdditivity(results, prior, fused) ==
  QEq(QAdd(Q(prior, 1), QSum([i \in DOMAIN results |-> results[i].contribution])), fused)

=============================================================================
