----------------------------- MODULE Portfolio -----------------------------
(***************************************************************************)
(* The portfolio report (packages/sim/src/report.ts): what a replay        *)
(* decided, priced with the cost model the decisions were made with.  An   *)
(* outcome is [ts, amountPaise, isFraud, typology, decision], a hold       *)
(* [state, amountPaise, openedAtMs, resolvedAtMs].  The latencies of the   *)
(* machine are left out; shares are left as their numerator and their      *)
(* denominator, which are in the report.                                   *)
(***************************************************************************)
EXTENDS CostModel

CONSTANT Unresolved     \* resolvedAtMs of an open hold

H == INSTANCE HoldProtocol

(* The states in which the held payment did not go through. *)
StoppedStates == {"FAILED_BLOCKED", "EXPIRED_BLOCKED", "ABANDONED", "ESCALATED_REVIEW"}

Intervened(o) == o.decision # "APPROVE"
Tally(Value(_), items) == FoldLeft(LAMBDA sum, o : sum + Value(o), 0, items)
Bucket(outcomes) == [count |-> Len(outcomes), valuePaise |-> Tally(LAMBDA o : o.amountPaise, outcomes)]

\* What a fraud costs when nothing is done about it.
Exposure(o, recovery, policy) ==
  RoundTo(o.amountPaise * (Unit - recovery) * policy.liabilityShare, Unit * Unit)

(* A slip the checks must notice: a hold that fails leaves nothing behind. *)
ResidualOfMissed(o, recovery, policy) ==
  IF Intervened(o) THEN 0 ELSE Exposure(o, recovery, policy)

(* What is left of it after the action taken. *)
Residual(o, recovery, policy) ==
  Exposure(o, recovery, policy)
    - (IF Intervened(o) THEN LiabilityAvoided(o.amountPaise, recovery, policy, o.decision) ELSE 0)

(* The price of an intervention, right or wrong, in 1/Unit paise; only a   *)
(* legitimate customer is lost by it.                                      *)
FrictionOf(o, policy) ==
  (IF o.decision = "BLOCK" THEN policy.blockFrictionPaise ELSE policy.stepUpFrictionPaise) * Unit
    + (IF o.isFraud THEN 0 ELSE Abandonment(o.decision, policy) * policy.customerLifetimeValuePaise)

TypologyPerformance(outcomes, typology) ==
  LET own == SelectSeq(outcomes, LAMBDA o : o.isFraud /\ o.typology = typology)
  IN  [typology |-> typology, all |-> Bucket(own), intervened |-> Bucket(SelectSeq(own, Intervened))]

\* Round(q * (n - 1)) from the start, q a pair.
Percentile(sorted, q) ==
  IF sorted = << >> THEN 0 ELSE sorted[RoundTo(q[1] * (Len(sorted) - 1), q[2]) + 1]

HoldDurations(holds) ==
  LET settled == SelectSeq(holds, LAMBDA h : h.resolvedAtMs # Unresolved)
  IN  SortSeq([i \in DOMAIN settled |-> settled[i].resolvedAtMs - settled[i].openedAtMs], LAMBDA x, y : x < y)

HoldFigures(holds) ==
  LET Held(states) == Tally(LAMBDA h : h.amountPaise, SelectSeq(holds, LAMBDA h : h.state \in states))
  IN  [opened |-> Len(holds),
       byState |-> [s \in H!HoldStates |-> Len(SelectSeq(holds, LAMBDA h : h.state = s))],
       releasedValuePaise |-> Held({"CONFIRMED_RELEASED"}),
       stoppedValuePaise  |-> Held(StoppedStates),
       medianHold |-> Percentile(HoldDurations(holds), << 1, 2 >>)]

\* The sums over the outcomes, by action, by truth and by both.
Sums(outcomes, policy, recovery) ==
  LET frauds == SelectSeq(outcomes, LAMBDA o : o.isFraud)
      legits == SelectSeq(outcomes, LAMBDA o : ~o.isFraud)
      acted  == SelectSeq(outcomes, Intervened)
      caught == SelectSeq(frauds, Intervened)
  IN  [screened |-> Bucket(outcomes),
       byAction |-> [a \in Range(Actions) |-> Bucket(SelectSeq(outcomes, LAMBDA o : o.decision = a))],
       fraud    |-> Bucket(frauds),
       legit    |-> Bucket(legits),
       truePositives  |-> Len(caught),
       falsePositives |-> Len(acted) - Len(caught),
       trueNegatives  |-> Len(legits) - (Len(acted) - Len(caught)),
       falseNegatives |-> Len(frauds) - Len(caught),
       caughtValuePaise |-> Bucket(caught).valuePaise,
       avoided  |-> Tally(LAMBDA o : LiabilityAvoided(o.amountPaise, recovery, policy, o.decision), caught),
       residual |-> Tally(LAMBDA o : Residual(o, recovery, policy), frauds),
       exposed  |-> Tally(LAMBDA o : Exposure(o, recovery, policy), frauds),
       friction |-> Tally(LAMBDA o : FrictionOf(o, policy), acted),
       typologies |-> {TypologyPerformance(outcomes, t) : t \in {o.typology : o \in Range(frauds)}}]

BuildPortfolioReport(outcomes, holds, policy, recovery) ==
  LET sums  == Sums(outcomes, policy, recovery)
      times == {o.ts : o \in Range(outcomes)}
  IN  sums @@
      [windowFromMs |-> IF times = {} THEN 0 ELSE Min(times),
       windowToMs   |-> IF times = {} THEN 0 ELSE Max(times),
       holds |-> HoldFigures(holds),
       liabilityAvoidedPaise     |-> sums.avoided,
       residualLiabilityPaise    |-> sums.residual,
       unmitigatedLiabilityPaise |-> sums.exposed,
       frictionCostPaise         |-> RoundTo(sums.friction, Unit),
       netBenefitPaise           |-> RoundTo(sums.avoided * Unit - sums.friction, Unit),
       byTypology |-> SortSeq(SetToSeq(sums.typologies), LAMBDA x, y : x.all.valuePaise > y.all.valuePaise)]

=============================================================================
