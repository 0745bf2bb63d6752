----------------------------- MODULE CostModel -----------------------------
(***************************************************************************)
(* The expected-cost decision (packages/core/src/cost.ts) and the policies *)
(* built on it (packages/core/src/policy.ts).  Probabilities, shares and   *)
(* rates are numerators over Unit, amounts and prices whole paise; a cost  *)
(* is exact, in units of 1/Unit^4 paise, and a boundary is a fraction.     *)
(***************************************************************************)
EXTENDS Integers, Sequences, SequencesExt, FiniteSetsExt

CONSTANT Unit     \* the resolution of rates: 1.0 is Unit

Actions == << "APPROVE", "STEP_UP", "BLOCK" >>
Whole   == Unit * Unit * Unit * Unit

Clamp(x, lo, hi) == IF x < lo THEN lo ELSE IF x > hi THEN hi ELSE x
RoundTo(n, d)    == (2 * n + d) \div (2 * d)        \* Math.round(n / d)

\* Fractions with a positive denominator.
Le(x, y)   == x.num * y.den <= y.num * x.den
Frac(n, d) == [num |-> n, den |-> d]

-----------------------------------------------------------------------------
(* What one paisa sent is expected to cost if it settles, over Unit^2. *)
LiabilityPerPaise(recovery, policy) ==
  (Unit - Clamp(recovery, 0, Unit)) * policy.liabilityShare

Abandonment(action, policy) ==
  CASE action = "APPROVE" -> 0
    [] action = "STEP_UP" -> policy.stepUpAbandonmentRate
    [] action = "BLOCK"   -> policy.blockAbandonmentRate

(* A slip the checks must notice: holding and blocking are exchanged. *)
LiabilitySwapped(action, inputs, policy) ==
  LET settles == CASE action = "APPROVE" -> Unit
                   [] action = "BLOCK"   -> Unit - policy.stepUpCatchRate
                   [] action = "STEP_UP" -> 0
  IN  Clamp(inputs.fraudProbability, 0, Unit) * settles * inputs.amountPaise
        * LiabilityPerPaise(inputs.recovery, policy)

Liability(action, inputs, policy) ==
  LET settles == CASE action = "APPROVE" -> Unit
                   [] action = "STEP_UP" -> Unit - policy.stepUpCatchRate
                   [] action = "BLOCK"   -> 0
  IN  Clamp(inputs.fraudProbability, 0, Unit) * settles * inputs.amountPaise
        * LiabilityPerPaise(inputs.recovery, policy)

(* Another: the customers lost are counted among the fraudsters. *)
FrictionOnFraud(action, inputs, policy) ==
  LET price == CASE action = "APPROVE" -> 0
                 [] action = "STEP_UP" -> policy.stepUpFrictionPaise
                 [] action = "BLOCK"   -> policy.blockFrictionPaise
  IN  price * Whole
        + inputs.fraudProbability * Abandonment(action, policy)
            * policy.customerLifetimeValuePaise * Unit * Unit

Friction(action, inputs, policy) ==
  LET legit == Unit - Clamp(inputs.fraudProbability, 0, Unit)
      price == CASE action = "APPROVE" -> 0
                 [] action = "STEP_UP" -> policy.stepUpFrictionPaise
                 [] action = "BLOCK"   -> policy.blockFrictionPaise
  IN  price * Whole
        + legit * Abandonment(action, policy) * policy.customerLifetimeValuePaise * Unit * Unit

CostOfAction(action, inputs, policy) ==
  Liability(action, inputs, policy) + Friction(action, inputs, policy)

Severity(a) == CHOOSE i \in DOMAIN Actions : Actions[i] = a

(* The first of the actions by exact cost; the sort is stable, so the      *)
(* milder one of a tie comes first.                                        *)
Cheapest(actions, cost) ==
  CHOOSE a \in actions : \A b \in actions :
    cost[a] < cost[b] \/ (cost[a] = cost[b] /\ Severity(a) <= Severity(b))

(* The margin is what the runner-up costs more. *)
Decide(inputs, policy) ==
  LET cost     == [a \in ToSet(Actions) |-> CostOfAction(a, inputs, policy)]
      chosen   == Cheapest(DOMAIN cost, cost)
      runnerUp == Cheapest(DOMAIN cost \ {chosen}, cost)
  IN  [chosen |-> chosen, margin |-> RoundTo(cost[runnerUp] - cost[chosen], Whole)]

-----------------------------------------------------------------------------
(* The boundaries in closed form, as fractions of one. *)
ClampFrac(n, d) ==
  IF d <= 0 THEN Frac(1, 1)
  ELSE IF n < 0 THEN Frac(0, 1)
  ELSE IF n > d THEN Frac(1, 1) ELSE Frac(n, d)

ApproveToStepUp(exposure, policy) ==
  LET abandon == policy.stepUpAbandonmentRate * policy.customerLifetimeValuePaise * Unit * Unit
  IN  ClampFrac(policy.stepUpFrictionPaise * Unit * Unit * Unit + abandon,
                exposure * Clamp(policy.stepUpCatchRate, 0, Unit) + abandon)

(* Another: the friction a hold saves is not taken off the block's. *)
StepUpToBlockWhole(exposure, policy) ==
  LET gap == (policy.blockAbandonmentRate - policy.stepUpAbandonmentRate)
               * policy.customerLifetimeValuePaise * Unit * Unit
  IN  ClampFrac(policy.blockFrictionPaise * Unit * Unit * Unit + gap,
                exposure * (Unit - Clamp(policy.stepUpCatchRate, 0, Unit)) + gap)

StepUpToBlock(exposure, policy) ==
  LET gap == (policy.blockAbandonmentRate - policy.stepUpAbandonmentRate)
               * policy.customerLifetimeValuePaise * Unit * Unit
  IN  ClampFrac((policy.blockFrictionPaise - policy.stepUpFrictionPaise) * Unit * Unit * Unit + gap,
                exposure * (Unit - Clamp(policy.stepUpCatchRate, 0, Unit)) + gap)

Thresholds(amountPaise, recovery, policy) ==
  LET exposure == amountPaise * LiabilityPerPaise(recovery, policy)
      a1       == ApproveToStepUp(exposure, policy)
      a2       == StepUpToBlock(exposure, policy)
  IN  [approveToStepUp |-> a1,
       stepUpToBlock   |-> IF Le(a1, a2) THEN a2 ELSE a1,
       stepUpDominated |-> Le(a2, a1)]

(* Another: a hold is credited with what a block would have stopped. *)
LiabilityAvoidedInFull(amountPaise, recovery, policy, action) ==
  RoundTo(amountPaise * LiabilityPerPaise(recovery, policy)
            * (IF action = "APPROVE" THEN 0 ELSE Unit), Unit * Unit * Unit)

(* What intervening saves, in whole paise. *)
LiabilityAvoided(amountPaise, recovery, policy, action) ==
  LET effectiveness == CASE action = "APPROVE" -> 0
                         [] action = "STEP_UP" -> policy.stepUpCatchRate
                         [] action = "BLOCK"   -> Unit
  IN  RoundTo(amountPaise * LiabilityPerPaise(recovery, policy) * effectiveness,
              Unit * Unit * Unit)

=============================================================================
