--------------------------- MODULE PolicySolver ----------------------------
(***************************************************************************)
(* From an operational intent to a policy (packages/core/src/policy.ts):   *)
(* replaying a scored sample, pricing friction until a rate ceiling is     *)
(* met, and the frontier the studio draws.  A sample is a sequence of      *)
(* [amountPaise, fraudProbability, recovery, isFraud].                     *)
(***************************************************************************)
EXTENDS CostModel

CONSTANTS Multipliers,  \* friction prices the bisection can land on, rising, from 1
          NoCap         \* a ceiling that is not set

Chosen(s, policy)     == Decide(s, policy).chosen
Intervened(s, policy) == Chosen(s, policy) # "APPROVE"

Count(samples, Test(_)) == Cardinality({i \in DOMAIN samples : Test(samples[i])})

Total(terms) ==
  LET sum[n \in 0..Len(terms)] == IF n = 0 THEN 0 ELSE sum[n - 1] + terms[n]
  IN  sum[Len(terms)]

ExpectedCost(samples, policy) ==
  RoundTo(Total([i \in DOMAIN samples |->
                   CostOfAction(Chosen(samples[i], policy), samples[i], policy)]), Whole)

(* The outcome as counts; a rate is a count over its population, 0 if empty. *)
EvaluatePolicy(samples, policy) ==
  LET Legit(s) == ~s.isFraud
      Fraud(s) == s.isFraud
  IN  [screened        |-> Len(samples),
       legit           |-> Count(samples, Legit),
       fraud           |-> Count(samples, Fraud),
       stepUp          |-> Count(samples, LAMBDA s : Chosen(s, policy) = "STEP_UP"),
       block           |-> Count(samples, LAMBDA s : Chosen(s, policy) = "BLOCK"),
       legitIntervened |-> Count(samples, LAMBDA s : Legit(s) /\ Intervened(s, policy)),
       fraudIntervened |-> Count(samples, LAMBDA s : Fraud(s) /\ Intervened(s, policy)),
       cost            |-> ExpectedCost(samples, policy)]

Exceeds(count, population, cap) ==
  population > 0 /\ cap # NoCap /\ count * Unit > cap * population

(* A slip the checks must notice: blocks do not count as interruptions. *)
ViolatesHoldsOnly(rates, policy) ==
  \/ Exceeds(rates.stepUp, rates.screened, policy.maxStepUpRate)
  \/ Exceeds(rates.legitIntervened, rates.legit, policy.maxFalsePositiveRate)

Violates(rates, policy) ==
  \/ Exceeds(rates.stepUp + rates.block, rates.screened, policy.maxStepUpRate)
  \/ Exceeds(rates.legitIntervened, rates.legit, policy.maxFalsePositiveRate)

(* Another: the price is divided. *)
WithDivisor(policy, m) ==
  [policy EXCEPT !.stepUpFrictionPaise = RoundTo(@ * 2, m),
                 !.blockFrictionPaise  = RoundTo(@ * 2, m)]

(* A multiplier is a numerator over 2, so that prices below their estimate *)
(* and rounding both happen.                                               *)
WithMultiplier(policy, m) ==
  [policy EXCEPT !.stepUpFrictionPaise = RoundTo(@ * m, 2),
                 !.blockFrictionPaise  = RoundTo(@ * m, 2)]

PriceViolates(samples, policy, i) ==
  Violates(EvaluatePolicy(samples, WithMultiplier(policy, Multipliers[i])), policy)

(* One step of the bisection: lo violates, hi does not; the middle replaces*)
(* one of them, unless they are neighbours.                                *)
Halved(samples, policy, range) ==
  LET mid == (range.lo + range.hi) \div 2
  IN  IF range.hi - range.lo <= 1 THEN range
      ELSE IF PriceViolates(samples, policy, mid) THEN [range EXCEPT !.lo = mid]
      ELSE [range EXCEPT !.hi = mid]

(* Another: the search settles for its first step. *)
BisectOnce(samples, policy) == Halved(samples, policy, [lo |-> 1, hi |-> Len(Multipliers)]).hi

Bisect(samples, policy) ==
  LET range[n \in 0..Len(Multipliers)] ==
        IF n = 0 THEN [lo |-> 1, hi |-> Len(Multipliers)] ELSE Halved(samples, policy, range[n - 1])
  IN  range[Len(Multipliers)].hi

SolveForConstraints(samples, base) ==
  LET Ends(policy, satisfied) == [policy |-> policy, satisfied |-> satisfied]
      dearest == WithMultiplier(base, Last(Multipliers))
  IN  IF base.maxStepUpRate = NoCap /\ base.maxFalsePositiveRate = NoCap THEN Ends(base, TRUE)
      ELSE IF ~Violates(EvaluatePolicy(samples, base), base) THEN Ends(base, TRUE)
      ELSE IF Violates(EvaluatePolicy(samples, dearest), base) THEN Ends(dearest, FALSE)
      ELSE Ends(WithMultiplier(base, Multipliers[Bisect(samples, base)]), TRUE)

SavedByIntervening(s, policy) ==
  IF ~s.isFraud \/ ~Intervened(s, policy) THEN 0
  ELSE s.amountPaise * (Unit - s.recovery) * policy.liabilityShare
         * (IF Chosen(s, policy) = "BLOCK" THEN Unit ELSE policy.stepUpCatchRate)

(* The frontier: one operating point per multiplier, with the unrounded    *)
(* liability the interventions on real fraud avoid, over Unit^3.           *)
TradeOffFrontier(samples, base, multipliers) ==
  [i \in DOMAIN multipliers |->
     LET policy == WithMultiplier(base, multipliers[i])
         rates  == EvaluatePolicy(samples, policy)
     IN  [intervened      |-> rates.stepUp + rates.block,
          legitIntervened |-> rates.legitIntervened,
          fraudIntervened |-> rates.fraudIntervened,
          avoided         |-> Total([k \in DOMAIN samples |-> SavedByIntervening(samples[k], policy)])]]

=============================================================================
