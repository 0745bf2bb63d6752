--------------------------- MODULE DecisionSpace ---------------------------
(***************************************************************************)
(* The computations behind a decision, over the inputs they can meet.  A   *)
(* state is one case of one computation; a step moves the case the way the *)
(* world can (a warning sign goes up, a payment is riskier or larger, the  *)
(* friction is priced higher, a minute passes, a record of the trail is    *)
(* altered), so that action properties compare neighbouring inputs.        *)
(***************************************************************************)
EXTENDS HoldProtocol, TLC

CONSTANTS Unit, Multipliers, NoCap,                  \* see PolicySolver
          Groups, RhoUnit, RhoCeiling, FireLlr, NaN, \* see Fusion
          Tick, GridMax,                             \* see Recovery
          None,                                      \* see Ledger
          Monitored, HoldWindow, AttemptBudget, NamedPayeeFloor  \* see Scenarios

CONSTANTS Prices,      \* policies of the studio's sliders
          Amounts,     \* rising
          Portfolios,  \* scored samples
          BasePolicies,\* policies a portfolio is solved under
          Ceilings,    \* pairs of rate ceilings
          Evidence,    \* the signals of a payment
          Models,      \* fitted models
          PathSets,    \* sets of simulated paths, as sequences
          Weights,     \* traceability by layer, falling with depth
          Latencies,   \* freeze latencies, in ticks
          Trails       \* entries with their times, to seal in order

Rates    == 0..Unit
Policies ==
  [liabilityShare : Rates, stepUpCatchRate : Rates,
   stepUpAbandonmentRate : Rates, blockAbandonmentRate : Rates,
   stepUpFrictionPaise : Nat, blockFrictionPaise : Nat, customerLifetimeValuePaise : Nat,
   maxStepUpRate : Rates \cup {NoCap}, maxFalsePositiveRate : Rates \cup {NoCap}]
Samples  == [amountPaise : Nat, fraudProbability : Rates, recovery : Rates, isFraud : BOOLEAN]
Rising(q) == \A i, j \in DOMAIN q : i <= j => q[i] <= q[j]

ASSUME DecisionAssumption ==
  /\ Unit \in Nat \ {0}
  /\ Amounts \in Seq(Nat) \ {<< >>} /\ Rising(Amounts)
  /\ Multipliers \in Seq(Nat) \ {<< >>} /\ Rising(Multipliers) /\ Multipliers[1] = 2
  /\ Prices \cup BasePolicies \subseteq Policies
  /\ Portfolios \subseteq Seq(Samples)
  /\ \A caps \in Ceilings : caps[1] \in Rates \cup {NoCap} /\ caps[2] \in Rates \cup {NoCap}
  /\ \A trail \in Trails : Len(trail) \in Nat

INSTANCE PolicySolver
F == INSTANCE Fusion
R == INSTANCE Recovery
L == INSTANCE Ledger
S == INSTANCE Scenarios WITH Null <- None

VARIABLE case

-----------------------------------------------------------------------------
(* The kinds of case, and where each starts. *)
Seal(trail) ==
  LET sealed[n \in 0..Len(trail)] ==
        IF n = 0 THEN << >> ELSE L!AppendEntry(sealed[n - 1], trail[n].entry, trail[n].ts)
  IN  sealed[Len(trail)]

StartChallenge == case = [kind |-> "challenge", context |-> ContextWith({})]
StartPayment ==
  \E policy \in Prices, recovery \in 0..Unit :
    case = [kind |-> "payment", policy |-> policy, size |-> 1,
            inputs |-> [amountPaise |-> Amounts[1], fraudProbability |-> 0, recovery |-> recovery]]
StartPortfolio ==
  \E samples \in Portfolios, policy \in BasePolicies, caps \in Ceilings :
    case = [kind |-> "portfolio", samples |-> samples, price |-> 1,
            policy |-> [policy EXCEPT !.maxStepUpRate = caps[1],
                                      !.maxFalsePositiveRate = caps[2]]]
StartEvidence ==
  \E signals \in Evidence, model \in Models :
    case = [kind |-> "evidence", signals |-> signals, model |-> model]
StartChains ==
  \E paths \in PathSets, weight \in Weights, latency \in Latencies :
    case = [kind |-> "chains", paths |-> paths, weight |-> weight, latency |-> latency, at |-> 0]
StartTrail ==
  \E trail \in Trails :
    case = [kind |-> "trail", published |-> Seal(trail), copy |-> L!FromJsonl(Seal(trail)), edits |-> 0]

StartEpisode ==
  \E s \in S!SCENARIOS :
    case = [kind |-> "episode",
            episode |-> S!Started(s, [payerId |-> "victim", payeeId |-> "known"], 0)]

Init == \/ StartChallenge \/ StartPayment \/ StartPortfolio
        \/ StartEvidence \/ StartChains \/ StartTrail \/ StartEpisode

-----------------------------------------------------------------------------
(* The steps. *)
RaiseFlag(f) ==
  /\ case.kind = "challenge" /\ ~case.context[f]
  /\ case' = [case EXCEPT !.context[f] = TRUE]

RaiseRisk ==
  /\ case.kind = "payment" /\ case.inputs.fraudProbability < Unit
  /\ case' = [case EXCEPT !.inputs.fraudProbability = @ + 1]

RaiseAmount ==
  /\ case.kind = "payment" /\ case.size < Len(Amounts)
  /\ case' = [case EXCEPT !.size = @ + 1, !.inputs.amountPaise = Amounts[case.size + 1]]

PriceFriction ==
  /\ case.kind = "portfolio" /\ case.price < Len(Multipliers)
  /\ case' = [case EXCEPT !.price = @ + 1]

(* One signal of the payment measures higher. *)
RaiseSignal ==
  /\ case.kind = "evidence"
  /\ \E i \in DOMAIN case.signals :
       /\ case.signals[i].raw # NaN
       /\ case.signals[i].raw <= Last(case.signals[i].edges)
       /\ case' = [case EXCEPT !.signals[i].raw = @ + 1]

Wait ==
  /\ case.kind = "chains" /\ case.at < GridMax * Tick + 1
  /\ case' = [case EXCEPT !.at = @ + 1]

(* Somebody edits the exported copy: a record is dropped, two change       *)
(* places, a field is overwritten, and perhaps the record is sealed anew.  *)
Edited(copy, i) ==
  {RemoveAt(copy, i)}
    \cup {[copy EXCEPT ![i] = copy[j], ![j] = copy[i]] : j \in DOMAIN copy \ {i}}
    \cup {[copy EXCEPT ![i].seq = @ + 1]}
    \cup {[copy EXCEPT ![i].ts = @ + 1]}
    \cup {[copy EXCEPT ![i].entry = copy[j].entry] : j \in DOMAIN copy}
    \cup {[copy EXCEPT ![i].prevHash = L!GenesisHash]}
    \cup {[copy EXCEPT ![i].hash = L!Digest(copy[i].seq, copy[i].ts, copy[i].prevHash, copy[i].entry)]}

Alter ==
  /\ case.kind = "trail" /\ case.edits < 2
  /\ \E i \in DOMAIN case.copy : \E copy \in Edited(case.copy, i) :
       case' = [case EXCEPT !.copy = copy, !.edits = @ + 1]

PlayPayment ==
  /\ case.kind = "episode" /\ case.episode.at < Len(case.episode.payments)
  /\ \E stepUp \in BOOLEAN : case' = [case EXCEPT !.episode = S!Played(@, stepUp)]

Next == \/ \E f \in ContextFlags : RaiseFlag(f)
        \/ RaiseRisk \/ RaiseAmount \/ PriceFriction
        \/ RaiseSignal \/ Wait \/ Alter \/ PlayPayment

vars == << case >>
Spec == Init /\ [][Next]_vars

-----------------------------------------------------------------------------
(* hold.ts orders the factors "by independence from whatever is currently  *)
(* influencing the payer", the least independent being the in-app code.    *)
Independence(t) ==
  CASE t = "IN_APP_OTP"                 -> 0
    [] t = "NAMED_PAYEE_CONFIRMATION"   -> 1
    [] t = "BANK_INITIATED_CALLBACK"    -> 2
    [] t = "DELAYED_BIOMETRIC"          -> 3
    [] t = "COOLING_PERIOD_SELF_CANCEL" -> 4

(* A factor ruled out for the context, and recorded as ruled out, is never *)
(* the one issued; and while somebody is on the line or on the screen, the *)
(* payer is given a factor that waits until they are gone.                 *)
CoercionIsWaitedOut ==
  case.kind = "challenge" =>
    LET chosen == SelectChallenge(case.context)
    IN  /\ chosen \notin Disqualified(case.context)
        /\ Coerced(case.context) =>
             chosen \in {"DELAYED_BIOMETRIC", "COOLING_PERIOD_SELF_CANCEL"}

(* One more warning sign never earns the payer a less independent factor,  *)
(* whatever the signs already raised: the order of the early returns.      *)
MoreSignsNeverRelax ==
  (\E f \in ContextFlags : RaiseFlag(f)) =>
     /\ Independence(SelectChallenge(case'.context)) >= Independence(SelectChallenge(case.context))
     /\ CoercionIsWaitedOut'

-----------------------------------------------------------------------------
(* A payment. *)
Decided == Decide(case.inputs, case.policy).chosen

(* The sliders are independent, so a hold may be priced above a block; in  *)
(* the presets it never is.                                                *)
PricesInOrder(policy) ==
  /\ policy.stepUpFrictionPaise   <= policy.blockFrictionPaise
  /\ policy.stepUpAbandonmentRate <= policy.blockAbandonmentRate

(* More money at the same risk never softens the action (cost.test.ts: the *)
(* same risk on more money never de-escalates), whatever the prices.       *)
MoreMoneyNeverRelaxes == RaiseAmount => Severity(Decided') >= Severity(Decided)

(* More risk never softens the action, unless a hold loses more legitimate *)
(* customers than a block: then blocking is what the abandonment rewards.  *)
MoreRiskNeverRelaxes ==
  RaiseRisk /\ case.policy.stepUpAbandonmentRate <= case.policy.blockAbandonmentRate
    => Severity(Decided') >= Severity(Decided)

(* The band the boundaries draw is the band in which the engine holds: two *)
(* computations, the closed form and the comparison of costs.  Outside it  *)
(* the engine does not hold, and inside it does, as long as the prices are *)
(* in order.                                                               *)
HoldBandIsExact ==
  case.kind = "payment" /\ PricesInOrder(case.policy) =>
    LET t == Thresholds(case.inputs.amountPaise, case.inputs.recovery, case.policy)
        p == Frac(case.inputs.fraudProbability, Unit)
    IN  /\ Decided = "STEP_UP" =>
             ~t.stepUpDominated /\ Le(t.approveToStepUp, p) /\ Le(p, t.stepUpToBlock)
        /\ ~Le(p, t.approveToStepUp) /\ ~Le(t.stepUpToBlock, p) => Decided = "STEP_UP"

-----------------------------------------------------------------------------
(* A portfolio. *)
Solution == SolveForConstraints(case.samples, case.policy)

(* The solver says a ceiling is met exactly when the policy it returns     *)
(* meets it, and when it gives up no price it could have set does.         *)
SolutionMeetsTheCeiling ==
  case.kind = "portfolio" =>
    LET rates == EvaluatePolicy(case.samples, Solution.policy)
        cap   == case.policy
        Meets(r) == /\ cap.maxStepUpRate # NoCap =>
                         (r.stepUp + r.block) * Unit <= cap.maxStepUpRate * r.screened
                    /\ cap.maxFalsePositiveRate # NoCap =>
                         r.legitIntervened * Unit <= cap.maxFalsePositiveRate * r.legit
    IN  /\ Solution.satisfied <=> Meets(rates)
        /\ ~Solution.satisfied =>
             \A m \in Range(Multipliers) : ~Meets(EvaluatePolicy(case.samples, WithMultiplier(cap, m)))

(* No lower price would have met it: tightening further than the ceiling   *)
(* asks for "would spend liability for nothing".                           *)
SolutionIsTheLowestPrice ==
  case.kind = "portfolio" /\ Solution.satisfied =>
    LET priced == WithMultiplier(case.policy, Multipliers[case.price])
    IN  priced.stepUpFrictionPaise < Solution.policy.stepUpFrictionPaise =>
          Violates(EvaluatePolicy(case.samples, priced), case.policy)

(* Dearer friction never interrupts more, in any of the counts: what the   *)
(* bisection relies on, and the shape of the frontier.                     *)
DearerNeverInterruptsMore ==
  PriceFriction =>
    LET At(i) == EvaluatePolicy(case.samples, WithMultiplier(case.policy, Multipliers[i]))
        now   == At(case.price)
        next  == At(case'.price)
    IN  /\ next.stepUp + next.block <= now.stepUp + now.block
        /\ next.legitIntervened <= now.legitIntervened
        /\ next.fraudIntervened <= now.fraudIntervened

(* The frontier's liability is the portfolio's: summed over the frauds, it *)
(* is what liabilityAvoided reports for each of them, up to its rounding.  *)
FrontierAgreesWithThePayments ==
  case.kind = "portfolio" =>
    LET price   == << Multipliers[case.price] >>
        policy  == WithMultiplier(case.policy, price[1])
        point   == TradeOffFrontier(case.samples, case.policy, price)[1]
        Reported(s) == IF ~s.isFraud THEN 0
                       ELSE LiabilityAvoided(s.amountPaise, s.recovery, policy, Chosen(s, policy))
        reported == Total([i \in DOMAIN case.samples |-> Reported(case.samples[i])])
        gap == 2 * (point.avoided - reported * Unit * Unit * Unit)
        most == Len(case.samples) * Unit * Unit * Unit
    IN  gap <= most /\ -gap <= most

(* The solver keeps a ceiling at the least liability spent on it, and what *)
(* it counts is what is decided and reported payment by payment.           *)
PolicyIsSolved == SolutionMeetsTheCeiling /\ SolutionIsTheLowestPrice /\ FrontierAgreesWithThePayments

-----------------------------------------------------------------------------
(* The evidence on a payment. *)
Results == F!EvaluateSignals(case.signals, case.model)
Before  == F!Shrunk(case.signals, case.model)

(* What an attacker controls takes no more off the score than the floor,   *)
(* to the digit, whatever it was discounted by before; evidence against    *)
(* the payment is not touched, nothing changes sign, and the other groups  *)
(* stay as they were.                                                      *)
QuietGroupsHaveAFloor ==
  case.kind = "evidence" =>
    LET floor == F!Q(case.model.negativeFloor, 1)
    IN  /\ \A g \in Groups :
             IF g \in Range(case.model.cappedGroups) /\ F!QLess(F!Total(Before, g), floor)
             THEN F!QEq(F!Total(Results, g), floor)
             ELSE F!QEq(F!Total(Results, g), F!Total(Before, g))
        /\ \A i \in DOMAIN Results :
             LET q == Results[i].contribution
                 b == Before[i].contribution
             IN  IF b.num >= 0 THEN q = b ELSE ~F!QLess(q, b) /\ q.num <= 0

(* Correlated signals are discounted and never dropped: a group counts for *)
(* at most the sum of its evidence and at least the average of it.         *)
CorrelationDiscounts ==
  case.kind = "evidence" =>
    \A g \in Groups :
      LET mine == SelectSeq(case.signals, LAMBDA s : s.group = g)
          Llr(s) == s.weight * s.llrByBin[F!ToBin(s.edges, s.raw) + 1]
          raw  == FoldLeft(LAMBDA sum, s : sum + Llr(s), 0, mine)
          size == Len(SelectSeq(mine, LAMBDA s : Llr(s) # 0))
          Abs(q) == IF q.num < 0 THEN F!Q(-q.num, q.den) ELSE q
          total == Abs(F!Total(Before, g))
      IN  /\ ~F!QLess(Abs(F!Q(raw, 1)), total)
          /\ size > 0 => ~F!QLess(total, Abs(F!Q(raw, size)))

(* Calibration keeps the ranking of the scores (fusion.ts: "preserving the *)
(* ordering"), and the score is the prior and its groups.                  *)
Fused(c) == F!Fuse(F!EvaluateSignals(c.signals, c.model), c.model)
CalibrationKeepsTheOrder ==
  RaiseSignal =>
    LET Ordered(a, b) == F!QLess(a.fusedLogOdds, b.fusedLogOdds)
                           => ~F!QLess(b.calibratedP, a.calibratedP)
    IN  \A a \in {Fused(case)}, b \in {Fused(case')} : Ordered(a, b) /\ Ordered(b, a)

ScoreIsItsGroups ==
  case.kind = "evidence" =>
    LET groups == F!ContributionsByGroup(Results)
        sum    == FoldFunction(F!QAdd, F!Q(case.model.prior, 1), groups)
    IN  /\ F!VerifyAdditivity(Results, case.model.prior, Fused(case).fusedLogOdds)
        /\ F!QEq(sum, Fused(case).fusedLogOdds)

(* The score is the evidence, discounted for what is told twice and floored*)
(* where an attacker could write it.                                       *)
FusionIsBounded == QuietGroupsHaveAFloor /\ CorrelationDiscounts /\ ScoreIsItsGroups

-----------------------------------------------------------------------------
(* Money that has gone. *)
Chains == R!SimulateChains(case.paths, case.weight)

(* The prefix sum over the difference array is, minute by minute, the      *)
(* weight of the layers the paths rest in at that minute.                  *)
GridCountsTheResting ==
  case.kind = "chains" =>
    \A m \in 0..GridMax :
      Chains.grid[m] =
        FoldLeft(LAMBDA sum, path :
          sum + FoldLeft(LAMBDA w, i :
                   w + (IF R!Entered(path, i) <= m * Tick /\ m * Tick < R!Left(path, i)
                        THEN case.weight[i] ELSE 0),
                   0, [i \in DOMAIN path |-> i]),
          0, case.paths)

(* The binary search counts the paths still inside the chain, and no more  *)
(* is ever recoverable on the minute than survives.                        *)
SurvivalBoundsRecovery ==
  case.kind = "chains" =>
    /\ R!SurvivalAt(Chains.cashOutTimes, case.at)
         = Len(SelectSeq(case.paths, LAMBDA p : R!CashOut(p) > case.at))
    /\ case.at % Tick = 0 /\ case.at <= GridMax * Tick =>
         R!RecoverableAt(Chains.grid, case.at, 0)
           <= Tick * case.weight[1] * R!SurvivalAt(Chains.cashOutTimes, case.at)

(* Waiting never makes more recoverable, at any freeze latency, between    *)
(* the minutes and past the end of the grid; nor does a slower freeze.     *)
RecoveryFallsWithTime ==
  Wait =>
       LET At(t, late) == R!RecoverableAt(Chains.grid, t, late)
           Back(t) == R!SplitRecoverable(10, At(t, case.latency),
                                         Tick * case.weight[1] * Len(case.paths))
       IN  /\ At(case'.at, case.latency) <= At(case.at, case.latency)
           /\ At(case.at, case.latency) <= At(case.at, 0)
           /\ Back(case'.at).recoverablePaise <= Back(case.at).recoverablePaise
           /\ Back(case.at).lostPaise >= 0

(* The published interval is drawn round the published fraction: the       *)
(* freeze latency is added once on either way to it.                       *)
IntervalIsRoundTheEstimate ==
  case.kind = "chains" =>
    LET e == R!Estimate(Chains.grid, case.at, case.latency, << 0, 1, 2 >>)
    IN  e.centre = e.fractionAtHorizon

(* The generator of the closed form neither makes nor loses probability:   *)
(* every layer passes on what leaves it, and the last only cashes out.     *)
GeneratorConserves ==
  case.kind = "chains" =>
    LET k == Len(case.weight)
        q == R!BuildGenerator([i \in 1..k |-> i], case.weight, 4)
    IN  /\ \A i \in 1..(k + 1) : FoldLeft(+, 0, q[i]) = 0
        /\ \A i, j \in 1..(k + 1) : i # j => q[i][j] >= 0

(* What is said to be recoverable is what rests in the chain.              *)
RecoveryIsCounted ==
  GridCountsTheResting /\ SurvivalBoundsRecovery /\ IntervalIsRoundTheEstimate /\ GeneratorConserves

-----------------------------------------------------------------------------
(* An exported trail. *)

(* A copy that verifies and ends in the published head is the trail: the   *)
(* head "commits to the entire history".  Without the head a trail cut     *)
(* short still verifies.                                                   *)
AlterationIsCaught ==
  /\ case.kind = "trail"
  /\ L!Verify(case.copy).valid
  /\ L!Head_(case.copy) = L!Head_(case.published)
  => case.copy = case.published

-----------------------------------------------------------------------------
(* Two neighbouring cases are treated in the order they come in: more      *)
(* signs, money or risk never earn a milder answer, dearer friction never  *)
(* interrupts more, a higher score never has a lower probability, a later  *)
(* minute never recovers more.                                             *)
NeighboursKeepTheirOrder ==
  [][/\ MoreSignsNeverRelax /\ MoreMoneyNeverRelaxes /\ MoreRiskNeverRelaxes
     /\ DearerNeverInterruptsMore /\ CalibrationKeepsTheOrder /\ RecoveryFallsWithTime]_vars

-----------------------------------------------------------------------------
(* An injected episode. *)

(* The episodes are timed to the protocol they demonstrate: they are over  *)
(* before a hold of theirs lapses, and the payments after a hold use up    *)
(* its budget and no more, so an episode is held at most once.  A split    *)
(* retry held at its first payment ends in review, its challenge names the *)
(* beneficiary; a victim being coached is never challenged in the app, nor *)
(* by a biometric while the screen is watched; and from the second payment *)
(* on, the structuring day crosses a monitored amount (scenarios.ts, the   *)
(* expectations of the scenarios).                                         *)
EpisodesUnfold ==
  case.kind = "episode" =>
    LET e == case.episode
        played == SubSeq(e.payments, 1, e.at)
        HeldBy(t) == \E i \in DOMAIN e.holds : e.holds[i].challenge = t
    IN  /\ Len(e.holds) <= 1
        /\ \A i \in DOMAIN e.holds, j \in DOMAIN played :
             j > e.holds[i].txnId => e.dispositions[j] # "NOT_RELATED"
        /\ e.id = "split_retry" /\ HeldBy("NAMED_PAYEE_CONFIRMATION") /\ e.at = Len(e.payments) =>
             (e.dispositions[e.at] = "ESCALATED" <=> e.holds[1].txnId = 1)
        /\ e.id = "split_retry" => e.holds = << >> \/ HeldBy("NAMED_PAYEE_CONFIRMATION")
        /\ e.id = "digital_arrest" => e.holds = << >> \/ HeldBy("DELAYED_BIOMETRIC")
        /\ e.id = "kyc_remote" => e.holds = << >> \/ HeldBy("COOLING_PERIOD_SELF_CANCEL")
        /\ e.id = "structuring" /\ e.at > 1 =>
             \E m \in Monitored : /\ \A i \in DOMAIN played : played[i].amount < m
                                 /\ FoldLeft(LAMBDA sum, t : sum + t.amount, 0, played) >= m
        /\ e.at > 0 => Last(played).ts <= played[1].ts + HoldWindow
=============================================================================
