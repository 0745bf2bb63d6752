------------------------------ MODULE Campaign ------------------------------
(***************************************************************************)
(* The countermeasure evaluation: attacks on the engine as it would stand  *)
(* after a corpus, walked under competing defences held to one rate of     *)
(* interruption (packages/sim/src/adversary.ts, defences.ts and            *)
(* scripts/adversarial.ts).  Statistics are in tenths, times half-hours,   *)
(* in which the minutes an attacker lets pass are none.  A model is        *)
(* [signals, rho, cappedGroups, negativeFloor, prior, calibration], a      *)
(* signal [id, group, edges, weight, llrByBin].                            *)
(***************************************************************************)
EXTENDS Profiles, TLC

CONSTANTS Groups, RhoUnit, RhoCeiling, NaN, FireLlr,  \* see Fusion
          Unit,                                       \* see CostModel
          StructuredBelow, Ordinary, Probes,          \* amounts: the threshold, a small one, the probes
          HighCandidates, NewCandidates               \* the amounts tried for the tuned rule

F == INSTANCE Fusion
D == INSTANCE CostModel

NoAblation == [disabled |-> {}, naive |-> FALSE, uncapped |-> FALSE]

\* ATTACKS, each with what is taken from the system to measure its countermeasure.
Attacks ==
  [structuring        |-> [NoAblation EXCEPT !.disabled = {"STRUCTURING"}],
   baseline_building  |-> [NoAblation EXCEPT !.naive = TRUE],
   delayed_extraction |-> [NoAblation EXCEPT !.disabled = {"PAYEE_FAN_IN"}],
   context_hygiene    |-> [NoAblation EXCEPT !.uncapped = TRUE],
   threshold_probing  |-> [NoAblation EXCEPT !.disabled = {"VELOCITY_BURST", "STRUCTURING"}],
   mule_rotation      |-> [NoAblation EXCEPT !.disabled = {"MULE_PROXIMITY"}]]

-----------------------------------------------------------------------------
(* Attacks.  A plan is [attack, start, victim, mule, target, gap, priming]. *)
Coached ==
  [activeCall |-> TRUE, callSeconds |-> 900, screenShareActive |-> FALSE,
   remoteAccessAppRunning |-> FALSE, appSwitches |-> 3, secondsToAuthorize |-> 40,
   enteredBy |-> "pasted", simChangedRecently |-> FALSE, deviceBoundAt |-> -200 * Day]
Quiet    == [Coached EXCEPT !.activeCall = FALSE, !.callSeconds = 0, !.appSwitches = 1,
                            !.secondsToAuthorize = 45, !.enteredBy = "contact"]
Scrubbed == [Quiet EXCEPT !.secondsToAuthorize = 120]
Probing  == [Quiet EXCEPT !.secondsToAuthorize = 40, !.enteredBy = "typed"]

BaseTransaction(plan, ts, amount, addedAt, session) ==
  [ts |-> ts, payer |-> plan.victim, payee |-> plan.mule.id, amount |-> amount,
   addedAt |-> addedAt, device |-> plan.victim, session |-> session]

\* Split beneath the threshold, the victim longer on the line every time.
Structured(plan) ==
  LET slice == StructuredBelow - 1
      parts == Max({2, (plan.target + slice - 1) \div slice})
  IN  [i \in 1..parts |->
         BaseTransaction(plan, plan.start + (i - 1) * plan.gap, slice, plan.start,
                         [Coached EXCEPT !.callSeconds = 900 + (i - 1) * 300])]

Extraction(plan, ts, addedAt) == BaseTransaction(plan, ts, plan.target, addedAt, Coached)

\* Ordinary payments over some days, the last but one of them large.
BaselineBuilt(plan) ==
  Append([i \in 1..plan.priming |->
            BaseTransaction(plan, plan.start - 9 * Day + (i - 1) * plan.gap,
                            IF i = plan.priming - 1 THEN (3 * plan.target) \div 4 ELSE Ordinary,
                            plan.start - 10 * Day, Quiet)],
         Extraction(plan, plan.start, plan.start - 10 * Day))

Probed(plan) ==
  Append([i \in DOMAIN Probes |->
            BaseTransaction(plan, plan.start + (i - 1) * plan.gap, Probes[i], plan.start, Probing)],
         Extraction(plan, plan.start + Len(Probes) * plan.gap, plan.start))

BuildEpisode(plan) ==
  CASE plan.attack = "structuring"        -> Structured(plan)
    [] plan.attack = "baseline_building"  -> BaselineBuilt(plan)
    [] plan.attack = "threshold_probing"  -> Probed(plan)
    [] plan.attack = "delayed_extraction" -> << Extraction(plan, plan.start, plan.start - plan.gap) >>
    [] plan.attack = "mule_rotation"      -> << Extraction(plan, plan.start, plan.start) >>
    [] plan.attack = "context_hygiene"    ->
         << BaseTransaction(plan, plan.start, plan.target, plan.start - 3 * Day, Scrubbed) >>

-----------------------------------------------------------------------------
(* Scoring. *)
RatioSignals == {"AMOUNT_DEVIATION", "TEMPORAL_ANOMALY", "VELOCITY_BURST", "DRAIN_RATIO"}
Measured(id, raw) == IF id \in RatioSignals THEN (10 * raw[1]) \div raw[2] ELSE raw

\* The payment as the model's signals measure it.
Evidence(txn, ctx, model) ==
  LET raws == Extract(txn, ctx)
  IN  [i \in DOMAIN model.signals |->
         LET s == model.signals[i]
         IN  [group |-> s.group, edges |-> s.edges, weight |-> s.weight, llrByBin |-> s.llrByBin,
              raw |-> Measured(s.id, raws[s.id])]]

(* A slip the checks must notice: nothing ablated, the floor goes as well. *)
AblateUncapped(model, ablation) ==
  [model EXCEPT !.cappedGroups = << >>,
                !.signals = [i \in DOMAIN @ |->
     IF @[i].id \in ablation.disabled
     THEN [@[i] EXCEPT !.weight = 0, !.llrByBin = [b \in DOMAIN @ |-> 0]] ELSE @[i]]]

AblateModel(model, ablation) ==
  [model EXCEPT !.cappedGroups = IF ablation.uncapped THEN << >> ELSE @,
                !.signals = [i \in DOMAIN @ |->
     IF @[i].id \in ablation.disabled
     THEN [@[i] EXCEPT !.weight = 0, !.llrByBin = [b \in DOMAIN @ |-> 0]] ELSE @[i]]]

\* The bin of a z-score over the mean and the standard deviation, which is at
\* least 0.35; z >= e is compared as signed squares, over n^2 (n - 1) / 400.
NaiveAmountBin(edges, txn, payer) ==
  LET logs     == payer.logAmounts
      n        == Len(logs)
      distance == n * LogOf[txn.amount] - Total(logs)
      spread   == n * Total([i \in DOMAIN logs |-> logs[i] * logs[i]]) - Total(logs) * Total(logs)
      Signed(x) == IF x < 0 THEN -(x * x) ELSE x * x
      Reaches(e) == 400 * (n - 1) * Signed(10 * distance)
                      >= Signed(e) * Max({400 * n * spread, 49 * n * n * (n - 1)})
  IN  IF n < 2 THEN F!ToBin(edges, 0) ELSE Cardinality({i \in DOMAIN edges : Reaches(edges[i])})

\* The evidence of the amount, measured against a baseline an attacker moves.
Repointed(results, txn, ctx, model, k) ==
  [i \in DOMAIN results |->
     LET s == model.signals[i]
     IN  IF s.id # "AMOUNT_DEVIATION" THEN results[i]
         ELSE LET llr == s.llrByBin[NaiveAmountBin(s.edges, txn, ctx.payer) + 1]
                  f   == F!GroupShrinkageFactor(model.rho[s.group], k[s.group])
              IN  [results[i] EXCEPT !.contribution = F!Q(llr * s.weight * f.num, f.den)]]

\* The contributing signals of each group, which set its shrinkage.
Contributing(evidence) ==
  [g \in Groups |-> Len(SelectSeq(evidence, LAMBDA s :
     s.group = g /\ s.weight * s.llrByBin[F!ToBin(s.edges, s.raw) + 1] # 0))]

\* A probability in units, rounded down.
Whole(q) == q.num \div q.den

Action(txn, p, policy, recovery) ==
  D!Decide([amountPaise |-> txn.amount, fraudProbability |-> p, recovery |-> recovery], policy).chosen

Fused(results, model) == Whole(F!Fuse(results, model).calibratedP)

Rescored(txn, ctx, model, naive, evidence, results) ==
  Fused(IF naive THEN Repointed(results, txn, ctx, model, Contributing(evidence)) ELSE results, model)

ScoredWith(txn, ctx, model, naive, evidence) ==
  Rescored(txn, ctx, model, naive, evidence, F!EvaluateSignals(evidence, model))

ScoreAblated(txn, ctx, effective, naive, policy, recovery) ==
  Action(txn, ScoredWith(txn, ctx, effective, naive, Evidence(txn, ctx, effective)), policy, recovery)

ScoreUnder(txn, ctx, model, policy, recovery, ablation) ==
  ScoreAblated(txn, ctx, AblateModel(model, ablation), ablation.naive, policy, recovery)

-----------------------------------------------------------------------------
(* Defences, with params [high, newPayee, noveltyHours, threshold]. *)
Probability(txn, ctx, model) ==
  Fused(F!EvaluateSignals(Evidence(txn, ctx, model), model), model)

RuleIntervenes(txn, ctx, params) ==
  \/ txn.amount >= params.high
  \/ PayeeNovelty(txn, ctx) < params.noveltyHours * Hour /\ txn.amount >= params.newPayee

Defences == {"rule_baseline", "fixed_threshold", "expected_cost"}

Intervenes(id, txn, ctx, model, policy, recovery, params) ==
  IF id = "rule_baseline" THEN RuleIntervenes(txn, ctx, params)
  ELSE \E p \in {Probability(txn, ctx, model)} :
         IF id = "fixed_threshold" THEN p >= params.threshold
         ELSE Action(txn, p, policy, recovery) # "APPROVE"

Hits(samples, Test(_, _)) == Len(SelectSeq(samples, LAMBDA s : Test(s.txn, s.ctx)))

\* The score that as many legitimate payments reach as the engine stops.
Quantile(scores, flagged) ==
  IF scores = << >> THEN Unit \div 2
  ELSE SortSeq(scores, <)[Min({Len(scores), Len(scores) - flagged + 1})]

\* Both defences are tuned to the legitimate payments the engine interrupts;
\* of the rules that come as close the first one tried is taken.
Tuned(samples, scores, flagged) ==
  LET Rule(high, new) == [high |-> high, newPayee |-> new, noveltyHours |-> 24, threshold |-> Unit]
      Gap(rule)   == Distance(Hits(samples, LAMBDA txn, ctx : RuleIntervenes(txn, ctx, rule)), flagged)
      rules == FlattenSeq([h \in DOMAIN HighCandidates |->
                 LET new == SelectSeq(NewCandidates, LAMBDA n : n <= HighCandidates[h])
                 IN  [n \in DOMAIN new |-> Rule(HighCandidates[h], new[n])]])
      best  == FoldLeft(LAMBDA b, r : IF Gap(r) < Gap(b) THEN r ELSE b, Head(rules), rules)
  IN  [params |-> [best EXCEPT !.threshold = Quantile(scores, flagged)], flagged |-> flagged]

CalibrateDefences(samples, model, policy, recovery) ==
  Tuned(samples,
        [i \in DOMAIN samples |-> Probability(samples[i].txn, samples[i].ctx, model)],
        Hits(samples, LAMBDA txn, ctx :
               Intervenes("expected_cost", txn, ctx, model, policy, recovery, << >>)))

MeasureFpr(id, samples, model, policy, recovery, params) ==
  Hits(samples, LAMBDA txn, ctx : Intervenes(id, txn, ctx, model, policy, recovery, params))

-----------------------------------------------------------------------------
(* The corpus before the attack, and the walk of an episode. *)

\* Each legitimate payment with its context as it stood, and the store at the
\* end; a beneficiary in attributes is known by more than its payments.
CollectContexts(corpus, attributes) ==
  FoldLeft(LAMBDA walk, txn :
             LET ready  == EnsurePayee(EnsurePayer(walk.store, txn.payer, txn.ts), txn.payee, txn.ts)
                 stored == RefreshPayeeWindow(ready.payees[txn.payee], txn.ts)
                 given  == At(attributes, txn.payee, stored)
                 payee  == [stored EXCEPT !.firstSeen = given.firstSeen, !.velocity = given.velocity]
                 ctx    == [payer |-> ready.payers[txn.payer], payee |-> payee,
                            recent |-> RecentPayerTxns(ready, txn.payer, txn.ts - Day),
                            activeHolds |-> {}, now |-> txn.ts]
             IN  [store   |-> Learn(ready, ctx.payer, payee, txn),
                  samples |-> walk.samples
                                \o IF txn.isFraud THEN << >> ELSE << [txn |-> txn, ctx |-> ctx] >>],
           [store |-> EmptyStore, samples |-> << >>], corpus)

\* The payers with a history long enough to be attacked.
Eligible(store, history) == {p \in DOMAIN store.payers : store.payers[p].txnCount >= history}

\* What a collection account receives in the day before the attack: its last
\* payments of fraud, spread over the day.
LiveFanIn(corpus) ==
  LET frauds(m) == SelectSeq(corpus, LAMBDA t : t.isFraud /\ t.payee = m)
      Used      == {t.payee : t \in {u \in Range(corpus) : u.isFraud}}
      Spread(xs) == [i \in DOMAIN xs |-> [payer |-> xs[i].payer, amount |-> xs[i].amount,
                                          offset |-> i * (Day \div 16)]]
  IN  [m \in Used |-> Spread(SubSeq(Reverse(frauds(m)), 1, Min({12, Len(frauds(m))})))]

AttackedPayee(store, plan, live, now) ==
  LET base   == IF plan.mule.id \in DOMAIN store.payees THEN store.payees[plan.mule.id]
                ELSE EmptyPayeeProfile(now)
      window == IF plan.mule.id \in DOMAIN live
                THEN [i \in DOMAIN live[plan.mule.id] |->
                        LET a == live[plan.mule.id][i]
                        IN  [payer |-> a.payer, amount |-> a.amount, ts |-> plan.start - a.offset]]
                ELSE base.window
  IN  [RefreshPayeeWindow([base EXCEPT !.window = window], now)
         EXCEPT !.firstSeen = plan.mule.firstSeen, !.velocity = plan.mule.velocity]

WalkContext(walk, store, plan, live, txn) ==
  [payer |-> walk.working, payee |-> AttackedPayee(store, plan, live, txn.ts),
   recent |-> SelectSeq(walk.prior, LAMBDA t : t.ts >= txn.ts - Day),
   activeHolds |-> {}, now |-> txn.ts]

Advance(walk, txn) ==
  [walk EXCEPT !.leaked = @ + txn.amount,
               !.working = UpdatePayerProfile(@, txn), !.prior = Append(@, txn)]

\* The defences, and the system with and without this attack's countermeasure.
Systems == Defences \cup {"hardened", "ablated"}
Stops(system, attack, txn, ctx, model, policy, recovery, params) ==
  IF system \in Defences THEN Intervenes(system, txn, ctx, model, policy, recovery, params)
  ELSE ScoreUnder(txn, ctx, model, policy, recovery,
                  IF system = "ablated" THEN Attacks[attack] ELSE NoAblation) # "APPROVE"

\* The first payment that is stopped ends the episode.
RunEpisode(system, store, plan, live, model, policy, recovery, params) ==
  FoldLeft(LAMBDA walk, txn :
             IF walk.caught THEN walk
             ELSE IF Stops(system, plan.attack, txn, WalkContext(walk, store, plan, live, txn),
                           model, policy, recovery, params)
             THEN [walk EXCEPT !.caught = TRUE] ELSE Advance(walk, txn),
           [caught |-> FALSE, leaked |-> 0, working |-> store.payers[plan.victim], prior |-> << >>],
           BuildEpisode(plan))

Walks(store, plan, live, model, policy, recovery, params) ==
  [id \in Systems |-> RunEpisode(id, store, plan, live, model, policy, recovery, params)]

\* What the episodes of one attack come to, under each of the five.
AttackResult(episodes) ==
  [id \in Systems |->
     [caught |-> Len(SelectSeq(episodes, LAMBDA walks : walks[id].caught)),
      leaked |-> Total([e \in DOMAIN episodes |-> episodes[e][id].leaked])]]

\* An attack on the system: a plan is against a victim with a history and uses
\* a collection account of the corpus or, when accounts are rotated, one never
\* used; with no such victim there are no episodes.
RunAttack(store, plans, live, model, policy, recovery, params) ==
  [e \in DOMAIN plans |-> Walks(store, plans[e], live, model, policy, recovery, params)]
=============================================================================
