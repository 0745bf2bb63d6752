------------------------- MODULE MCEvaluationSpace -------------------------
(***************************************************************************)
(* Small instances of EvaluationSpace: scores in halves, two signals of    *)
(* one group and one of another, rates in quarters, two payers and two     *)
(* beneficiaries of PaySim.                                                *)
(***************************************************************************)
EXTENDS EvaluationSpace

SomeScores   == {Q(0, 1), Q(1, 2), Q(1, 1)}
SomeCeilings == << Q(0, 1), Q(1, 4), Q(1, 2) >>

Signal(g, n) == [group |-> g, bins |-> n]
SomeSignals == << Signal("context", 3), Signal("context", 2) >>
SomeGroups  == {"context", "payee_graph", "behavioural", "structuring"}
SomeRowBins == {<< a, b >> : a \in 0..2, b \in 0..1}
SomeWeights == {<< 2, 1 >>}
SomeGrid    == << Q(1, 4), Q(1, 2), Q(3, 4), Q(1, 1), Q(4, 3), Q(2, 1), Q(4, 1) >>
SomeConfig  == [prior |-> -2, cappedGroups |-> << "context" >>, negativeFloor |-> -2]
HalfATenth  == Q(1, 20)

Policy(catch, stepUp, block) ==
  [liabilityShare |-> 3, stepUpCatchRate |-> catch,
   stepUpFrictionPaise |-> stepUp, blockFrictionPaise |-> block,
   stepUpAbandonmentRate |-> 0, blockAbandonmentRate |-> 1, customerLifetimeValuePaise |-> 8,
   maxStepUpRate |-> NoCap, maxFalsePositiveRate |-> NoCap]
SomePolicies == {Policy(3, 1, 5), Policy(2, 1, 2)}
Sample(a, p, f) == [amountPaise |-> a, fraudProbability |-> p, recovery |-> 1,
                    isFraud |-> f # "none", typology |-> f]
SomePayments == {Sample(a, p, f) : a \in {3, 41}, p \in {1, 3}, f \in {"none", "impersonation", "investment"}}
SomeEndings  == {"CHALLENGE_ISSUED", "CONFIRMED_RELEASED", "EXPIRED_BLOCKED"}
NoMultipliers == << 2 >>

Line(s, t, o, d, k, f) ==
  [step |-> s, type |-> t, amount |-> 2, nameOrig |-> o, nameDest |-> d,
   oldDest |-> 1, newDest |-> k, isFraud |-> f]
SomeLines ==
  {Line(s, "TRANSFER", o, d, k, k = 1) : s \in 0..1, o \in {"c1", "c2"}, d \in {"c3", "m1"}, k \in {1, 3}}
    \cup {Line(0, "PAYMENT", "c1", "m1", 0, TRUE), Line(1, "CASH_OUT", "c2", "c3", 2, TRUE)}
InPaise(rupees) == 100 * rupees

SomeThresholds == {40, 100}
SomeLogs   == 2 :> 1 @@ 6 :> 2 @@ 30 :> 3 @@ 39 :> 4 @@ 33 :> 4 @@ 44 :> 4 @@ 45 :> 4 @@ 60 :> 5
SomeProbes == << 2, 6 >>
SomeHigh   == << 6, 39 >>
SomeNew    == << 2, 30 >>
Fitted(id, g, edges, llr) == [id |-> id, group |-> g, edges |-> edges, weight |-> 1, llrByBin |-> llr]
SomeModel ==
  [signals |-> << Fitted("AMOUNT_DEVIATION", "behavioural", << 10, 30 >>, << -1, 1, 3 >>),
                  Fitted("PAYEE_FAN_IN", "payee_graph", << 10 >>, << 0, 3 >>),
                  Fitted("CALL_CONCURRENCY", "context", << 12, 100 >>, << -3, 1, 2 >>),
                  Fitted("SESSION_URGENCY", "context", << 60 >>, << -2, 1 >>),
                  Fitted("STRUCTURING", "structuring", << 60 >>, << 0, 2 >>),
                  Fitted("VELOCITY_BURST", "behavioural", << 25 >>, << 0, 1 >>) >>,
   rho |-> [g \in SomeGroups |-> 10], cappedGroups |-> << "context" >>, negativeFloor |-> -1,
   prior |-> -4, calibration |-> << << -6, 0 >>, << 0, 2 >>, << 4, 4 >> >>]
PaymentOf(payer, payee, amount, session, fraud) ==
  [payer |-> payer, payee |-> payee, amount |-> amount, session |-> session,
   device |-> payer, isFraud |-> fraud]
SomePast == {PaymentOf("ann", "shop", 6, A!Quiet, FALSE), PaymentOf("ann", "shop", 39, A!Coached, FALSE),
             PaymentOf("bob", "mule", 30, A!Coached, TRUE)}
SomeTargets  == << 44, 60 >>
SomeAccounts == 
  {[id |-> "mule", firstSeen |-> 700, velocity |-> 9, unused |-> FALSE],
   [id |-> "fresh", firstSeen |-> 710, velocity |-> 9, unused |-> TRUE]}
SomeGaps == [structuring |-> {0, 1}, baseline_building |-> {29, 86}, delayed_extraction |-> {240},
             context_hygiene |-> {0}, threshold_probing |-> {1}, mule_rotation |-> {0}]
=============================================================================
