-------------------------- MODULE MCDecisionSpace --------------------------
(***************************************************************************)
(* Small instances of DecisionSpace: rates in quarters, prices of a few    *)
(* paise, portfolios of three payments, two groups of signals, chains of   *)
(* at most three layers over four minutes, trails of three records.        *)
(***************************************************************************)
EXTENDS DecisionSpace

Policy(share, catch, stepUp, block, leaveHeld, leaveBlocked, value) ==
  [liabilityShare |-> share, stepUpCatchRate |-> catch,
   stepUpFrictionPaise |-> stepUp, blockFrictionPaise |-> block,
   stepUpAbandonmentRate |-> leaveHeld, blockAbandonmentRate |-> leaveBlocked,
   customerLifetimeValuePaise |-> value,
   maxStepUpRate |-> NoCap, maxFalsePositiveRate |-> NoCap]

\* Every combination of the sliders' ends and a middle.
SliderPolicies ==
  {Policy(s, c, su, b, ls, lb, v) :
     s \in {2, 4}, c \in {0, 2, 4}, su \in {0, 2, 6}, b \in {0, 5},
     ls \in {0, 1}, lb \in {0, 1, 2}, v \in {0, 4}}

SomeBases == {Policy(4, 2, 1, 3, 0, 1, 4), Policy(2, 3, 0, 5, 1, 0, 8)}

SomeAmounts == << 1, 4, 12, 40 >>
SomeMultipliers == << 2, 3, 5, 8, 13, 40, 400 >>

Sample(a, p, f) == [amountPaise |-> a, fraudProbability |-> p, recovery |-> 1, isFraud |-> f]
Payments == {Sample(a, p, f) : a \in {4, 40}, p \in {1, 3}, f \in BOOLEAN}
SomePortfolios ==
  {<< Sample(40, 1, FALSE), x, y >> : x \in Payments, y \in Payments} \cup {<< >>}
SomeCeilings == {<< NoCap, NoCap >>, << 1, NoCap >>, << NoCap, 2 >>, << 2, 1 >>}

Signal(g, raw, table) ==
  [group |-> g, edges |-> << 1, 2 >>, raw |-> raw, weight |-> 1, llrByBin |-> table]
SomeEvidence ==
  {<< Signal("context", r, << -3, -1, 2 >>), Signal("context", 0, t),
      Signal("context", 0, << -1, 0, 1 >>), Signal("payee_graph", 0, << -2, 0, 4 >>) >> :
     r \in {0, NaN}, t \in {<< -2, 0, 3 >>, << 1, -2, -2 >>}}
Model(rho, capped, floor) ==
  [rho |-> ("context" :> rho @@ "payee_graph" :> 0), cappedGroups |-> capped,
   negativeFloor |-> floor, prior |-> -2,
   calibration |-> << << -5, 0 >>, << -3, 0 >>, << -3, 1 >>, << 0, 2 >>, << 3, 7 >> >>]
SomeModels == {Model(rho, capped, -2) :
                 rho \in {0, 10, 20}, capped \in {<< >>, << "context" >>, << "payee_graph", "context" >>}}

Dwells == {1, 2, 3}
Paths  == {<< a >> : a \in Dwells} \cup {<< a, b >> : a \in Dwells, b \in Dwells} \cup {<< 1, 2, 9 >>}
SomePaths == {<< x, y >> : x \in Paths, y \in Paths}
SomeWeights == {<< 4, 2, 1 >>, << 3, 3, 0 >>}
SomeLatencies == {0, 3}

SomeTrails == {<< [entry |-> "ASSESSMENT", ts |-> 0], [entry |-> "HOLD_OPENED", ts |-> 0],
                  [entry |-> "ASSESSMENT", ts |-> 1] >>}
MonitoredAmounts == {2000, 25000, 50000, 100000, 200000}
SomeGroups == {"context", "payee_graph"}
=============================================================================
