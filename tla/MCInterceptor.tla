--------------------------- MODULE MCInterceptor ---------------------------
(***************************************************************************)
(* Small instances of Interceptor.  Windows and times are in minutes of a  *)
(* scaled clock: with a window of 2 and times 0..2, a payment can fall     *)
(* inside a hold's window and exactly at its end.                          *)
(***************************************************************************)
EXTENDS Interceptor, TLC

ClockTimes == 0..2

Plain     == ContextWith({})
NewDevice == ContextWith({"isNewDevice"})

PlainOrNewDevice == {Plain, NewDevice}
PlainOnly        == {Plain}

Terms(window, budget, latency) ==
  [holdWindow |-> window, attemptBudget |-> budget, freezeLatency |-> latency]

OnePolicy   == {Terms(2, 1, 1)}
TwoPolicies == {Terms(2, 1, 1), Terms(1, 0, 3)}

Symmetry == Permutations(TxnIds) \cup Permutations(Payers) \cup Permutations(Payees)
=============================================================================
