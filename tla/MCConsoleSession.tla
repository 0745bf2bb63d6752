-------------------------- MODULE MCConsoleSession --------------------------
(***************************************************************************)
(* A small instance of ConsoleSession.  The shipped slice has three        *)
(* payments and intelligence that arrives before its window, within it and *)
(* after a payment it would have concerned; the import has two.            *)
(***************************************************************************)
EXTENDS ConsoleSession

Pay(id, ts, payer, payee) == [id |-> id, ts |-> ts, payer |-> payer, payee |-> payee]
Says(ts, payee, hop)      == [ts |-> ts, payee |-> payee, hop |-> hop]

TwoCorpora ==
  [d \in Datasets |->
     IF d = Shipped
     THEN [txns  |-> << Pay("s1", 1, "x", "b"), Pay("s2", 2, "y", "b"), Pay("s3", 5, "x", "c") >>,
           intel |-> << Says(2, "b", 0), Says(0, "b", 2), Says(4, "c", 1), Says(2, "c", 3) >>,
           from  |-> 1]
     ELSE [txns  |-> << Pay("i1", 1, "x", "b"), Pay("i2", 3, "x", "b") >>,
           intel |-> << Says(2, "b", 0) >>,
           from  |-> 1]]

TwoPolicies == << "balanced", "cautious" >>

OneScenario == {[id |-> "structuring", after |-> << 0, 2 >>, knownPayee |-> FALSE]}
=============================================================================
