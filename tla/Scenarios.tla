----------------------------- MODULE Scenarios ------------------------------
(***************************************************************************)
(* The episodes an operator can inject (apps/web/lib/scenarios.ts) and     *)
(* what the hold protocol makes of their payments.  Amounts are rupees,    *)
(* times seconds.  Of a scenario's context the flags the protocol reads    *)
(* are kept, how the address was entered, and how long before the payment  *)
(* the beneficiary was saved; texts, typologies and what only the score    *)
(* reads are left out.                                                     *)
(***************************************************************************)
EXTENDS HoldProtocol, SequencesExt

CONSTANTS HoldWindow,       \* holdWindowMinutes of the policy in force, in seconds
          AttemptBudget,    \* attemptBudget of it
          NamedPayeeFloor,  \* NAMED_PAYEE_AMOUNT_FLOOR
          Null              \* no age, or no payment yet

Days(n) == n * 86400
Step(after, amount) == [after |-> after, amount |-> amount]
Scenario(id, isFraud, flags, entered, savedBefore, steps) ==
  [id |-> id, isFraud |-> isFraud, flags |-> flags, entered |-> entered,
   savedBefore |-> savedBefore, steps |-> steps]

SCENARIOS ==
  {Scenario("digital_arrest", TRUE, {"activeCall"}, "pasted", Null, << Step(0, 185000) >>),
   Scenario("kyc_remote", TRUE, {"activeCall", "screenShareActive", "remoteAccessAppRunning"},
            "typed", Null, << Step(0, 47500) >>),
   Scenario("structuring", TRUE, {}, "contact", Days(2),
            << Step(0, 24500), Step(240, 24500), Step(300, 24500), Step(300, 24500) >>),
   Scenario("hygienic", TRUE, {}, "contact", Days(1), << Step(0, 95000) >>),
   Scenario("split_retry", TRUE, {}, "pasted", Null,
            << Step(0, 30000), Step(90, 15000), Step(120, 15000), Step(150, 15000) >>),
   Scenario("legit_large", FALSE, {}, "contact", Days(30), << Step(0, 120000) >>)}

(* A genuine payment to a saved beneficiary goes to the template's own;    *)
(* the others to a collection account of the episode.                      *)
UsesKnownPayee(s) == s.savedBefore # Null /\ ~s.isFraud

(* A step comes so long after the one before it. *)
Moment(s, start, i) ==
  start + FoldLeft(LAMBDA sum, step : sum + step.after, 0, SubSeq(s.steps, 1, i))

BuildScenario(s, template, start) ==
  [i \in DOMAIN s.steps |->
     LET amount == s.steps[i].amount
         raised == (IF amount >= NamedPayeeFloor THEN {"material"} ELSE {})
                     \cup (IF s.savedBefore = Null \/ s.entered = "pasted"
                           THEN {"firstTimePayee"} ELSE {})
     IN  [txnId   |-> i,
          ts      |-> Moment(s, start, i),
          payerId |-> template.payerId,
          payeeId |-> IF UsesKnownPayee(s) THEN template.payeeId ELSE s.id,
          amount  |-> amount,
          addedAt |-> IF s.savedBefore = Null THEN Null ELSE Moment(s, start, i) - s.savedBefore,
          context |-> ContextWith(s.flags \cup raised)]]

-----------------------------------------------------------------------------
(* What becomes of an episode's payments when the engine takes them in     *)
(* turn: which was held, what its retries came to.  The score is open.     *)
Started(s, template, start) ==
  [id |-> s.id, payments |-> BuildScenario(s, template, start), at |-> 0,
   holds |-> << >>, dispositions |-> << >>]

(* The next payment, in authorize's order: the open hold is aged, then the *)
(* payment is linked to it, or assessed by itself and perhaps held.        *)
Played(episode, stepUp) ==
  LET pay      == episode.payments[episode.at + 1]
      aged     == [i \in DOMAIN episode.holds |-> ExpireIfDue(episode.holds[i], pay.ts)]
      linked   == [i \in DOMAIN aged |-> RegisterAttempt(aged[i], pay)]
      outcomes == {AttemptDisposition(aged[i], pay) : i \in DOMAIN aged} \ {"NOT_RELATED"}
      policy   == [holdWindow |-> HoldWindow, attemptBudget |-> AttemptBudget]
  IN  [episode EXCEPT
         !.at = @ + 1,
         !.holds = IF outcomes = {} /\ stepUp THEN Append(aged, OpenHold(pay, policy)) ELSE linked,
         !.dispositions = Append(@, IF outcomes = {} THEN "NOT_RELATED" ELSE CHOOSE o \in outcomes : TRUE)]

=============================================================================
