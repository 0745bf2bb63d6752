------------------------------ MODULE MCReplay ------------------------------
(* Small corpora for Replay. *)
EXTENDS Replay

CONSTANTS alice, bob, shop, mule, phone

Quiet == [activeCall |-> FALSE, callSeconds |-> 0, screenShareActive |-> FALSE,
          remoteAccessAppRunning |-> FALSE, appSwitches |-> 1, secondsToAuthorize |-> 30,
          enteredBy |-> "typed", isNewDevice |-> FALSE, simChangedRecently |-> FALSE, deviceBoundAt |-> 0]
Coached == [Quiet EXCEPT !.activeCall = TRUE, !.callSeconds = 900, !.appSwitches = 7,
                         !.enteredBy = "pasted", !.isNewDevice = TRUE, !.simChangedRecently = TRUE]

Kind(payer, payee, amount, session, addedAt) ==
  [payer |-> payer, payee |-> payee, amount |-> amount, device |-> phone,
   session |-> session, addedAt |-> addedAt]
MCKinds == {Kind(alice, mule, 24, Quiet, -1), Kind(alice, mule, 39, Coached, 90),
            Kind(alice, shop, 24, Quiet, 50), Kind(bob, mule, 24, Quiet, -1)}

\* 12 h: two make the trailing day exactly, and a calendar day holds two or one.
MCGaps       == {0, 24}
MCIntels     == {<< [ts |-> 120, payee |-> mule, hop |-> 0], [ts |-> 90, payee |-> mule, hop |-> 2] >>}
MCAttributes == mule :> [firstSeen |-> 40, velocity |-> 9]
MCStarts     == {[fromMs |-> 0, warmUp |-> FALSE]} \cup [fromMs : {108}, warmUp : BOOLEAN]
MCResponses  == {"confirmed", "ignore"}
MCHoldPolicy == [holdWindow |-> 45, attemptBudget |-> 1]
MCTrainOf    == << 3, 5 >>
MCLogOf      == 24 :> 3 @@ 39 :> 5
MCThresholds == {40, 100}
=============================================================================
