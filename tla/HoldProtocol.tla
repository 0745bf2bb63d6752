---------------------------- MODULE HoldProtocol ----------------------------
(***************************************************************************)
(* The step-up friction protocol of packages/core/src/hold.ts: which       *)
(* challenge a hold issues, and how a hold record answers a terminal       *)
(* outcome, the passing of its window and a further payment attempt.       *)
(*                                                                         *)
(* The functions of hold.ts are pure: they take a hold record and return   *)
(* another one.  They are operators here, and module Interceptor gives     *)
(* them their state.  Texts shown to people (rationales, details, prompts) *)
(* and the timeline that collects them are left out.                       *)
(***************************************************************************)
EXTENDS Integers, Sequences

(* The five step-up factors (types.ts, ChallengeType). *)
ChallengeTypes == {"DELAYED_BIOMETRIC", "BANK_INITIATED_CALLBACK",
                   "NAMED_PAYEE_CONFIRMATION", "COOLING_PERIOD_SELF_CANCEL",
                   "IN_APP_OTP"}

(* The flags of a transaction and its context that the protocol reads.     *)
(* "material": the amount reaches NAMED_PAYEE_AMOUNT_FLOOR.                *)
(* "firstTimePayee": beneficiaryAddedAtMs is null or the VPA was pasted.   *)
(* The deviceId is left out: the protocol never reads it.                  *)
ContextFlags == {"activeCall", "screenShareActive", "remoteAccessAppRunning",
                 "isNewDevice", "simChangedRecently", "material",
                 "firstTimePayee"}

(* A context with exactly the flags of S raised. *)
ContextWith(S) == [f \in ContextFlags |-> f \in S]

Coerced(c) == c.activeCall \/ c.screenShareActive \/ c.remoteAccessAppRunning
Observed(c) == c.screenShareActive \/ c.remoteAccessAppRunning

(* The factors selectChallenge rules out and records as such. *)
Disqualified(c) ==
  {t \in {"IN_APP_OTP", "DELAYED_BIOMETRIC"} :
     \/ t = "IN_APP_OTP" /\ Coerced(c)
     \/ t = "DELAYED_BIOMETRIC" /\ Observed(c)}

(* A slip the checks must notice: coercion taken to be a phone call only.  *)
SelectChallengeCallsOnly(c) ==
  CASE c.activeCall                        -> "DELAYED_BIOMETRIC"
    [] ~c.activeCall /\ c.isNewDevice      -> "BANK_INITIATED_CALLBACK"
    [] OTHER                               -> "IN_APP_OTP"

(* Another: the device branch returns before the coercion branches.        *)
SelectChallengeDeviceFirst(c) ==
  CASE c.isNewDevice                       -> "BANK_INITIATED_CALLBACK"
    [] ~c.isNewDevice /\ Observed(c)       -> "COOLING_PERIOD_SELF_CANCEL"
    [] ~c.isNewDevice /\ ~Observed(c) /\ Coerced(c) -> "DELAYED_BIOMETRIC"
    [] OTHER                               -> "IN_APP_OTP"

(* The factor it chooses, by the order of its early returns. *)
SelectChallenge(c) ==
  CASE Observed(c)                                    -> "COOLING_PERIOD_SELF_CANCEL"
    [] ~Observed(c) /\ Coerced(c)                     -> "DELAYED_BIOMETRIC"
    [] ~Coerced(c) /\ (c.isNewDevice \/ c.simChangedRecently)
                                                      -> "BANK_INITIATED_CALLBACK"
    [] OTHER -> IF c.material /\ c.firstTimePayee
                THEN "NAMED_PAYEE_CONFIRMATION" ELSE "IN_APP_OTP"

-----------------------------------------------------------------------------
(* Hold records *)

OpenStates == {"SOFT_HOLD", "CHALLENGE_ISSUED"}
ResolvedStates == {"CONFIRMED_RELEASED", "FAILED_BLOCKED", "EXPIRED_BLOCKED",
                   "ESCALATED_REVIEW", "ABANDONED"}
HoldStates == OpenStates \cup ResolvedStates

IsOpen(h) == h.state \in OpenStates

(* openHold: the hold carries the terms of the policy in force when it opens. *)
OpenHold(pay, policy) ==
  [txnId        |-> pay.txnId,
   payerId      |-> pay.payerId,
   payeeId      |-> pay.payeeId,
   state        |-> "CHALLENGE_ISSUED",
   challenge    |-> SelectChallenge(pay.context),
   expiresAt    |-> pay.ts + policy.holdWindow,
   attemptsUsed |-> 0,
   attemptBudget |-> policy.attemptBudget,
   linked       |-> << >>]

Outcomes == {"confirmed", "failed", "abandoned", "expired"}

StateOf(outcome) ==
  CASE outcome = "confirmed" -> "CONFIRMED_RELEASED"
    [] outcome = "failed"    -> "FAILED_BLOCKED"
    [] outcome = "abandoned" -> "ABANDONED"
    [] OTHER                 -> "EXPIRED_BLOCKED"

ResolveHold(h, outcome) ==
  IF IsOpen(h) THEN [h EXCEPT !.state = StateOf(outcome)] ELSE h

(* Slips: a window that is still open at its last instant, and an expiry   *)
(* that does not ask whether the hold is still open.                       *)
DueLate(h, now) == IsOpen(h) /\ now > h.expiresAt
ExpireResolvedToo(h, now) ==
  IF now >= h.expiresAt THEN [h EXCEPT !.state = "EXPIRED_BLOCKED"] ELSE h

(* A hold whose window has elapsed at time now. *)
Due(h, now) == IsOpen(h) /\ now >= h.expiresAt

ExpireIfDue(h, now) == IF Due(h, now) THEN ResolveHold(h, "expired") ELSE h

-----------------------------------------------------------------------------
(* registerAttempt: what a further payment does to a hold. *)

Dispositions == {"NOT_RELATED", "LINKED_TO_HOLD", "ESCALATED"}

Related(h, pay) == IsOpen(h) /\ pay.payeeId = h.payeeId

(* Slip: the attempt being counted is left out of the comparison. *)
ExceedsBudgetByOne(h) == h.attemptsUsed > h.attemptBudget

ExceedsBudget(h) == h.attemptsUsed + 1 > h.attemptBudget

(* A new device escalates at once; otherwise the attempt after the last    *)
(* one the budget covers does.                                             *)
AttemptDisposition(h, pay) ==
  CASE ~Related(h, pay)                                 -> "NOT_RELATED"
    [] Related(h, pay) /\ (pay.context.isNewDevice \/ ExceedsBudget(h))
                                                        -> "ESCALATED"
    [] OTHER                                            -> "LINKED_TO_HOLD"

(* Slips: an attempt that renews the window, and an escalation that stores *)
(* the disposition's name as the state.                                    *)
RegisterAttemptRenewing(h, pay) ==
  IF AttemptDisposition(h, pay) = "NOT_RELATED" THEN h
  ELSE [h EXCEPT !.linked = Append(h.linked, pay.txnId),
                 !.attemptsUsed = h.attemptsUsed + 1,
                 !.expiresAt = pay.ts + 2,
                 !.state = IF AttemptDisposition(h, pay) = "ESCALATED"
                           THEN "ESCALATED_REVIEW" ELSE h.state]

RegisterAttemptMisnamed(h, pay) ==
  IF AttemptDisposition(h, pay) = "NOT_RELATED" THEN h
  ELSE [h EXCEPT !.linked = Append(h.linked, pay.txnId),
                 !.attemptsUsed = h.attemptsUsed + 1,
                 !.state = IF AttemptDisposition(h, pay) = "ESCALATED"
                           THEN "ESCALATED" ELSE h.state]

(* An escalation for a new device does not consume the budget. *)
RegisterAttempt(h, pay) ==
  IF AttemptDisposition(h, pay) = "NOT_RELATED" THEN h
  ELSE [h EXCEPT
          !.linked       = Append(h.linked, pay.txnId),
          !.attemptsUsed = IF pay.context.isNewDevice THEN h.attemptsUsed
                           ELSE h.attemptsUsed + 1,
          !.state        = IF AttemptDisposition(h, pay) = "ESCALATED"
                           THEN "ESCALATED_REVIEW" ELSE h.state]
=============================================================================
