----------------------------- MODULE HoldCustody -----------------------------
(***************************************************************************)
(* What the friction protocol promises, without hold records, indexes,     *)
(* transaction ids or a ledger: custody of a (payer, beneficiary) pair.    *)
(*                                                                         *)
(* A pair is free or held.  Custody starts with a fixed deadline and a     *)
(* fixed number of retries left; a retry uses one up and nothing gives one *)
(* back; it ends when the payer answers, when a retry is escalated, or     *)
(* when the deadline has passed.  Only a payment to a free pair can be     *)
(* approved.  This is the promise in docs/MODELING.md that a retry during  *)
(* an open hold "inherits the hold rather than starting over".             *)
(***************************************************************************)
EXTENDS Integers

CONSTANTS
  Payers, Payees,
  Times,
  Terms,       \* records [holdWindow, attemptBudget] custody can start with
  Free,        \* the custody of a pair that is not held
  NoAnswer     \* "answer" when the last call was not a payment

VARIABLES
  custody,     \* per pair: Free, or [deadline, left]
  answer       \* the last payment and its decision

vars == << custody, answer >>

Pairs == Payers \X Payees
Decisions == {"APPROVE", "STEP_UP", "BLOCK"}

Init ==
  /\ custody = [c \in Pairs |-> Free]
  /\ answer = NoAnswer

Lapsed(c, now) == custody[c] # Free /\ now >= custody[c].deadline

(* Custody once everything due at time now has lapsed for the payers ps. *)
After(ps, now) ==
  [c \in Pairs |-> IF c[1] \in ps /\ Lapsed(c, now) THEN Free ELSE custody[c]]

(* A payment of pair c at time now, decided d: first what is due lapses    *)
(* for the payer, then the payment meets what is left.                     *)
Pay(c, now, d) ==
  LET left == After({c[1]}, now) IN
  /\ answer' = [pair |-> c, decision |-> d]
  /\ \/ /\ left[c] = Free
        /\ d \in {"APPROVE", "BLOCK"}
        /\ custody' = left
     \/ /\ left[c] = Free
        /\ d = "STEP_UP"
        /\ \E t \in Terms : custody' = [left EXCEPT ![c] =
              [deadline |-> now + t.holdWindow, left |-> t.attemptBudget]]
     \/ /\ left[c] # Free
        /\ left[c].left > 0
        /\ d \in {"STEP_UP", "BLOCK"}
        /\ custody' = [left EXCEPT ![c].left = @ - 1]
     \/ /\ left[c] # Free
        /\ d = "BLOCK"
        /\ custody' = [left EXCEPT ![c] = Free]

(* The payer answers the challenge: custody of one pair ends. *)
Answer(c) ==
  /\ custody[c] # Free
  /\ custody' = [custody EXCEPT ![c] = Free]
  /\ answer' = NoAnswer

(* Time passes for some payers, or the settings change: only the due end.  *)
Lapse(ps, now) ==
  /\ custody' = After(ps, now)
  /\ answer' = NoAnswer

Next ==
  \/ \E c \in Pairs, now \in Times, d \in Decisions : Pay(c, now, d)
  \/ \E c \in Pairs : Answer(c)
  \/ \E ps \in SUBSET Payers, now \in Times : Lapse(ps, now)

Spec == Init /\ [][Next]_vars
=============================================================================
