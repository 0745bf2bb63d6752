----------------------------- MODULE Interceptor -----------------------------
(***************************************************************************)
(* The decision engine of packages/core/src/engine.ts over the MemoryStore *)
(* of store.ts: payments are assessed, held, linked to a hold that is      *)
(* still open, escalated; holds are resolved by their payer, aged out when *)
(* the payer pays again, or swept.                                         *)
(*                                                                         *)
(* Scoring is abstract: the action the economics prefers is any of the     *)
(* three.  The ledger is seen per hold: trail[h] is the sequence of ledger *)
(* entries that name hold h, in ledger order.  The hold of transaction t   *)
(* has the id "hold_t" (holdIdFactory), so holds are indexed by their      *)
(* transaction.                                                            *)
(***************************************************************************)
EXTENDS HoldProtocol, SequencesExt, FiniteSets

CONSTANTS
  TxnIds,       \* transaction ids, as the client supplies them
  Payers,
  Payees,
  Times,        \* transaction and resolution times
  Contexts,     \* the contexts payments come with (see HoldProtocol)
  Policies,     \* records [holdWindow, attemptBudget, freezeLatency]
  Models,       \* fitted models
  NoCall,       \* "lastCall" when the last call was not authorize
  FreshIds,     \* TRUE when no transaction id is ever submitted twice
  MaxPayments   \* bound: how many payments are authorised

ASSUME InterceptorAssumption ==
  /\ Times \subseteq Nat /\ Times # {}
  /\ \A c \in Contexts : c.isNewDevice \in BOOLEAN
  /\ \A p \in Policies : p.holdWindow \in Nat /\ p.attemptBudget \in Nat
  /\ FreshIds \in BOOLEAN
  /\ MaxPayments \in Nat

Actions == {"APPROVE", "STEP_UP", "BLOCK"}

Payments == [txnId : TxnIds, payerId : Payers, payeeId : Payees, ts : Times,
             context : Contexts]

(* "No call" is neither an answer nor a custody. *)
ASSUME NoCallAssumption ==
  /\ NoCall \notin [payment : Payments, decision : Actions,
                    disposition : Dispositions, holdId : TxnIds]
  /\ NoCall \notin [deadline : Nat, left : Int]

VARIABLES
  holds,        \* MemoryStore.holds: transaction id -> hold record
  holdsByPayer, \* MemoryStore.holdsByPayer: the payer's hold ids, oldest first
  trail,        \* the ledger's entries per hold
  policy,       \* the policy in force
  model,        \* the model in force
  recovery,     \* what the RecoveryModel was built with
  submitted,    \* history: the transaction ids authorised so far
  served,       \* history: how many payments were authorised
  lastCall      \* the last authorize and what it answered

storeVars == << holds, holdsByPayer, trail >>
historyVars == << submitted, served >>
vars == << storeVars, policy, model, recovery, historyVars, lastCall >>

-----------------------------------------------------------------------------
(* Helpers on the store. *)

Put(f, key, value) ==
  [x \in DOMAIN f \cup {key} |-> IF x = key THEN value ELSE f[x]]

Owns(p, id) == \E i \in DOMAIN holdsByPayer[p] : holdsByPayer[p][i] = id

(* putHold adds the hold to its payer's index, a set in insertion order. *)
Indexed(p, id) ==
  [holdsByPayer EXCEPT ![p] = IF Owns(p, id) THEN @ ELSE Append(@, id)]

Opened(h) == [kind |-> "HOLD_OPENED", txnId |-> h.txnId, outcome |-> h.state]
Linked(t, disposition) ==
  [kind |-> "ATTEMPT_LINKED", txnId |-> t, outcome |-> disposition]
Resolved(h) == [kind |-> "HOLD_RESOLVED", txnId |-> h.txnId, outcome |-> h.state]

(* ageHolds: every hold in the payer's index whose window has elapsed is   *)
(* expired, and its expiry is sealed in the ledger.                        *)
AgedHolds(ps, now) ==
  [id \in DOMAIN holds |-> IF \E p \in ps : Owns(p, id)
                           THEN ExpireIfDue(holds[id], now) ELSE holds[id]]

(* Slip: holds expire without a ledger entry. *)
AgedTrailUnsealed(ps, now) == trail

AgedTrail(ps, now) ==
  [id \in DOMAIN trail |->
     IF (\E p \in ps : Owns(p, id)) /\ Due(holds[id], now)
     THEN Append(trail[id], Resolved(AgedHolds(ps, now)[id])) ELSE trail[id]]

-----------------------------------------------------------------------------
Init ==
  /\ holds = [id \in {} |-> NoCall]
  /\ trail = [id \in {} |-> NoCall]
  /\ holdsByPayer = [p \in Payers |-> << >>]
  /\ policy \in Policies
  /\ model \in Models
  /\ recovery = [params |-> model, freezeLatency |-> policy.freezeLatency]
  /\ submitted = {}
  /\ served = 0
  /\ lastCall = NoCall

Assessment(pay, decision, disposition, id) ==
  [payment |-> pay, decision |-> decision, disposition |-> disposition, holdId |-> id]

(* No open hold for this beneficiary: the economics decides, and a step-up *)
(* opens a hold under the policy in force.                                 *)
AuthorizeUnheld(pay, chosen, aged, agedTrail) ==
  /\ lastCall' = Assessment(pay, chosen, "NOT_RELATED", pay.txnId)
  /\ \/ /\ chosen = "STEP_UP"
        /\ LET hold == OpenHold(pay, policy) IN
           /\ holds' = Put(aged, pay.txnId, hold)
           /\ trail' = Put(agedTrail, pay.txnId,
                           Append(IF pay.txnId \in DOMAIN agedTrail
                                  THEN agedTrail[pay.txnId] ELSE << >>,
                                  Opened(hold)))
        /\ holdsByPayer' = Indexed(pay.payerId, pay.txnId)
     \/ /\ chosen # "STEP_UP"
        /\ holds' = aged
        /\ trail' = agedTrail
        /\ UNCHANGED holdsByPayer

(* Slips: a linked attempt keeps the decision the economics chose, and so  *)
(* does an escalated one.                                                  *)
OverrideEscalationsOnly(disposition, chosen) ==
  IF disposition = "ESCALATED" THEN "BLOCK" ELSE chosen

OverrideLinksOnly(disposition, chosen) ==
  IF disposition = "LINKED_TO_HOLD" /\ chosen = "APPROVE" THEN "STEP_UP" ELSE chosen

(* The decision on a re-attempt: the protocol's overrides. *)
Override(disposition, chosen) ==
  CASE disposition = "ESCALATED"                               -> "BLOCK"
    [] disposition = "LINKED_TO_HOLD" /\ chosen = "APPROVE"    -> "STEP_UP"
    [] OTHER                                                   -> chosen

(* A re-attempt to the beneficiary of open hold id: the hold takes the     *)
(* attempt, then the decision is overridden.                               *)
AuthorizeHeld(pay, chosen, id, aged, agedTrail) ==
  LET disposition == AttemptDisposition(aged[id], pay)
      hold        == RegisterAttempt(aged[id], pay)
      linkEntry   == Append(agedTrail[id], Linked(pay.txnId, disposition))
  IN  /\ holds' = [aged EXCEPT ![id] = hold]
      /\ trail' = [agedTrail EXCEPT ![id] =
                     IF disposition = "ESCALATED"
                     THEN Append(linkEntry, Resolved(hold)) ELSE linkEntry]
      /\ holdsByPayer' = Indexed(hold.payerId, id)
      /\ lastCall' = Assessment(pay, Override(disposition, chosen), disposition, id)

(* Slip: holds are looked up in the soft state only, as openHold first had *)
(* them in its timeline, and not in the state they are stored in.          *)
HoldsPayeeSoftOnly(p, i, payee, aged) ==
  LET h == aged[holdsByPayer[p][i]] IN h.state = "SOFT_HOLD" /\ h.payeeId = payee

(* activeHolds.find: an open hold of the payer's index for the beneficiary *)
(* and its position; authorize takes the first.                            *)
HoldsPayee(p, i, payee, aged) ==
  LET h == aged[holdsByPayer[p][i]] IN IsOpen(h) /\ h.payeeId = payee

Authorize(pay, chosen) ==
  LET p         == pay.payerId
      aged      == AgedHolds({p}, pay.ts)
      agedTrail == AgedTrail({p}, pay.ts)
  IN  /\ served < MaxPayments
      /\ FreshIds => pay.txnId \notin submitted
      /\ \/ /\ \A i \in DOMAIN holdsByPayer[p] : ~HoldsPayee(p, i, pay.payeeId, aged)
            /\ AuthorizeUnheld(pay, chosen, aged, agedTrail)
         \/ \E i \in DOMAIN holdsByPayer[p] :
              /\ HoldsPayee(p, i, pay.payeeId, aged)
              /\ \A j \in 1..(i - 1) : ~HoldsPayee(p, j, pay.payeeId, aged)
              /\ AuthorizeHeld(pay, chosen, holdsByPayer[p][i], aged, agedTrail)
      /\ submitted' = submitted \cup {pay.txnId}
      /\ served' = served + 1
      /\ UNCHANGED << policy, model, recovery >>

(* resolve: whatever the hold's window, as long as it is open. *)
Resolve(id, outcome) ==
  /\ id \in DOMAIN holds
  /\ IsOpen(holds[id])
  /\ LET hold == ResolveHold(holds[id], outcome) IN
     /\ holds' = [holds EXCEPT ![id] = hold]
     /\ trail' = [trail EXCEPT ![id] = Append(@, Resolved(hold))]
     /\ holdsByPayer' = Indexed(hold.payerId, id)
  /\ lastCall' = NoCall
  /\ UNCHANGED << policy, model, recovery, historyVars >>

(* sweepExpiries over the payers the caller names. *)
SweepExpiries(now, ps) ==
  /\ holds' = AgedHolds(ps, now)
  /\ trail' = AgedTrail(ps, now)
  /\ lastCall' = NoCall
  /\ UNCHANGED << holdsByPayer, policy, model, recovery, historyVars >>

(* setPolicy and setModel replace what is in force; the recovery model     *)
(* keeps what it was built with.                                           *)
SetPolicy(next) ==
  /\ policy' = next
  /\ lastCall' = NoCall
  /\ UNCHANGED << storeVars, model, recovery, historyVars >>

SetModel(next) ==
  /\ model' = next
  /\ lastCall' = NoCall
  /\ UNCHANGED << storeVars, policy, recovery, historyVars >>

Next ==
  \/ \E pay \in Payments, chosen \in Actions : Authorize(pay, chosen)
  \/ \E id \in TxnIds, outcome \in Outcomes : Resolve(id, outcome)
  \/ \E now \in Times, ps \in SUBSET Payers : SweepExpiries(now, ps)
  \/ \E next \in Policies : SetPolicy(next)
  \/ \E next \in Models : SetModel(next)

Spec == Init /\ [][Next]_vars

-----------------------------------------------------------------------------
(* Type invariant *)

Hold == [txnId : TxnIds, payerId : Payers, payeeId : Payees, state : HoldStates,
         challenge : ChallengeTypes, expiresAt : Nat, attemptsUsed : Nat,
         attemptBudget : Nat, linked : Seq(TxnIds)]

Entry == [kind : {"HOLD_OPENED", "ATTEMPT_LINKED", "HOLD_RESOLVED"},
          txnId : TxnIds, outcome : HoldStates \cup Dispositions]

(* Every record is of the shape the code gives it; every hold sits under   *)
(* its own id, was opened by a payment that was authorised and has a       *)
(* ledger trail; and every id in an index is that of an existing hold.     *)
TypeOK ==
  /\ DOMAIN holds \subseteq submitted
  /\ \A id \in DOMAIN holds : holds[id] \in Hold /\ holds[id].txnId = id
  /\ DOMAIN trail = DOMAIN holds
  /\ \A id \in DOMAIN trail : trail[id] \in Seq(Entry)
  /\ holdsByPayer \in [Payers -> Seq(TxnIds)]
  /\ \A p \in Payers : \A i \in DOMAIN holdsByPayer[p] : holdsByPayer[p][i] \in DOMAIN holds
  /\ policy \in Policies
  /\ model \in Models
  /\ submitted \subseteq TxnIds
  /\ served \in Nat

(* Every hold, whoever's attempts it took, is in the index of the payer it *)
(* names: what the payer's next payment reads is complete.                 *)
HoldsAreIndexed == \A id \in DOMAIN holds : Owns(holds[id].payerId, id)

(* With fresh ids the index is also exact: what it lists for a payer is    *)
(* that payer's.  A reused id breaks it, as one payer's hold then replaces *)
(* another's under an id both indexes list.                                *)
IndexIsOwn ==
  \A p \in Payers : \A id \in DOMAIN holds : Owns(p, id) => holds[id].payerId = p

-----------------------------------------------------------------------------
(* Safety *)

(* The last call was an authorize, and lastCall is its answer. *)
Authorized == lastCall # NoCall

SamePair(h, g) == h.payerId = g.payerId /\ h.payeeId = g.payeeId

(* However payments, resolutions, sweeps and policy changes interleave, a  *)
(* payer never has two open holds towards one beneficiary: a retry cannot  *)
(* start a second hold with a fresh window, challenge and budget.          *)
AtMostOneOpenHold ==
  \A a, b \in DOMAIN holds :
    IsOpen(holds[a]) /\ IsOpen(holds[b]) /\ SamePair(holds[a], holds[b]) => a = b

(* The attempts of hold h against the budget it opened with. *)
WithinBudget(h) ==
  /\ Len(h.linked) <= h.attemptBudget + 1
  /\ IsOpen(h) => Len(h.linked) = h.attemptsUsed /\ h.attemptsUsed <= h.attemptBudget

(* Retries are not free: an open hold has counted every attempt linked to  *)
(* it and is within the budget it opened with; no hold, resolved ones      *)
(* included, ever took more than one attempt beyond that budget.           *)
BudgetIsRespected == \A id \in DOMAIN holds : WithinBudget(holds[id])

(* The entries t are those of hold h's history. *)
Replays(t, h) ==
  LET n == Len(h.linked) IN
  /\ Len(t) = n + (IF IsOpen(h) THEN 1 ELSE 2)
  /\ t[1].kind = "HOLD_OPENED"
  /\ \A i \in 1..n : t[1 + i].kind = "ATTEMPT_LINKED" /\ t[1 + i].txnId = h.linked[i]
  /\ ~IsOpen(h) => t[n + 2] = Resolved(h)

(* The audit trail is enough to rebuild the hold table: the entries of a   *)
(* hold are its opening, one entry per linked attempt in the order they    *)
(* came, and its resolution exactly when it is resolved, with its state.   *)
TrailReplaysHold == \A id \in DOMAIN holds : Replays(trail[id], holds[id])

(* Whoever is told STEP_UP has a hold to answer: an open one of theirs for *)
(* that beneficiary, whose window is still running.                        *)
StepUpIsBackedByHold ==
  Authorized /\ lastCall.decision = "STEP_UP" =>
    \E id \in DOMAIN holds : /\ IsOpen(holds[id])
                             /\ SamePair(holds[id], lastCall.payment)
                             /\ lastCall.payment.ts < holds[id].expiresAt

-----------------------------------------------------------------------------
(* What a step may never do *)

IsAuthorize == served' # served

(* While a hold is open and its window runs, no payment of its payer to    *)
(* its beneficiary is approved, whatever the economics prefer.             *)
NoApprovalWhileHeld ==
  [][IsAuthorize =>
       \A id \in DOMAIN holds :
         /\ IsOpen(holds[id])
         /\ SamePair(holds[id], lastCall'.payment)
         /\ lastCall'.payment.ts < holds[id].expiresAt
         => lastCall'.decision # "APPROVE"]_vars

(* A hold whose window has elapsed takes no further attempt: the attempt   *)
(* finds it expired and is assessed on its own.                            *)
LapsedHoldsNeverCapture ==
  [][IsAuthorize /\ lastCall'.disposition # "NOT_RELATED" =>
       lastCall'.payment.ts < holds[lastCall'.holdId].expiresAt]_vars

(* "States from which a hold can still change" are the open ones: once a   *)
(* hold is resolved, its record and its trail never change again.          *)
ResolvedHoldsAreFinal ==
  [][\A id \in DOMAIN holds : ~IsOpen(holds[id]) =>
       /\ id \in DOMAIN holds'
       /\ holds'[id] = holds[id]
       /\ trail'[id] = trail[id]]_vars

(* What an open or resolved hold h keeps when it becomes g. *)
KeepsTerms(h, g) ==
  /\ SamePair(h, g)
  /\ g.expiresAt = h.expiresAt
  /\ g.attemptBudget = h.attemptBudget
  /\ g.challenge = h.challenge
  /\ g.attemptsUsed >= h.attemptsUsed
  /\ Len(g.linked) >= Len(h.linked)
  /\ \A i \in 1..Len(h.linked) : g.linked[i] = h.linked[i]

(* Neither a retry nor a change of policy buys an open hold time, budget   *)
(* or another challenge, and no attempt it counted is forgotten.           *)
TermsAreFixed ==
  [][\A id \in DOMAIN holds :
       id \in DOMAIN holds' /\ KeepsTerms(holds[id], holds'[id])]_vars

-----------------------------------------------------------------------------
(* The engine implements the custody promise when ids are fresh.  A pair's *)
(* custody is its open hold: the deadline is the hold's expiry, and what   *)
(* is left is the budget less the attempts used.                           *)

OpenHolds(table, c) ==
  {id \in DOMAIN table : /\ IsOpen(table[id])
                         /\ table[id].payerId = c[1]
                         /\ table[id].payeeId = c[2]}

CustodyOf(h) == [deadline |-> h.expiresAt, left |-> h.attemptBudget - h.attemptsUsed]

(* The custody of every pair that the hold table gives it. *)
CustodyIn(table) ==
  [c \in Payers \X Payees |->
     IF OpenHolds(table, c) = {} THEN NoCall
     ELSE CustodyOf(table[CHOOSE id \in OpenHolds(table, c) : TRUE])]

Custody == CustodyIn(holds)

Answer ==
  IF Authorized
  THEN [pair |-> << lastCall.payment.payerId, lastCall.payment.payeeId >>,
        decision |-> lastCall.decision]
  ELSE NoCall

Promise == INSTANCE HoldCustody
  WITH Terms <- Policies, Free <- NoCall, NoAnswer <- NoCall,
       custody <- Custody, answer <- Answer

(* Every step of the engine is a step of the promise: what the records,    *)
(* the index and the overrides do together never gives a pair a second     *)
(* custody, an early approval or a retry it did not have.                  *)
KeepsPromise == Promise!Spec

-----------------------------------------------------------------------------
(* What a reviewer is shown of the ledger (packages/core/src/ledger.ts):   *)
(* the case file of a transaction and the narrative rendered from it.      *)
(* authorize seals the assessment of a payment after its attempt was       *)
(* linked and before its hold is opened.  Of the narrative its sections    *)
(* are kept, and which records each is written from.                       *)

Assessed(t) == [kind |-> "ASSESSMENT", txnId |-> t]

(* Slip: an entry kind the filter does not know names no transaction. *)
NamesUnresolved(e, t) == e.kind # "HOLD_RESOLVED" /\ e.txnId = t

(* Assessments and the three entries about holds name a transaction.  A    *)
(* resolution names the payment that was held, an attempt its own.         *)
Names(e, t) == e.txnId = t

(* caseFile: the records that name t, in ledger order. *)
CaseFile(t) ==
  LET Of(id)   == SelectSeq(trail[id], LAMBDA e : Names(e, t))
      attempts == FlattenSeq(SetToSeq({Of(id) : id \in DOMAIN trail \ {t}}))
      assessed == IF t \in submitted THEN << Assessed(t) >> ELSE << >>
      own      == IF t \in DOMAIN trail THEN Of(t) ELSE << >>
  IN  attempts \o assessed \o own

(* renderCaseNarrative: nothing without an assessment; the decision and    *)
(* its evidence from the first one; a hold section when there are records. *)
Narrative(t) ==
  LET file == CaseFile(t)
      hold == SelectSeq(file, LAMBDA e : e.kind # "ASSESSMENT")
  IN  IF \A i \in DOMAIN file : file[i].kind # "ASSESSMENT"
      THEN [sections |-> << >>, hold |-> << >>]
      ELSE [sections |-> << "decision", "evidence", "recoverability" >>
                           \o (IF hold = << >> THEN << >> ELSE << "hold" >>),
            hold |-> hold]

-----------------------------------------------------------------------------
(* A payment that opened a hold has a narrative of its opening and, once   *)
(* it is over, of how it ended, whoever ended it: the payer, the clock or  *)
(* an attempt that escalated it.  The attempts it took are told by their   *)
(* own narratives and by no other, so that a hold's whole trail is read    *)
(* from its payment's and theirs (ids being fresh).  Nothing is told of a  *)
(* transaction that was not assessed.                                      *)
CaseFilesTellTheHold ==
  /\ \A id \in DOMAIN holds :
       LET h == holds[id]
           told == << Narrative(id).hold >>
                     \o [i \in DOMAIN h.linked |-> Narrative(h.linked[i]).hold]
       IN  /\ Narrative(id).hold[1].kind = "HOLD_OPENED"
           /\ ~IsOpen(h) => Last(Narrative(id).hold) = Resolved(h)
           /\ ToSet(FlattenSeq(told)) = ToSet(trail[id])
           /\ Len(FlattenSeq(told)) = Len(trail[id])
  /\ \A t \in TxnIds \ submitted : CaseFile(t) = << >> /\ Narrative(t).sections = << >>
  /\ \A t \in submitted :
       Last(Narrative(t).sections) = "hold"
         <=> \E id \in DOMAIN holds : t = id \/ t \in ToSet(holds[id].linked)

=============================================================================
