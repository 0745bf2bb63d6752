-------------------------- MODULE InterceptorProofs --------------------------
(***************************************************************************)
(* Proofs about module Interceptor, for every set of transaction ids,      *)
(* payers, beneficiaries, times, contexts and policies.                    *)
(***************************************************************************)
EXTENDS Interceptor, SequenceTheorems, TLAPS

-----------------------------------------------------------------------------
(* Lemmas on the hold operations. *)

LEMMA ResolveHoldType ==
  ASSUME NEW h \in Hold, NEW outcome
  PROVE  /\ ResolveHold(h, outcome) \in Hold
         /\ ResolveHold(h, outcome).txnId = h.txnId
         /\ ResolveHold(h, outcome).payerId = h.payerId
         /\ ResolveHold(h, outcome).payeeId = h.payeeId
         /\ ResolveHold(h, outcome).linked = h.linked
         /\ ResolveHold(h, outcome).attemptsUsed = h.attemptsUsed
         /\ ResolveHold(h, outcome).attemptBudget = h.attemptBudget
         /\ ResolveHold(h, outcome).expiresAt = h.expiresAt
         /\ ResolveHold(h, outcome).challenge = h.challenge
         /\ ~IsOpen(ResolveHold(h, outcome))
<1>1. StateOf(outcome) \in ResolvedStates
  BY DEF StateOf, ResolvedStates
<1>2. StateOf(outcome) \in HoldStates /\ StateOf(outcome) \notin OpenStates
  BY <1>1 DEF HoldStates, ResolvedStates, OpenStates
<1>3. QED
  BY <1>2 DEF ResolveHold, Hold, IsOpen

LEMMA ExpireIfDueType ==
  ASSUME NEW h \in Hold, NEW now \in Nat
  PROVE  /\ ExpireIfDue(h, now) \in Hold
         /\ ExpireIfDue(h, now).txnId = h.txnId
         /\ ExpireIfDue(h, now).payerId = h.payerId
         /\ ExpireIfDue(h, now).payeeId = h.payeeId
         /\ ExpireIfDue(h, now).linked = h.linked
         /\ ExpireIfDue(h, now).attemptsUsed = h.attemptsUsed
         /\ ExpireIfDue(h, now).attemptBudget = h.attemptBudget
         /\ ExpireIfDue(h, now).expiresAt = h.expiresAt
         /\ ExpireIfDue(h, now).challenge = h.challenge
         /\ IsOpen(ExpireIfDue(h, now)) => ExpireIfDue(h, now) = h /\ now < h.expiresAt
  BY ResolveHoldType DEF ExpireIfDue, Due, Hold

LEMMA OpenHoldType ==
  ASSUME NEW pay \in Payments, NEW p \in Policies
  PROVE  /\ OpenHold(pay, p) \in Hold
         /\ IsOpen(OpenHold(pay, p))
<1>1. SelectChallenge(pay.context) \in ChallengeTypes
  BY DEF SelectChallenge, ChallengeTypes
<1>2. p.holdWindow \in Nat /\ p.attemptBudget \in Nat /\ pay.ts \in Nat
  BY InterceptorAssumption DEF Payments
<1>3. QED
  BY <1>1, <1>2 DEF OpenHold, Hold, IsOpen, Payments, HoldStates, OpenStates

LEMMA RegisterAttemptType ==
  ASSUME NEW h \in Hold, NEW pay \in Payments, Related(h, pay)
  PROVE  /\ RegisterAttempt(h, pay) \in Hold
         /\ RegisterAttempt(h, pay).txnId = h.txnId
         /\ RegisterAttempt(h, pay).payerId = h.payerId
         /\ RegisterAttempt(h, pay).payeeId = h.payeeId
         /\ RegisterAttempt(h, pay).expiresAt = h.expiresAt
         /\ RegisterAttempt(h, pay).challenge = h.challenge
         /\ RegisterAttempt(h, pay).attemptBudget = h.attemptBudget
         /\ RegisterAttempt(h, pay).linked = Append(h.linked, pay.txnId)
         /\ AttemptDisposition(h, pay) \in {"ESCALATED", "LINKED_TO_HOLD"}
         /\ IsOpen(RegisterAttempt(h, pay)) <=> AttemptDisposition(h, pay) = "LINKED_TO_HOLD"
         /\ IsOpen(RegisterAttempt(h, pay)) =>
              /\ RegisterAttempt(h, pay).attemptsUsed = h.attemptsUsed + 1
              /\ h.attemptsUsed + 1 <= h.attemptBudget
<1> DEFINE d == AttemptDisposition(h, pay)
           g == RegisterAttempt(h, pay)
<1>1. Append(h.linked, pay.txnId) \in Seq(TxnIds)
  BY DEF Hold, Payments
<1>2. d \in {"ESCALATED", "LINKED_TO_HOLD"}
  BY DEF AttemptDisposition
<1>3. IsOpen(h)
  BY DEF Related
<1>4. g = [h EXCEPT
             !.linked       = Append(h.linked, pay.txnId),
             !.attemptsUsed = IF pay.context.isNewDevice THEN h.attemptsUsed
                              ELSE h.attemptsUsed + 1,
             !.state        = IF d = "ESCALATED" THEN "ESCALATED_REVIEW" ELSE h.state]
  BY <1>2 DEF RegisterAttempt
<1>5. g \in Hold
  <2>1. (IF pay.context.isNewDevice THEN h.attemptsUsed ELSE h.attemptsUsed + 1) \in Nat
    BY DEF Hold
  <2>2. (IF d = "ESCALATED" THEN "ESCALATED_REVIEW" ELSE h.state) \in HoldStates
    BY DEF Hold, HoldStates, ResolvedStates
  <2> HIDE DEF d
  <2>3. QED
    BY <1>1, <1>4, <2>1, <2>2 DEF Hold
<1>6. /\ g.txnId = h.txnId /\ g.payerId = h.payerId /\ g.payeeId = h.payeeId
      /\ g.expiresAt = h.expiresAt /\ g.attemptBudget = h.attemptBudget
      /\ g.challenge = h.challenge
      /\ g.linked = Append(h.linked, pay.txnId)
      /\ g.state = IF d = "ESCALATED" THEN "ESCALATED_REVIEW" ELSE h.state
      /\ g.attemptsUsed = IF pay.context.isNewDevice THEN h.attemptsUsed
                           ELSE h.attemptsUsed + 1
  BY <1>4 DEF Hold
<1>7. IsOpen(g) <=> d = "LINKED_TO_HOLD"
  BY <1>2, <1>3, <1>6 DEF IsOpen, OpenStates
<1>8. d = "LINKED_TO_HOLD" => ~pay.context.isNewDevice /\ ~ExceedsBudget(h)
  BY DEF AttemptDisposition
<1>9. IsOpen(g) => g.attemptsUsed = h.attemptsUsed + 1 /\ h.attemptsUsed + 1 <= h.attemptBudget
  BY <1>6, <1>7, <1>8 DEF ExceedsBudget, Hold
<1>10. QED
  BY <1>2, <1>5, <1>6, <1>7, <1>9

-----------------------------------------------------------------------------
(* Lemmas on the store. *)

LEMMA AgedHoldsType ==
  ASSUME TypeOK, NEW ps, NEW now \in Times
  PROVE  LET aged == AgedHolds(ps, now) IN
         /\ DOMAIN aged = DOMAIN holds
         /\ \A id \in DOMAIN holds :
              /\ aged[id] \in Hold
              /\ aged[id].txnId = id
              /\ aged[id].payerId = holds[id].payerId
              /\ aged[id].payeeId = holds[id].payeeId
              /\ aged[id].linked = holds[id].linked
              /\ aged[id].attemptsUsed = holds[id].attemptsUsed
              /\ aged[id].attemptBudget = holds[id].attemptBudget
              /\ aged[id].expiresAt = holds[id].expiresAt
              /\ aged[id].challenge = holds[id].challenge
              /\ IsOpen(aged[id]) => aged[id] = holds[id]
<1> DEFINE aged == AgedHolds(ps, now)
<1>1. now \in Nat
  BY InterceptorAssumption
<1>2. DOMAIN aged = DOMAIN holds
  BY DEF AgedHolds
<1>3. ASSUME NEW id \in DOMAIN holds
      PROVE  aged[id] = holds[id] \/ aged[id] = ExpireIfDue(holds[id], now)
  BY DEF AgedHolds
<1>4. \A id \in DOMAIN holds : holds[id] \in Hold /\ holds[id].txnId = id
  BY DEF TypeOK
<1> HIDE DEF aged
<1>5. QED
  BY <1>1, <1>2, <1>3, <1>4, ExpireIfDueType DEF aged

LEMMA ResolvedType ==
  ASSUME NEW h \in Hold
  PROVE  Resolved(h) \in Entry
  BY DEF Resolved, Entry, Hold

LEMMA AgedTrailType ==
  ASSUME TypeOK, NEW ps, NEW now \in Times
  PROVE  /\ DOMAIN AgedTrail(ps, now) = DOMAIN holds
         /\ \A id \in DOMAIN holds : AgedTrail(ps, now)[id] \in Seq(Entry)
<1>1. DOMAIN AgedTrail(ps, now) = DOMAIN holds
  BY DEF AgedTrail, TypeOK
<1>2. ASSUME NEW id \in DOMAIN holds
      PROVE  AgedTrail(ps, now)[id] \in Seq(Entry)
  <2>1. Resolved(AgedHolds(ps, now)[id]) \in Entry
    BY AgedHoldsType, ResolvedType
  <2>2. trail[id] \in Seq(Entry) /\ id \in DOMAIN trail
    BY DEF TypeOK
  <2>3. \/ AgedTrail(ps, now)[id] = trail[id]
        \/ AgedTrail(ps, now)[id] = Append(trail[id], Resolved(AgedHolds(ps, now)[id]))
    BY <2>2 DEF AgedTrail
  <2>4. QED
    BY <2>1, <2>2, <2>3
<1>3. QED
  BY <1>1, <1>2

LEMMA IndexedType ==
  ASSUME TypeOK, NEW p \in Payers, NEW id \in TxnIds
  PROVE  LET ix == Indexed(p, id) IN
         /\ ix \in [Payers -> Seq(TxnIds)]
         /\ \A q \in Payers : \A i \in DOMAIN ix[q] :
              \/ ix[q][i] = id
              \/ i \in DOMAIN holdsByPayer[q] /\ ix[q][i] = holdsByPayer[q][i]
         /\ \A q \in Payers : \A i \in DOMAIN holdsByPayer[q] :
              i \in DOMAIN ix[q] /\ ix[q][i] = holdsByPayer[q][i]
         /\ \E i \in DOMAIN ix[p] : ix[p][i] = id
<1> DEFINE ix == Indexed(p, id)
<1>1. holdsByPayer \in [Payers -> Seq(TxnIds)]
  BY DEF TypeOK
<1>2. CASE Owns(p, id)
  <2>1. ix = holdsByPayer
    BY <1>1, <1>2 DEF Indexed
  <2>2. QED
    BY <1>1, <1>2, <2>1 DEF Owns
<1>3. CASE ~Owns(p, id)
  <2> DEFINE s == holdsByPayer[p]
  <2>1. s \in Seq(TxnIds)
    BY <1>1
  <2>2. ix = [holdsByPayer EXCEPT ![p] = Append(s, id)]
    BY <1>3 DEF Indexed
  <2>3. /\ Append(s, id) \in Seq(TxnIds)
        /\ DOMAIN s = 1..Len(s) /\ DOMAIN Append(s, id) = 1..(Len(s) + 1)
        /\ Len(s) \in Nat
        /\ \A i \in 1..Len(s) : Append(s, id)[i] = s[i]
        /\ Append(s, id)[Len(s) + 1] = id
    BY <2>1
  <2>4. ix[p] = Append(s, id) /\ \A q \in Payers : q # p => ix[q] = holdsByPayer[q]
    BY <1>1, <2>2
  <2>5. ix \in [Payers -> Seq(TxnIds)]
    BY <1>1, <2>2, <2>3
  <2> HIDE DEF ix
  <2>6. \E i \in DOMAIN ix[p] : ix[p][i] = id
    BY <2>3, <2>4
  <2>7. \A q \in Payers : \A i \in DOMAIN holdsByPayer[q] :
              i \in DOMAIN ix[q] /\ ix[q][i] = holdsByPayer[q][i]
    BY <2>3, <2>4
  <2>8. ASSUME NEW q \in Payers, NEW i \in DOMAIN ix[q]
        PROVE  \/ ix[q][i] = id
               \/ i \in DOMAIN holdsByPayer[q] /\ ix[q][i] = holdsByPayer[q][i]
    <3>1. CASE q # p
      BY <2>4, <3>1
    <3>2. CASE q = p
      <4>1. i \in 1..Len(s) \/ i = Len(s) + 1
        BY <2>3, <2>4, <3>2
      <4>2. QED
        BY <2>3, <2>4, <3>2, <4>1
    <3>3. QED
      BY <3>1, <3>2
  <2>9. QED
    BY <2>5, <2>6, <2>7, <2>8 DEF ix
<1>4. QED
  BY <1>2, <1>3

-----------------------------------------------------------------------------
(* Type correctness, one lemma per kind of step. *)

LEMMA InitType == Init => TypeOK
<1> SUFFICES ASSUME Init PROVE TypeOK
  OBVIOUS
<1>1. << >> \in Seq(TxnIds) /\ DOMAIN << >> = {}
  OBVIOUS
<1>2. DOMAIN holds = {} /\ DOMAIN trail = {}
  BY DEF Init
<1>3. QED
  BY <1>1, <1>2 DEF Init, TypeOK

LEMMA UnheldType ==
  ASSUME TypeOK, NEW pay \in Payments, NEW chosen \in Actions,
         AuthorizeUnheld(pay, chosen, AgedHolds({pay.payerId}, pay.ts),
                         AgedTrail({pay.payerId}, pay.ts)),
         submitted' = submitted \cup {pay.txnId}, served' = served + 1,
         UNCHANGED << policy, model, recovery >>
  PROVE  TypeOK'
<1> DEFINE t == pay.txnId
           p == pay.payerId
           aged == AgedHolds({p}, pay.ts)
           agedTrail == AgedTrail({p}, pay.ts)
           hold == OpenHold(pay, policy)
<1>1. t \in TxnIds /\ p \in Payers /\ pay.ts \in Times /\ policy \in Policies
  BY DEF Payments, TypeOK
<1>2. /\ DOMAIN aged = DOMAIN holds
      /\ \A id \in DOMAIN holds : aged[id] \in Hold /\ aged[id].txnId = id
  BY <1>1, AgedHoldsType
<1>3. /\ DOMAIN agedTrail = DOMAIN holds
      /\ \A id \in DOMAIN holds : agedTrail[id] \in Seq(Entry)
  BY <1>1, AgedTrailType
<1>4. submitted' \subseteq TxnIds /\ served' \in Nat /\ DOMAIN holds \subseteq submitted'
      /\ policy' \in Policies /\ model' \in Models /\ t \in submitted'
  BY <1>1 DEF TypeOK
<1>5. CASE chosen = "STEP_UP"
  <2> DEFINE old == IF t \in DOMAIN agedTrail THEN agedTrail[t] ELSE << >>
  <2>1. hold \in Hold /\ hold.txnId = t
    BY <1>1, OpenHoldType DEF OpenHold
  <2>2. Opened(hold) \in Entry
    BY <2>1 DEF Opened, Entry, Hold
  <2>3. old \in Seq(Entry)
    <3>1. << >> \in Seq(Entry)
      OBVIOUS
    <3>2. t \in DOMAIN agedTrail => agedTrail[t] \in Seq(Entry)
      BY <1>3
    <3> HIDE DEF agedTrail
    <3>3. QED
      BY <3>1, <3>2
  <2>4. Append(old, Opened(hold)) \in Seq(Entry)
    BY <2>2, <2>3
  <2>5. /\ holds' = Put(aged, t, hold)
        /\ trail' = Put(agedTrail, t, Append(old, Opened(hold)))
        /\ holdsByPayer' = Indexed(p, t)
    BY <1>5 DEF AuthorizeUnheld
  <2> HIDE DEF aged, agedTrail, hold, old
  <2>6. /\ DOMAIN holds' = DOMAIN holds \cup {t}
        /\ \A id \in DOMAIN holds' : holds'[id] \in Hold /\ holds'[id].txnId = id
    BY <1>2, <2>1, <2>5 DEF Put
  <2>7. /\ DOMAIN trail' = DOMAIN holds'
        /\ \A id \in DOMAIN trail' : trail'[id] \in Seq(Entry)
    BY <1>3, <2>4, <2>5, <2>6 DEF Put
  <2>8. /\ holdsByPayer' \in [Payers -> Seq(TxnIds)]
        /\ \A q \in Payers : \A i \in DOMAIN holdsByPayer'[q] :
             holdsByPayer'[q][i] = t \/ holdsByPayer'[q][i] \in DOMAIN holds
    <3>1. /\ Indexed(p, t) \in [Payers -> Seq(TxnIds)]
          /\ \A q \in Payers : \A i \in DOMAIN Indexed(p, t)[q] :
               \/ Indexed(p, t)[q][i] = t
               \/ i \in DOMAIN holdsByPayer[q] /\ Indexed(p, t)[q][i] = holdsByPayer[q][i]
      BY <1>1, IndexedType
    <3>2. QED
      BY <2>5, <3>1 DEF TypeOK
  <2>9. QED
    BY <1>4, <2>6, <2>7, <2>8 DEF TypeOK
<1>6. CASE chosen # "STEP_UP"
  <2>1. holds' = aged /\ trail' = agedTrail /\ holdsByPayer' = holdsByPayer
    BY <1>6 DEF AuthorizeUnheld
  <2> HIDE DEF aged, agedTrail
  <2>2. QED
    BY <1>2, <1>3, <1>4, <2>1 DEF TypeOK
<1>7. QED
  BY <1>5, <1>6

LEMMA HeldType ==
  ASSUME TypeOK, NEW pay \in Payments, NEW chosen \in Actions,
         NEW i \in DOMAIN holdsByPayer[pay.payerId],
         HoldsPayee(pay.payerId, i, pay.payeeId, AgedHolds({pay.payerId}, pay.ts)),
         AuthorizeHeld(pay, chosen, holdsByPayer[pay.payerId][i],
                       AgedHolds({pay.payerId}, pay.ts),
                       AgedTrail({pay.payerId}, pay.ts)),
         submitted' = submitted \cup {pay.txnId}, served' = served + 1,
         UNCHANGED << policy, model, recovery >>
  PROVE  TypeOK'
<1> DEFINE p == pay.payerId
           id == holdsByPayer[p][i]
           aged == AgedHolds({p}, pay.ts)
           agedTrail == AgedTrail({p}, pay.ts)
           hold == RegisterAttempt(aged[id], pay)
           disp == AttemptDisposition(aged[id], pay)
<1>1. pay.txnId \in TxnIds /\ p \in Payers /\ pay.ts \in Times
  BY DEF Payments
<1>2. id \in DOMAIN holds /\ id \in TxnIds
  BY <1>1 DEF TypeOK
<1>3. /\ DOMAIN aged = DOMAIN holds
      /\ \A x \in DOMAIN holds : aged[x] \in Hold /\ aged[x].txnId = x
  BY <1>1, AgedHoldsType
<1>4. /\ DOMAIN agedTrail = DOMAIN holds
      /\ \A x \in DOMAIN holds : agedTrail[x] \in Seq(Entry)
  BY <1>1, AgedTrailType
<1>5. Related(aged[id], pay)
  BY DEF HoldsPayee, Related
<1>6. hold \in Hold /\ hold.txnId = id /\ disp \in {"ESCALATED", "LINKED_TO_HOLD"}
  <2> HIDE DEF aged
  <2>1. QED
    BY <1>2, <1>3, <1>5, RegisterAttemptType
<1>7. Linked(pay.txnId, disp) \in Entry /\ Resolved(hold) \in Entry
  <2> HIDE DEF hold, disp
  <2>1. QED
    BY <1>1, <1>6, ResolvedType DEF Linked, Entry, Dispositions
<1> DEFINE link == Append(agedTrail[id], Linked(pay.txnId, disp))
           new == IF disp = "ESCALATED" THEN Append(link, Resolved(hold)) ELSE link
<1>8. /\ holds' = [aged EXCEPT ![id] = hold]
      /\ trail' = [agedTrail EXCEPT ![id] = new]
      /\ holdsByPayer' = Indexed(hold.payerId, id)
  BY DEF AuthorizeHeld
<1>9. new \in Seq(Entry)
  <2> HIDE DEF hold, disp, agedTrail
  <2>1. link \in Seq(Entry)
    BY <1>2, <1>4, <1>7
  <2>2. QED
    BY <1>7, <2>1
<1> HIDE DEF aged, agedTrail, hold, disp, new, id
<1>10. /\ DOMAIN holds' = DOMAIN holds
       /\ \A x \in DOMAIN holds' : holds'[x] \in Hold /\ holds'[x].txnId = x
  BY <1>2, <1>3, <1>6, <1>8
<1>11. /\ DOMAIN trail' = DOMAIN holds'
       /\ \A x \in DOMAIN trail' : trail'[x] \in Seq(Entry)
  BY <1>2, <1>4, <1>8, <1>9, <1>10
<1>12. hold.payerId \in Payers
  BY <1>6 DEF Hold
<1>13. /\ holdsByPayer' \in [Payers -> Seq(TxnIds)]
       /\ \A q \in Payers : \A j \in DOMAIN holdsByPayer'[q] :
             holdsByPayer'[q][j] \in DOMAIN holds
  <2> DEFINE ix == Indexed(hold.payerId, id)
  <2>1. /\ ix \in [Payers -> Seq(TxnIds)]
        /\ \A q \in Payers : \A j \in DOMAIN ix[q] :
             \/ ix[q][j] = id
             \/ j \in DOMAIN holdsByPayer[q] /\ ix[q][j] = holdsByPayer[q][j]
    BY <1>2, <1>12, IndexedType
  <2>2. QED
    BY <1>2, <1>8, <2>1 DEF TypeOK
<1>14. QED
  BY <1>1, <1>10, <1>11, <1>13 DEF TypeOK

LEMMA ResolveType ==
  ASSUME TypeOK, NEW id \in TxnIds, NEW outcome \in Outcomes,
         Resolve(id, outcome)
  PROVE  TypeOK'
<1> DEFINE hold == ResolveHold(holds[id], outcome)
<1>1. id \in DOMAIN holds /\ holds[id] \in Hold /\ holds[id].txnId = id
  BY DEF Resolve, TypeOK
<1>2. hold \in Hold /\ hold.txnId = id
  BY <1>1, ResolveHoldType
<1>3. /\ holds' = [holds EXCEPT ![id] = hold]
      /\ trail' = [trail EXCEPT ![id] = Append(@, Resolved(hold))]
      /\ holdsByPayer' = Indexed(hold.payerId, id)
      /\ UNCHANGED << policy, model, submitted, served >>
  BY DEF Resolve, historyVars
<1> HIDE DEF hold
<1>4. Resolved(hold) \in Entry /\ hold.payerId \in Payers
  BY <1>2, ResolvedType DEF Hold
<1>5. Append(trail[id], Resolved(hold)) \in Seq(Entry)
  BY <1>1, <1>4 DEF TypeOK
<1>6. /\ holdsByPayer' \in [Payers -> Seq(TxnIds)]
      /\ \A q \in Payers : \A j \in DOMAIN holdsByPayer'[q] :
            holdsByPayer'[q][j] \in DOMAIN holds
  <2> DEFINE ix == Indexed(hold.payerId, id)
  <2>1. /\ ix \in [Payers -> Seq(TxnIds)]
        /\ \A q \in Payers : \A j \in DOMAIN ix[q] :
             \/ ix[q][j] = id
             \/ j \in DOMAIN holdsByPayer[q] /\ ix[q][j] = holdsByPayer[q][j]
    BY <1>4, IndexedType
  <2>2. QED
    BY <1>1, <1>3, <2>1 DEF TypeOK
<1>7. /\ DOMAIN holds' = DOMAIN holds
      /\ \A x \in DOMAIN holds' : holds'[x] \in Hold /\ holds'[x].txnId = x
  BY <1>1, <1>2, <1>3 DEF TypeOK
<1>8. /\ DOMAIN trail' = DOMAIN holds'
      /\ \A x \in DOMAIN trail' : trail'[x] \in Seq(Entry)
  BY <1>3, <1>5, <1>7 DEF TypeOK
<1>9. QED
  BY <1>3, <1>6, <1>7, <1>8 DEF TypeOK

LEMMA SweepType ==
  ASSUME TypeOK, NEW now \in Times, NEW ps \in SUBSET Payers, SweepExpiries(now, ps)
  PROVE  TypeOK'
<1>1. /\ DOMAIN AgedHolds(ps, now) = DOMAIN holds
      /\ \A x \in DOMAIN holds : /\ AgedHolds(ps, now)[x] \in Hold
                                 /\ AgedHolds(ps, now)[x].txnId = x
  BY AgedHoldsType
<1>2. /\ DOMAIN AgedTrail(ps, now) = DOMAIN holds
      /\ \A x \in DOMAIN holds : AgedTrail(ps, now)[x] \in Seq(Entry)
  BY AgedTrailType
<1>3. /\ holds' = AgedHolds(ps, now) /\ trail' = AgedTrail(ps, now)
      /\ UNCHANGED << holdsByPayer, policy, model, submitted, served >>
  BY DEF SweepExpiries, historyVars
<1>4. QED
  BY <1>1, <1>2, <1>3 DEF TypeOK

LEMMA NextType == TypeOK /\ [Next]_vars => TypeOK'
<1> SUFFICES ASSUME TypeOK, [Next]_vars PROVE TypeOK'
  OBVIOUS
<1>1. CASE \E pay \in Payments, chosen \in Actions : Authorize(pay, chosen)
  <2>1. PICK pay \in Payments, chosen \in Actions : Authorize(pay, chosen)
    BY <1>1
  <2>2. submitted' = submitted \cup {pay.txnId} /\ served' = served + 1
        /\ UNCHANGED << policy, model, recovery >>
    BY <2>1 DEF Authorize
  <2>3. CASE AuthorizeUnheld(pay, chosen, AgedHolds({pay.payerId}, pay.ts),
                             AgedTrail({pay.payerId}, pay.ts))
    BY <2>2, <2>3, UnheldType
  <2>4. CASE \E i \in DOMAIN holdsByPayer[pay.payerId] :
               /\ HoldsPayee(pay.payerId, i, pay.payeeId, AgedHolds({pay.payerId}, pay.ts))
               /\ AuthorizeHeld(pay, chosen, holdsByPayer[pay.payerId][i],
                                AgedHolds({pay.payerId}, pay.ts),
                                AgedTrail({pay.payerId}, pay.ts))
    BY <2>2, <2>4, HeldType
  <2>5. QED
    BY <2>1, <2>3, <2>4 DEF Authorize
<1>2. CASE \E id \in TxnIds, outcome \in Outcomes : Resolve(id, outcome)
  BY <1>2, ResolveType
<1>3. CASE \E now \in Times, ps \in SUBSET Payers : SweepExpiries(now, ps)
  BY <1>3, SweepType
<1>4. CASE \E next \in Policies : SetPolicy(next)
  BY <1>4 DEF SetPolicy, TypeOK, storeVars, historyVars
<1>5. CASE \E next \in Models : SetModel(next)
  BY <1>5 DEF SetModel, TypeOK, storeVars, historyVars
<1>6. CASE UNCHANGED vars
  BY <1>6 DEF vars, TypeOK, storeVars, historyVars
<1>7. QED
  BY <1>1, <1>2, <1>3, <1>4, <1>5, <1>6 DEF Next

(* Every reachable record has the shape the code gives it, every hold sits *)
(* under its own id and has a ledger trail, and every index entry of       *)
(* holdsByPayer names a hold that exists.                                  *)
THEOREM TypeCorrect == Spec => []TypeOK
  BY InitType, NextType, PTL DEF Spec

-----------------------------------------------------------------------------
(* What each kind of step does to the hold table, in the form the safety   *)
(* proofs use.                                                             *)

(* holds are only aged: those of the payers ps, at time now. *)
AgeStep(ps, now) ==
  /\ holds' = AgedHolds(ps, now)
  /\ trail' = AgedTrail(ps, now)
  /\ holdsByPayer' = holdsByPayer

(* After aging, a payment to an unheld beneficiary opens a hold. *)
OpenStep(pay) ==
  LET p    == pay.payerId
      aged == AgedHolds({p}, pay.ts)
      tr   == AgedTrail({p}, pay.ts)
      hold == OpenHold(pay, policy)
  IN  /\ \A i \in DOMAIN holdsByPayer[p] : ~HoldsPayee(p, i, pay.payeeId, aged)
      /\ holds' = Put(aged, pay.txnId, hold)
      /\ trail' = Put(tr, pay.txnId,
                     Append(IF pay.txnId \in DOMAIN tr THEN tr[pay.txnId] ELSE << >>,
                            Opened(hold)))
      /\ holdsByPayer' = Indexed(p, pay.txnId)
      /\ FreshIds => pay.txnId \notin submitted

(* After aging, an open hold of the payer takes the attempt. *)
AttemptStep(pay, id) ==
  LET p    == pay.payerId
      aged == AgedHolds({p}, pay.ts)
      tr   == AgedTrail({p}, pay.ts)
      hold == RegisterAttempt(aged[id], pay)
      disp == AttemptDisposition(aged[id], pay)
      link == Append(tr[id], Linked(pay.txnId, disp))
  IN  /\ Owns(p, id)
      /\ Related(aged[id], pay)
      /\ holds' = [aged EXCEPT ![id] = hold]
      /\ trail' = [tr EXCEPT ![id] =
                     IF disp = "ESCALATED" THEN Append(link, Resolved(hold)) ELSE link]
      /\ holdsByPayer' = Indexed(hold.payerId, id)

ResolveStep(id, outcome) ==
  LET hold == ResolveHold(holds[id], outcome)
  IN  /\ id \in DOMAIN holds
      /\ IsOpen(holds[id])
      /\ holds' = [holds EXCEPT ![id] = hold]
      /\ trail' = [trail EXCEPT ![id] = Append(@, Resolved(hold))]
      /\ holdsByPayer' = Indexed(hold.payerId, id)

LEMMA StepShape ==
  ASSUME [Next]_vars
  PROVE  \/ \E ps \in SUBSET Payers, now \in Times : AgeStep(ps, now)
         \/ \E pay \in Payments : OpenStep(pay)
         \/ \E pay \in Payments : \E i \in DOMAIN holdsByPayer[pay.payerId] :
               AttemptStep(pay, holdsByPayer[pay.payerId][i])
         \/ \E id \in TxnIds, outcome \in Outcomes : ResolveStep(id, outcome)
         \/ UNCHANGED storeVars
<1>1. CASE \E pay \in Payments, chosen \in Actions : Authorize(pay, chosen)
  <2>1. PICK pay \in Payments, chosen \in Actions : Authorize(pay, chosen)
    BY <1>1
  <2> DEFINE p == pay.payerId
             aged == AgedHolds({p}, pay.ts)
             tr == AgedTrail({p}, pay.ts)
  <2>2. CASE /\ \A i \in DOMAIN holdsByPayer[p] : ~HoldsPayee(p, i, pay.payeeId, aged)
             /\ AuthorizeUnheld(pay, chosen, aged, tr)
    <3>1. CASE chosen = "STEP_UP"
      <4>1. FreshIds => pay.txnId \notin submitted
        BY <2>1 DEF Authorize
      <4>2. OpenStep(pay)
        BY <2>2, <3>1, <4>1 DEF AuthorizeUnheld, OpenStep
      <4>3. QED
        BY <4>2
    <3>2. CASE chosen # "STEP_UP"
      <4>1. AgeStep({p}, pay.ts)
        BY <2>2, <3>2 DEF AuthorizeUnheld, AgeStep
      <4>2. {p} \in SUBSET Payers /\ pay.ts \in Times
        BY DEF Payments
      <4>3. QED
        BY <4>1, <4>2
    <3>3. QED
      BY <3>1, <3>2
  <2>3. CASE \E i \in DOMAIN holdsByPayer[p] :
               /\ HoldsPayee(p, i, pay.payeeId, aged)
               /\ AuthorizeHeld(pay, chosen, holdsByPayer[p][i], aged, tr)
    <3>1. PICK i \in DOMAIN holdsByPayer[p] :
               /\ HoldsPayee(p, i, pay.payeeId, aged)
               /\ AuthorizeHeld(pay, chosen, holdsByPayer[p][i], aged, tr)
      BY <2>3
    <3>2. Owns(p, holdsByPayer[p][i]) /\ Related(aged[holdsByPayer[p][i]], pay)
      BY <3>1 DEF Owns, Related, HoldsPayee
    <3>3. AttemptStep(pay, holdsByPayer[p][i])
      BY <3>1, <3>2 DEF AttemptStep, AuthorizeHeld
    <3>4. QED
      BY <3>3
  <2>4. QED
    BY <2>1, <2>2, <2>3 DEF Authorize
<1>2. CASE \E id \in TxnIds, outcome \in Outcomes : Resolve(id, outcome)
  BY <1>2 DEF Resolve, ResolveStep
<1>3. CASE \E now \in Times, ps \in SUBSET Payers : SweepExpiries(now, ps)
  BY <1>3 DEF SweepExpiries, AgeStep
<1>4. CASE \E next \in Policies : SetPolicy(next)
  BY <1>4 DEF SetPolicy
<1>5. CASE \E next \in Models : SetModel(next)
  BY <1>5 DEF SetModel
<1>6. CASE UNCHANGED vars
  BY <1>6 DEF vars
<1>7. QED
  BY <1>1, <1>2, <1>3, <1>4, <1>5, <1>6 DEF Next

(* The index leads to existing holds only. *)
LEMMA AttemptIsOnHold ==
  ASSUME TypeOK,
         \E pay \in Payments : \E i \in DOMAIN holdsByPayer[pay.payerId] :
            AttemptStep(pay, holdsByPayer[pay.payerId][i])
  PROVE  \E pay \in Payments, id \in DOMAIN holds : AttemptStep(pay, id)
<1>1. PICK pay \in Payments : \E i \in DOMAIN holdsByPayer[pay.payerId] :
             AttemptStep(pay, holdsByPayer[pay.payerId][i])
  OBVIOUS
<1>2. \A i \in DOMAIN holdsByPayer[pay.payerId] : holdsByPayer[pay.payerId][i] \in DOMAIN holds
  BY DEF TypeOK, Payments
<1>3. QED
  BY <1>1, <1>2

-----------------------------------------------------------------------------
(* At most one open hold per payer and beneficiary.  By itself the         *)
(* property is not inductive: a hold missing from its payer's index would  *)
(* not be found, and a second one would be opened.  With HoldsAreIndexed   *)
(* it is.                                                                  *)

LEMMA InitOneOpenHold == Init => HoldsAreIndexed /\ AtMostOneOpenHold
  BY DEF Init, HoldsAreIndexed, AtMostOneOpenHold

LEMMA NextIndexed ==
  ASSUME TypeOK, HoldsAreIndexed, [Next]_vars
  PROVE  HoldsAreIndexed'
<1>1. CASE \E ps \in SUBSET Payers, now \in Times : AgeStep(ps, now)
  <2>1. PICK ps \in SUBSET Payers, now \in Times : AgeStep(ps, now)
    BY <1>1
  <2>2. /\ DOMAIN holds' = DOMAIN holds /\ holdsByPayer' = holdsByPayer
        /\ \A id \in DOMAIN holds : holds'[id].payerId = holds[id].payerId
    BY <2>1, AgedHoldsType DEF AgeStep
  <2>3. QED
    BY <2>2 DEF HoldsAreIndexed, Owns
<1>2. CASE \E pay \in Payments : OpenStep(pay)
  <2>1. PICK pay \in Payments : OpenStep(pay)
    BY <1>2
  <2> DEFINE p == pay.payerId
             t == pay.txnId
             aged == AgedHolds({p}, pay.ts)
             ix == Indexed(p, t)
  <2>2. p \in Payers /\ t \in TxnIds /\ pay.ts \in Times
    BY DEF Payments
  <2>3. /\ \A q \in Payers : \A i \in DOMAIN holdsByPayer[q] :
              i \in DOMAIN ix[q] /\ ix[q][i] = holdsByPayer[q][i]
        /\ \E i \in DOMAIN ix[p] : ix[p][i] = t
    BY <2>2, IndexedType
  <2>4. /\ DOMAIN aged = DOMAIN holds
        /\ \A id \in DOMAIN holds : aged[id] \in Hold /\ aged[id].payerId = holds[id].payerId
    BY <2>2, AgedHoldsType
  <2>5. holds' = Put(aged, t, OpenHold(pay, policy)) /\ holdsByPayer' = ix
    BY <2>1 DEF OpenStep
  <2>6. OpenHold(pay, policy).payerId = p
    BY DEF OpenHold
  <2> HIDE DEF aged, ix
  <2>7. Owns(p, t)'
    BY <2>3, <2>5 DEF Owns
  <2>8. ASSUME NEW x \in DOMAIN holds' PROVE Owns(holds[x].payerId, x)'
    <3>1. CASE x = t
      <4>1. holds'[x].payerId = p
        BY <2>5, <2>6, <3>1 DEF Put
      <4>2. QED
        BY <4>1, <3>1, <2>7
    <3>2. CASE x # t
      <4>1. x \in DOMAIN holds /\ holds'[x].payerId = holds[x].payerId
        BY <2>4, <2>5, <3>2, <2>8 DEF Put
      <4>2. holds[x].payerId \in Payers
        BY <4>1, <2>4 DEF Hold
      <4>3. Owns(holds[x].payerId, x)
        BY <4>1 DEF HoldsAreIndexed
      <4>4. Owns(holds[x].payerId, x) => (\E i \in DOMAIN ix[holds[x].payerId] : ix[holds[x].payerId][i] = x)
        BY <4>2, <2>3 DEF Owns
      <4>5. QED
        BY <4>1, <4>3, <4>4, <2>5 DEF Owns
    <3>3. QED
      BY <3>1, <3>2
  <2>9. QED
    BY <2>8 DEF HoldsAreIndexed
<1>3. CASE \E pay \in Payments : \E i \in DOMAIN holdsByPayer[pay.payerId] :
               AttemptStep(pay, holdsByPayer[pay.payerId][i])
  <2>1. PICK pay \in Payments, id \in DOMAIN holds : AttemptStep(pay, id)
    BY <1>3, AttemptIsOnHold
  <2> DEFINE aged == AgedHolds({pay.payerId}, pay.ts)
             hold == RegisterAttempt(aged[id], pay)
             ix == Indexed(hold.payerId, id)
  <2>2. pay.ts \in Times /\ id \in TxnIds
    BY DEF Payments, TypeOK
  <2>3. /\ DOMAIN aged = DOMAIN holds
        /\ \A x \in DOMAIN holds : aged[x] \in Hold /\ aged[x].payerId = holds[x].payerId
    BY <2>2, AgedHoldsType
  <2>4. hold \in Hold /\ hold.payerId = holds[id].payerId
    <3>1. Related(aged[id], pay)
      BY <2>1 DEF AttemptStep
    <3> HIDE DEF aged
    <3>2. QED
      BY <2>3, <3>1, RegisterAttemptType
  <2>5. holds' = [aged EXCEPT ![id] = hold] /\ holdsByPayer' = ix
    BY <2>1 DEF AttemptStep
  <2> HIDE DEF aged, hold
  <2>6. hold.payerId \in Payers
    BY <2>4 DEF Hold
  <2>7. /\ \A q \in Payers : \A i \in DOMAIN holdsByPayer[q] :
              i \in DOMAIN ix[q] /\ ix[q][i] = holdsByPayer[q][i]
    BY <2>2, <2>6, IndexedType
  <2> HIDE DEF ix
  <2>8. ASSUME NEW x \in DOMAIN holds' PROVE Owns(holds[x].payerId, x)'
    <3>1. x \in DOMAIN holds /\ holds'[x].payerId = holds[x].payerId
      BY <2>3, <2>4, <2>5, <2>8
    <3>2. holds[x].payerId \in Payers
      BY <3>1, <2>3, <2>4 DEF Hold
    <3>3. Owns(holds[x].payerId, x)
      BY <3>1 DEF HoldsAreIndexed
    <3>4. \E i \in DOMAIN ix[holds[x].payerId] : ix[holds[x].payerId][i] = x
      BY <3>2, <3>3, <2>7 DEF Owns
    <3>5. QED
      BY <3>1, <3>4, <2>5 DEF Owns
  <2>9. QED
    BY <2>8 DEF HoldsAreIndexed
<1>4. CASE \E id \in TxnIds, outcome \in Outcomes : ResolveStep(id, outcome)
  <2>1. PICK id \in TxnIds, outcome \in Outcomes : ResolveStep(id, outcome)
    BY <1>4
  <2> DEFINE hold == ResolveHold(holds[id], outcome)
             ix == Indexed(hold.payerId, id)
  <2>2. id \in DOMAIN holds /\ \A x \in DOMAIN holds : holds[x] \in Hold
    BY <2>1 DEF TypeOK, ResolveStep
  <2>3. hold \in Hold /\ hold.payerId = holds[id].payerId
    BY <2>2, ResolveHoldType
  <2>4. holds' = [holds EXCEPT ![id] = hold] /\ holdsByPayer' = ix
    BY <2>1 DEF ResolveStep
  <2> HIDE DEF hold
  <2>5. hold.payerId \in Payers
    BY <2>3 DEF Hold
  <2>6. \A q \in Payers : \A i \in DOMAIN holdsByPayer[q] :
          i \in DOMAIN ix[q] /\ ix[q][i] = holdsByPayer[q][i]
    BY <2>5, IndexedType
  <2> HIDE DEF ix
  <2>7. ASSUME NEW x \in DOMAIN holds' PROVE Owns(holds[x].payerId, x)'
    <3>1. x \in DOMAIN holds /\ holds'[x].payerId = holds[x].payerId
      BY <2>2, <2>3, <2>4, <2>7
    <3>2. holds[x].payerId \in Payers
      BY <3>1, <2>2, <2>3 DEF Hold
    <3>3. Owns(holds[x].payerId, x)
      BY <3>1 DEF HoldsAreIndexed
    <3>4. \E i \in DOMAIN ix[holds[x].payerId] : ix[holds[x].payerId][i] = x
      BY <3>2, <3>3, <2>6 DEF Owns
    <3>5. QED
      BY <3>1, <3>4, <2>4 DEF Owns
  <2>8. QED
    BY <2>7 DEF HoldsAreIndexed
<1>5. CASE UNCHANGED storeVars
  BY <1>5 DEF storeVars, HoldsAreIndexed, Owns
<1>6. QED
  BY <1>1, <1>2, <1>3, <1>4, <1>5, StepShape


LEMMA NextOneOpenHold ==
  ASSUME TypeOK, HoldsAreIndexed, AtMostOneOpenHold, [Next]_vars
  PROVE  AtMostOneOpenHold'
<1>1. CASE \E ps \in SUBSET Payers, now \in Times : AgeStep(ps, now)
  <2>1. PICK ps \in SUBSET Payers, now \in Times : AgeStep(ps, now)
    BY <1>1
  <2>2. /\ DOMAIN holds' = DOMAIN holds
        /\ \A id \in DOMAIN holds : /\ SamePair(holds'[id], holds[id])
                                    /\ IsOpen(holds'[id]) => IsOpen(holds[id])
    BY <2>1, AgedHoldsType DEF AgeStep, SamePair
  <2>3. QED
    BY <2>2 DEF AtMostOneOpenHold, SamePair
<1>2. CASE \E pay \in Payments : OpenStep(pay)
  <2>1. PICK pay \in Payments : OpenStep(pay)
    BY <1>2
  <2> DEFINE p == pay.payerId
             t == pay.txnId
             aged == AgedHolds({p}, pay.ts)
             hold == OpenHold(pay, policy)
  <2>2. /\ DOMAIN aged = DOMAIN holds
        /\ \A id \in DOMAIN holds : /\ SamePair(aged[id], holds[id])
                                    /\ IsOpen(aged[id]) => IsOpen(holds[id])
    <3>1. pay.ts \in Times
      BY DEF Payments
    <3>2. QED
      BY <3>1, AgedHoldsType DEF SamePair
  <2>3. holds' = Put(aged, t, hold)
    BY <2>1 DEF OpenStep
  <2>4. ASSUME NEW id \in DOMAIN holds, SamePair(aged[id], hold) PROVE ~IsOpen(aged[id])
    <3>1. holds[id].payerId = p /\ aged[id].payeeId = pay.payeeId
      BY <2>2, <2>4 DEF SamePair, OpenHold
    <3>2. PICK i \in DOMAIN holdsByPayer[p] : holdsByPayer[p][i] = id
      BY <3>1 DEF HoldsAreIndexed, Owns
    <3>3. ~HoldsPayee(p, i, pay.payeeId, aged)
      BY <2>1 DEF OpenStep
    <3>4. QED
      BY <3>1, <3>2, <3>3 DEF HoldsPayee
  <2> HIDE DEF aged, hold
  <2>5. ASSUME NEW a \in DOMAIN holds', NEW b \in DOMAIN holds',
               IsOpen(holds'[a]), IsOpen(holds'[b]), SamePair(holds'[a], holds'[b])
        PROVE  a = b
    <3>1. \A x \in DOMAIN holds' : IF x = t THEN holds'[x] = hold
                                   ELSE x \in DOMAIN holds /\ holds'[x] = aged[x]
      BY <2>2, <2>3 DEF Put
    <3>2. CASE a = t /\ b = t
      BY <3>2
    <3>3. CASE a = t /\ b # t
      BY <2>4, <2>5, <3>1, <3>3 DEF SamePair
    <3>4. CASE a # t /\ b = t
      BY <2>4, <2>5, <3>1, <3>4
    <3>5. CASE a # t /\ b # t
      BY <2>2, <2>5, <3>1, <3>5 DEF SamePair, AtMostOneOpenHold
    <3>6. QED
      BY <3>2, <3>3, <3>4, <3>5
  <2>6. QED
    BY <2>5 DEF AtMostOneOpenHold, SamePair, IsOpen
<1>3. CASE \E pay \in Payments : \E i \in DOMAIN holdsByPayer[pay.payerId] :
               AttemptStep(pay, holdsByPayer[pay.payerId][i])
  <2>1. PICK pay \in Payments, id \in DOMAIN holds : AttemptStep(pay, id)
    BY <1>3, AttemptIsOnHold
  <2> DEFINE aged == AgedHolds({pay.payerId}, pay.ts)
             hold == RegisterAttempt(aged[id], pay)
  <2>2. pay.ts \in Times
    BY DEF Payments
  <2>3. /\ DOMAIN aged = DOMAIN holds
        /\ \A x \in DOMAIN holds : /\ aged[x] \in Hold
                                   /\ SamePair(aged[x], holds[x])
                                   /\ IsOpen(aged[x]) => IsOpen(holds[x])
    BY <2>2, AgedHoldsType DEF SamePair
  <2>4. Related(aged[id], pay)
    BY <2>1 DEF AttemptStep
  <2>5. SamePair(hold, aged[id]) /\ IsOpen(aged[id])
    <3> HIDE DEF aged
    <3>1. IsOpen(aged[id])
      BY <2>4 DEF Related
    <3>2. QED
      BY <2>3, <2>4, <3>1, RegisterAttemptType DEF SamePair
  <2>6. holds' = [aged EXCEPT ![id] = hold]
    BY <2>1 DEF AttemptStep
  <2> HIDE DEF aged, hold
  <2>7. /\ DOMAIN holds' = DOMAIN holds
        /\ \A x \in DOMAIN holds : /\ SamePair(holds'[x], holds[x])
                                   /\ IsOpen(holds'[x]) => IsOpen(holds[x])
    BY <2>3, <2>5, <2>6 DEF SamePair
  <2>8. QED
    BY <2>7 DEF AtMostOneOpenHold, SamePair
<1>4. CASE \E id \in TxnIds, outcome \in Outcomes : ResolveStep(id, outcome)
  <2>1. PICK id \in TxnIds, outcome \in Outcomes : ResolveStep(id, outcome)
    BY <1>4
  <2> DEFINE hold == ResolveHold(holds[id], outcome)
  <2>2. id \in DOMAIN holds /\ holds[id] \in Hold
    BY <2>1 DEF TypeOK, ResolveStep
  <2>3. SamePair(hold, holds[id]) /\ ~IsOpen(hold)
    BY <2>2, ResolveHoldType DEF SamePair
  <2>4. holds' = [holds EXCEPT ![id] = hold]
    BY <2>1 DEF ResolveStep
  <2> HIDE DEF hold
  <2>5. /\ DOMAIN holds' = DOMAIN holds
        /\ \A x \in DOMAIN holds : /\ SamePair(holds'[x], holds[x])
                                   /\ IsOpen(holds'[x]) => IsOpen(holds[x])
    BY <2>3, <2>4 DEF SamePair
  <2>6. QED
    BY <2>5 DEF AtMostOneOpenHold, SamePair
<1>5. CASE UNCHANGED storeVars
  BY <1>5 DEF storeVars, AtMostOneOpenHold, SamePair, IsOpen
<1>6. QED
  BY <1>1, <1>2, <1>3, <1>4, <1>5, StepShape

(* Every hold is in the index of the payer it names, for any number of     *)
(* payers, payments and policies, and whether or not ids are reused.       *)
THEOREM IndexIsComplete == Spec => []HoldsAreIndexed
<1>1. TypeOK /\ HoldsAreIndexed /\ [Next]_vars => HoldsAreIndexed'
  BY NextIndexed
<1>2. QED
  BY <1>1, InitOneOpenHold, TypeCorrect, PTL DEF Spec

(* A payer never has two open holds towards one beneficiary, whatever the  *)
(* interleaving of payments, answers, sweeps and policy changes, and       *)
(* whether or not the client reuses transaction ids.                       *)
THEOREM OneOpenHold == Spec => []AtMostOneOpenHold
<1>1. TypeOK /\ HoldsAreIndexed /\ AtMostOneOpenHold /\ [Next]_vars => AtMostOneOpenHold'
  BY NextOneOpenHold
<1>2. QED
  BY <1>1, InitOneOpenHold, TypeCorrect, IndexIsComplete, PTL DEF Spec

-----------------------------------------------------------------------------
(* Retries against the budget.  WithinBudget is kept by each operation on  *)
(* a hold, and every step of the engine applies them to the hold table.    *)

LEMMA OpenHoldBudget ==
  ASSUME NEW pay \in Payments, NEW p \in Policies
  PROVE  WithinBudget(OpenHold(pay, p))
<1>1. p.attemptBudget \in Nat
  BY InterceptorAssumption
<1>2. QED
  BY <1>1 DEF OpenHold, WithinBudget

LEMMA ClosedHoldBudget ==
  ASSUME NEW h \in Hold, NEW g \in Hold, WithinBudget(h),
         g.linked = h.linked, g.attemptBudget = h.attemptBudget, ~IsOpen(g)
  PROVE  WithinBudget(g)
  BY DEF WithinBudget

LEMMA AgedHoldsBudget ==
  ASSUME TypeOK, BudgetIsRespected, NEW ps \in SUBSET Payers, NEW now \in Times,
         NEW id \in DOMAIN holds
  PROVE  WithinBudget(AgedHolds(ps, now)[id])
<1>1. holds[id] \in Hold /\ WithinBudget(holds[id]) /\ now \in Nat
  BY InterceptorAssumption DEF TypeOK, BudgetIsRespected
<1>2. WithinBudget(ExpireIfDue(holds[id], now))
  <2>1. CASE IsOpen(ExpireIfDue(holds[id], now))
    BY <1>1, <2>1, ExpireIfDueType
  <2>2. CASE ~IsOpen(ExpireIfDue(holds[id], now))
    BY <1>1, <2>2, ExpireIfDueType, ClosedHoldBudget
  <2>3. QED
    BY <2>1, <2>2
<1>3. QED
  BY <1>1, <1>2 DEF AgedHolds

LEMMA RegisterAttemptBudget ==
  ASSUME NEW h \in Hold, NEW pay \in Payments, Related(h, pay), WithinBudget(h)
  PROVE  WithinBudget(RegisterAttempt(h, pay))
<1> DEFINE g == RegisterAttempt(h, pay)
<1>1. IsOpen(h)
  BY DEF Related
<1>2. /\ g.linked = Append(h.linked, pay.txnId) /\ g.attemptBudget = h.attemptBudget
      /\ IsOpen(g) => g.attemptsUsed = h.attemptsUsed + 1
                     /\ h.attemptsUsed + 1 <= h.attemptBudget
  BY RegisterAttemptType
<1>3. /\ h.linked \in Seq(TxnIds) /\ h.attemptBudget \in Nat /\ h.attemptsUsed \in Nat
      /\ pay.txnId \in TxnIds
  BY DEF Hold, Payments
<1>4. Len(g.linked) = Len(h.linked) + 1
  BY <1>2, <1>3
<1>5. Len(h.linked) = h.attemptsUsed /\ h.attemptsUsed <= h.attemptBudget
  BY <1>1 DEF WithinBudget
<1> HIDE DEF g
<1>6. WithinBudget(g)
  BY <1>2, <1>3, <1>4, <1>5 DEF WithinBudget
<1>7. QED
  BY <1>6 DEF g

LEMMA NextBudget ==
  ASSUME TypeOK, BudgetIsRespected, [Next]_vars
  PROVE  BudgetIsRespected'
<1>1. CASE \E ps \in SUBSET Payers, now \in Times : AgeStep(ps, now)
  <2>1. PICK ps \in SUBSET Payers, now \in Times : AgeStep(ps, now)
    BY <1>1
  <2>2. holds' = AgedHolds(ps, now) /\ DOMAIN holds' = DOMAIN holds
    BY <2>1, AgedHoldsType DEF AgeStep
  <2>3. \A id \in DOMAIN holds : WithinBudget(holds'[id])
    BY <2>2, AgedHoldsBudget
  <2>4. QED
    BY <2>2, <2>3 DEF BudgetIsRespected, WithinBudget, IsOpen
<1>2. CASE \E pay \in Payments : OpenStep(pay)
  <2>1. PICK pay \in Payments : OpenStep(pay)
    BY <1>2
  <2> DEFINE aged == AgedHolds({pay.payerId}, pay.ts)
             hold == OpenHold(pay, policy)
  <2>2. {pay.payerId} \in SUBSET Payers /\ pay.ts \in Times
    BY DEF Payments
  <2>3. DOMAIN aged = DOMAIN holds /\ \A id \in DOMAIN holds : WithinBudget(aged[id])
    BY <2>2, AgedHoldsType, AgedHoldsBudget
  <2>4. WithinBudget(hold)
    BY OpenHoldBudget DEF TypeOK
  <2>5. holds' = Put(aged, pay.txnId, hold)
    BY <2>1 DEF OpenStep
  <2> HIDE DEF aged, hold
  <2>6. \A id \in DOMAIN holds' : WithinBudget(holds'[id])
    BY <2>3, <2>4, <2>5 DEF Put
  <2>7. QED
    BY <2>6 DEF BudgetIsRespected, WithinBudget, IsOpen
<1>3. CASE \E pay \in Payments : \E i \in DOMAIN holdsByPayer[pay.payerId] :
               AttemptStep(pay, holdsByPayer[pay.payerId][i])
  <2>1. PICK pay \in Payments, id \in DOMAIN holds : AttemptStep(pay, id)
    BY <1>3, AttemptIsOnHold
  <2> DEFINE aged == AgedHolds({pay.payerId}, pay.ts)
             hold == RegisterAttempt(aged[id], pay)
  <2>2. {pay.payerId} \in SUBSET Payers /\ pay.ts \in Times
    BY DEF Payments
  <2>3. /\ DOMAIN aged = DOMAIN holds
        /\ \A x \in DOMAIN holds : aged[x] \in Hold /\ WithinBudget(aged[x])
    BY <2>2, AgedHoldsType, AgedHoldsBudget
  <2>4. Related(aged[id], pay) /\ holds' = [aged EXCEPT ![id] = hold]
    BY <2>1 DEF AttemptStep
  <2>5. WithinBudget(hold)
    <3> HIDE DEF aged
    <3>1. QED
      BY <2>3, <2>4, RegisterAttemptBudget
  <2> HIDE DEF aged, hold
  <2>6. DOMAIN holds' = DOMAIN holds /\ \A x \in DOMAIN holds : WithinBudget(holds'[x])
    BY <2>3, <2>4, <2>5
  <2>7. QED
    BY <2>6 DEF BudgetIsRespected, WithinBudget, IsOpen
<1>4. CASE \E id \in TxnIds, outcome \in Outcomes : ResolveStep(id, outcome)
  <2>1. PICK id \in TxnIds, outcome \in Outcomes : ResolveStep(id, outcome)
    BY <1>4
  <2> DEFINE hold == ResolveHold(holds[id], outcome)
  <2>2. id \in DOMAIN holds /\ holds[id] \in Hold /\ WithinBudget(holds[id])
    BY <2>1 DEF TypeOK, ResolveStep, BudgetIsRespected
  <2>3. WithinBudget(hold)
    BY <2>2, ResolveHoldType, ClosedHoldBudget
  <2>4. holds' = [holds EXCEPT ![id] = hold]
    BY <2>1 DEF ResolveStep
  <2> HIDE DEF hold
  <2>5. DOMAIN holds' = DOMAIN holds /\ \A x \in DOMAIN holds : WithinBudget(holds'[x])
    BY <2>2, <2>3, <2>4 DEF BudgetIsRespected
  <2>6. QED
    BY <2>5 DEF BudgetIsRespected, WithinBudget, IsOpen
<1>5. CASE UNCHANGED storeVars
  BY <1>5 DEF storeVars, BudgetIsRespected, WithinBudget, IsOpen
<1>6. QED
  BY <1>1, <1>2, <1>3, <1>4, <1>5, StepShape

(* Retries are not free, for any budget and any policy history: a hold     *)
(* counts every attempt it takes while it is open, and takes at most one   *)
(* beyond the budget it opened with.                                       *)
THEOREM BudgetHolds == Spec => []BudgetIsRespected
<1>1. Init => BudgetIsRespected
  BY DEF Init, BudgetIsRespected
<1>2. TypeOK /\ BudgetIsRespected /\ [Next]_vars => BudgetIsRespected'
  BY NextBudget
<1>3. QED
  BY <1>1, <1>2, TypeCorrect, PTL DEF Spec

-----------------------------------------------------------------------------
(* No payment is approved past an open hold.  The payer's index is         *)
(* complete, so a hold whose window runs is found after ageing, and the    *)
(* payment is an attempt on a hold: whatever the economics chose, an       *)
(* escalated attempt is blocked and a linked one is not approved.          *)

LEMMA RunningHoldIsFound ==
  ASSUME TypeOK, HoldsAreIndexed, NEW pay \in Payments, NEW id \in DOMAIN holds,
         IsOpen(holds[id]), SamePair(holds[id], pay), pay.ts < holds[id].expiresAt
  PROVE  \E i \in DOMAIN holdsByPayer[pay.payerId] :
           HoldsPayee(pay.payerId, i, pay.payeeId, AgedHolds({pay.payerId}, pay.ts))
<1> DEFINE aged == AgedHolds({pay.payerId}, pay.ts)
<1>1. holds[id].expiresAt \in Nat /\ pay.ts \in Nat
  BY InterceptorAssumption DEF TypeOK, Hold, Payments
<1>2. ~Due(holds[id], pay.ts)
  BY <1>1 DEF Due
<1>3. aged[id] = holds[id]
  BY <1>2 DEF AgedHolds, ExpireIfDue
<1>4. PICK i \in DOMAIN holdsByPayer[pay.payerId] : holdsByPayer[pay.payerId][i] = id
  BY DEF HoldsAreIndexed, Owns, SamePair
<1> HIDE DEF aged
<1>5. HoldsPayee(pay.payerId, i, pay.payeeId, aged)
  BY <1>3, <1>4 DEF HoldsPayee, SamePair
<1>6. QED
  BY <1>5 DEF aged

LEMMA HeldIsNotApproved ==
  ASSUME NEW pay \in Payments, NEW chosen \in Actions, NEW p, NEW i, NEW aged, NEW tr,
         HoldsPayee(p, i, pay.payeeId, aged),
         AuthorizeHeld(pay, chosen, holdsByPayer[p][i], aged, tr)
  PROVE  lastCall'.decision # "APPROVE" /\ lastCall'.payment = pay
<1> DEFINE h == aged[holdsByPayer[p][i]]
           d == AttemptDisposition(h, pay)
<1>1. Related(h, pay)
  BY DEF HoldsPayee, Related
<1>2. d \in {"ESCALATED", "LINKED_TO_HOLD"}
  BY <1>1 DEF AttemptDisposition
<1>3. lastCall'.decision = Override(d, chosen) /\ lastCall'.payment = pay
  BY DEF AuthorizeHeld, Assessment
<1> HIDE DEF d
<1>4. Override(d, chosen) # "APPROVE"
  BY <1>2 DEF Override
<1>5. QED
  BY <1>3, <1>4

LEMMA StepNeverApprovesHeld ==
  ASSUME TypeOK, HoldsAreIndexed, [Next]_vars, IsAuthorize,
         NEW id \in DOMAIN holds, IsOpen(holds[id]),
         SamePair(holds[id], lastCall'.payment),
         lastCall'.payment.ts < holds[id].expiresAt
  PROVE  lastCall'.decision # "APPROVE"
<1>1. PICK pay \in Payments, chosen \in Actions : Authorize(pay, chosen)
  BY DEF Next, vars, historyVars, IsAuthorize, Resolve, SweepExpiries, SetPolicy, SetModel
<1> DEFINE p == pay.payerId
           aged == AgedHolds({p}, pay.ts)
           tr == AgedTrail({p}, pay.ts)
<1>2. CASE /\ \A i \in DOMAIN holdsByPayer[p] : ~HoldsPayee(p, i, pay.payeeId, aged)
           /\ AuthorizeUnheld(pay, chosen, aged, tr)
  <2>1. lastCall'.payment = pay
    BY <1>2 DEF AuthorizeUnheld, Assessment
  <2>2. QED
    BY <1>2, <2>1, RunningHoldIsFound
<1>3. CASE \E i \in DOMAIN holdsByPayer[p] :
             /\ HoldsPayee(p, i, pay.payeeId, aged)
             /\ AuthorizeHeld(pay, chosen, holdsByPayer[p][i], aged, tr)
  BY <1>3, HeldIsNotApproved
<1>4. QED
  BY <1>1, <1>2, <1>3 DEF Authorize

(* While a hold's window runs, its payer is never approved a payment to    *)
(* its beneficiary, whatever the scores and however ids are reused.        *)
THEOREM HeldPaymentsAreNotApproved == Spec => NoApprovalWhileHeld
<1> DEFINE Guarded ==
      IsAuthorize =>
        \A id \in DOMAIN holds :
          /\ IsOpen(holds[id])
          /\ SamePair(holds[id], lastCall'.payment)
          /\ lastCall'.payment.ts < holds[id].expiresAt
          => lastCall'.decision # "APPROVE"
<1>1. TypeOK /\ HoldsAreIndexed /\ [Next]_vars => Guarded
  BY StepNeverApprovesHeld
<1>2. TypeOK /\ HoldsAreIndexed /\ [Next]_vars => [Guarded]_vars
  BY <1>1
<1> HIDE DEF Guarded
<1>3. Spec => [][Guarded]_vars
  BY <1>2, TypeCorrect, IndexIsComplete, PTL DEF Spec
<1>4. QED
  BY <1>3 DEF Guarded, NoApprovalWhileHeld

-----------------------------------------------------------------------------
(* Lapsed holds.  An attempt is only made on a hold that is open after     *)
(* ageing, and a hold that is open after ageing is within its window.      *)

LEMMA AgedOpenIsRunning ==
  ASSUME TypeOK, NEW ps \in SUBSET Payers, NEW p \in ps, NEW now \in Times,
         NEW id \in DOMAIN holds, Owns(p, id), IsOpen(AgedHolds(ps, now)[id])
  PROVE  now < holds[id].expiresAt
<1>1. holds[id] \in Hold /\ now \in Nat
  BY InterceptorAssumption DEF TypeOK
<1>2. AgedHolds(ps, now)[id] = ExpireIfDue(holds[id], now)
  BY DEF AgedHolds
<1>3. QED
  BY <1>1, <1>2, ExpireIfDueType

LEMMA StepCapturesRunning ==
  ASSUME TypeOK, [Next]_vars, IsAuthorize, lastCall'.disposition # "NOT_RELATED"
  PROVE  lastCall'.payment.ts < holds[lastCall'.holdId].expiresAt
<1>1. PICK pay \in Payments, chosen \in Actions : Authorize(pay, chosen)
  BY DEF Next, vars, historyVars, IsAuthorize, Resolve, SweepExpiries, SetPolicy, SetModel
<1> DEFINE p == pay.payerId
           aged == AgedHolds({p}, pay.ts)
           tr == AgedTrail({p}, pay.ts)
<1>2. CASE AuthorizeUnheld(pay, chosen, aged, tr)
  BY <1>2 DEF AuthorizeUnheld, Assessment
<1>3. CASE \E i \in DOMAIN holdsByPayer[p] :
             /\ HoldsPayee(p, i, pay.payeeId, aged)
             /\ AuthorizeHeld(pay, chosen, holdsByPayer[p][i], aged, tr)
  <2>1. PICK i \in DOMAIN holdsByPayer[p] :
             /\ HoldsPayee(p, i, pay.payeeId, aged)
             /\ AuthorizeHeld(pay, chosen, holdsByPayer[p][i], aged, tr)
    BY <1>3
  <2> DEFINE id == holdsByPayer[p][i]
  <2>2. p \in Payers /\ pay.ts \in Times /\ id \in DOMAIN holds /\ Owns(p, id)
    BY DEF Payments, TypeOK, Owns
  <2>3. IsOpen(aged[id])
    BY <2>1 DEF HoldsPayee
  <2>4. pay.ts < holds[id].expiresAt
    BY <2>2, <2>3, AgedOpenIsRunning
  <2>5. lastCall'.payment = pay /\ lastCall'.holdId = id
    BY <2>1 DEF AuthorizeHeld, Assessment
  <2> HIDE DEF id
  <2>6. QED
    BY <2>4, <2>5
<1>4. QED
  BY <1>1, <1>2, <1>3 DEF Authorize

(* A hold whose window has elapsed takes no attempt, whatever the times    *)
(* clients send: authorize ages the payer's holds before it looks at them. *)
THEOREM LapsedHoldsDoNotCapture == Spec => LapsedHoldsNeverCapture
<1> DEFINE InWindow ==
      IsAuthorize /\ lastCall'.disposition # "NOT_RELATED" =>
        lastCall'.payment.ts < holds[lastCall'.holdId].expiresAt
<1>1. TypeOK /\ [Next]_vars => [InWindow]_vars
  BY StepCapturesRunning
<1> HIDE DEF InWindow
<1>2. Spec => [][InWindow]_vars
  BY <1>1, TypeCorrect, PTL DEF Spec
<1>3. QED
  BY <1>2 DEF InWindow, LapsedHoldsNeverCapture

-----------------------------------------------------------------------------
(* What a step does to the holds that exist, when no id is submitted       *)
(* twice.  Opening a hold then never replaces one.                         *)

LEMMA OpenStepKeepsHolds ==
  ASSUME FreshIds, TypeOK, NEW pay \in Payments, OpenStep(pay), NEW id \in DOMAIN holds
  PROVE  /\ id \in DOMAIN holds'
         /\ holds'[id] = AgedHolds({pay.payerId}, pay.ts)[id]
         /\ trail'[id] = AgedTrail({pay.payerId}, pay.ts)[id]
<1> DEFINE aged == AgedHolds({pay.payerId}, pay.ts)
           tr == AgedTrail({pay.payerId}, pay.ts)
<1>1. pay.txnId # id
  BY DEF OpenStep, TypeOK
<1>2. id \in DOMAIN aged /\ id \in DOMAIN tr
  BY DEF AgedHolds, AgedTrail, TypeOK
<1>3. /\ holds' = Put(aged, pay.txnId, OpenHold(pay, policy))
      /\ \E v : trail' = Put(tr, pay.txnId, v)
  BY DEF OpenStep
<1> HIDE DEF aged, tr
<1>4. id \in DOMAIN holds' /\ holds'[id] = aged[id] /\ trail'[id] = tr[id]
  BY <1>1, <1>2, <1>3 DEF Put
<1>5. QED
  BY <1>4 DEF aged, tr

LEMMA AgedResolved ==
  ASSUME TypeOK, NEW ps, NEW now, NEW id \in DOMAIN holds, ~IsOpen(holds[id])
  PROVE  AgedHolds(ps, now)[id] = holds[id] /\ AgedTrail(ps, now)[id] = trail[id]
<1>1. ~Due(holds[id], now)
  BY DEF Due
<1>2. id \in DOMAIN trail
  BY DEF TypeOK
<1>3. QED
  BY <1>1, <1>2 DEF AgedHolds, AgedTrail, ExpireIfDue

LEMMA StepKeepsResolved ==
  ASSUME FreshIds, TypeOK, [Next]_vars, NEW id \in DOMAIN holds, ~IsOpen(holds[id])
  PROVE  id \in DOMAIN holds' /\ holds'[id] = holds[id] /\ trail'[id] = trail[id]
<1>0. id \in DOMAIN trail
  BY DEF TypeOK
<1>1. CASE \E ps \in SUBSET Payers, now \in Times : AgeStep(ps, now)
  BY <1>1, AgedResolved DEF AgeStep, AgedHolds
<1>2. CASE \E pay \in Payments : OpenStep(pay)
  <2>1. PICK pay \in Payments : OpenStep(pay)
    BY <1>2
  <2>2. /\ id \in DOMAIN holds'
        /\ holds'[id] = AgedHolds({pay.payerId}, pay.ts)[id]
        /\ trail'[id] = AgedTrail({pay.payerId}, pay.ts)[id]
    BY <2>1, OpenStepKeepsHolds
  <2>3. QED
    BY <2>2, AgedResolved
<1>3. CASE \E pay \in Payments : \E i \in DOMAIN holdsByPayer[pay.payerId] :
               AttemptStep(pay, holdsByPayer[pay.payerId][i])
  <2>1. PICK pay \in Payments, x \in DOMAIN holds : AttemptStep(pay, x)
    BY <1>3, AttemptIsOnHold
  <2> DEFINE aged == AgedHolds({pay.payerId}, pay.ts)
             tr == AgedTrail({pay.payerId}, pay.ts)
  <2>2. aged[id] = holds[id] /\ tr[id] = trail[id]
    BY AgedResolved
  <2>3. id \in DOMAIN aged /\ id \in DOMAIN tr
    BY <1>0 DEF AgedHolds, AgedTrail
  <2>4. IsOpen(aged[x])
    BY <2>1 DEF AttemptStep, Related
  <2>5. (\E h : holds' = [aged EXCEPT ![x] = h]) /\ (\E t : trail' = [tr EXCEPT ![x] = t])
    BY <2>1 DEF AttemptStep
  <2> HIDE DEF aged, tr
  <2>6. x # id
    BY <2>2, <2>4
  <2>7. QED
    BY <2>2, <2>3, <2>5, <2>6
<1>4. CASE \E x \in TxnIds, outcome \in Outcomes : ResolveStep(x, outcome)
  <2>1. PICK x \in TxnIds, outcome \in Outcomes : ResolveStep(x, outcome)
    BY <1>4
  <2>2. /\ IsOpen(holds[x])
        /\ \E h : holds' = [holds EXCEPT ![x] = h]
        /\ \E t : trail' = [trail EXCEPT ![x] = t]
    BY <2>1 DEF ResolveStep
  <2>3. QED
    BY <1>0, <2>2
<1>5. CASE UNCHANGED storeVars
  BY <1>5 DEF storeVars
<1>6. QED
  BY <1>1, <1>2, <1>3, <1>4, <1>5, StepShape

(* Once resolved, a hold and its audit trail never change again: no late   *)
(* answer, sweep, retry or new policy reopens, re-decides or re-seals it.  *)
THEOREM ResolvedIsFinal ==
  ASSUME FreshIds
  PROVE  Spec => ResolvedHoldsAreFinal
<1> DEFINE Final ==
      \A id \in DOMAIN holds : ~IsOpen(holds[id]) =>
        /\ id \in DOMAIN holds'
        /\ holds'[id] = holds[id]
        /\ trail'[id] = trail[id]
<1>1. TypeOK /\ [Next]_vars => [Final]_vars
  BY StepKeepsResolved
<1> HIDE DEF Final
<1>2. Spec => [][Final]_vars
  BY <1>1, TypeCorrect, PTL DEF Spec
<1>3. QED
  BY <1>2 DEF Final, ResolvedHoldsAreFinal

-----------------------------------------------------------------------------
(* The terms of a hold.  Ageing and resolution change a hold's state only; *)
(* an attempt also lengthens its list and its count.                       *)

LEMMA SameFieldsKeepTerms ==
  ASSUME NEW h \in Hold, NEW g \in Hold,
         g.payerId = h.payerId, g.payeeId = h.payeeId,
         g.expiresAt = h.expiresAt, g.attemptBudget = h.attemptBudget,
         g.challenge = h.challenge, g.attemptsUsed = h.attemptsUsed,
         g.linked = h.linked
  PROVE  KeepsTerms(h, g)
<1>1. h.attemptsUsed \in Nat /\ Len(h.linked) \in Nat
  BY DEF Hold
<1>2. QED
  BY <1>1 DEF KeepsTerms, SamePair

LEMMA AttemptKeepsTerms ==
  ASSUME NEW h \in Hold, NEW pay \in Payments, Related(h, pay)
  PROVE  KeepsTerms(h, RegisterAttempt(h, pay))
<1> DEFINE g == RegisterAttempt(h, pay)
<1>1. /\ g.payerId = h.payerId /\ g.payeeId = h.payeeId
      /\ g.expiresAt = h.expiresAt /\ g.attemptBudget = h.attemptBudget
      /\ g.challenge = h.challenge /\ g.linked = Append(h.linked, pay.txnId)
  BY RegisterAttemptType
<1>2. AttemptDisposition(h, pay) # "NOT_RELATED"
  BY RegisterAttemptType
<1>3. g.attemptsUsed >= h.attemptsUsed
  BY <1>2 DEF RegisterAttempt, Hold
<1>4. h.linked \in Seq(TxnIds) /\ pay.txnId \in TxnIds
  BY DEF Hold, Payments
<1>5. /\ Len(g.linked) >= Len(h.linked)
      /\ \A i \in 1..Len(h.linked) : g.linked[i] = h.linked[i]
  BY <1>1, <1>4
<1> HIDE DEF g
<1>6. KeepsTerms(h, g)
  BY <1>1, <1>3, <1>5 DEF KeepsTerms, SamePair
<1>7. QED
  BY <1>6 DEF g

LEMMA AgedKeepsTerms ==
  ASSUME TypeOK, NEW ps, NEW now \in Times, NEW id \in DOMAIN holds
  PROVE  KeepsTerms(holds[id], AgedHolds(ps, now)[id])
<1>1. holds[id] \in Hold
  BY DEF TypeOK
<1>2. QED
  BY <1>1, AgedHoldsType, SameFieldsKeepTerms

LEMMA StepKeepsTerms ==
  ASSUME FreshIds, TypeOK, [Next]_vars, NEW id \in DOMAIN holds
  PROVE  id \in DOMAIN holds' /\ KeepsTerms(holds[id], holds'[id])
<1>0. holds[id] \in Hold
  BY DEF TypeOK
<1>1. KeepsTerms(holds[id], holds[id])
  BY <1>0, SameFieldsKeepTerms
<1>2. CASE \E ps \in SUBSET Payers, now \in Times : AgeStep(ps, now)
  <2>1. PICK ps \in SUBSET Payers, now \in Times : AgeStep(ps, now)
    BY <1>2
  <2>2. DOMAIN holds' = DOMAIN holds /\ holds'[id] = AgedHolds(ps, now)[id]
    BY <2>1, AgedHoldsType DEF AgeStep
  <2>3. QED
    BY <2>2, AgedKeepsTerms
<1>3. CASE \E pay \in Payments : OpenStep(pay)
  <2>1. PICK pay \in Payments : OpenStep(pay)
    BY <1>3
  <2>2. id \in DOMAIN holds' /\ holds'[id] = AgedHolds({pay.payerId}, pay.ts)[id]
    BY <2>1, OpenStepKeepsHolds
  <2>3. pay.ts \in Times
    BY DEF Payments
  <2>4. QED
    BY <2>2, <2>3, AgedKeepsTerms
<1>4. CASE \E pay \in Payments : \E i \in DOMAIN holdsByPayer[pay.payerId] :
               AttemptStep(pay, holdsByPayer[pay.payerId][i])
  <2>1. PICK pay \in Payments, x \in DOMAIN holds : AttemptStep(pay, x)
    BY <1>4, AttemptIsOnHold
  <2> DEFINE aged == AgedHolds({pay.payerId}, pay.ts)
  <2>2. pay.ts \in Times
    BY DEF Payments
  <2>3. /\ Related(aged[x], pay)
        /\ holds' = [aged EXCEPT ![x] = RegisterAttempt(aged[x], pay)]
    BY <2>1 DEF AttemptStep
  <2>4. /\ DOMAIN aged = DOMAIN holds /\ aged[id] \in Hold
        /\ IsOpen(aged[id]) => aged[id] = holds[id]
    BY <2>2, AgedHoldsType
  <2>5. KeepsTerms(holds[id], aged[id])
    BY <2>2, AgedKeepsTerms
  <2> HIDE DEF aged
  <2>6. CASE x = id
    <3>1. IsOpen(aged[id])
      BY <2>3, <2>6 DEF Related
    <3>2. Related(holds[id], pay) /\ holds'[id] = RegisterAttempt(holds[id], pay)
      BY <2>3, <2>4, <2>6, <3>1
    <3>3. KeepsTerms(holds[id], RegisterAttempt(holds[id], pay))
      BY <1>0, <3>2, AttemptKeepsTerms
    <3>4. id \in DOMAIN holds'
      BY <2>3, <2>4
    <3>5. QED
      BY <3>2, <3>3, <3>4
  <2>7. CASE x # id
    <3>1. id \in DOMAIN holds' /\ holds'[id] = aged[id]
      BY <2>3, <2>4, <2>7
    <3>2. QED
      BY <2>5, <3>1
  <2>8. QED
    BY <2>6, <2>7
<1>5. CASE \E x \in TxnIds, outcome \in Outcomes : ResolveStep(x, outcome)
  <2>1. PICK x \in TxnIds, outcome \in Outcomes : ResolveStep(x, outcome)
    BY <1>5
  <2>2. holds' = [holds EXCEPT ![x] = ResolveHold(holds[x], outcome)]
    BY <2>1 DEF ResolveStep
  <2>3. KeepsTerms(holds[id], ResolveHold(holds[id], outcome))
    BY <1>0, ResolveHoldType, SameFieldsKeepTerms
  <2>4. DOMAIN holds' = DOMAIN holds
    BY <2>2
  <2>5. holds'[id] = holds[id] \/ holds'[id] = ResolveHold(holds[id], outcome)
    BY <2>2
  <2>6. QED
    BY <1>1, <2>3, <2>4, <2>5
<1>6. CASE UNCHANGED storeVars
  BY <1>1, <1>6 DEF storeVars
<1>7. QED
  BY <1>2, <1>3, <1>4, <1>5, <1>6, StepShape

(* The window, budget, challenge and pair a hold opened with stay, and the *)
(* attempts it counted stay counted, through retries, answers, sweeps and  *)
(* changes of policy.                                                      *)
THEOREM TermsStayFixed ==
  ASSUME FreshIds
  PROVE  Spec => TermsAreFixed
<1> DEFINE Fixed ==
      \A id \in DOMAIN holds : id \in DOMAIN holds' /\ KeepsTerms(holds[id], holds'[id])
<1>1. TypeOK /\ [Next]_vars => [Fixed]_vars
  BY StepKeepsTerms
<1> HIDE DEF Fixed
<1>2. Spec => [][Fixed]_vars
  BY <1>1, TypeCorrect, PTL DEF Spec
<1>3. QED
  BY <1>2 DEF Fixed, TermsAreFixed

-----------------------------------------------------------------------------
(* The audit trail.  Each operation on a hold, with the entries it seals,  *)
(* keeps the trail a replay of the hold.                                   *)

LEMMA OpeningReplays ==
  ASSUME NEW pay \in Payments, NEW p \in Policies
  PROVE  Replays(Append(<< >>, Opened(OpenHold(pay, p))), OpenHold(pay, p))
<1> DEFINE h == OpenHold(pay, p)
           t == Append(<< >>, Opened(h))
<1>1. IsOpen(h)
  BY OpenHoldType
<1>2. Len(h.linked) = 0
  BY DEF OpenHold
<1>3. Len(t) = 1 /\ t[1].kind = "HOLD_OPENED"
  BY DEF Opened
<1> HIDE DEF h, t
<1>4. Replays(t, h)
  BY <1>1, <1>2, <1>3 DEF Replays
<1>5. QED
  BY <1>4 DEF t, h

LEMMA ResolutionReplays ==
  ASSUME NEW h \in Hold, NEW g \in Hold, NEW t \in Seq(Entry), Replays(t, h),
         IsOpen(h), ~IsOpen(g), g.linked = h.linked
  PROVE  Replays(Append(t, Resolved(g)), g)
<1> DEFINE n == Len(h.linked)
           u == Append(t, Resolved(g))
<1>1. n \in Nat /\ Len(t) = n + 1
  BY DEF Hold, Replays
<1>2. /\ Len(u) = n + 2 /\ u[n + 2] = Resolved(g)
      /\ \A i \in 1..(n + 1) : u[i] = t[i]
  BY <1>1, ResolvedType
<1>3. /\ t[1].kind = "HOLD_OPENED"
      /\ \A i \in 1..n : t[1 + i].kind = "ATTEMPT_LINKED" /\ t[1 + i].txnId = h.linked[i]
  BY DEF Replays
<1> HIDE DEF u
<1>4. \A i \in 1..n : u[1 + i] = t[1 + i]
  BY <1>1, <1>2
<1>5. u[1] = t[1]
  BY <1>1, <1>2
<1>6. Replays(u, g)
  BY <1>2, <1>3, <1>4, <1>5 DEF Replays
<1>7. QED
  BY <1>6 DEF u

LEMMA AttemptReplays ==
  ASSUME NEW h \in Hold, NEW g \in Hold, NEW x \in TxnIds, NEW d \in Dispositions,
         NEW t \in Seq(Entry), Replays(t, h), IsOpen(h), g.linked = Append(h.linked, x)
  PROVE  LET u == Append(t, Linked(x, d)) IN
         Replays(IF IsOpen(g) THEN u ELSE Append(u, Resolved(g)), g)
<1> DEFINE n == Len(h.linked)
           e == Linked(x, d)
           u == Append(t, e)
           v == Append(u, Resolved(g))
           w == IF IsOpen(g) THEN u ELSE v
<1>1. n \in Nat /\ Len(t) = n + 1 /\ h.linked \in Seq(TxnIds)
  BY DEF Hold, Replays
<1>2. e \in Entry /\ e.kind = "ATTEMPT_LINKED" /\ e.txnId = x
  BY DEF Linked, Entry
<1> HIDE DEF e
<1>3. /\ u \in Seq(Entry) /\ Len(u) = n + 2 /\ u[n + 2] = e
      /\ \A i \in 1..(n + 1) : u[i] = t[i]
  BY <1>1, <1>2
<1> HIDE DEF u
<1>4. /\ Len(v) = n + 3 /\ v[n + 3] = Resolved(g)
      /\ \A i \in 1..(n + 2) : v[i] = u[i]
  BY <1>1, <1>3, ResolvedType
<1> HIDE DEF v
<1>5. /\ Len(w) = n + (IF IsOpen(g) THEN 2 ELSE 3)
      /\ \A i \in 1..(n + 1) : w[i] = t[i]
      /\ w[n + 2] = e
      /\ ~IsOpen(g) => w[n + 3] = Resolved(g)
  <2>1. CASE IsOpen(g)
    <3>1. w = u
      BY <2>1
    <3> HIDE DEF w
    <3>2. QED
      BY <1>3, <2>1, <3>1
  <2>2. CASE ~IsOpen(g)
    <3>1. w = v
      BY <2>2
    <3>2. n + 2 \in 1..(n + 2) /\ \A i \in 1..(n + 1) : i \in 1..(n + 2)
      BY <1>1
    <3> HIDE DEF w, n
    <3>3. QED
      BY <1>3, <1>4, <2>2, <3>1, <3>2
  <2>3. QED
    BY <2>1, <2>2
<1>6. /\ Len(g.linked) = n + 1 /\ g.linked[n + 1] = x
      /\ \A i \in 1..n : g.linked[i] = h.linked[i]
  BY <1>1
<1>7. /\ t[1].kind = "HOLD_OPENED"
      /\ \A i \in 1..n : t[1 + i].kind = "ATTEMPT_LINKED" /\ t[1 + i].txnId = h.linked[i]
  BY DEF Replays
<1> HIDE DEF w, n
<1>8. \A i \in 1..(n + 1) : w[1 + i].kind = "ATTEMPT_LINKED" /\ w[1 + i].txnId = g.linked[i]
  <2>1. ASSUME NEW i \in 1..(n + 1)
        PROVE  w[1 + i].kind = "ATTEMPT_LINKED" /\ w[1 + i].txnId = g.linked[i]
    <3>1. CASE i = n + 1
      BY <1>1, <1>2, <1>5, <1>6, <3>1
    <3>2. CASE i # n + 1
      <4>1. i \in 1..n /\ 1 + i \in 1..(n + 1)
        BY <1>1, <3>2
      <4>2. QED
        BY <1>5, <1>6, <1>7, <4>1
    <3>3. QED
      BY <3>1, <3>2
  <2>2. QED
    BY <2>1
<1>9. w[1].kind = "HOLD_OPENED"
  BY <1>1, <1>5, <1>7
<1>10. Len(w) = Len(g.linked) + (IF IsOpen(g) THEN 1 ELSE 2)
  BY <1>1, <1>5, <1>6
<1>11. ~IsOpen(g) => w[Len(g.linked) + 2] = Resolved(g)
  <2>1. Len(g.linked) + 2 = n + 3
    BY <1>1, <1>6
  <2>2. QED
    BY <1>5, <2>1
<1>12. Replays(w, g)
  BY <1>6, <1>8, <1>9, <1>10, <1>11 DEF Replays
<1>13. QED
  BY <1>12 DEF w, v, u, e

LEMMA AgedReplays ==
  ASSUME TypeOK, TrailReplaysHold, NEW ps, NEW now \in Times, NEW id \in DOMAIN holds
  PROVE  Replays(AgedTrail(ps, now)[id], AgedHolds(ps, now)[id])
<1> DEFINE g == AgedHolds(ps, now)[id]
<1>1. /\ holds[id] \in Hold /\ id \in DOMAIN trail /\ trail[id] \in Seq(Entry)
      /\ Replays(trail[id], holds[id]) /\ now \in Nat
  BY InterceptorAssumption DEF TypeOK, TrailReplaysHold
<1>2. CASE (\E p \in ps : Owns(p, id)) /\ Due(holds[id], now)
  <2>1. AgedTrail(ps, now)[id] = Append(trail[id], Resolved(g))
    BY <1>1, <1>2 DEF AgedTrail
  <2>2. g = ResolveHold(holds[id], "expired")
    BY <1>2 DEF AgedHolds, ExpireIfDue
  <2>3. g \in Hold /\ ~IsOpen(g) /\ g.linked = holds[id].linked
    BY <1>1, <2>2, ResolveHoldType
  <2>4. IsOpen(holds[id])
    BY <1>2 DEF Due
  <2> HIDE DEF g
  <2>5. Replays(Append(trail[id], Resolved(g)), g)
    BY <1>1, <2>3, <2>4, ResolutionReplays
  <2>6. QED
    BY <2>1, <2>5 DEF g
<1>3. CASE ~((\E p \in ps : Owns(p, id)) /\ Due(holds[id], now))
  BY <1>1, <1>3 DEF AgedTrail, AgedHolds, ExpireIfDue
<1>4. QED
  BY <1>2, <1>3

LEMMA NextReplays ==
  ASSUME FreshIds, TypeOK, TrailReplaysHold, [Next]_vars
  PROVE  TrailReplaysHold'
<1>1. CASE \E ps \in SUBSET Payers, now \in Times : AgeStep(ps, now)
  <2>1. PICK ps \in SUBSET Payers, now \in Times : AgeStep(ps, now)
    BY <1>1
  <2>2. /\ DOMAIN holds' = DOMAIN holds
        /\ holds' = AgedHolds(ps, now) /\ trail' = AgedTrail(ps, now)
    BY <2>1, AgedHoldsType DEF AgeStep
  <2>3. \A id \in DOMAIN holds : Replays(trail'[id], holds'[id])
    BY <2>2, AgedReplays
  <2>4. QED
    BY <2>2, <2>3 DEF TrailReplaysHold, Replays, IsOpen, Resolved
<1>2. CASE \E pay \in Payments : OpenStep(pay)
  <2>1. PICK pay \in Payments : OpenStep(pay)
    BY <1>2
  <2> DEFINE aged == AgedHolds({pay.payerId}, pay.ts)
             tr == AgedTrail({pay.payerId}, pay.ts)
             hold == OpenHold(pay, policy)
  <2>2. pay.ts \in Times /\ policy \in Policies
    BY DEF Payments, TypeOK
  <2>3. /\ DOMAIN aged = DOMAIN holds /\ DOMAIN tr = DOMAIN holds
        /\ \A id \in DOMAIN holds : Replays(tr[id], aged[id])
    BY <2>2, AgedHoldsType, AgedTrailType, AgedReplays
  <2>4. pay.txnId \notin DOMAIN tr
    BY <2>1, <2>3 DEF OpenStep, TypeOK
  <2>5. /\ holds' = Put(aged, pay.txnId, hold)
        /\ trail' = Put(tr, pay.txnId, Append(<< >>, Opened(hold)))
    BY <2>1, <2>4 DEF OpenStep
  <2>6. Replays(Append(<< >>, Opened(hold)), hold)
    BY <2>2, OpeningReplays
  <2> HIDE DEF aged, tr, hold
  <2>7. ASSUME NEW id \in DOMAIN holds' PROVE Replays(trail'[id], holds'[id])
    <3>1. CASE id = pay.txnId
      BY <2>5, <2>6, <3>1 DEF Put
    <3>2. CASE id # pay.txnId
      BY <2>3, <2>5, <2>7, <3>2 DEF Put
    <3>3. QED
      BY <3>1, <3>2
  <2>8. QED
    BY <2>7 DEF TrailReplaysHold, Replays, IsOpen, Resolved
<1>3. CASE \E pay \in Payments : \E i \in DOMAIN holdsByPayer[pay.payerId] :
               AttemptStep(pay, holdsByPayer[pay.payerId][i])
  <2>1. PICK pay \in Payments, id \in DOMAIN holds : AttemptStep(pay, id)
    BY <1>3, AttemptIsOnHold
  <2> DEFINE aged == AgedHolds({pay.payerId}, pay.ts)
             tr == AgedTrail({pay.payerId}, pay.ts)
             hold == RegisterAttempt(aged[id], pay)
             disp == AttemptDisposition(aged[id], pay)
             link == Append(tr[id], Linked(pay.txnId, disp))
             seal == IF disp = "ESCALATED" THEN Append(link, Resolved(hold)) ELSE link
  <2>2. pay.ts \in Times /\ pay.txnId \in TxnIds
    BY DEF Payments
  <2>3. /\ DOMAIN aged = DOMAIN holds /\ DOMAIN tr = DOMAIN holds
        /\ \A x \in DOMAIN holds : /\ aged[x] \in Hold
                                   /\ tr[x] \in Seq(Entry)
                                   /\ Replays(tr[x], aged[x])
    BY <2>2, AgedHoldsType, AgedTrailType, AgedReplays
  <2>4. /\ Related(aged[id], pay)
        /\ holds' = [aged EXCEPT ![id] = hold]
        /\ trail' = [tr EXCEPT ![id] = seal]
    BY <2>1 DEF AttemptStep
  <2>5. /\ hold \in Hold /\ hold.linked = Append(aged[id].linked, pay.txnId)
        /\ disp \in {"ESCALATED", "LINKED_TO_HOLD"}
        /\ IsOpen(hold) <=> disp = "LINKED_TO_HOLD"
    <3> HIDE DEF aged
    <3>1. QED
      BY <2>3, <2>4, RegisterAttemptType
  <2>6. IsOpen(aged[id])
    BY <2>4 DEF Related
  <2> HIDE DEF aged, tr, hold, disp
  <2>7. disp \in Dispositions
    BY <2>5 DEF Dispositions
  <2>8. seal = IF IsOpen(hold) THEN link ELSE Append(link, Resolved(hold))
    BY <2>5
  <2>9. Replays(seal, hold)
    BY <2>2, <2>3, <2>5, <2>6, <2>7, <2>8, AttemptReplays
  <2> HIDE DEF seal
  <2>10. /\ DOMAIN holds' = DOMAIN holds
         /\ \A x \in DOMAIN holds : Replays(trail'[x], holds'[x])
    BY <2>3, <2>4, <2>9
  <2>11. QED
    BY <2>10 DEF TrailReplaysHold, Replays, IsOpen, Resolved
<1>4. CASE \E id \in TxnIds, outcome \in Outcomes : ResolveStep(id, outcome)
  <2>1. PICK id \in TxnIds, outcome \in Outcomes : ResolveStep(id, outcome)
    BY <1>4
  <2> DEFINE hold == ResolveHold(holds[id], outcome)
  <2>2. /\ id \in DOMAIN holds /\ holds[id] \in Hold /\ IsOpen(holds[id])
        /\ DOMAIN trail = DOMAIN holds /\ trail[id] \in Seq(Entry)
        /\ Replays(trail[id], holds[id])
    BY <2>1 DEF TypeOK, ResolveStep, TrailReplaysHold
  <2>3. hold \in Hold /\ ~IsOpen(hold) /\ hold.linked = holds[id].linked
    BY <2>2, ResolveHoldType
  <2>4. /\ holds' = [holds EXCEPT ![id] = hold]
        /\ trail' = [trail EXCEPT ![id] = Append(@, Resolved(hold))]
    BY <2>1 DEF ResolveStep
  <2> HIDE DEF hold
  <2>5. Replays(Append(trail[id], Resolved(hold)), hold)
    BY <2>2, <2>3, ResolutionReplays
  <2>6. /\ DOMAIN holds' = DOMAIN holds
        /\ \A x \in DOMAIN holds : Replays(trail'[x], holds'[x])
    BY <2>2, <2>4, <2>5 DEF TrailReplaysHold
  <2>7. QED
    BY <2>6 DEF TrailReplaysHold, Replays, IsOpen, Resolved
<1>5. CASE UNCHANGED storeVars
  BY <1>5 DEF storeVars, TrailReplaysHold, Replays, IsOpen, Resolved
<1>6. QED
  BY <1>1, <1>2, <1>3, <1>4, <1>5, StepShape

(* The ledger alone tells what became of every hold: the ageing, linking,  *)
(* escalating and resolving code never moves a hold without sealing it,    *)
(* nor seals what did not happen.                                          *)
THEOREM TrailTellsAll ==
  ASSUME FreshIds
  PROVE  Spec => []TrailReplaysHold
<1>1. Init => TrailReplaysHold
  BY DEF Init, TrailReplaysHold
<1>2. TypeOK /\ TrailReplaysHold /\ [Next]_vars => TrailReplaysHold'
  BY NextReplays
<1>3. QED
  BY <1>1, <1>2, TypeCorrect, PTL DEF Spec

-----------------------------------------------------------------------------
(* With fresh ids the index is exact.  Opening a hold lists a new id, and  *)
(* the other operations list an id again under the payer it already names. *)

LEMMA IndexedAgain ==
  ASSUME HoldsAreIndexed, NEW id \in DOMAIN holds
  PROVE  Indexed(holds[id].payerId, id) = [holdsByPayer EXCEPT ![holds[id].payerId] = @]
  BY DEF HoldsAreIndexed, Indexed

LEMMA SameOwners ==
  ASSUME IndexIsOwn, HoldsAreIndexed, TypeOK, DOMAIN holds' = DOMAIN holds,
         \A x \in DOMAIN holds : holds'[x].payerId = holds[x].payerId,
         \/ holdsByPayer' = holdsByPayer
         \/ \E id \in DOMAIN holds : holdsByPayer' = Indexed(holds[id].payerId, id)
  PROVE  IndexIsOwn'
<1>1. holdsByPayer' = holdsByPayer
  BY IndexedAgain DEF TypeOK
<1>2. QED
  BY <1>1 DEF IndexIsOwn, Owns

LEMMA NextIndexIsOwn ==
  ASSUME FreshIds, TypeOK, HoldsAreIndexed, IndexIsOwn, [Next]_vars
  PROVE  IndexIsOwn'
<1>1. CASE \E ps \in SUBSET Payers, now \in Times : AgeStep(ps, now)
  <2>1. /\ DOMAIN holds' = DOMAIN holds /\ holdsByPayer' = holdsByPayer
        /\ \A id \in DOMAIN holds : holds'[id].payerId = holds[id].payerId
    BY <1>1, AgedHoldsType DEF AgeStep
  <2>2. QED
    BY <2>1, SameOwners
<1>2. CASE \E pay \in Payments : OpenStep(pay)
  <2>1. PICK pay \in Payments : OpenStep(pay)
    BY <1>2
  <2> DEFINE p == pay.payerId
             t == pay.txnId
             aged == AgedHolds({p}, pay.ts)
  <2>2. p \in Payers /\ t \in TxnIds /\ pay.ts \in Times
    BY DEF Payments
  <2>3. t \notin DOMAIN holds
    BY <2>1 DEF OpenStep, TypeOK
  <2>4. /\ DOMAIN aged = DOMAIN holds
        /\ \A id \in DOMAIN holds : aged[id].payerId = holds[id].payerId
    BY <2>2, AgedHoldsType
  <2>5. holds' = Put(aged, t, OpenHold(pay, policy)) /\ holdsByPayer' = Indexed(p, t)
    BY <2>1 DEF OpenStep
  <2>6. \A x \in DOMAIN holds' :
          holds'[x].payerId = IF x = t THEN p ELSE holds[x].payerId
    <3> HIDE DEF aged
    <3>1. QED
      BY <2>4, <2>5 DEF Put, OpenHold
  <2>7. ASSUME NEW q \in Payers, NEW i \in DOMAIN holdsByPayer'[q]
        PROVE  \/ holdsByPayer'[q][i] = t /\ q = p
               \/ i \in DOMAIN holdsByPayer[q] /\ holdsByPayer'[q][i] = holdsByPayer[q][i]
    <3>1. CASE q = p
      BY <2>2, <2>5, <3>1, IndexedType
    <3>2. CASE q # p
      <4>1. holdsByPayer'[q] = holdsByPayer[q]
        BY <2>2, <2>5, <3>2 DEF Indexed, TypeOK
      <4>2. QED
        BY <4>1
    <3>3. QED
      BY <3>1, <3>2
  <2>8. ASSUME NEW q \in Payers, NEW x \in DOMAIN holds', Owns(q, x)'
        PROVE  holds'[x].payerId = q
    <3>1. PICK i \in DOMAIN holdsByPayer'[q] : holdsByPayer'[q][i] = x
      BY <2>8 DEF Owns
    <3>2. CASE x = t /\ q = p
      BY <2>6, <3>2
    <3>3. CASE i \in DOMAIN holdsByPayer[q] /\ holdsByPayer[q][i] = x
      <4>1. x \in DOMAIN holds /\ Owns(q, x)
        BY <3>3 DEF TypeOK, Owns
      <4>2. QED
        BY <2>3, <2>6, <4>1 DEF IndexIsOwn
    <3>4. QED
      BY <2>7, <3>1, <3>2, <3>3
  <2>9. QED
    BY <2>8 DEF IndexIsOwn
<1>3. CASE \E pay \in Payments : \E i \in DOMAIN holdsByPayer[pay.payerId] :
               AttemptStep(pay, holdsByPayer[pay.payerId][i])
  <2>1. PICK pay \in Payments, id \in DOMAIN holds : AttemptStep(pay, id)
    BY <1>3, AttemptIsOnHold
  <2> DEFINE aged == AgedHolds({pay.payerId}, pay.ts)
             hold == RegisterAttempt(aged[id], pay)
  <2>2. pay.ts \in Times
    BY DEF Payments
  <2>3. /\ DOMAIN aged = DOMAIN holds
        /\ \A x \in DOMAIN holds : aged[x] \in Hold /\ aged[x].payerId = holds[x].payerId
    BY <2>2, AgedHoldsType
  <2>4. hold.payerId = holds[id].payerId
    <3>1. Related(aged[id], pay)
      BY <2>1 DEF AttemptStep
    <3> HIDE DEF aged
    <3>2. QED
      BY <2>3, <3>1, RegisterAttemptType
  <2>5. holds' = [aged EXCEPT ![id] = hold] /\ holdsByPayer' = Indexed(hold.payerId, id)
    BY <2>1 DEF AttemptStep
  <2> HIDE DEF aged, hold
  <2>6. /\ DOMAIN holds' = DOMAIN holds
        /\ \A x \in DOMAIN holds : holds'[x].payerId = holds[x].payerId
    BY <2>3, <2>4, <2>5
  <2>7. QED
    BY <2>4, <2>5, <2>6, SameOwners
<1>4. CASE \E id \in TxnIds, outcome \in Outcomes : ResolveStep(id, outcome)
  <2>1. PICK id \in TxnIds, outcome \in Outcomes : ResolveStep(id, outcome)
    BY <1>4
  <2> DEFINE hold == ResolveHold(holds[id], outcome)
  <2>2. id \in DOMAIN holds /\ holds[id] \in Hold
    BY <2>1 DEF TypeOK, ResolveStep
  <2>3. hold.payerId = holds[id].payerId
    BY <2>2, ResolveHoldType
  <2>4. holds' = [holds EXCEPT ![id] = hold] /\ holdsByPayer' = Indexed(hold.payerId, id)
    BY <2>1 DEF ResolveStep
  <2> HIDE DEF hold
  <2>5. /\ DOMAIN holds' = DOMAIN holds
        /\ \A x \in DOMAIN holds : holds'[x].payerId = holds[x].payerId
    BY <2>3, <2>4
  <2>6. QED
    BY <2>2, <2>3, <2>4, <2>5, SameOwners
<1>5. CASE UNCHANGED storeVars
  BY <1>5 DEF storeVars, IndexIsOwn, Owns
<1>6. QED
  BY <1>1, <1>2, <1>3, <1>4, <1>5, StepShape

(* When ids are fresh, the hold a payer's payment finds in the payer's     *)
(* index is the payer's own.                                               *)
THEOREM IndexIsExact ==
  ASSUME FreshIds
  PROVE  Spec => []IndexIsOwn
<1>1. Init => IndexIsOwn
  BY DEF Init, IndexIsOwn
<1>2. TypeOK /\ HoldsAreIndexed /\ IndexIsOwn /\ [Next]_vars => IndexIsOwn'
  BY NextIndexIsOwn
<1>3. QED
  BY <1>1, <1>2, TypeCorrect, IndexIsComplete, PTL DEF Spec

-----------------------------------------------------------------------------
(* STEP_UP always comes with a hold.  The predicate is inductive by the    *)
(* way each payment ends: what the economics steps up opens a hold, a      *)
(* linked attempt stays with one that outlived the ageing, an escalated    *)
(* attempt is blocked, and every other call forgets the last answer.       *)

(* Hold h answers payment pay: open, theirs, and its window still runs.    *)
Backs(h, pay) == IsOpen(h) /\ SamePair(h, pay) /\ pay.ts < h.expiresAt

LEMMA UnheldStepUpIsBacked ==
  ASSUME \A p \in Policies : p.holdWindow > 0,
         TypeOK, NEW pay \in Payments, NEW chosen, NEW aged, NEW tr,
         AuthorizeUnheld(pay, chosen, aged, tr), lastCall'.decision = "STEP_UP"
  PROVE  lastCall'.payment = pay /\ \E id \in DOMAIN holds' : Backs(holds'[id], pay)
<1> DEFINE hold == OpenHold(pay, policy)
<1>1. lastCall'.payment = pay /\ chosen = "STEP_UP"
  BY DEF AuthorizeUnheld, Assessment
<1>2. holds' = Put(aged, pay.txnId, hold)
  BY <1>1 DEF AuthorizeUnheld
<1>3. pay.txnId \in DOMAIN holds' /\ holds'[pay.txnId] = hold
  BY <1>2 DEF Put
<1>4. policy.holdWindow \in Nat /\ policy.holdWindow > 0 /\ pay.ts \in Nat
  BY InterceptorAssumption DEF TypeOK, Payments
<1>5. Backs(hold, pay)
  BY <1>4 DEF Backs, OpenHold, IsOpen, OpenStates, SamePair
<1>6. QED
  BY <1>1, <1>3, <1>5

LEMMA HeldStepUpIsBacked ==
  ASSUME TypeOK, IndexIsOwn, NEW pay \in Payments, NEW chosen,
         NEW i \in DOMAIN holdsByPayer[pay.payerId],
         HoldsPayee(pay.payerId, i, pay.payeeId, AgedHolds({pay.payerId}, pay.ts)),
         AuthorizeHeld(pay, chosen, holdsByPayer[pay.payerId][i],
                       AgedHolds({pay.payerId}, pay.ts), AgedTrail({pay.payerId}, pay.ts)),
         lastCall'.decision = "STEP_UP"
  PROVE  lastCall'.payment = pay /\ \E id \in DOMAIN holds' : Backs(holds'[id], pay)
<1> DEFINE p    == pay.payerId
           id   == holdsByPayer[p][i]
           aged == AgedHolds({p}, pay.ts)
           hold == RegisterAttempt(aged[id], pay)
           disp == AttemptDisposition(aged[id], pay)
<1>1. /\ p \in Payers /\ pay.ts \in Times /\ id \in DOMAIN holds /\ Owns(p, id)
      /\ {p} \in SUBSET Payers /\ p \in {p}
  BY DEF Payments, TypeOK, Owns
<1>2. /\ DOMAIN aged = DOMAIN holds /\ aged[id] \in Hold
      /\ aged[id].payerId = holds[id].payerId /\ aged[id].expiresAt = holds[id].expiresAt
  BY <1>1, AgedHoldsType
<1>3. IsOpen(aged[id]) /\ Related(aged[id], pay) /\ aged[id].payeeId = pay.payeeId
  BY DEF HoldsPayee, Related
<1>4. pay.ts < holds[id].expiresAt
  BY <1>1, <1>3, AgedOpenIsRunning
<1>5. /\ holds' = [aged EXCEPT ![id] = hold]
      /\ lastCall'.payment = pay
      /\ lastCall'.decision = Override(disp, chosen)
  BY DEF AuthorizeHeld, Assessment
<1>6. disp \in {"ESCALATED", "LINKED_TO_HOLD"}
  BY <1>3 DEF AttemptDisposition
<1> HIDE DEF aged, id, disp
<1>7. disp = "LINKED_TO_HOLD"
  BY <1>5, <1>6 DEF Override
<1>8. /\ IsOpen(hold) /\ hold.payerId = aged[id].payerId /\ hold.payeeId = aged[id].payeeId
      /\ hold.expiresAt = aged[id].expiresAt
  BY <1>2, <1>3, <1>7, RegisterAttemptType DEF disp
<1>9. holds[id].payerId = p
  BY <1>1 DEF IndexIsOwn
<1> HIDE DEF hold
<1>10. Backs(hold, pay)
  BY <1>2, <1>3, <1>4, <1>8, <1>9 DEF Backs, SamePair
<1>11. QED
  BY <1>1, <1>2, <1>5, <1>10

LEMMA NextStepUpIsBacked ==
  ASSUME \A p \in Policies : p.holdWindow > 0,
         TypeOK, IndexIsOwn, StepUpIsBackedByHold, [Next]_vars
  PROVE  StepUpIsBackedByHold'
<1>1. CASE \E pay \in Payments, chosen \in Actions : Authorize(pay, chosen)
  <2>1. PICK pay \in Payments, chosen \in Actions : Authorize(pay, chosen)
    BY <1>1
  <2> DEFINE p    == pay.payerId
             aged == AgedHolds({p}, pay.ts)
             tr   == AgedTrail({p}, pay.ts)
  <2>2. ASSUME lastCall'.decision = "STEP_UP"
        PROVE  lastCall'.payment = pay /\ \E id \in DOMAIN holds' : Backs(holds'[id], pay)
    <3>1. CASE AuthorizeUnheld(pay, chosen, aged, tr)
      BY <2>2, <3>1, UnheldStepUpIsBacked
    <3>2. CASE \E i \in DOMAIN holdsByPayer[p] :
                 /\ HoldsPayee(p, i, pay.payeeId, aged)
                 /\ AuthorizeHeld(pay, chosen, holdsByPayer[p][i], aged, tr)
      BY <2>2, <3>2, HeldStepUpIsBacked
    <3>3. QED
      BY <2>1, <3>1, <3>2 DEF Authorize
  <2>3. QED
    BY <2>2 DEF StepUpIsBackedByHold, Backs, SamePair, IsOpen, Authorized
<1>2. CASE lastCall' = NoCall
  BY <1>2 DEF StepUpIsBackedByHold, Authorized
<1>3. CASE UNCHANGED vars
  BY <1>3 DEF vars, storeVars, StepUpIsBackedByHold, Authorized, SamePair, IsOpen
<1>4. QED
  BY <1>1, <1>2, <1>3 DEF Next, Resolve, SweepExpiries, SetPolicy, SetModel

(* Whoever is told STEP_UP has an open hold of theirs to answer, whose     *)
(* window is still running: for fresh ids and windows that are not empty   *)
(* (the policy form offers 5 to 240 minutes).                              *)
THEOREM StepUpAlwaysBacked ==
  ASSUME FreshIds, \A p \in Policies : p.holdWindow > 0
  PROVE  Spec => []StepUpIsBackedByHold
<1>1. Init => StepUpIsBackedByHold
  BY DEF Init, StepUpIsBackedByHold, Authorized
<1>2. TypeOK /\ IndexIsOwn /\ StepUpIsBackedByHold /\ [Next]_vars => StepUpIsBackedByHold'
  BY NextStepUpIsBacked
<1>3. QED
  BY <1>1, <1>2, TypeCorrect, IndexIsExact, PTL DEF Spec

-----------------------------------------------------------------------------
(* Interceptor implements HoldCustody: proofs, for every value of the      *)
(* constants, that each step of the engine is a step of the promise.       *)
(*                                                                         *)
(* The abstract custody of a pair is read off its open hold.  There is one *)
(* at most (AtMostOneOpenHold), so the reading is determined by the hold   *)
(* table; and the engine, which looks holds up in the payer's index,       *)
(* misses none (HoldsAreIndexed) and takes nobody else's (IndexIsOwn).     *)

(* What a hold table says of a pair's custody. *)

(* Hold id of the table holds pair c. *)
HoldsPair(table, c, id) ==
  IsOpen(table[id]) /\ table[id].payerId = c[1] /\ table[id].payeeId = c[2]

LEMMA FreePair ==
  ASSUME NEW table, NEW c \in Payers \X Payees,
         \A id \in DOMAIN table : ~HoldsPair(table, c, id)
  PROVE  CustodyIn(table)[c] = NoCall
<1>1. OpenHolds(table, c) = {}
  BY DEF OpenHolds, HoldsPair
<1>2. QED
  BY <1>1 DEF CustodyIn

LEMMA HeldPair ==
  ASSUME NEW table, NEW c \in Payers \X Payees, NEW id \in DOMAIN table,
         HoldsPair(table, c, id),
         \A x \in DOMAIN table : HoldsPair(table, c, x) => x = id
  PROVE  CustodyIn(table)[c] = CustodyOf(table[id])
<1>1. OpenHolds(table, c) = {id}
  BY DEF OpenHolds, HoldsPair
<1>2. (CHOOSE x \in OpenHolds(table, c) : TRUE) = id
  BY <1>1
<1>3. QED
  BY <1>1, <1>2 DEF CustodyIn

LEMMA CustodyIsNotFree ==
  ASSUME NEW h \in Hold
  PROVE  CustodyOf(h) # NoCall
<1>1. h.expiresAt \in Nat /\ h.attemptBudget - h.attemptsUsed \in Int
  BY DEF Hold
<1>2. CustodyOf(h) \in [deadline : Nat, left : Int]
  BY <1>1 DEF CustodyOf
<1>3. QED
  BY <1>2, NoCallAssumption

(* Two tables whose open holds of a pair are the same give it the same     *)
(* custody.                                                                *)
LEMMA SamePairCustody ==
  ASSUME NEW table, NEW table2, NEW c \in Payers \X Payees,
         \A id \in DOMAIN table : HoldsPair(table, c, id) =>
            id \in DOMAIN table2 /\ HoldsPair(table2, c, id)
                                 /\ CustodyOf(table2[id]) = CustodyOf(table[id]),
         \A id \in DOMAIN table2 : HoldsPair(table2, c, id) =>
            id \in DOMAIN table /\ HoldsPair(table, c, id)
  PROVE  CustodyIn(table2)[c] = CustodyIn(table)[c]
<1>1. OpenHolds(table, c) = OpenHolds(table2, c)
  BY DEF OpenHolds, HoldsPair
<1>2. CASE OpenHolds(table, c) = {}
  BY <1>1, <1>2 DEF CustodyIn
<1>3. CASE OpenHolds(table, c) # {}
  <2> DEFINE id == CHOOSE x \in OpenHolds(table, c) : TRUE
  <2>1. id \in OpenHolds(table, c)
    BY <1>3
  <2>2. CustodyOf(table2[id]) = CustodyOf(table[id])
    BY <2>1 DEF OpenHolds, HoldsPair
  <2>3. QED
    BY <1>1, <1>3, <2>2 DEF CustodyIn
<1>4. QED
  BY <1>2, <1>3

(* The facts about the hold table every step below starts from. *)
Sound == TypeOK /\ HoldsAreIndexed /\ IndexIsOwn /\ AtMostOneOpenHold

LEMMA OneHoldsPair ==
  ASSUME Sound, NEW c, NEW a \in DOMAIN holds, NEW b \in DOMAIN holds,
         HoldsPair(holds, c, a), HoldsPair(holds, c, b)
  PROVE  a = b
  BY DEF Sound, AtMostOneOpenHold, SamePair, HoldsPair

(* The custody of a pair, either way. *)
LEMMA CustodyRead ==
  ASSUME Sound, NEW c \in Payers \X Payees
  PROVE  /\ \A id \in DOMAIN holds : HoldsPair(holds, c, id) =>
               Custody[c] = CustodyOf(holds[id]) /\ Custody[c] # NoCall
         /\ (\A id \in DOMAIN holds : ~HoldsPair(holds, c, id)) => Custody[c] = NoCall
<1>1. ASSUME NEW id \in DOMAIN holds, HoldsPair(holds, c, id)
      PROVE  Custody[c] = CustodyOf(holds[id]) /\ Custody[c] # NoCall
  <2>1. \A x \in DOMAIN holds : HoldsPair(holds, c, x) => x = id
    BY <1>1, OneHoldsPair
  <2>2. Custody[c] = CustodyOf(holds[id])
    BY <1>1, <2>1, HeldPair DEF Custody
  <2>3. holds[id] \in Hold
    BY DEF Sound, TypeOK
  <2>4. QED
    BY <2>2, <2>3, CustodyIsNotFree
<1>2. QED
  BY <1>1, FreePair DEF Custody

(* Ageing the holds of some payers is the promise's After: it frees the    *)
(* pairs of those payers whose deadline has passed, and only those.        *)
LEMMA AgeingIsAfter ==
  ASSUME Sound, NEW ps \in SUBSET Payers, NEW now \in Times
  PROVE  CustodyIn(AgedHolds(ps, now)) = Promise!After(ps, now)
<1> DEFINE aged == AgedHolds(ps, now)
<1>1. now \in Nat /\ \A id \in DOMAIN holds : holds[id] \in Hold
  BY InterceptorAssumption DEF Sound, TypeOK
<1>2. DOMAIN aged = DOMAIN holds
  BY DEF AgedHolds
<1>3. \A id \in DOMAIN holds :
        (\E p \in ps : Owns(p, id)) <=> holds[id].payerId \in ps
  BY DEF Sound, HoldsAreIndexed, IndexIsOwn
<1>4. ASSUME NEW id \in DOMAIN holds
      PROVE  aged[id] = IF holds[id].payerId \in ps THEN ExpireIfDue(holds[id], now)
                                                    ELSE holds[id]
  BY <1>3 DEF AgedHolds
<1> HIDE DEF aged
<1>5. ASSUME NEW c \in Payers \X Payees
      PROVE  CustodyIn(aged)[c] = IF c[1] \in ps /\ Promise!Lapsed(c, now)
                                  THEN NoCall ELSE Custody[c]
  <2>1. ASSUME NEW x \in DOMAIN holds, HoldsPair(aged, c, x)
        PROVE  HoldsPair(holds, c, x) /\ aged[x] = holds[x]
    BY <1>1, <1>4, <2>1, ExpireIfDueType DEF HoldsPair
  <2>2. CASE \E id \in DOMAIN holds : HoldsPair(holds, c, id)
    <3>1. PICK id \in DOMAIN holds : HoldsPair(holds, c, id)
      BY <2>2
    <3>2. Custody[c] = CustodyOf(holds[id]) /\ Custody[c] # NoCall
      BY <3>1, CustodyRead
    <3>3. Promise!Lapsed(c, now) <=> now >= holds[id].expiresAt
      BY <3>2 DEF Promise!Lapsed, CustodyOf
    <3>4. Due(holds[id], now) <=> Promise!Lapsed(c, now)
      BY <3>1, <3>3 DEF Due, HoldsPair
    <3>5. holds[id].payerId = c[1]
      BY <3>1 DEF HoldsPair
    <3>6. CASE c[1] \in ps /\ Promise!Lapsed(c, now)
      <4>1. aged[id] = ResolveHold(holds[id], "expired")
        BY <1>4, <3>4, <3>5, <3>6 DEF ExpireIfDue
      <4>2. ~IsOpen(aged[id])
        BY <1>1, <4>1, ResolveHoldType
      <4>3. \A x \in DOMAIN holds : ~HoldsPair(aged, c, x)
        <5>1. SUFFICES ASSUME NEW x \in DOMAIN holds, HoldsPair(aged, c, x) PROVE FALSE
          OBVIOUS
        <5>2. x = id
          BY <2>1, <3>1, <5>1, OneHoldsPair
        <5>3. QED
          BY <4>2, <5>1, <5>2 DEF HoldsPair
      <4>4. QED
        BY <1>2, <3>6, <4>3, FreePair
    <3>7. CASE ~(c[1] \in ps /\ Promise!Lapsed(c, now))
      <4>1. aged[id] = holds[id]
        BY <1>4, <3>4, <3>5, <3>7 DEF ExpireIfDue
      <4>2. \A x \in DOMAIN holds : HoldsPair(aged, c, x) => x = id
        BY <2>1, <3>1, OneHoldsPair
      <4>3. HoldsPair(aged, c, id)
        BY <3>1, <4>1 DEF HoldsPair
      <4>4. CustodyIn(aged)[c] = CustodyOf(aged[id])
        BY <1>2, <4>2, <4>3, HeldPair
      <4>5. QED
        BY <3>2, <3>7, <4>1, <4>4
    <3>8. QED
      BY <3>6, <3>7
  <2>3. CASE \A id \in DOMAIN holds : ~HoldsPair(holds, c, id)
    <3>1. Custody[c] = NoCall
      BY <2>3, CustodyRead
    <3>2. CustodyIn(aged)[c] = NoCall
      BY <1>2, <2>1, <2>3, FreePair
    <3>3. QED
      BY <3>1, <3>2
  <2>4. QED
    BY <2>2, <2>3
<1>6. CustodyIn(aged) = [c \in Payers \X Payees |-> CustodyIn(aged)[c]]
  BY DEF CustodyIn
<1>7. CustodyIn(aged) = Promise!After(ps, now)
  BY <1>5, <1>6 DEF Promise!After, Promise!Pairs
<1>8. QED
  BY <1>7 DEF aged

-----------------------------------------------------------------------------
(* Changing one record of a table changes the custody of its pair only.    *)

OneRecordDiffers(table, table2, c, id) ==
  /\ DOMAIN table2 = DOMAIN table \cup {id}
  /\ \A x \in DOMAIN table : x # id => table2[x] = table[x]
  /\ table2[id].payerId = c[1] /\ table2[id].payeeId = c[2]
  /\ id \in DOMAIN table => table[id].payerId = c[1] /\ table[id].payeeId = c[2]
  /\ \A x \in DOMAIN table : HoldsPair(table, c, x) => x = id

LEMMA OtherPairsKeep ==
  ASSUME NEW table, NEW table2, NEW c \in Payers \X Payees, NEW id,
         OneRecordDiffers(table, table2, c, id),
         NEW d \in Payers \X Payees, d # c
  PROVE  CustodyIn(table2)[d] = CustodyIn(table)[d]
<1>1. c[1] # d[1] \/ c[2] # d[2]
  OBVIOUS
<1>2. ~HoldsPair(table2, d, id) /\ (id \in DOMAIN table => ~HoldsPair(table, d, id))
  BY <1>1 DEF OneRecordDiffers, HoldsPair
<1>3. \A x \in DOMAIN table : x # id => x \in DOMAIN table2 /\ table2[x] = table[x]
  BY DEF OneRecordDiffers
<1>4. \A x \in DOMAIN table2 : x # id => x \in DOMAIN table
  BY DEF OneRecordDiffers
<1>5. ASSUME NEW x \in DOMAIN table, HoldsPair(table, d, x)
      PROVE  /\ x \in DOMAIN table2 /\ HoldsPair(table2, d, x)
             /\ CustodyOf(table2[x]) = CustodyOf(table[x])
  BY <1>2, <1>3, <1>5 DEF HoldsPair
<1>6. ASSUME NEW x \in DOMAIN table2, HoldsPair(table2, d, x)
      PROVE  x \in DOMAIN table /\ HoldsPair(table, d, x)
  BY <1>2, <1>3, <1>4, <1>6 DEF HoldsPair
<1>7. QED
  BY <1>5, <1>6, SamePairCustody

LEMMA RecordOpens ==
  ASSUME NEW table, NEW table2, NEW c \in Payers \X Payees, NEW id,
         OneRecordDiffers(table, table2, c, id), IsOpen(table2[id])
  PROVE  CustodyIn(table2) = [CustodyIn(table) EXCEPT ![c] = CustodyOf(table2[id])]
<1>1. id \in DOMAIN table2 /\ HoldsPair(table2, c, id)
  BY DEF OneRecordDiffers, HoldsPair
<1>2. \A x \in DOMAIN table2 : HoldsPair(table2, c, x) => x = id
  BY DEF OneRecordDiffers, HoldsPair
<1>3. CustodyIn(table2)[c] = CustodyOf(table2[id])
  BY <1>1, <1>2, HeldPair
<1>4. \A d \in Payers \X Payees : d # c => CustodyIn(table2)[d] = CustodyIn(table)[d]
  BY OtherPairsKeep
<1>5. /\ CustodyIn(table2) = [d \in Payers \X Payees |-> CustodyIn(table2)[d]]
      /\ CustodyIn(table) = [d \in Payers \X Payees |-> CustodyIn(table)[d]]
  BY DEF CustodyIn
<1>6. QED
  BY <1>3, <1>4, <1>5

LEMMA RecordCloses ==
  ASSUME NEW table, NEW table2, NEW c \in Payers \X Payees, NEW id,
         OneRecordDiffers(table, table2, c, id), ~IsOpen(table2[id])
  PROVE  CustodyIn(table2) = [CustodyIn(table) EXCEPT ![c] = NoCall]
<1>1. \A x \in DOMAIN table2 : ~HoldsPair(table2, c, x)
  BY DEF OneRecordDiffers, HoldsPair
<1>2. CustodyIn(table2)[c] = NoCall
  BY <1>1, FreePair
<1>3. \A d \in Payers \X Payees : d # c => CustodyIn(table2)[d] = CustodyIn(table)[d]
  BY OtherPairsKeep
<1>4. /\ CustodyIn(table2) = [d \in Payers \X Payees |-> CustodyIn(table2)[d]]
      /\ CustodyIn(table) = [d \in Payers \X Payees |-> CustodyIn(table)[d]]
  BY DEF CustodyIn
<1>5. QED
  BY <1>2, <1>3, <1>4

-----------------------------------------------------------------------------
(* One lemma per kind of step. *)

LEMMA AnswerTold ==
  ASSUME NEW pay \in Payments, NEW d \in Actions, NEW disp \in Dispositions,
         NEW id \in TxnIds, lastCall' = Assessment(pay, d, disp, id)
  PROVE  Answer' = [pair |-> << pay.payerId, pay.payeeId >>, decision |-> d]
<1>1. lastCall' \in [payment : Payments, decision : Actions,
                     disposition : Dispositions, holdId : TxnIds]
  BY DEF Assessment
<1>2. lastCall' # NoCall
  BY <1>1, NoCallAssumption
<1>3. QED
  BY <1>2 DEF Answer, Authorized, Assessment

(* Ageing for a payment keeps at most one open hold of its pair, which the *)
(* payer's index lists.                                                    *)
LEMMA AgedPair ==
  ASSUME Sound, NEW pay \in Payments, NEW id \in DOMAIN holds,
         HoldsPair(AgedHolds({pay.payerId}, pay.ts), << pay.payerId, pay.payeeId >>, id)
  PROVE  /\ HoldsPair(holds, << pay.payerId, pay.payeeId >>, id)
         /\ \E i \in DOMAIN holdsByPayer[pay.payerId] :
              /\ holdsByPayer[pay.payerId][i] = id
              /\ HoldsPayee(pay.payerId, i, pay.payeeId, AgedHolds({pay.payerId}, pay.ts))
<1> DEFINE p == pay.payerId
           c == << pay.payerId, pay.payeeId >>
           aged == AgedHolds({p}, pay.ts)
<1>1. /\ aged[id].payerId = holds[id].payerId /\ aged[id].payeeId = holds[id].payeeId
      /\ IsOpen(aged[id]) => aged[id] = holds[id]
  BY AgedHoldsType DEF Sound, Payments
<1> HIDE DEF aged
<1>2. HoldsPair(aged, c, id)
  BY DEF aged
<1>3. HoldsPair(holds, c, id) /\ holds[id].payerId = p
  BY <1>1, <1>2 DEF HoldsPair
<1>4. PICK i \in DOMAIN holdsByPayer[p] : holdsByPayer[p][i] = id
  BY <1>3 DEF Sound, HoldsAreIndexed, Owns
<1>5. HoldsPayee(p, i, pay.payeeId, aged)
  BY <1>2, <1>4 DEF HoldsPayee, HoldsPair
<1>6. QED
  BY <1>3, <1>4, <1>5 DEF aged

LEMMA UnheldIsPay ==
  ASSUME FreshIds, Sound, NEW pay \in Payments, NEW chosen \in Actions,
         \A i \in DOMAIN holdsByPayer[pay.payerId] :
           ~HoldsPayee(pay.payerId, i, pay.payeeId, AgedHolds({pay.payerId}, pay.ts)),
         AuthorizeUnheld(pay, chosen, AgedHolds({pay.payerId}, pay.ts),
                         AgedTrail({pay.payerId}, pay.ts)),
         pay.txnId \notin submitted
  PROVE  Promise!Pay(<< pay.payerId, pay.payeeId >>, pay.ts, chosen)
<1> DEFINE p    == pay.payerId
           c    == << p, pay.payeeId >>
           aged == AgedHolds({p}, pay.ts)
           left == Promise!After({p}, pay.ts)
           hold == OpenHold(pay, policy)
           t    == pay.txnId
<1>1. /\ c \in Payers \X Payees /\ p \in Payers /\ pay.ts \in Times /\ pay.txnId \in TxnIds
      /\ {p} \in SUBSET Payers /\ c[1] = p /\ c[2] = pay.payeeId
  BY DEF Payments
<1>2. CustodyIn(aged) = left
  BY <1>1, AgeingIsAfter
<1>3. DOMAIN aged = DOMAIN holds /\ pay.txnId \notin DOMAIN aged
  BY DEF AgedHolds, Sound, TypeOK
<1>4. \A x \in DOMAIN aged : ~HoldsPair(aged, c, x)
  BY <1>3, AgedPair
<1>5. left[c] = NoCall
  BY <1>1, <1>2, <1>4, FreePair
<1>6. Answer' = [pair |-> c, decision |-> chosen]
  BY <1>1, AnswerTold DEF AuthorizeUnheld, Dispositions
<1> HIDE DEF left, aged
<1>7. CASE chosen # "STEP_UP"
  <2>1. holds' = aged
    BY <1>7 DEF AuthorizeUnheld, aged
  <2>2. Custody' = left
    BY <1>2, <2>1 DEF Custody
  <2>3. chosen \in {"APPROVE", "BLOCK"}
    BY <1>7 DEF Actions
  <2>4. QED
    BY <1>1, <1>5, <1>6, <2>2, <2>3 DEF Promise!Pay, left
<1>8. CASE chosen = "STEP_UP"
  <2>1. holds' = Put(aged, pay.txnId, hold)
    BY <1>8 DEF AuthorizeUnheld, aged
  <2>2. policy \in Policies /\ policy.attemptBudget \in Nat
    BY InterceptorAssumption DEF Sound, TypeOK
  <2>3. /\ hold.payerId = c[1] /\ hold.payeeId = c[2] /\ IsOpen(hold)
        /\ CustodyOf(hold) = [deadline |-> pay.ts + policy.holdWindow,
                              left |-> policy.attemptBudget]
    BY <1>1, <2>2, OpenHoldType DEF OpenHold, CustodyOf
  <2> HIDE DEF hold
  <2>4. holds'[t] = hold /\ OneRecordDiffers(aged, holds', c, t)
    BY <1>3, <1>4, <2>1, <2>3 DEF Put, OneRecordDiffers
  <2>5. Custody' = [left EXCEPT ![c] = CustodyOf(hold)]
    <3> HIDE DEF c, t
    <3>1. IsOpen(holds'[t])
      BY <2>3, <2>4
    <3>2. CustodyIn(holds') = [CustodyIn(aged) EXCEPT ![c] = CustodyOf(holds'[t])]
      BY <1>1, <2>4, <3>1, RecordOpens
    <3>3. QED
      BY <1>2, <2>4, <3>2 DEF Custody
  <2>6. QED
    BY <1>1, <1>5, <1>6, <1>8, <2>2, <2>3, <2>5 DEF Promise!Pay, left
<1>9. QED
  BY <1>7, <1>8

LEMMA HeldIsPay ==
  ASSUME Sound, NEW pay \in Payments, NEW chosen \in Actions,
         NEW i \in DOMAIN holdsByPayer[pay.payerId],
         HoldsPayee(pay.payerId, i, pay.payeeId, AgedHolds({pay.payerId}, pay.ts)),
         AuthorizeHeld(pay, chosen, holdsByPayer[pay.payerId][i],
                       AgedHolds({pay.payerId}, pay.ts), AgedTrail({pay.payerId}, pay.ts))
  PROVE  \E d \in Actions : Promise!Pay(<< pay.payerId, pay.payeeId >>, pay.ts, d)
<1> DEFINE p    == pay.payerId
           c    == << p, pay.payeeId >>
           aged == AgedHolds({p}, pay.ts)
           left == Promise!After({p}, pay.ts)
           id   == holdsByPayer[p][i]
           h    == aged[id]
           hold == RegisterAttempt(h, pay)
           disp == AttemptDisposition(h, pay)
           d    == Override(disp, chosen)
<1>1. /\ c \in Payers \X Payees /\ p \in Payers /\ pay.ts \in Times
      /\ {p} \in SUBSET Payers /\ c[1] = p /\ c[2] = pay.payeeId
  BY DEF Payments
<1>2. CustodyIn(aged) = left
  BY <1>1, AgeingIsAfter
<1>3. id \in DOMAIN holds /\ Owns(p, id) /\ id \in TxnIds
  BY <1>1 DEF Sound, TypeOK, Owns
<1>4. /\ DOMAIN aged = DOMAIN holds /\ h \in Hold
      /\ h.payerId = holds[id].payerId
  BY <1>1, <1>3, AgedHoldsType DEF Sound
<1>5. h.payerId = p
  BY <1>1, <1>3, <1>4 DEF Sound, IndexIsOwn
<1>6. IsOpen(h) /\ h.payeeId = pay.payeeId /\ Related(h, pay)
  BY DEF HoldsPayee, Related
<1>7. HoldsPair(aged, c, id)
  BY <1>1, <1>5, <1>6 DEF HoldsPair
<1>8. \A x \in DOMAIN aged : HoldsPair(aged, c, x) => x = id
  BY <1>3, <1>4, <1>7, AgedPair, OneHoldsPair
<1>9. left[c] = CustodyOf(h) /\ left[c] # NoCall
  <2>1. CustodyOf(h) # NoCall
    BY <1>4, CustodyIsNotFree
  <2> HIDE DEF c, aged, id
  <2>2. CustodyIn(aged)[c] = CustodyOf(aged[id])
    BY <1>1, <1>3, <1>4, <1>7, <1>8, HeldPair
  <2>3. QED
    BY <1>2, <2>1, <2>2
<1>10. /\ hold.payerId = h.payerId /\ hold.payeeId = h.payeeId
       /\ hold.expiresAt = h.expiresAt /\ hold.attemptBudget = h.attemptBudget
       /\ disp \in {"ESCALATED", "LINKED_TO_HOLD"}
       /\ IsOpen(hold) <=> disp = "LINKED_TO_HOLD"
       /\ IsOpen(hold) => hold.attemptsUsed = h.attemptsUsed + 1
                          /\ h.attemptsUsed + 1 <= h.attemptBudget
  BY <1>4, <1>6, RegisterAttemptType
<1>11. holds' = [aged EXCEPT ![id] = hold] /\ lastCall' = Assessment(pay, d, disp, id)
  BY DEF AuthorizeHeld
<1> HIDE DEF aged, id, h, hold, disp, left
<1>12. d \in Actions /\ disp \in Dispositions
  BY <1>10 DEF Override, Actions, Dispositions
<1>13. d \in {"STEP_UP", "BLOCK"} /\ (disp = "ESCALATED" => d = "BLOCK")
  BY <1>10 DEF Override, Actions
<1> HIDE DEF d
<1>14. Answer' = [pair |-> c, decision |-> d]
  BY <1>3, <1>11, <1>12, AnswerTold
<1>15. aged[id] = h
  BY DEF h
<1>16. holds'[id] = hold /\ OneRecordDiffers(aged, holds', c, id)
  BY <1>1, <1>3, <1>4, <1>5, <1>6, <1>8, <1>10, <1>11, <1>15 DEF OneRecordDiffers
<1>17. CASE disp = "LINKED_TO_HOLD"
  <2>1. Custody' = [left EXCEPT ![c] = CustodyOf(hold)]
    <3> HIDE DEF c
    <3>1. IsOpen(holds'[id])
      BY <1>10, <1>16, <1>17
    <3>2. CustodyIn(holds') = [CustodyIn(aged) EXCEPT ![c] = CustodyOf(holds'[id])]
      BY <1>1, <1>16, <3>1, RecordOpens
    <3>3. QED
      BY <1>2, <1>16, <3>2 DEF Custody
  <2>2. h.attemptBudget \in Nat /\ h.attemptsUsed \in Nat /\ hold.attemptsUsed = h.attemptsUsed + 1
    BY <1>4, <1>10, <1>17 DEF Hold
  <2>3. left[c].left > 0 /\ CustodyOf(hold) = [left[c] EXCEPT !.left = @ - 1]
    BY <1>9, <1>10, <1>17, <2>2 DEF CustodyOf
  <2>4. Custody' = [left EXCEPT ![c].left = @ - 1]
    BY <2>1, <2>3
  <2>5. Promise!Pay(c, pay.ts, d)
    BY <1>1, <1>9, <1>13, <1>14, <2>3, <2>4 DEF Promise!Pay, left
  <2>6. QED
    BY <1>12, <2>5
<1>18. CASE disp = "ESCALATED"
  <2>1. Custody' = [left EXCEPT ![c] = NoCall]
    BY <1>1, <1>2, <1>10, <1>16, <1>18, RecordCloses DEF Custody
  <2>2. Promise!Pay(c, pay.ts, d)
    BY <1>1, <1>9, <1>13, <1>14, <1>18, <2>1 DEF Promise!Pay, left
  <2>3. QED
    BY <1>12, <2>2
<1>19. QED
  BY <1>10, <1>17, <1>18

LEMMA AuthorizeIsPay ==
  ASSUME FreshIds, Sound, NEW pay \in Payments, NEW chosen \in Actions,
         Authorize(pay, chosen)
  PROVE  Promise!Next
<1> DEFINE p    == pay.payerId
           aged == AgedHolds({p}, pay.ts)
           tr   == AgedTrail({p}, pay.ts)
<1>1. \E d \in Actions : Promise!Pay(<< pay.payerId, pay.payeeId >>, pay.ts, d)
  <2>1. CASE /\ \A i \in DOMAIN holdsByPayer[p] : ~HoldsPayee(p, i, pay.payeeId, aged)
             /\ AuthorizeUnheld(pay, chosen, aged, tr)
    <3>1. pay.txnId \notin submitted
      BY DEF Authorize
    <3>2. QED
      BY <2>1, <3>1, UnheldIsPay
  <2>2. CASE \E i \in DOMAIN holdsByPayer[p] :
               /\ HoldsPayee(p, i, pay.payeeId, aged)
               /\ AuthorizeHeld(pay, chosen, holdsByPayer[p][i], aged, tr)
    BY <2>2, HeldIsPay
  <2>3. QED
    BY <2>1, <2>2 DEF Authorize
<1>2. << pay.payerId, pay.payeeId >> \in Payers \X Payees /\ pay.ts \in Times
  BY DEF Payments
<1>3. QED
  BY <1>1, <1>2 DEF Promise!Next, Promise!Pairs, Promise!Decisions, Actions

LEMMA NoAnswerTold ==
  ASSUME lastCall' = NoCall
  PROVE  Answer' = NoCall
  BY DEF Answer, Authorized

LEMMA ResolveIsAnswer ==
  ASSUME Sound, NEW id \in TxnIds, NEW outcome \in Outcomes, Resolve(id, outcome)
  PROVE  Promise!Next
<1> DEFINE h    == holds[id]
           hold == ResolveHold(h, outcome)
           c    == << h.payerId, h.payeeId >>
<1>1. id \in DOMAIN holds /\ h \in Hold /\ IsOpen(h)
  BY DEF Resolve, Sound, TypeOK
<1>2. c \in Payers \X Payees /\ c[1] = h.payerId /\ c[2] = h.payeeId
  BY <1>1 DEF Hold
<1>3. /\ ~IsOpen(hold) /\ hold.payerId = h.payerId /\ hold.payeeId = h.payeeId
  BY <1>1, ResolveHoldType
<1>4. HoldsPair(holds, c, id)
  BY <1>1, <1>2 DEF HoldsPair
<1>5. Custody[c] # NoCall
  BY <1>1, <1>2, <1>4, CustodyRead
<1>6. \A x \in DOMAIN holds : HoldsPair(holds, c, x) => x = id
  BY <1>1, <1>4, OneHoldsPair
<1>7. holds' = [holds EXCEPT ![id] = hold] /\ Answer' = NoCall
  BY NoAnswerTold DEF Resolve
<1> HIDE DEF hold
<1>8. holds'[id] = hold
  BY <1>1, <1>7
<1>9. OneRecordDiffers(holds, holds', c, id)
  BY <1>1, <1>2, <1>3, <1>6, <1>7, <1>8 DEF OneRecordDiffers
<1> HIDE DEF c
<1>10. CustodyIn(holds') = [CustodyIn(holds) EXCEPT ![c] = NoCall]
  BY <1>2, <1>3, <1>8, <1>9, RecordCloses
<1>11. Custody' = [Custody EXCEPT ![c] = NoCall]
  BY <1>10 DEF Custody
<1>12. Promise!Answer(c)
  BY <1>5, <1>7, <1>11 DEF Promise!Answer
<1>13. QED
  BY <1>2, <1>12 DEF Promise!Next, Promise!Pairs

LEMMA SweepIsLapse ==
  ASSUME Sound, NEW now \in Times, NEW ps \in SUBSET Payers, SweepExpiries(now, ps)
  PROVE  Promise!Next
<1>1. holds' = AgedHolds(ps, now) /\ Answer' = NoCall
  BY NoAnswerTold DEF SweepExpiries
<1>2. Custody' = Promise!After(ps, now)
  BY <1>1, AgeingIsAfter DEF Custody
<1>3. Promise!Lapse(ps, now)
  BY <1>1, <1>2 DEF Promise!Lapse
<1>4. QED
  BY <1>3 DEF Promise!Next

(* A change of settings is a lapse of nobody. *)
LEMMA SettingIsLapse ==
  ASSUME holds' = holds, lastCall' = NoCall
  PROVE  Promise!Next
<1>1. PICK now \in Times : TRUE
  BY InterceptorAssumption
<1>2. Custody' = Promise!After({}, now)
  BY DEF Custody, CustodyIn, Promise!After, Promise!Pairs
<1>3. Promise!Lapse({}, now)
  BY <1>2, NoAnswerTold DEF Promise!Lapse
<1>4. {} \in SUBSET Payers
  OBVIOUS
<1>5. QED
  BY <1>3, <1>4 DEF Promise!Next

LEMMA StepKeepsPromise ==
  ASSUME FreshIds, Sound, [Next]_vars
  PROVE  [Promise!Next]_(Promise!vars)
<1>1. CASE \E pay \in Payments, chosen \in Actions : Authorize(pay, chosen)
  BY <1>1, AuthorizeIsPay
<1>2. CASE \E id \in TxnIds, outcome \in Outcomes : Resolve(id, outcome)
  BY <1>2, ResolveIsAnswer
<1>3. CASE \E now \in Times, ps \in SUBSET Payers : SweepExpiries(now, ps)
  BY <1>3, SweepIsLapse
<1>4. CASE \E next \in Policies : SetPolicy(next)
  BY <1>4, SettingIsLapse DEF SetPolicy, storeVars
<1>5. CASE \E next \in Models : SetModel(next)
  BY <1>5, SettingIsLapse DEF SetModel, storeVars
<1>6. CASE UNCHANGED vars
  <2>1. Custody' = Custody /\ Answer' = Answer
    BY <1>6 DEF vars, storeVars, Custody, Answer, Authorized
  <2>2. QED
    BY <2>1 DEF Promise!vars
<1>7. QED
  BY <1>1, <1>2, <1>3, <1>4, <1>5, <1>6 DEF Next

LEMMA InitKeepsPromise == Init => Promise!Init
<1> SUFFICES ASSUME Init PROVE Promise!Init
  OBVIOUS
<1>1. DOMAIN holds = {}
  BY DEF Init
<1>2. \A c \in Payers \X Payees : Custody[c] = NoCall
  BY <1>1, FreePair DEF Custody
<1>3. Custody = [c \in Payers \X Payees |-> NoCall]
  BY <1>2 DEF Custody, CustodyIn
<1>4. Answer = NoCall
  BY DEF Init, Answer, Authorized
<1>5. QED
  BY <1>3, <1>4 DEF Promise!Init, Promise!Pairs

(* The engine keeps the custody promise, for any payers, beneficiaries,    *)
(* times and history of policies: no code path gives a pair a second       *)
(* custody, an early approval, or a retry or a deadline it did not have.   *)
THEOREM EngineKeepsPromise ==
  ASSUME FreshIds
  PROVE  Spec => KeepsPromise
<1>1. Sound /\ [Next]_vars => [Promise!Next]_(Promise!vars)
  BY StepKeepsPromise
<1>2. Spec => []Sound
  BY TypeCorrect, IndexIsComplete, IndexIsExact, OneOpenHold, PTL DEF Sound
<1>3. Spec => Promise!Spec
  BY <1>1, <1>2, InitKeepsPromise, PTL DEF Spec, Promise!Spec
<1>4. QED
  BY <1>3 DEF KeepsPromise
=============================================================================
