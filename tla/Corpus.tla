------------------------------- MODULE Corpus -------------------------------
(***************************************************************************)
(* The corpus generator (packages/sim/src/generator.ts): a population, the *)
(* legitimate stream payer by payer and day by day, fraud in episodes of   *)
(* one victim and one collection account, and the intelligence that        *)
(* identifies an account after it was used.  Time is in slots of a day,    *)
(* the corpus starting at 0.  What is drawn from a distribution is any     *)
(* value of its support; amounts, names and the fingerprint of a session   *)
(* are left out, except for the beneficiary's and the device's times.      *)
(***************************************************************************)
EXTENDS Integers, Sequences, SequencesExt, FiniteSetsExt, IntelTimeline

CONSTANTS
  PayerList,        \* a sequence: the order they are generated in
  Merchants, Personals, Mules,
  ChainOf,          \* the network of a collection account
  Worlds,           \* worlds and configurations to generate from, see world
  NoDevice,
  Days, DaySlots,   \* the window, and slots of a day
  Gaps,             \* slots a beneficiary is added ahead of its first payment
  HygienicGap,      \* the same in an episode run with hygiene
  NewFor,           \* slots for which a device is new
  Typologies,       \* [id, episodeMin, episodeMax, repeats, newDevice]
  TriesPerFraud,    \* episodes tried for every fraud wanted
  Lags,             \* slots from the use of a network to its confirmation
  Delays,           \* slots from there to the accounts known by association
  Hops,             \* hops of those, from 1 to 3
  Waits, Strides    \* slots from the activation, and from a payment to the next, of an episode

ASSUME NobodyIsBoth == Merchants \cap Personals = {} /\ (Merchants \cup Personals) \cap Mules = {}

(* What is drawn is of its kind: a network takes a while to be found out   *)
(* (confirmedAt adds a lognormal lag), association a while more and at     *)
(* least one hop (rng.int(1, 3)), a fraud is labelled with its typology.   *)
ASSUME CorpusAssumption ==
  /\ Days \in Nat \ {0} /\ DaySlots \in Nat \ {0}
  /\ ChainOf \in [Mules -> Range(ChainOf)]
  /\ Lags \subseteq Nat \ {0} /\ Delays \subseteq Nat /\ Hops \subseteq Nat \ {0}
  /\ Waits \subseteq Nat /\ Strides \subseteq Nat
  /\ \A spec \in Typologies : spec.id # "none"
  /\ \A w \in Worlds :
       /\ w.rate[1] \in Nat /\ w.rate[2] \in Nat \ {0}
       /\ w.circle \in [Range(PayerList) -> [merchants : SUBSET Merchants, personals : SUBSET Personals]]

VARIABLES
  phase,       \* "legitimate", "fraud", "intelligence" or "done"
  world,       \* the world and the configuration: firstSeen and activeFrom of the
               \* beneficiaries, second (the payers' second devices, or NoDevice), circle,
               \* rate (fraudRate / (1 - fraudRate)), and the bounds perDay (legitimate
               \* payments of a day, by payer) and legit (of the corpus)
  circle,      \* merchantPayees and personalPayees as they grow
  at,          \* the loops of the legitimate stream: [payer, day, count]
  added,       \* beneficiaryAdded: pairs to the time the beneficiary was added
  txns,        \* the transactions, in the order they are generated
  target,      \* targetFraud
  tried,       \* the guard of the episode loop
  episode,     \* the episode being written, or NoEpisode
  history,     \* victimHistory
  firstUsed,   \* chainFirstUsed
  intel        \* the intelligence events

corpusVars == << phase, world, circle, at, added, txns, target, tried, episode, history, firstUsed, intel >>

NoEpisode == << >>
Latest    == Days * DaySlots
FraudTxns == {t \in Range(txns) : t.fraud}
Legits    == Range(txns) \ FraudTxns
Produced  == Cardinality(FraudTxns)
AccountsOf(chain) == {m \in Mules : ChainOf[m] = chain}
Known(f, k, default) == IF k \in DOMAIN f THEN f[k] ELSE default
Put(f, k, v) == [x \in DOMAIN f \cup {k} |-> IF x = k THEN v ELSE f[x]]

(* The population that is drawn: an account opened long ago or opens in the*)
(* window; the accounts of a network come into service within days of each *)
(* other, the network somewhere before the last fifth of the window; and   *)
(* every payer knows shops and people.                                     *)
OpeningTimes == (-1400 * DaySlots)..Latest
ServiceTimes(from) == from..(from + 3 * DaySlots)
Population(w) ==
  /\ \A a \in Merchants \cup Personals : w.firstSeen[a] \in OpeningTimes
  /\ \A chain \in Range(ChainOf) : \E from \in (-10 * DaySlots)..((4 * Latest) \div 5) :
       \A m \in AccountsOf(chain) : w.activeFrom[m] \in ServiceTimes(from)
  /\ \A p \in Range(PayerList) :
       /\ w.circle[p].merchants \in SUBSET Merchants \ {{}}
       /\ w.circle[p].personals \in SUBSET Personals \ {{}}

CorpusInit ==
  /\ phase = "legitimate"
  /\ world \in {w \in Worlds : Population(w)} /\ circle = world.circle
  /\ at = [payer |-> 1, day |-> 0, count |-> 0]
  /\ added = << >> /\ txns = << >>
  /\ target = 0 /\ tried = 0 /\ episode = NoEpisode
  /\ history = [p \in Range(PayerList) |-> {}] /\ firstUsed = << >> /\ intel = {}

-----------------------------------------------------------------------------
(* The device a payment is made on and the time it was bound. *)
PrimaryBound == -10 * DaySlots
DevicesOf(payer) ==
  {[device |-> 1, bound |-> PrimaryBound]}
    \cup (IF world.second[payer] = NoDevice THEN {} ELSE {[device |-> 2, bound |-> world.second[payer]]})

BuildTransaction(ts, payer, payee, addedAt, device, isNew, label) ==
  [id |-> Len(txns), ts |-> ts, payer |-> payer, payee |-> payee, addedAt |-> addedAt,
   device |-> device.device, deviceBoundAt |-> device.bound, isNewDevice |-> isNew,
   fraud |-> label # "none", typology |-> label]

(* An account that has not opened is replaced by an open shop of the       *)
(* payer's circle; with none there is no payment.                          *)
OpenAccounts(payee, mine, ts) ==
  IF ts >= world.firstSeen[payee] THEN {payee} ELSE {m \in mine.merchants : world.firstSeen[m] <= ts}

LegitBudget == at.count < world.perDay[PayerList[at.payer]] /\ Len(txns) < world.legit

(* One payment of a payer's day, to somebody new, who joins the circle, or *)
(* to somebody of it.                                                      *)
LegitimatePayment(payer, slot, gap) ==
  /\ phase = "legitimate" /\ payer = PayerList[at.payer] /\ LegitBudget
  /\ \E wanted \in Merchants \cup Personals :
       LET mine == [merchants |-> circle[payer].merchants \cup ({wanted} \cap Merchants),
                    personals |-> circle[payer].personals \cup ({wanted} \cap Personals)]
           ts   == at.day * DaySlots + slot
           open == OpenAccounts(wanted, mine, ts)
       IN  /\ circle' = [circle EXCEPT ![payer] = mine]
           /\ at' = [at EXCEPT !.count = @ + 1]
           /\ IF open = {} THEN UNCHANGED << added, txns >>
              ELSE \E payee \in open, device \in DevicesOf(payer) :
                     LET addedAt == Known(added, << payer, payee >>, ts - gap)
                     IN  /\ added' = Put(added, << payer, payee >>, addedAt)
                         /\ txns' = Append(txns, BuildTransaction(ts, payer, payee, addedAt, device,
                                                                  ts - device.bound < NewFor, "none"))
  /\ UNCHANGED << phase, world, target, tried, episode, history, firstUsed, intel >>

NextDay ==
  /\ phase = "legitimate" /\ at.day < Days - 1
  /\ at' = [at EXCEPT !.day = @ + 1, !.count = 0]
  /\ UNCHANGED << phase, world, circle, added, txns, target, tried, episode, history, firstUsed, intel >>

NextPayer ==
  /\ phase = "legitimate" /\ at.day = Days - 1 /\ at.payer < Len(PayerList)
  /\ at' = [payer |-> at.payer + 1, day |-> 0, count |-> 0]
  /\ UNCHANGED << phase, world, circle, added, txns, target, tried, episode, history, firstUsed, intel >>

(* targetFraud: the number of frauds that makes them the wanted share. *)
FraudFor(legitCount) == (2 * legitCount * world.rate[1] + world.rate[2]) \div (2 * world.rate[2])

StartFraud ==
  /\ phase = "legitimate" /\ at.day = Days - 1 /\ at.payer = Len(PayerList)
  /\ phase' = "fraud" /\ target' = FraudFor(Len(txns))
  /\ UNCHANGED << world, circle, at, added, txns, tried, episode, history, firstUsed, intel >>

-----------------------------------------------------------------------------
MoreWanted == Produced < target /\ tried < target * TriesPerFraud

(* A slip: the hour of the schedule is taken as it falls. *)
FirstPaymentAsScheduled(mule, start, slot, wait) == (start \div DaySlots) * DaySlots + slot

(* The first payment falls on an hour of the schedule on the day of the    *)
(* episode; before the account is in service it is moved behind that.      *)
FirstPaymentAt(mule, start, slot, wait) ==
  LET scheduled == (start \div DaySlots) * DaySlots + slot
  IN  IF scheduled < world.activeFrom[mule] THEN world.activeFrom[mule] + wait ELSE scheduled

(* An episode is planned: who is paid, from when, and since when the       *)
(* beneficiary is on the victim's list.  A relationship taken up again     *)
(* keeps the time it has.                                                  *)
PlanEpisode(spec, victim, mule, reusing) ==
  LET earliest == IF world.activeFrom[mule] > 0 THEN world.activeFrom[mule] ELSE 0
      pair     == << victim, mule >>
  IN  /\ phase = "fraud" /\ episode = NoEpisode /\ MoreWanted
      /\ reusing => spec.repeats /\ mule \in history[victim]
      /\ tried' = tried + 1
      /\ IF earliest >= Latest THEN UNCHANGED << added, episode >>
         ELSE \E start \in earliest..(Latest - 1), slot \in 0..(DaySlots - 1), wait \in Waits,
                 length \in spec.episodeMin..spec.episodeMax, gap \in Gaps \cup {HygienicGap} :
                LET cursor  == FirstPaymentAt(mule, start, slot, wait)
                    addedAt == IF reusing THEN Known(added, pair, cursor - gap) ELSE cursor - gap
                IN  /\ added' = Put(added, pair, addedAt)
                    /\ episode' = [spec |-> spec, victim |-> victim, mule |-> mule, left |-> length,
                                   cursor |-> cursor, addedAt |-> addedAt]
      /\ UNCHANGED << phase, world, circle, at, txns, target, history, firstUsed, intel >>

NotedFirst(chain, ts) == IF chain \in DOMAIN firstUsed THEN firstUsed ELSE Put(firstUsed, chain, ts)

(* The next payment of the episode; it ends when its payments are made or  *)
(* no more are wanted.                                                     *)
EpisodePayment ==
  /\ phase = "fraud" /\ episode # NoEpisode /\ episode.cursor <= Latest
  /\ LET e == episode
         devices == {[device |-> 1, bound |-> PrimaryBound]}
                      \cup (IF e.spec.newDevice THEN {[device |-> 3, bound |-> e.cursor - 1]} ELSE {})
     IN  /\ \E device \in devices :
              txns' = Append(txns, BuildTransaction(e.cursor, e.victim, e.mule, e.addedAt, device,
                                                    device.device = 3, e.spec.id))
         /\ history' = [history EXCEPT ![e.victim] = @ \cup {e.mule}]
         /\ firstUsed' = NotedFirst(ChainOf[e.mule], e.cursor)
         /\ IF e.left = 1 \/ Produced + 1 >= target THEN episode' = NoEpisode
            ELSE \E later \in Strides :
                   episode' = [e EXCEPT !.left = @ - 1, !.cursor = @ + later]
  /\ UNCHANGED << phase, world, circle, at, added, target, tried, intel >>

(* A payment past the end of the window breaks the episode off. *)
RunOut ==
  /\ phase = "fraud" /\ episode # NoEpisode /\ episode.cursor > Latest
  /\ episode' = NoEpisode
  /\ UNCHANGED << phase, world, circle, at, added, txns, target, tried, history, firstUsed, intel >>

EndFraud ==
  /\ phase = "fraud" /\ episode = NoEpisode /\ ~MoreWanted
  /\ phase' = "intelligence"
  /\ UNCHANGED << world, circle, at, added, txns, target, tried, episode, history, firstUsed, intel >>

-----------------------------------------------------------------------------
(* A network in use is found out, one account directly and the others by   *)
(* association, or it never is.  firstUsed loses the networks settled.     *)
Forget(chain) == [c \in DOMAIN firstUsed \ {chain} |-> firstUsed[c]]

ConfirmChain(chain, confirmed, lag, delay, hop) ==
  /\ phase = "intelligence" /\ chain \in DOMAIN firstUsed /\ confirmed \in AccountsOf(chain)
  /\ intel' = intel
       \cup {[ts |-> firstUsed[chain] + lag, payee |-> confirmed, chain |-> chain, hop |-> 0]}
       \cup {[ts |-> firstUsed[chain] + lag + delay, payee |-> m, chain |-> chain, hop |-> hop] :
               m \in AccountsOf(chain) \ {confirmed}}
  /\ firstUsed' = Forget(chain)
  /\ UNCHANGED << phase, world, circle, at, added, txns, target, tried, episode, history >>

NeverConfirmed(chain) ==
  /\ phase = "intelligence" /\ chain \in DOMAIN firstUsed
  /\ firstUsed' = Forget(chain)
  /\ UNCHANGED << phase, world, circle, at, added, txns, target, tried, episode, history, intel >>

(* The stream is put in time order, equal times by the id: ids being       *)
(* counted up, that is the stable sort of the timeline.                    *)
Finish ==
  /\ phase = "intelligence" /\ DOMAIN firstUsed = {}
  /\ phase' = "done"
  /\ txns' = SortedByTime(txns)
  /\ UNCHANGED << world, circle, at, added, target, tried, episode, history, firstUsed, intel >>

CorpusNext ==
  \/ \E payer \in Range(PayerList), slot \in 0..(DaySlots - 1), gap \in Gaps : LegitimatePayment(payer, slot, gap)
  \/ NextDay \/ NextPayer \/ StartFraud
  \/ \E spec \in Typologies, victim \in Range(PayerList), mule \in Mules, reusing \in BOOLEAN :
       PlanEpisode(spec, victim, mule, reusing)
  \/ EpisodePayment \/ RunOut \/ EndFraud
  \/ \E chain \in Range(ChainOf), confirmed \in Mules, lag \in Lags, delay \in Delays, hop \in Hops :
       ConfirmChain(chain, confirmed, lag, delay, hop)
  \/ \E chain \in Range(ChainOf) : NeverConfirmed(chain)
  \/ Finish

CorpusSpec == CorpusInit /\ [][CorpusNext]_corpusVars

-----------------------------------------------------------------------------
(* Every payment lies in the window and is to an account that can take it: *)
(* a legitimate one to an account that has opened, a fraud to a collection *)
(* account in service (generator.ts: "A beneficiary that has not opened    *)
(* yet cannot be paid"; "the episode starts once the network has pressed   *)
(* this account into service"), whatever hour the schedule drew.           *)
PaymentsCanBeMade ==
  /\ \A t \in Legits : t.ts \in 0..(Latest - 1) /\ world.firstSeen[t.payee] <= t.ts
  /\ \A t \in FraudTxns : t.ts \in 0..Latest /\ world.activeFrom[t.payee] <= t.ts

(* Nothing is known of a network before it was used: an event about one of *)
(* its accounts comes after a fraud paid to the network.  One account of a *)
(* network found out is confirmed, the others are known by association and *)
(* not before it.                                                          *)
IntelligenceFollowsUse ==
  /\ \A e \in intel : \E t \in FraudTxns : ChainOf[t.payee] = e.chain /\ t.ts < e.ts
  /\ \A e \in intel : {f.payee : f \in {g \in intel : g.chain = e.chain}} = AccountsOf(e.chain)
  /\ \A e, f \in intel : e.chain = f.chain /\ e # f =>
       e.payee # f.payee /\ (e.hop = 0 => f.hop > 0 /\ e.ts <= f.ts)

(* A payer added a beneficiary once: every later payment of the pair       *)
(* carries the time of the first (generator.ts: "The same add time is then *)
(* reused for every later payment").                                       *)
NoveltyAges == \A t, u \in Legits : t.payer = u.payer /\ t.payee = u.payee => t.addedAt = u.addedAt

(* The stream is in time order, equal times by the id, and fraud has no    *)
(* more than its share.                                                    *)
Before(t, u) == t.ts < u.ts \/ (t.ts = u.ts /\ t.id < u.id)
InOrderAndInShare ==
  /\ \A i, j \in 1..Len(txns) : i < j => Before(txns[i], txns[j])
  /\ Cardinality(FraudTxns) <= FraudFor(Cardinality(Legits))

CorpusIsSound ==
  phase = "done" =>
    PaymentsCanBeMade /\ IntelligenceFollowsUse /\ NoveltyAges /\ InOrderAndInShare
=============================================================================
