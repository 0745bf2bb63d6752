------------------------------ MODULE Dataset ------------------------------
(***************************************************************************)
(* From the rows of a file to a replay of it: buildDataset (packages/      *)
(* ingest/src/build.ts) reads the rows in file order, sorts the payments   *)
(* by time and passes over them once; POST /api/v1/import (apps/web/app/   *)
(* api/v1/import/route.ts) then authorises them on a scratch engine.       *)
(*                                                                         *)
(* A row is what its cells come to under the mapping: Blank when a cell is *)
(* empty or its column is not bound, Unreadable when it cannot be coerced. *)
(* Texts, devices and the session's context are left out, and what a row   *)
(* says of truth is not read by the engine.                                *)
(***************************************************************************)
EXTENDS Integers, Sequences, SequencesExt, FiniteSetsExt, Functions

CONSTANTS
  RowChoices,   \* the rows a file may have, at each place
  MaxLength,    \* bound: rows of a file
  Base,         \* baseMs, in slots of five minutes
  Limit,        \* limit
  ImpliedPayer, \* IMPLIED_PAYER
  PayersNamed,  \* the mapping binds the payer
  CreditBound,  \* the mapping binds a credit column
  Slug,         \* slugIdentity, from names to beneficiaries
  Blank, Unreadable

VARIABLES
  length,         \* how many rows the file has
  phase,          \* "reading", "passing", "authorising", "answered"
  rowsRead, skipped, drafts, creditBalances,
  at,             \* the next payment of the pass or the replay
  addedAt,        \* per payment passed, beneficiaryAddedAtMs
  payees, intel, known, balances, balanceBefore,
  confirmed,      \* the store: confirmed beneficiaries
  observed,       \* the store: observed balances of payers
  seen            \* per payment authorised, what the engine was shown

buildVars == << length, rowsRead, skipped, drafts, creditBalances >>
passVars == << addedAt, payees, intel, known, balances, balanceBefore >>
replayVars == << confirmed, observed, seen >>
datasetVars == << phase, at, buildVars, passVars, replayVars >>

Reasons == {"limit", "no payer", "money in", "no beneficiary", "no amount",
            "unreadable amount", "zero amount"}

DatasetInit ==
  /\ length \in 0..MaxLength
  /\ phase = "reading" /\ at = 1
  /\ rowsRead = 0 /\ drafts = << >> /\ creditBalances = << >>
  /\ skipped = [r \in Reasons |-> 0]
  /\ addedAt = << >> /\ payees = << >> /\ intel = {} /\ known = << >>
  /\ balances = << >> /\ balanceBefore = << >>
  /\ confirmed = {} /\ observed = << >> /\ seen = << >>

With(f, x, v) == [y \in DOMAIN f \cup {x} |-> IF y = x THEN v ELSE f[y]]

-----------------------------------------------------------------------------
(* The loop over the rows. *)

(* An inflow by its direction, or by a credit column with a value where    *)
(* the debit column has none (an unreadable cell is one without digits).   *)
(* A direction that is not understood counts as money leaving.             *)
HasDebit(row) == row.amount \notin {Blank, Unreadable, 0}
IsCredit(row) ==
  \/ row.direction = "in"
  \/ CreditBound /\ row.credit \notin {Blank, Unreadable, 0} /\ ~HasDebit(row)

PayerOf(row) == IF PayersNamed THEN row.payer ELSE ImpliedPayer
PayeeOf(row) == IF row.payee # Blank THEN row.payee ELSE Slug[row.name]

(* Why a row is no payment, the first reason that applies. *)
Dropped(row) ==
  CASE Len(drafts) >= Limit                    -> "limit"
    [] PayerOf(row) = Blank                    -> "no payer"
    [] IsCredit(row)                           -> "money in"
    [] row.payee = Blank /\ row.name = Blank   -> "no beneficiary"
    [] row.amount = Blank                      -> "no amount"
    [] row.amount = Unreadable                 -> "unreadable amount"
    [] row.amount = 0                          -> "zero amount"
    [] OTHER                                   -> "kept"

(* A row without a time has the slot of its place in the file, one that    *)
(* cannot be read the base time.                                           *)
TimeOf(row) ==
  CASE row.ts = Blank      -> Base - (length - Len(drafts))
    [] row.ts = Unreadable -> Base
    [] OTHER               -> row.ts

(* The identifier is the file's, which may repeat, or its place (written   *)
(* imp_000001, a number here).                                             *)
Draft(row) ==
  [ts |-> TimeOf(row), order |-> Len(drafts), payer |-> PayerOf(row), payee |-> PayeeOf(row),
   id |-> IF row.id = Blank THEN Len(drafts) + 1 ELSE row.id,
   amount |-> row.amount, mule |-> row.mule,
   firstSeen |-> IF row.firstSeen = Unreadable THEN TimeOf(row) ELSE row.firstSeen,
   velocity |-> IF row.velocity = Unreadable THEN 0 ELSE row.velocity,
   balance |-> IF row.balance = Unreadable THEN Blank ELSE row.balance]

ReadRow(row) ==
  /\ rowsRead' = rowsRead + 1
  /\ IF Dropped(row) = "kept"
     THEN drafts' = Append(drafts, Draft(row)) /\ UNCHANGED skipped
     ELSE skipped' = [skipped EXCEPT ![Dropped(row)] = @ + 1] /\ UNCHANGED drafts
  /\ creditBalances' =
       IF Dropped(row) = "money in" /\ row.balance \notin {Blank, Unreadable}
       THEN With(creditBalances, PayerOf(row), row.balance) ELSE creditBalances
  /\ UNCHANGED << length, phase, at, passVars, replayVars >>

Earlier(d, e) == d.ts < e.ts \/ (d.ts = e.ts /\ d.order < e.order)

OrderByTime ==
  /\ phase = "reading" /\ rowsRead = length
  /\ phase' = "passing"
  /\ drafts' = SetToSortSeq(ToSet(drafts), Earlier)
  /\ balances' = creditBalances
  /\ UNCHANGED << length, rowsRead, skipped, creditBalances, at, addedAt, payees, intel, known,
                  balanceBefore, replayVars >>

-----------------------------------------------------------------------------
(* The forward pass: when its payer first paid its beneficiary, the first  *)
(* time a beneficiary was marked, and the balance a payment started from.  *)
(* Slip: the newest payment to a beneficiary is remembered, not the first. *)
RememberPaidLatest(pairs, pair, ts) == With(pairs, pair, ts)

RememberPaid(pairs, pair, ts) ==
  IF pair \in DOMAIN pairs THEN pairs ELSE With(pairs, pair, ts)

Marked == {e.payee : e \in intel}

(* Slip: the first row that gives an onward velocity keeps it.             *)
DescribedOnce(d) ==
  IF d.payee \notin DOMAIN payees
  THEN [firstSeen |-> IF d.firstSeen = Blank THEN d.ts ELSE d.firstSeen,
        velocity  |-> IF d.velocity = Blank THEN 0 ELSE d.velocity]
  ELSE [payees[d.payee] EXCEPT !.firstSeen = IF d.firstSeen = Blank THEN @ ELSE Min({@, d.firstSeen})]

(* The beneficiary as its rows so far describe it: the earliest first      *)
(* appearance, and the last onward velocity.                               *)
Described(d) ==
  IF d.payee \notin DOMAIN payees
  THEN [firstSeen |-> IF d.firstSeen = Blank THEN d.ts ELSE d.firstSeen,
        velocity  |-> IF d.velocity = Blank THEN 0 ELSE d.velocity]
  ELSE [payees[d.payee] EXCEPT
          !.firstSeen = IF d.firstSeen = Blank THEN @ ELSE Min({@, d.firstSeen}),
          !.velocity  = IF d.velocity = Blank THEN @ ELSE d.velocity]

Pass ==
  LET d == drafts[at]
      pair == << d.payer, d.payee >>
  IN  /\ phase = "passing" /\ at <= Len(drafts)
      /\ at' = at + 1
      /\ addedAt' = Append(addedAt, IF pair \in DOMAIN known THEN known[pair] ELSE Blank)
      /\ known' = RememberPaid(known, pair, d.ts)
      /\ payees' = With(payees, d.payee, Described(d))
      /\ intel' = IF d.mule /\ d.payee \notin Marked
                  THEN intel \cup {[payee |-> d.payee, ts |-> d.ts]} ELSE intel
      /\ IF d.balance # Blank
         THEN /\ balances' = With(balances, d.payer, d.balance)
              /\ balanceBefore' = With(balanceBefore, d.id, d.balance + d.amount)
         ELSE UNCHANGED << balances, balanceBefore >>
      /\ UNCHANGED << phase, buildVars, replayVars >>

(* The report on the pass: payments to a beneficiary already paid, the     *)
(* payers, and the median of how many payments each made.                  *)
Repeats == Quantify(DOMAIN addedAt, LAMBDA i : addedAt[i] # Blank)
PayersSeen == {d.payer : d \in ToSet(drafts)}
PaymentsOf(payer) == Quantify(DOMAIN drafts, LAMBDA i : drafts[i].payer = payer)
MedianPayments ==
  LET counts == SetToSortSeq({<< PaymentsOf(p), p >> : p \in PayersSeen}, LAMBDA a, b : a[1] < b[1])
  IN  IF counts = << >> THEN 0 ELSE counts[Len(counts) \div 2 + 1][1]
Report ==
  [rowsRead |-> rowsRead, rowsKept |-> Len(drafts), rowsSkipped |-> rowsRead - Len(drafts),
   repeats |-> Repeats, distinctPayers |-> Cardinality(PayersSeen),
   distinctPayees |-> Cardinality(DOMAIN payees), median |-> MedianPayments]

(* The report is the answer, unless the caller asked for decisions.        *)
Passed ==
  /\ phase = "passing" /\ at > Len(drafts)
  /\ phase' \in {"authorising", "answered"} /\ at' = 1
  /\ UNCHANGED << buildVars, passVars, replayVars >>

-----------------------------------------------------------------------------
(* The import route: one payment authorised, with what the whole file says *)
(* of its beneficiary, but the marks released by then.                     *)
Released(ts) == {e.payee : e \in {e \in intel : e.ts <= ts}}

AuthoriseImported ==
  LET d == drafts[at]
      sure == IF d.payee \in Released(d.ts) THEN confirmed \cup {d.payee} ELSE confirmed
      balance == IF d.id \in DOMAIN balanceBefore /\ balanceBefore[d.id] > 0
                 THEN With(observed, d.payer, balanceBefore[d.id]) ELSE observed
  IN  /\ phase = "authorising" /\ at <= Len(drafts)
      /\ at' = at + 1
      /\ confirmed' = sure
      /\ observed' = balance
      /\ seen' = Append(seen, [confirmed |-> d.payee \in sure, attributes |-> payees[d.payee],
                               balance |-> IF d.payer \in DOMAIN balance THEN balance[d.payer]
                                           ELSE Blank])
      /\ UNCHANGED << phase, buildVars, passVars >>

(* A request whose body is no object, has no text, or whose text cannot be *)
(* read or has no headings is refused before any of this.                  *)
DatasetNext ==
  \/ phase = "reading" /\ rowsRead < length /\ \E row \in RowChoices[rowsRead + 1] : ReadRow(row)
  \/ OrderByTime
  \/ Pass
  \/ Passed
  \/ AuthoriseImported

DatasetSpec == DatasetInit /\ [][DatasetNext]_datasetVars

-----------------------------------------------------------------------------
(* Every row that was read is a payment or is counted under one reason,    *)
(* and what is reported of payers and their beneficiaries comes to the     *)
(* payments: a payment is the first to its beneficiary or a repeat, and    *)
(* half of the payers made as many as the median.                          *)
RowsAreAccounted ==
  /\ SumFunction(skipped) = Report.rowsSkipped
  /\ phase \in {"authorising", "answered"} =>
       /\ Report.repeats + Cardinality(DOMAIN known) = Report.rowsKept
       /\ Report.distinctPayees = Cardinality({pair[2] : pair \in DOMAIN known})
       /\ Report.median * ((Report.distinctPayers + 1) \div 2) <= Report.rowsKept

(* "It must order payments by time", stably: whatever the order of the     *)
(* rows, payments are replayed in time, those of one time as in the file,  *)
(* and none is lost or doubled.                                            *)
PaymentsAreInOrder ==
  phase # "reading" =>
    /\ {d.order : d \in ToSet(drafts)} = 0..(Len(drafts) - 1)
    /\ \A i, j \in DOMAIN drafts :
         i < j => /\ drafts[i].ts <= drafts[j].ts
                  /\ drafts[i].ts = drafts[j].ts => drafts[i].order < drafts[j].order

(* "The first payment to a beneficiary reads as new and later ones read as *)
(* established": its age counts from the earliest payment of its payer, in *)
(* time and not in file order.                                             *)
NoveltyIsThePast ==
  \A i \in DOMAIN addedAt :
    LET before == {j \in 1..(i - 1) : drafts[j].payer = drafts[i].payer
                                      /\ drafts[j].payee = drafts[i].payee}
    IN  addedAt[i] = IF before = {} THEN Blank ELSE Min({drafts[j].ts : j \in before})

(* "Released at the timestamp it was asserted, never before": the engine   *)
(* sees a beneficiary confirmed exactly when a row of that time or earlier *)
(* marks it.                                                               *)
MarksAreNotForeseen ==
  \A i \in DOMAIN seen :
    seen[i].confirmed <=> \E j \in DOMAIN drafts : /\ drafts[j].mule /\ drafts[j].ts <= drafts[i].ts
                                                   /\ drafts[j].payee = drafts[i].payee

(* What is said of a beneficiary is said of the whole file, whenever it is *)
(* paid: the earliest first appearance of its rows (a row without one      *)
(* counts only if it is the first), and the last onward velocity given, 0  *)
(* if none is.  Both may come from rows later than the payment.            *)
AttributesAreOfTheFile ==
  \A i \in DOMAIN seen :
    LET of == {j \in DOMAIN drafts : drafts[j].payee = drafts[i].payee}
        given == {j \in of : drafts[j].velocity # Blank}
        dated == {j \in of : drafts[j].firstSeen # Blank}
        first == drafts[Min(of)]
        times == {drafts[j].firstSeen : j \in dated}
    IN  seen[i].attributes =
          [velocity  |-> IF given = {} THEN 0 ELSE drafts[Max(given)].velocity,
           firstSeen |-> Min(IF first.firstSeen = Blank THEN times \cup {first.ts} ELSE times)]

(* The balance a payment is measured against is the latest its payer was   *)
(* told of, at this payment or before.  It is the row's own while no       *)
(* identifier repeats; where one does, every payment that bears it is told *)
(* the balance of the last of them, which may come later.                  *)
BalancesAreOfTheirIds ==
  \A i \in DOMAIN seen :
    LET rows(j) == {k \in DOMAIN drafts : drafts[k].id = drafts[j].id /\ drafts[k].balance # Blank}
        start(j) == drafts[Max(rows(j))].balance + drafts[Max(rows(j))].amount
        told == {j \in 1..i : /\ drafts[j].payer = drafts[i].payer
                              /\ rows(j) # {} /\ start(j) > 0}
    IN  seen[i].balance = IF told = {} THEN Blank ELSE start(Max(told))

(* Every row is a payment or is counted as dropped; payments are replayed  *)
(* in time; acquaintance and marks come from no later row; and the other   *)
(* things a payment is authorised with come from exactly the rows said     *)
(* above (build.ts, the import route).                                     *)
DatasetIsFaithful ==
  /\ RowsAreAccounted /\ PaymentsAreInOrder
  /\ NoveltyIsThePast /\ MarksAreNotForeseen
  /\ AttributesAreOfTheFile /\ BalancesAreOfTheirIds
=============================================================================
