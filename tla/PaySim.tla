------------------------------ MODULE PaySim -------------------------------
(***************************************************************************)
(* The adapter from PaySim's table to a corpus (packages/sim/src/          *)
(* paysim.ts).  A row is [step, type, amount, nameOrig, nameDest,          *)
(* oldDest, newDest, isFraud]; the columns the conversion does not read,   *)
(* and the constant fields of a payment it fills in, are left out.         *)
(***************************************************************************)
EXTENDS Integers, Sequences, SequencesExt, FiniteSetsExt, TLC

CONSTANTS HourMs,       \* milliseconds of a step
          DeviceAge,    \* how long before its first payment a device was bound
          ThinnedOut,   \* places, among the rows of the kept types, the sampling hash drops
          Unpaid,       \* no earlier payment of the pair
          Paise(_)      \* the paise of an amount

(* Only what resembles a push payment; every fraud, and of the legitimate  *)
(* rows those the hash of their place keeps; no more than the limit.       *)
LoadPaySim(lines, limit) ==
  LET Read(acc, row) ==
        IF Len(acc.rows) = limit \/ row.type \notin {"TRANSFER", "CASH_OUT"} THEN acc
        ELSE [seen |-> acc.seen + 1,
              rows |-> IF ~row.isFraud /\ acc.seen + 1 \in ThinnedOut THEN acc.rows
                       ELSE Append(acc.rows, row)]
  IN  FoldLeft(Read, [seen |-> 0, rows |-> << >>], lines).rows

(* Rows of a step are spread over its hour, each at the middle of its part. *)
TimestampFor(step, indexInStep, countInStep) ==
  step * HourMs + (HourMs * (2 * indexInStep + 1)) \div (2 * countInStep)

At0(f, k, default) == IF k \in DOMAIN f THEN f[k] ELSE default

(* What the session claims: the first payment of the pair, if there was one. *)
PaidBefore(acc, row, ts) == At0(acc.firstPaid, << row.nameOrig, row.nameDest >>, Unpaid)

(* One row: its time, its novelty, and what its beneficiary received and   *)
(* kept so far.                                                            *)
ConvertRow(acc, row, countInStep) ==
  LET idx  == At0(acc.indexInStep, row.step, 0)
      ts   == TimestampFor(row.step, idx, countInStep)
      paid == PaidBefore(acc, row, ts)
      kept == IF row.newDest > row.oldDest THEN row.newDest - row.oldDest ELSE 0
      agg  == At0(acc.inbound, row.nameDest, [value |-> 0, retained |-> 0])
      bound == At0(acc.deviceBound, row.nameOrig, ts - DeviceAge)
  IN  [indexInStep |-> (row.step :> idx + 1) @@ acc.indexInStep,
       firstPaid   |-> acc.firstPaid @@ (<< row.nameOrig, row.nameDest >> :> ts),
       firstSeen   |-> acc.firstSeen @@ (row.nameDest :> ts),
       deviceBound |-> acc.deviceBound @@ (row.nameOrig :> bound),
       inbound     |-> (row.nameDest :> [value    |-> agg.value + row.amount,
                                         retained |-> agg.retained
                                           + (IF kept < row.amount THEN kept ELSE row.amount)]) @@ acc.inbound,
       transactions |-> Append(acc.transactions,
          [ts |-> ts, payer |-> row.nameOrig, payee |-> row.nameDest,
           amountPaise |-> IF Paise(row.amount) < 1 THEN 1 ELSE Paise(row.amount),
           addedAt |-> paid, enteredBy |-> IF paid = Unpaid THEN "typed" ELSE "contact",
           deviceBoundAt |-> bound, isFraud |-> row.isFraud])]

Velocity(agg) == IF agg.value > 0 THEN [num |-> agg.value - agg.retained, den |-> agg.value]
                 ELSE [num |-> 0, den |-> 1]

PaySimToCorpus(rows) ==
  LET order  == SortSeq([i \in DOMAIN rows |-> i],
                        LAMBDA i, j : rows[i].step < rows[j].step
                                        \/ (rows[i].step = rows[j].step /\ i < j))
      InStep(s) == Cardinality({i \in DOMAIN rows : rows[i].step = s})
      empty == << >>
      done  == FoldLeft(LAMBDA acc, i : ConvertRow(acc, rows[i], InStep(rows[i].step)),
                        [indexInStep |-> empty, firstPaid |-> empty, firstSeen |-> empty,
                         deviceBound |-> empty, inbound |-> empty, transactions |-> << >>], order)
      txns  == done.transactions
      Value(ts) == FoldLeft(LAMBDA sum, t : sum + t.amountPaise, 0, ts)
      frauds == SelectSeq(txns, LAMBDA t : t.isFraud)
  IN  [transactions |-> txns,
       payees |-> [p \in DOMAIN done.firstSeen |->
                     [firstSeen |-> done.firstSeen[p], velocity |-> Velocity(done.inbound[p])]],
       meta |-> [totalTransactions |-> Len(txns), fraudulentTransactions |-> Len(frauds),
                 totalValuePaise |-> Value(txns), fraudValuePaise |-> Value(frauds)]]
=============================================================================
