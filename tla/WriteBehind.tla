----------------------------- MODULE WriteBehind -----------------------------
(***************************************************************************)
(* What a write-behind copy of the engine's records promises, without      *)
(* requests, batches, setup or timers.                                     *)
(*                                                                         *)
(* Every tab has rows that are waiting and rows that have arrived.  A      *)
(* prefix of the waiting rows may arrive; the rows that arrive leave the   *)
(* queue, or stay to arrive again when the answer was lost.  Waiting rows  *)
(* may be given up, and then at least as many are counted as lost.         *)
(***************************************************************************)
EXTENDS Integers, Sequences

CONSTANTS Tabs, RowIds

VARIABLES
  waiting,   \* per tab, oldest first
  arrived,   \* per tab, in the order the rows arrived
  lost       \* how many rows were reported lost

vars == << waiting, arrived, lost >>

Init ==
  /\ waiting = [t \in Tabs |-> << >>]
  /\ arrived = [t \in Tabs |-> << >>]
  /\ lost = 0

(* A row joins the end of its tab's queue. *)
Accept(t, row) ==
  /\ waiting' = [waiting EXCEPT ![t] = Append(@, row)]
  /\ UNCHANGED << arrived, lost >>

(* The n oldest waiting rows arrive; known tells whether the sender knows. *)
Deliver(t, n, known) ==
  /\ arrived' = [arrived EXCEPT ![t] = @ \o SubSeq(waiting[t], 1, n)]
  /\ waiting' = IF known
                THEN [waiting EXCEPT ![t] = SubSeq(@, n + 1, Len(@))] ELSE waiting
  /\ UNCHANGED lost

Without(s, i, j) == SubSeq(s, 1, i - 1) \o SubSeq(s, j + 1, Len(s))

(* RowIds i to j of a queue are given up and counted. *)
GiveUp(t, i, j) ==
  /\ waiting' = [waiting EXCEPT ![t] = Without(@, i, j)]
  /\ lost' >= lost + (j - i + 1)
  /\ UNCHANGED arrived

(* A row is accepted and rows of the same queue, it or others, are given   *)
(* up to make room.                                                        *)
AcceptAndGiveUp(t, row, i, j) ==
  /\ waiting' = [waiting EXCEPT ![t] = Without(Append(@, row), i, j)]
  /\ lost' >= lost + (j - i + 1)
  /\ UNCHANGED arrived

(* The n oldest rows arrive, and the sender, who does not know, gives them up. *)
DeliverAndGiveUp(t, n) ==
  /\ arrived' = [arrived EXCEPT ![t] = @ \o SubSeq(waiting[t], 1, n)]
  /\ waiting' = [waiting EXCEPT ![t] = SubSeq(@, n + 1, Len(@))]
  /\ lost' >= lost + n

Next ==
  \E t \in Tabs :
    \/ \E row \in RowIds : Accept(t, row)
    \/ \E n \in 1..Len(waiting[t]), known \in BOOLEAN : Deliver(t, n, known)
    \/ \E i, j \in 1..Len(waiting[t]) : i <= j /\ GiveUp(t, i, j)
    \/ \E row \in RowIds, i, j \in 1..(Len(waiting[t]) + 1) :
         i <= j /\ AcceptAndGiveUp(t, row, i, j)
    \/ \E n \in 1..Len(waiting[t]) : DeliverAndGiveUp(t, n)

Spec == Init /\ [][Next]_vars
=============================================================================
