--------------------------- MODULE IntelTimeline ---------------------------
(***************************************************************************)
(* Delayed intelligence about beneficiaries: class IntelTimeline, which    *)
(* packages/sim/src/replay.ts and apps/web/lib/session.ts both hold a copy *)
(* of.  Events say, from a moment on, how many hops a beneficiary is from  *)
(* a confirmed mule account (0: it is one).  A timeline is a cursor over   *)
(* the events in time order and what is known so far.                      *)
(***************************************************************************)
EXTENDS Integers, Sequences, SequencesExt, FiniteSetsExt

Unknown == [confirmed |-> FALSE, hop |-> -1]       \* hop -1 stands for null

(* Behind all that are not later: a stable sort puts it there.             *)
Inserted(sorted, e) ==
  LET k == CHOOSE k \in 0..Len(sorted) :
             \A i \in 1..Len(sorted) : (i <= k) = (sorted[i].ts <= e.ts)
  IN  InsertAt(sorted, k + 1, e)

SortedByTime(events) ==
  LET sorted[i \in 0..Len(events)] ==
        IF i = 0 THEN << >> ELSE Inserted(sorted[i - 1], events[i])
  IN  sorted[Len(events)]

(* The constructor sorts a copy of the events by their time. *)
NewTimeline(events) == [cursor |-> 0, events |-> SortedByTime(events), known |-> << >>]

(* One event: the shortest distance stands, and a confirmation is kept. *)
Fold(known, e) ==
  LET old == IF e.payee \in DOMAIN known THEN known[e.payee]
             ELSE [confirmed |-> FALSE, hop |-> e.hop]
      new == [confirmed |-> old.confirmed \/ e.hop = 0,
              hop       |-> Min({old.hop, e.hop})]
  IN  [p \in DOMAIN known \cup {e.payee} |-> IF p = e.payee THEN new ELSE known[p]]

(* The next n events, one by one. *)
FoldNext(known, events, from, n) ==
  LET after[i \in 0..n] ==
        IF i = 0 THEN known ELSE Fold(after[i - 1], events[from + i])
  IN  after[n]

(* While the next event is due, fold it and move on. *)
AdvanceTo(timeline, now) ==
  LET from == timeline.cursor
      due  == {i \in from + 1 .. Len(timeline.events) :
                 \A j \in from + 1 .. i : timeline.events[j].ts <= now}
      last == Max({from} \cup due)
  IN  [timeline EXCEPT !.cursor = last,
                       !.known  = FoldNext(@, timeline.events, from, last - from)]

(* What the engine is told: a confirmed beneficiary has no distance. *)
Lookup(timeline, payee) ==
  IF payee \notin DOMAIN timeline.known THEN Unknown
  ELSE LET k == timeline.known[payee]
       IN  [confirmed |-> k.confirmed, hop |-> IF k.hop = 0 THEN -1 ELSE k.hop]

-----------------------------------------------------------------------------
(* What intelligence is, said without a cursor: everything asserted by a   *)
(* moment, whatever the order of the file.                                 *)
AssertedBy(all, payee, now) ==
  LET about == {all[i].hop : i \in {k \in DOMAIN all : all[k].payee = payee /\ all[k].ts <= now}}
  IN  [confirmed |-> 0 \in about,
       hop       |-> IF about = {} \/ 0 \in about THEN -1 ELSE Min(about)]

=============================================================================
