----------------------------- MODULE Recovery ------------------------------
(***************************************************************************)
(* What can still be frozen of money that has gone (packages/core/src/     *)
(* recovery.ts): the Markov generator, the simulated paths reduced to a    *)
(* survival grid, and the questions asked of the grid.  A path is the      *)
(* sequence of its dwell times, one per layer it rests in, in fractions    *)
(* Tick of a minute; a weight is a traceability in whole units.            *)
(***************************************************************************)
EXTENDS Integers, Sequences, SequencesExt, FiniteSetsExt

CONSTANTS Tick,       \* ticks to the minute
          GridMax     \* the last minute of the grid

(* A slip the checks must notice: times are rounded down to the minute. *)
FloorMinute(t) == t \div Tick

CeilMinute(t) == -((-t) \div Tick)

\* When the funds of a path enter layer i, and when they leave it.
Entered(path, i) == FoldLeft(LAMBDA x, y : x + y, 0, SubSeq(path, 1, i - 1))
Left(path, i)    == Entered(path, i + 1)
CashOut(path)    == Left(path, Len(path))

-----------------------------------------------------------------------------
(* Another: the last layer keeps its hop probability. *)
BuildGeneratorOpen(rate, hop, unit) ==
  LET k == Len(rate)
  IN  [i \in 1..(k + 1) |-> [j \in 1..(k + 1) |->
         IF i > k THEN 0
         ELSE IF j = i THEN -rate[i] * unit
         ELSE (IF i # k /\ j = i + 1 THEN rate[i] * hop[i] ELSE 0)
              + (IF j = k + 1 THEN rate[i] * (unit - hop[i]) ELSE 0)]]

(* Leaving layer i at its rate, split between a hop and cashing out; the   *)
(* last layer only cashes out, and the absorbing row is empty.             *)
BuildGenerator(rate, hop, unit) ==
  LET k == Len(rate)
  IN  [i \in 1..(k + 1) |-> [j \in 1..(k + 1) |->
         IF i > k THEN 0
         ELSE LET onward == IF i = k THEN 0 ELSE hop[i]
              IN  IF j = i THEN -rate[i] * unit
                  ELSE (IF i # k /\ j = i + 1 THEN rate[i] * onward ELSE 0)
                       + (IF j = k + 1 THEN rate[i] * (unit - onward) ELSE 0)]]

(* Each rest of a path credits its layer's weight to the minutes from the  *)
(* first at or after its arrival up to its departure, as a difference.     *)
Credit(diff, path, i, weight) ==
  LET a == CeilMinute(Entered(path, i))
      b == Min({GridMax + 1, CeilMinute(Left(path, i))})
  IN  IF weight[i] > 0 /\ Entered(path, i) <= GridMax * Tick /\ b > a
      THEN [diff EXCEPT ![a] = @ + weight[i], ![b] = @ - weight[i]]
      ELSE diff

SimulateChains(paths, weight) ==
  LET empty == [m \in 0..(GridMax + 1) |-> 0]
      Path(diff, path) == FoldLeft(LAMBDA d, i : Credit(d, path, i, weight), diff,
                                   [i \in DOMAIN path |-> i])
      diffs == FoldLeft(Path, empty, paths)
      grid[m \in 0..GridMax] == diffs[m] + (IF m = 0 THEN 0 ELSE grid[m - 1])
  IN  [grid         |-> grid,      \* over the number of paths
       cashOutTimes |-> SortSeq([p \in DOMAIN paths |-> CashOut(paths[p])], <),
       hops         |-> FoldLeft(LAMBDA n, p : n + Len(p) - 1, 0, paths)]

(* Another: a path counts as surviving at the instant it cashes out. *)
SurvivalAtInclusive(sorted, t) ==
  Cardinality({i \in DOMAIN sorted : sorted[i] >= t})

(* Binary search for the paths not cashed out at t. *)
SurvivalAt(sorted, t) ==
  LET n == Len(sorted)
      search[lo \in 0..n, hi \in 0..n] ==
        LET mid == (lo + hi) \div 2
        IN  IF lo >= hi THEN lo
            ELSE IF sorted[mid + 1] <= t THEN search[mid + 1, hi] ELSE search[lo, mid]
  IN  n - search[0, n]

(* Another: the weights of the two minutes are exchanged. *)
RecoverableAtSwapped(grid, t, latency) ==
  LET effective == Max({0, t}) + latency
      lo        == effective \div Tick
      hi        == Min({lo + 1, GridMax})
  IN  IF effective >= GridMax * Tick THEN grid[GridMax] * Tick
      ELSE grid[hi] * Tick + (grid[lo] - grid[hi]) * (effective - lo * Tick)

(* Minutes after landing, with the freeze latency added, read off the grid *)
(* between its minutes; over Tick times the number of paths.               *)
RecoverableAt(grid, t, latency) ==
  LET effective == Max({0, t}) + latency
      lo        == effective \div Tick
      hi        == Min({lo + 1, GridMax})
  IN  IF effective >= GridMax * Tick THEN grid[GridMax] * Tick
      ELSE grid[lo] * Tick + (grid[hi] - grid[lo]) * (effective - lo * Tick)

(* Another: the interval takes the latency off a horizon it was not added to. *)
EstimateEarly(grid, horizon, latency, sampleMinutes) ==
  [fractionAtHorizon |-> RecoverableAt(grid, horizon, latency),
   centre            |-> RecoverableAt(grid, horizon - latency, latency),
   curve             |-> [i \in DOMAIN sampleMinutes |->
                            RecoverableAt(grid, sampleMinutes[i] * Tick, latency)]]

(* The estimate at a horizon: the curve, and the point its interval is     *)
(* drawn round.                                                            *)
Estimate(grid, horizon, latency, sampleMinutes) ==
  [fractionAtHorizon |-> RecoverableAt(grid, horizon, latency),
   centre            |-> RecoverableAt(grid, (horizon + latency) - latency, latency),
   curve             |-> [i \in DOMAIN sampleMinutes |->
                            RecoverableAt(grid, sampleMinutes[i] * Tick, latency)]]

(* A flagged amount, split by a fraction n/d. *)
SplitRecoverable(amountPaise, n, d) ==
  LET back == (2 * amountPaise * n + d) \div (2 * d)
  IN  [recoverablePaise |-> back, lostPaise |-> amountPaise - back]

=============================================================================
