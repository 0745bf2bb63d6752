# Kreaton: a TLA+ model of the payment interceptor

Kreaton decides, for every UPI payment in flight, whether to approve it, hold
it behind a step-up challenge, or block it. These modules model the program
from the file that is imported to the row that is written in a spreadsheet: the
hold protocol and the engine, the computations behind a decision, the stores
and the write-behind copy, the service, the console, and what trains and
evaluates the model. TLC checks them on small instances; TLAPS proves the
central facts for every value of the constants.

## 1. The system

| Component | State it keeps | Operations | Talks to |
|---|---|---|---|
| Hold protocol (`core/hold.ts`) | none: pure functions on hold records | choose a challenge, open, resolve, expire, register a further attempt | called by the engine |
| Interceptor (`core/engine.ts`) | policy, model, recovery model | `authorize`, `resolve`, `sweepExpiries`, `setPolicy`, `setModel` | store, ledger, profiles, scoring |
| Store (`core/store.ts`) | holds, holds per payer, profiles, recent payments per payer, the ledger | `putHold`, `holdsForPayer`, `recordTransaction`, `appendLedger` | forwards every write to a sink |
| Audit ledger (`core/ledger.ts`) | hash-chained records | append, verify, case file, narrative, JSON Lines | the engine, the export |
| Profiles and signals (`core/profiles.ts`, `core/signals`) | payer baseline, 24-hour beneficiary window | fold a payment in, refresh a window, extract features | the engine, the replay |
| Scoring and cost (`core/fusion.ts`, `cost.ts`, `policy.ts`, `recovery.ts`) | a simulated grid | fuse, calibrate, decide, solve for a ceiling | the engine, the policy page |
| Sheets sink (`sheets/sink.ts`, `client.ts`, `auth.ts`) | a buffer per tab, the setup's and the flush's promises, a timer, an access token | `onHold`, `onTransaction`, `onLedgerRecord`; `start`, `flush`, `close` | the store pushes; Google Sheets answers, or does not |
| Server (`web/lib/server-engine.ts`, `web/app/api`) | one engine and one sink per instance | authorize, batch, import, health | engine, sink, the platform |
| Console session (`web/lib/session.ts`, `persist.ts`, `scenarios.ts`) | an engine, a cursor, a clock, playback and save timers, IndexedDB | load, restore, play, step, inject, submit, resolve | engine, delayed intelligence |
| Import page (`web/components/ImportPanel.tsx`) | a file, a mapping, a result | drop, map, reset, run | ingest, session |
| Ingest (`packages/ingest`) | none | read, map, coerce, build a dataset | import page, import route |
| Replay (`sim/replay.ts`, `scripts/seed.ts`) | a store, an intelligence cursor | feature stream, replay, slice | engine, fit, console |
| Generator, fit, metrics, report, adversary (`packages/sim`) | a corpus, a fitted model | offline, in sequence | replay, engine |
| Pages, `analysis/*.py` | presentation | | |

What is hard here:

* **Interleaving.** Payments, a payer's answers, sweeps and policy changes
  reach the engine in any order. JavaScript runs each call to its end, so a
  call is one step; the orders of the calls are the difficulty. Awaits split
  the work in the sink, the token source, the session and the import page.
* **Time.** A hold's window ends by itself and nothing fires when it does.
  Windows of a day are read over records that may be in another order.
* **Failure.** A request may be refused, may get no answer, and may have taken
  effect although its answer was an error. An instance is frozen or recycled. A
  page is reloaded, a write to its storage refused.
* **Retries.** A coached payer pays again: the point of the protocol is that
  this is no fresh start.
* **Foresight.** What a payment is scored with must have been known before it,
  in six places that each build a context of their own.
* **Doubles.** The fit and the engine, the decision and its drawn boundary, the
  report and the decisions, the ablation and the system compute the same thing
  in two ways.

The list by line is under `hazards` in `PROJECT.json`.

## 2. Modules

The hold protocol and the engine:

| Module | What it is |
|---|---|
| `HoldProtocol` | `hold.ts` as operators |
| `HoldCustody` | abstract: custody of a (payer, beneficiary) pair, with a deadline and a number of retries |
| `Interceptor` | `engine.ts` over `MemoryStore`, and the case file and narrative `ledger.ts` shows of every trail it reaches; refines `HoldCustody` |
| `InterceptorProofs` | theorems about `Interceptor`, and that it implements `HoldCustody` |

The computations behind a decision, each a library of operators, put side by
side in `DecisionSpace`, whose states are inputs and whose steps change an input
the way the world does:

| Module | Models |
|---|---|
| `CostModel`, `PolicySolver` | `cost.ts`, `policy.ts` |
| `Fusion` | exact fractions; `fusion.ts`, the table lookup of `signals/specs.ts`, the step function of `mathx.ts` |
| `Recovery` | `recovery.ts` from drawn paths on |
| `Ledger` | the chain, its verification and export |
| `Scenarios` | the injected episodes against the hold protocol |
| `DecisionProofs` | theorems about the ledger, the cost band, the policy solver and the order of neighbouring inputs |

Profiles, signals and their replays:

| Module | Models |
|---|---|
| `Profiles` | `profiles.ts`, the transactions and profiles of `store.ts`, the monitored amounts of `money.ts` and the twelve statistics of `signals/extract.ts` |
| `IntelTimeline` | delayed intelligence, used by replay and console |
| `SharedFacts` | lemmas the proofs share: induction over sets of naturals; the timeline's sort, cursor and table say what was asserted by a moment |
| `Replay` | the feature stream and the engine's replay in lockstep; the slice cut by `seed.ts` and the engine booted from it |
| `ReplayProofs` | theorems about `Replay`: what a payment is measured with, in both walks |

The copy, the service and the console:

| Module | Models |
|---|---|
| `WriteBehind` | abstract: a queue per tab that delivers prefixes and counts what it gives up |
| `SheetsSink` | `sink.ts` over `client.ts`; refines `WriteBehind` |
| `SinkProofs` | theorems about `SheetsSink`, and that it implements `WriteBehind` |
| `TokenSource` | `auth.ts` |
| `ServerEngine` | the routes, `waitUntil`, and an instance that is frozen and recycled |
| `ServerProofs` | theorems about `ServerEngine`, `TokenSource` and `ImportPanel` |
| `ConsoleSession` | `session.ts` over `persist.ts` |
| `SessionProofs` | theorems about `ConsoleSession`: the screen and its storage; the engine behind it |
| `TextCells`, `ColumnMapping` | from a text to cells, times and bound columns |
| `Dataset` | `build.ts` row by row, then the import route |
| `ImportPanel` | the import page |

What is computed off line, put side by side in `EvaluationSpace`, and the
generator:

| Module | Models |
|---|---|
| `Fitting`, `Portfolio`, `PaySim` | `fit.ts` and `metrics.ts`, `report.ts`, `paysim.ts` |
| `Campaign` | `adversary.ts` and `defences.ts`, over `Profiles`, `Fusion` and `CostModel` |
| `Corpus` | `generator.ts`, one payment a step |
| `CorpusProofs` | theorems about `Corpus`: what the finished corpus is |

`MC*` modules give TLC its inputs. `MCWeb` and `MCSim` hold several components
for one configuration; `subject` names the one whose steps a behaviour takes, so
each is checked on its own. An operator introduced as a slip is what a
plausible mistake would have written in place of the one after it; no module
uses it.

### How state and actions correspond to the code

`Interceptor`. `holds` and `holdsByPayer` are the two maps of `MemoryStore` (the
second a sequence without repetitions, because a JavaScript `Set` iterates in
insertion order and `authorize` takes the first match). `trail[h]` is the
ledger seen from hold `h`. `policy` and `model` are the engine's
fields; `submitted`, `served` and `lastCall` are history, for properties and
bounds. `Authorize` is the whole handler: ageing, search, attempt, override,
opening. Times are inputs and need not increase. A hold id is
`hold_<txnId>`, so holds are indexed by their transaction; `FreshIds` says
whether clients ever submit an id twice, and both values are checked. Any of
the three actions may be the economic choice.

`SheetsSink`. An action is what runs between two awaits. `flush` is `"idle"`,
`"setup"` (`doFlush` awaits `start`) or `"sending"` (it awaits `append` of
`batch`, taken from the tab at position `at`). When an append settles the code
goes on to the next non-empty buffer, so the action ends with `SendNext`. A row
is the number of its push; a failed request is described by its error and by
whether it took effect first.

`TokenSource`. Google counts the life of a token from the moment it is issued,
`auth.ts` from the moment the answer arrives; both clocks are there.
Callers wait on one renewal, which may be refused.

`ServerEngine`. A request is one step; the flush it asked for is not. The
platform freezes an instance as soon as no promise given to `waitUntil` is
pending, may wake it with the next request, or may recycle it. The sink's setup
is started with the engine, by a request that nothing need keep alive, and again
by a flush after a failure; a flush awaits it and gives up when it fails. A
payment may throw before it is sealed, or after, when its profile is updated.
`sealed` and, for why a row still waits, `unflushed`, `retried`, `late` and
`unset` are history.

`ConsoleSession`. One action per method and per callback (fetch answered,
IndexedDB served or refused, interval ticked, debounced save fired), and
`Reload`, which keeps the disk only. The engine being deterministic, its state
is the policy it was built with and the calls it has taken. `behind` is history:
what set the storage and the screen apart since the last save, if anything did.

`ImportPanel`. A read that is awaited and a replay that is put off by a timer
each keep the file and the mapping of the render that created them; drops,
edits and resets go on meanwhile.

`Replay`. `stream` and `engine` are two walks over the payments shown so far
(`fed`); `row` is what each measured for the last one. Every state is also a
corpus from which all its slices are cut (`WebSlice`).

`Dataset`. One row a step into a draft or a reason for dropping it, then the
sort, then the single pass for novelty, intelligence and balances, then one
payment a step through the engine of the import route, with all that route gives
it: marks, acquaintance, the balance kept under the payment's id, and what the
whole file says of the beneficiary.

`Corpus`. `at` is the place of the loops (payer, day, payment), `episode` the
fraud in progress; what is drawn from a distribution is any value of a set.

`DecisionSpace`, `EvaluationSpace`. `case` is an input of one computation, and
the code is the operators its properties apply.

## 3. What is checked

Deadlock is not checked: payments, pushes, operations and inputs are bounded,
so a behaviour may legitimately stop.

| Configuration, module | Instance | Shows |
|---|---|---|
| `InterceptorFresh`, `MCInterceptor` | 3 payments, 1 payer, 2 beneficiaries, 2 policies, fresh ids | one open hold a pair; a trail that replays every hold; a hold behind every step-up; case files and narratives that tell it; no approval while held; final resolutions; `HoldCustody` |
| `InterceptorReuse`, `MCInterceptor` | 2 ids reused, 2 payers, new devices, 2 policies, 3 payments | the budget and the window hold whatever ids clients send |
| `Decisions`, `MCDecisionSpace` | thousands of small inputs of each computation | see below |
| `Sink`, `SheetsSink` | 4 rows, 2 tabs, queue 3, flush at 2, 2 faults of 6 kinds, close | order and headers; `WriteBehind`; without `close`, what is buffered is sent or counted in the end |
| `Console`, `MCConsoleSession` | a slice of 3, an import of 2, 2 operations, 1 reload, 1 refused write | one dataset on screen; storage that catches up; a restore that replays what was saved; playback that ends |
| `Replay`, `MCReplay` | corpora of 4 payments, 2 payers, windows of 2 | see below |
| `Web`, `MCWeb` | tokens: 3 callers. Service: 3 requests of up to 2 payments, 1 fault. Texts of 4 cells; dates 1999 to 2003; 2 columns, 3 fields; files of up to 4 rows, 3 of them read; 3 drops on the page | no token expires in flight; a frozen instance holds only what it may; for the rest see below |
| `Sim`, `MCSim` | 5 cases, 4 rows, 7 outcomes, 2 payments, 3 lines, attacks on pasts of 3; corpora of 2 days of 2 slots, 2 payers, 2 shops, a friend, 2 networks | for the spaces see below; in a corpus nobody is paid before the account exists or is in service, a pair has one time of addition, intelligence follows use, payments are in time order |

Several properties are conjunctions of statements that are named, and
commented, in their modules:

* `PolicyIsSolved`: the ceiling is met, at the lowest price the bisection can
  tell, and the frontier's rates are those of the payments decided one by one.
  `FusionIsBounded`: a quiet group that an attacker controls takes no more than
  its floor off the score; correlation discounts; the contributions add up.
  `RecoveryIsCounted`: the grid counts the paths that rest in the chain at each
  minute, survival bounds it, the generator conserves probability.
  `HoldBandIsExact`: the drawn band is the band in which the engine holds.
  `NeighboursKeepTheirOrder`, an action property: more signs, money or risk
  never earn a milder answer, dearer friction never interrupts more.
  `EpisodesUnfold`: each scripted episode is held, linked, escalated and
  challenged as its description expects. `AlterationIsCaught`: a copy that
  verifies and ends in the published head is the trail.
* `WindowsAreTheLastDay`: fan-in and recent payments are those of the last day
  exactly. `NothingIsForeseen`: baselines and intelligence come from earlier
  payments and instants. `SliceMeasuresAsReplayed`: an engine booted from a
  slice measures what the full replay measures, but for the windowed signals of
  a payer whose shipped payments are read in part (the finding below). `ScoredAsFitted`: warmed replay and feature stream
  measure a payment alike.
* `ParsedAsWritten`: texts and dates are read back. `MappingIsStable`: a
  mapping does not depend on the order of columns, binds none twice, knows the
  presets. `DatasetIsFaithful`: rows are accounted for, sorted stably,
  novelty and confirmations come from no later row, and balances and what is
  said of a beneficiary come from the rows that the property names, later ones
  among them (section 5). `CorpusWasConfirmed`: what
  is replayed was on the screen, complete, when the operator said so.
* `ScoresMeanWhatTheySay`: ranking metrics are pair counts, an operating point
  keeps its ceiling but for the payments of its threshold's own score and no
  threshold below the ceiling does better (that it keeps the ceiling is refuted
  below), calibration is the closest non-decreasing step
  function. `FitIsWhatTheEngineRuns`: training's score is the engine's.
  `BooksAreTrue`: the report splits and counts the decisions without loss, and
  what PaySim's adapter writes on the row of a payment is not foreseen. `CampaignIsFair`: defences are compared at
  one rate of interruption, on the victim's own past, with split payments
  visible, and the unablated second implementation is the system.
* `SessionIsSound`: the feed is a prefix of the dataset on screen, the engine's
  policy is the one shown, intelligence is applied by the clock, samples and
  interval belong to the state.

Four runs must find a violation; each states what a comment or a document says
(quoted under `findings`):

| Configuration, module | Statement refuted |
|---|---|
| `SliceOrder`, `MCReplay` | no decision in the console differs from the full replay |
| `JoinedFlush`, `ServerEngine` | the promise given to `waitUntil` covers the rows of the request that gave it |
| `SealedUnsent`, `ServerEngine` | a route that produced a decision asks for the flush that sends it |
| `Ceilings`, `MCEvaluationSpace` | an operating point holds the false-positive rate at or below its ceiling |

### Bounds

* Interceptor: a window is 2 time units and times are 0..2, so a payment is
  before, inside or exactly at the end of a window, and windows overlap. The
  budget is 1 or, in the second policy, 0, so three payments link and escalate,
  or escalate and reopen. Two beneficiaries put an unrelated hold in the index;
  two payers matter when an id is reused between them. Ids, payers and
  beneficiaries are symmetric: no property names one.
* Sink: a queue of 3 with flushes of 2 overflows with a request in flight; two
  tabs suffice for one to be passed by a flush and for an overflow to have a
  choice. With 2 faults a setup and an append fail, or one append twice.
* Token: a life of 6, a margin of 3, answers within 2 and flights of 1 make
  the margin tight; 11 instants see two lives. Service: 2 tabs,
  3 requests of 2 payments and a fault, which is a setup or an append that fails:
  a flush is joined, refused, left without its tabs, and follows a recycling.
* Console: any two operator actions with a reload and a refusal between them
  and the callbacks; the intelligence comes before, in and after the window.
* Replay: windows of 2 amounts and 1 day, 2 retained payments and half-hour
  gaps, so that each window overflows within four payments.
* Spaces: the grids have every boundary value (zero, one, equality, empty), and
  each is small enough for every pair of neighbours to be visited.
* Corpus: worlds that are mostly honest or mostly fraudulent, a network in
  service from the start, late or never.

### Fairness

`SheetsSink!FairSpec`: the timer keeps firing while it is set (`setInterval`), a
settled promise resumes its awaiter (the event loop), and every request is
answered in some way (`fetch` resolves or rejects). Success is assumed of no
request; `MaxFaults` bounds how often they fail. The property excepts
behaviours with a `close`, which stops the timer.

`ConsoleSession`: while the interval is set it ticks. Nothing is assumed of the
operator, of IndexedDB or of a fetch; `PlaybackEnds` needs none of it, and
`StorageCatchesUp` speaks of the states in which storage has served everything.

Elsewhere there is none: nothing in the code makes a payer answer, a sweep run
or a platform wake an instance.

## 4. What is proved

Every theorem is of the specification TLC runs and holds for every value of the
constants that meets the named assumptions. An assumption states the shape of
an input (times and windows are natural numbers, the tabs of the sink are
distinct, a corpus is a sequence of events with times); where one says more it
is given below with the line that justifies it. `PROJECT.json` lists the
theorems with the property each of them states.

### The interceptor (`InterceptorProofs`)

For any payers, payees, times, contexts, policies and models, whether or not
ids are reused:

* `TypeCorrect`: `Spec => []TypeOK`. `TypeOK` is inductive. Beyond the shape of
  records it says that a hold sits under its own id and was opened by a payment
  that was authorised, that the trail covers exactly the holds, and that an
  index entry names an existing hold.
* `IndexIsComplete`: every hold is in the index of its payer (`HoldsAreIndexed`).
* `OneOpenHold`, `BudgetHolds`, `HeldPaymentsAreNotApproved`,
  `LapsedHoldsDoNotCapture`: the properties of the runs.

When no id is submitted twice (`ASSUME FreshIds`): `IndexIsExact`,
`ResolvedIsFinal`, `TermsStayFixed` (window, budget, challenge and pair of a
hold never change, and counted attempts stay counted), `TrailTellsAll`,
`StepUpAlwaysBacked` and `EngineKeepsPromise`. These are false without the
assumption: `putHold` under an id in use replaces the earlier hold.
`StepUpAlwaysBacked` also needs policies whose window is positive, as the policy
page's form has it (5 to 240 minutes): a window of zero is over when it opens.

The argument. `StepShape` reduces the next-state relation to four kinds of step
on the store: age, open, attempt, resolve. `AtMostOneOpenHold` is not inductive
alone: from a state with an open hold missing from its payer's index, the next
payment would not find it and would open a second one. With `HoldsAreIndexed`
and `TypeOK` it is: a hold is opened only when the search through the payer's
index found none open to the beneficiary, and the index is complete. The same
completeness gives `NoApprovalWhileHeld`: a hold whose window runs survives the
ageing and is found (`RunningHoldIsFound`). `WithinBudget` and `Replays` speak
of one hold; each is shown to be kept by each operation of `HoldProtocol`
with the entries it seals, then lifted to the table. Freshness gives
`OpenStepKeepsHolds`: an existing hold is in `submitted`, so a new one has
another id.

`StepUpIsBackedByHold` relates the last answer to the table. A step-up leaves a
hold in two ways: it opens one, or an attempt is linked to one. In the second
the hold found belongs to the payer because the index names only the payer's
own (`IndexIsOwn`), and its window runs because it outlived the ageing.

`EngineKeepsPromise` is the refinement. The custody of a pair is read off its
open hold, and is none where none is open; it is well defined because
`AtMostOneOpenHold` makes the open hold unique. What each kind of step on the
store does to the custodies comes first: ageing lapses those of the payer it
finds elapsed and no other, an opening starts one for a pair that had none, an
attempt spends a retry of one or ends it, a resolution ends one. A call of the
engine is then composed of these: `authorize` is `Pay`, `resolve` is `Answer`,
a sweep or a change of settings is `Lapse` (`StepKeepsPromise`).

### The write-behind sink (`SinkProofs`)

For any distinct tabs, batch size, queue bound, pushes and faults:
`SinkTypeCorrect`, `RowsStayInOrder`, and `SinkIsWriteBehind`, that every step
is a step of `WriteBehind` or a stutter.

`RowsArriveInOrder` speaks of the sheet alone and is not inductive: what the
next append may do to it depends on what waits. `SinkInv` has for each tab
(`TabSound`) that what waits, with the batch in flight at its head, increases
and follows what arrived, except that an initial part of it may have arrived
already, in an append whose answer was lost; and for the setup (`SetupSound`)
that a tab still to get its header has no row. A batch that returns is put back
in front, so what waits is the same sequence before and after. In the
refinement what waits at a tab is the batch in flight followed by its buffer:
an answered append is `Deliver`; one whose answer is lost delivers rows that
still wait, or are given up and counted; a push at the ceiling accepts one row
and gives up others of its queue.

### The service and its tokens (`ServerProofs`)

For any number of requests, batches of any mix and length, and any faults:
`FrozenHoldsOnlyExcused`. A request is a loop over
its payments, a recursive function over their positions; that it exists and
what it leaves is proved by induction on a set of naturals (`SetInduction`,
below). `ServerInv` says that, without a promise to keep the instance awake,
only rows of requests that asked for no flush, of refused appends, that came
after a flush had passed their tab, or whose flush awaited a setup that failed
are in its memory: for the buffers, for the
batch in flight, and for the tabs a running flush has behind it.

For any callers, life and margin, from `TokenAssumption` (the answer to a
renewal and the flight of a request together take no longer than the margin):
`TokensOutliveRequests`, that a request on its way carries a token Google
accepts, and `OneRenewalForAll`, that at most one renewal is out and nobody
waits for one that is over. `TokenInv` relates the local expiry to Google's:
the local hour starts late by at most the latency, `get` stops using a token a
margin before the local expiry, and the flight takes the rest. The assumption
is needed: with a slower network the statement is false.

### The console (`SessionProofs`, `SharedFacts`)

For any corpora, imports, policies, scenarios and bounds, from
`ConsoleAssumption`:

* `SessionTypeCorrect`, `NoIntervalIsLeftBehind` (the playback interval runs
  exactly while the feed plays).
* `StorageTellsTheScreen`: when the debounced save and the queue of IndexedDB
  are empty and no write was refused, storage holds what the screen shows, but
  for three exceptions (below).
* `ScreenIsOneThing`: the feed has replayed exactly the slice up to the cursor,
  the engine decides with the policy shown, each payment was scored with what
  was asserted by the latest moment reached and nothing later, and the samples
  are of the dataset on screen.
* `SavedRunIsReplayed`, of every step: a reload that finds the record of a run
  without calls by hand is at the saved position, with the saved calls.

`StorageCatchesUp` is about quiet states. What leads there is `LastWord`: while
writes are queued, the last of them is true of the screen; when none is, the
disk is. Where a save is due by the timer nothing is said. Where none is, the
storage holds the import at the position on screen (at its start too) or, under
the shipped corpus, nothing; three events set the two apart until the next save,
and `behind` says which: `reset` rewinds the screen and saves nothing
(`"rewound"`: the storage keeps the import at a position it had); an older
build's record is dropped when it is read, which erases an import made
meanwhile (`"erased"`); and a session that is restored while a write is queued
is on screen over what that write says (`"overtaken"`). The statement
needs `QueueSound` (at most one read is out, and the load waits for it), or a
read answered late would restore over what the operator did since.

`ScreenIsOneThing` needs `FeedSound`: the engine in the tab is that of the run
on screen (`EngineOf`). Of its calls, in their order, the replayed ones are the
slice up to the cursor (`RunOf`); the last policy set, or else the one it was
built with, is that shown (`PolicyOf`); and each payment's flags are what is
known at the greatest of the moments reached so far (`Told`), which the timeline
stands at. The greatest, not the payment's own: an episode that was injected is
ahead of the clock, and after it the replay goes back in time. Each operation
that takes payments is a loop, unfolded once into a function over positions
(`ScoringFollows`), after which one lemma on one payment suffices.

A restored session is compared with one that no longer exists. `SavedRunIsReplayed`
goes through what both must be: the calls of a run of replayed payments only are
a function of its slice and its position (`CallsOf`, by `FeedSound` in
`PlayedBackCalls`), and every record in the queue of the storage or on the disk
has the calls of the position it carries (`SavedInv`). What an engine without
calls by hand was told owes nothing to a flag, because a flag is raised by a
composed payment, which is the call after it (`ByTheBook`).

`SharedFacts` has what `Told` rests on: the constructor's sort is a
permutation in time order, `advanceTo` folds exactly the events that are due,
the table holds for each account the least distance and whether it is
confirmed; so `lookup`, at whatever cursor, answers what `AssertedBy` says of
that moment without any cursor (`LookupTellsWhatWasAsserted`).

### The import page (`ServerProofs`)

For any files and any number of drops: `OnlyTheConfirmedIsReplayed`. `PageInv`
says that a mapping on the page is of the file on the page, that a started
replay carries a confirmed pair, and that pending reads are of real files; the
last two are what closures give.

### Decisions and the ledger (`DecisionProofs`)

From `DecisionAssumption`: probabilities, recovery and prices are fractions of
one unit (the sliders of `apps/web/app/policy/page.tsx:43` go from 0 to 1),
amounts are whole paise, and the multipliers of the search rise from the one
above `let lo = 1` in `policy.ts`. `CaseIsSound` says that every case
`DecisionSpace` reaches is such an input; the others rest on it.

* `AlterationsAreCaught`, for trails of any length, after any edits and
  reseals. A chain that verifies spells itself out in its last hash, since a
  hash is injective in what it was taken from; so two chains that verify and
  end in one head are equal. Without the published head the statement is false.
* `HoldBandIsAsDrawn`. Each difference of two costs is a multiple of the
  distance from its boundary, so the three signs of the comparison say on which
  side of the two boundaries a payment lies, also when they cross in the wrong
  order.
* `PolicySolves`. Dearer friction interrupts a subset of a portfolio, payment
  by payment, so what complies with a ceiling is a final part of the rising
  prices; the bisection keeps a complying price above and a failing one
  below, and stops at the first that complies. The frontier rounds a portfolio
  where the report rounds each payment: they differ by at most half a unit per
  payment.
* `WorseIsNeverMilder`: four of the six conjuncts of `NeighboursKeepTheirOrder`
  (more signs, more money, more risk, dearer friction).

### The replay (`ReplayProofs`)

From `ReplayAssumption` (times, amounts and distances are numbers, a window and
a budget are natural, intelligence is a sequence of events, the training share
is less than one: `chronologicalSplit` is called with 0.6), for any length of
corpus and of window: `WindowsAreTrue`, `NoForesight`, `EngineMeasuresAsFitted`
and `WalksStayTogether`. Of `ScoredAsFitted` this includes that the split of a
corpus is a cut in time.

None of these is inductive: a window is what a whole history of updates left
behind. `IInv` says what the stores *come to*.

* `StreamSound`: the store of the feature walk comes to all payments fed
  (`StoreOf`): each profile to the payments of its payer (count, sums,
  beneficiaries, active days), each list of retained payments to the last
  `Retention` of them, and each 24-hour window, whenever it is read from now
  on, to the payments its beneficiary received in that day.
* `EngineSound`: the engine's store comes to *some* sequence of payments, all
  of them fed and none later than the latest moment; it learns nothing from
  payments before its window. Each timeline folded no event later than that
  moment, and the holds keep their shape.
* `WalksAgree`: while the engine is warmed, or its window has seen every
  payment, the two stores and the two timelines are equal.

`StoreLearns` is the step of one payment, for every part of `StoreOf`. The code
prunes a window when it reads it as well as when it updates it, and only one of
the walks may read: `RefreshThenUpdate` and `RefreshAndAttach` show that this
changes nothing that is read later. The windowed signals walk a payer's list
backwards and stop at the first payment that is too old; because the payments of
a payer are in time order (`RecentIsReversed`, `SinceIsTheEnd`) what they see is
the day. With `WalksAgree` the two measurements of a payment have equal inputs
but for the open holds, which the engine alone has: they enter one rule, and
`StandingIsHeld` ties that rule's points to a hold that stood.

### The generator (`CorpusProofs`)

From `CorpusAssumption` and `NobodyIsBoth` (the window and its days are not
empty, a network takes a while to be found out and association comes later, over
at least one hop, the fraud rate is a fraction, a shop or a friend is no
collection account), for any population, window, typologies and whatever is
drawn: `CorpusStaysSound`. The statement is about the finished corpus, so it says
nothing of the steps on the way to it, and `IInv` adds `Generating`, which holds
until then:

* A legitimate payment carries the time that is on file for its pair, and every
  fraud goes to a collection account. The two kinds of pair are apart, so that
  what an episode files anew for its pair changes no earlier payment.
* The cursor of an episode is neither before the window nor before the account
  came into service. The first payment is put where both hold, and the others
  come after it.
* While an episode has payments to come, fewer frauds are out than `target`.
  The loop's guard is read before each payment, and `target` is fixed by the
  legitimate payments, which by then are all generated.
* A network waits from the first fraud that is generated to it, whose time is
  its first use; it is settled once, and what is told of it comes after that
  use.
* Payments are numbered as they are generated. The sort is by time alone and
  stable, so the corpus comes out ordered by time and then by number
  (`StreamIsSorted`).

### Loops

The library's induction theorems take a predicate as a parameter, which the
provers here cannot instantiate. `SharedFacts` states induction for sets
instead: a set that has 0 and every successor has every natural number. It
follows from `<` being well founded on the naturals, and a loop's invariant is
then the membership of a position in the set of positions at which it holds.
This reaches loops that are recursive functions over positions. It does not
reach the folds of the community modules over sets, nor `CHOOSE`n enumerations.

### Model-checked only

* Every liveness property (`PlaybackEnds`, `EventuallySent`): fairness and
  `ENABLED` are out of the prover's reach.
* `CaseFilesTellTheHold`, whose case file flattens a set of trails.
* `SliceMeasuresAsReplayed`, which boots an engine from every slice of a corpus:
  a second replay within each state, by folds.
* Of `DecisionSpace`: `FusionIsBounded` (fractions brought to a common
  denominator by a greatest common divisor), `RecoveryIsCounted` (sums over sets
  of paths), `EpisodesUnfold` (a finite table, which the run reads whole), and
  the two conjuncts of `NeighboursKeepTheirOrder` on calibration and recovery.
* `ParsedAsWritten`, `MappingIsStable`, `DatasetIsFaithful` and the statements of `EvaluationSpace`. Their operators fold over data and compare
  the result with a definition written another way; a theorem would be about
  each fold, one by one.

## 5. Where the code and its texts part

The four findings are runs. The following were met while modelling and are
recorded here; several were violations that a statement with one field would
show, and no run is spent on them.

* `resolve` does not look at the window (`engine.ts:365`), so a payer who answers
  after it, before anything has aged the hold, is released; the policy page says
  how long a hold is kept.
* A hold an attempt escalates is gone from the context that attempt is scored
  with (`engine.ts:252`, after the comment at 250).
* `setPolicy` leaves the recovery model with the former freeze latency, while
  the ledger records the hash of the new policy.
* The challenge of an open hold is not chosen again when a retry comes under
  coercion (`hold.ts:29`, 348).
* Expiry is lazy and nothing calls `sweep`: the hold of a payer who does not pay
  again stays open.
* A narrative of a held payment does not show its linked attempts, which are
  filed under their own ids.
* Sink: a setup that fails after creating tabs leaves them without headers
  (`sink.ts:163`); a batch that comes back may exceed `maxQueuedRows` (`:303`,
  against `:64`); the dropped count of an overflow may be off from what is cut
  (`:251`); `close` joins a running flush and may leave rows (`:309`), and after
  a failed setup restarts the timer. A setup that fails while the flush of an
  answered request awaits it leaves the rows in the memory of an instance that
  nothing keeps alive any more (`:286`). A request whose `authorize` throws asks
  for no flush, also when the decision was sealed before it threw (`SealedUnsent`).
  A recycled instance loses holds, queue and ledger, and the next one
  starts a second chain in the same sheet.
* The token's hour is counted from the arrival of the answer: right only while
  latency and flight fit in the margin.
* When the step-up is dominated, `thresholds` draws the boundary at the
  step-up's crossing though approve and block cross lower (`cost.ts:230`).
* Dividing a payer's lifetime value by the days retained overstates the mean
  value of an active day once days leave the window (`profiles.ts`).
* `distinctPayersAllTime` is the largest 24-hour count seen.
* A ledger copy cut at its tail verifies; only the published head tells.
* Pooling leaves two knots of different level when rows of equal score straddle
  a block (`fit.ts:347`), so calibration can change a ranking metric where a
  plateau ties scores; a sparse bin whose left neighbour happens to equal its
  own level is filled from the right. The threshold of an operating point is the
  score of a legitimate payment, which is flagged with it: the ceiling is
  exceeded wherever it is no whole number of payments (`Ceilings`), at a ceiling
  of zero always, and under ties by any number; and where it is whole, a lower
  threshold that flags as few may catch more fraud.
* PaySim: the velocity of a beneficiary is that of the whole table
  (`paysim.ts:204`), so payments are scored with what later rows say of it.
* Adversary: priming payments may be dated after the extraction; live fan-in is
  rebased to the instant of the attack and so lies in the future of the priming
  payments; the ablation of mule rotation removes a signal a fresh account does
  not show.
* Generator: payments of one day are generated unordered, so a beneficiary may
  be added, or a second device bound, after a payment that uses it; reused
  acquaintance may carry a later date.
* Import: a reset or a late file between the click and the timer leaves a done
  page that names another file, or none; a late file makes the page idle, so a
  replay can be started twice; the preview of fifty rows and the replay date
  rows without a time column differently. An ISO time with an offset is matched
  as a slashed date and read as UTC. The limit cuts in file order, before the
  sort. `creditPaise` without `direction` deletes what is not there. An
  observed balance is never cleared, and a later debit overwrites it. The onward
  velocity and the first appearance of a beneficiary are of the whole file
  (`build.ts:428`, `import/route.ts:125`), so an early payment is scored with
  what a later row says; and payments that repeat a `txnId` share the balance of
  the last of them (`build.ts:464`).
* Storage: `reset` saves nothing (`session.ts:382`), so a reload after it comes
  back at the old position. An import made or put away while the stored session
  is being read is overtaken by it on screen, until the next save or reload. A
  record of an older build is cleared when it is read (`persist.ts:108`), and
  with it an import saved meanwhile.
* A restore does not bring back the policy nor what was done by hand; the
  scenario field `newPayee` is never read; injected payments run ahead of the
  clock, after which the replay goes back in time.

## 6. Not modelled, and the plan

* The logistic and logarithm functions of the score, the distributions of the
  recovery simulation and of the generator, the reweighted regression, the
  Wilson intervals: real-valued analysis. Their results are inputs.
* The lexical score of a heading, the reading of JSON, names, addresses and
  texts: string work without state.
* `truncate` and `read` of the sheets client, which only tests call.
* The field-by-field validation of a request, the import route's summary.
* The pages, which render a snapshot, and the Python analysis.

What remains worth proving: `CaseFilesTellTheHold` from
`TrailTellsAll`; `SliceMeasuresAsReplayed` from `StreamSound`;
`RecoveryIsCounted`. For the model: a run that puts two service instances on one
spreadsheet.
