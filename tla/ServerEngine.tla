---------------------------- MODULE ServerEngine ----------------------------
(***************************************************************************)
(* The authorisation service (apps/web/lib/server-engine.ts and the routes *)
(* authorize and authorize/batch) on a serverless platform: a request is   *)
(* handled in one go, its decisions are sealed and their rows queued in    *)
(* the sink, and persistAfterResponse keeps the instance alive until the   *)
(* flush it asked for has settled.  The platform freezes an instance that  *)
(* nothing keeps alive, and may recycle a frozen one.                      *)
(*                                                                         *)
(* The sink is SheetsSink's, reduced to the tabs ledger and transactions,  *)
(* to a setup that succeeds or fails as a whole, and to what its flush     *)
(* leaves behind.  A row is its number.  No request is large enough to     *)
(* fill a buffer (400 rows), and the deployment has a sink.                *)
(***************************************************************************)
EXTENDS Integers, Sequences, SequencesExt

CONSTANTS
  MaxBatch,     \* MAX_BATCH
  MaxRows,      \* bound: the rows pushed
  MaxFaults,    \* bound: the setups and appends that fail
  MaxRequests   \* bound: the requests handled

ASSUME ServerAssumption ==
  MaxBatch \in Nat /\ MaxRows \in Nat /\ MaxFaults \in Nat /\ MaxRequests \in Nat

(* What a payment of a request turns out to be: its fields are wrong, the  *)
(* engine answers, or it throws: before it sealed the decision but after a *)
(* linked attempt was sealed, or after the seal, when the profile is       *)
(* updated for a time no Date can hold ("undated").                        *)
Items == {"invalid", "decided", "throws", "undated"}

(* The body of a batch: not an array, or the payments in it. *)
NotAList == << "notAList" >>
Bodies == {NotAList} \cup UNION {[1..n -> Items] : n \in 0..(MaxBatch + 1)}

Tabs == << "ledger", "transactions" >>

VARIABLES
  instance,   \* "awake", "frozen"
  setup,      \* the sink's tabs: "none" before there is a sink, "running", "failed", "done"
  buffers,    \* per tab, the rows waiting
  flush,      \* "idle", "starting" while it awaits the setup, "sending"
  tabAt,      \* while sending: the position of the tab in Tabs
  batch,      \* while sending: the rows in the request
  keptAlive,  \* a promise of the running flush was handed to waitUntil
  rows,       \* rows pushed
  written,    \* rows in the spreadsheet
  given,      \* rows the sink gave up
  faults, requests

(* What became of the rows, which the instance does not remember. *)
VARIABLES
  sealed,     \* the rows of the ledger that are decisions
  retried,    \* rows put back after a retryable failure
  unset,      \* rows waiting when the setup their flush awaited failed
  unflushed,  \* rows pushed by a request that asked for no flush
  late        \* rows pushed to a tab that a running flush had passed

sinkVars == << setup, buffers, flush, tabAt, batch >>
rowVars == << written, given, retried, unset >>
serverVars == << instance, sealed, sinkVars, keptAlive, rows, rowVars, unflushed, late,
                 faults, requests >>

ServerInit ==
  /\ instance = "frozen"
  /\ setup = "none"
  /\ buffers = [t \in 1..2 |-> << >>]
  /\ flush = "idle" /\ tabAt = 0 /\ batch = << >>
  /\ keptAlive = FALSE
  /\ rows = 0 /\ sealed = {}
  /\ written = {} /\ given = {} /\ retried = {} /\ unset = {} /\ unflushed = {} /\ late = {}
  /\ faults = 0 /\ requests = 0

Waiting == ToSet(buffers[1]) \cup ToSet(buffers[2])

Push(bufs, n, t) == [bufs EXCEPT ![t] = Append(@, n)]

(* One payment of a request, on what the payments before it left: bad      *)
(* fields push nothing; the seal of a decision, or of the link an          *)
(* exception comes after, is a row of the ledger; and a payment that went  *)
(* through is a row of the transactions.                                   *)
AuthoriseOne(s, item) ==
  LET ledgered == Push(s.buffers, s.rows + 1, 1)
  IN  CASE item = "invalid" -> s
        [] item = "throws"  -> [rows |-> s.rows + 1, buffers |-> ledgered, sealed |-> s.sealed]
        [] item = "undated" -> [rows |-> s.rows + 1, buffers |-> ledgered,
                                sealed |-> s.sealed \cup {s.rows + 1}]
        [] OTHER            -> [rows |-> s.rows + 2, buffers |-> Push(ledgered, s.rows + 2, 2),
                                sealed |-> s.sealed \cup {s.rows + 1}]

(* The payments of a request, in order. *)
Handled(items) ==
  LET after[i \in 0..Len(items)] ==
        IF i = 0 THEN [rows |-> rows, buffers |-> buffers, sealed |-> sealed]
        ELSE AuthoriseOne(after[i - 1], items[i])
  IN  after[Len(items)]

(* getServerEngine builds the sink with the engine and calls its start,    *)
(* which nothing keeps the instance alive for.                             *)
Built == IF setup = "none" THEN "running" ELSE setup

(* flush awaits the setup, which it starts again after a failure. *)
Started == IF setup \in {"none", "failed"} THEN "running" ELSE setup

(* flush: a call while one runs joins it; otherwise one starts if rows are *)
(* waiting.  waitUntil keeps the instance alive for it.                    *)
PersistAfterResponse(bufs) ==
  IF flush = "idle"
  THEN LET some == bufs[1] \o bufs[2] # << >>
       IN  /\ flush' = (IF some THEN "starting" ELSE "idle") /\ keptAlive' = some
           /\ setup' = IF some THEN Started ELSE Built
  ELSE keptAlive' = TRUE /\ setup' = Built /\ UNCHANGED flush

(* What a request that reached the engine leaves: the rows it pushed, and  *)
(* who will send them.  One that fails with status 500 asks for no flush.  *)
Answered(items, status, persist) ==
  LET s == Handled(items)
      new == (rows + 1)..s.rows
  IN  /\ s.rows <= MaxRows
      /\ sealed' = s.sealed /\ buffers' = s.buffers /\ rows' = s.rows
      /\ IF persist THEN PersistAfterResponse(s.buffers)
         ELSE setup' = Built /\ UNCHANGED << flush, keptAlive >>
      /\ unflushed' = IF status = 500 THEN unflushed \cup new ELSE unflushed
      /\ late' = late \cup (new \cap UNION {ToSet(s.buffers[t]) : t \in 1..tabAt})
      /\ UNCHANGED << tabAt, batch, rowVars, faults >>

(* 400 or 413: the request is refused before there is need of the engine.  *)
Refuses ==
  UNCHANGED << sinkVars, keptAlive, sealed, rows, rowVars, unflushed, late, faults >>

(* A request wakes the instance. *)
Arrived ==
  /\ requests < MaxRequests
  /\ requests' = requests + 1
  /\ instance' = "awake"

(* Slip: only the single route asks for the flush. *)
BatchPersistsNot == FALSE

(* Every answered batch asks for the flush. *)
BatchPersists == TRUE

(* authorize: one payment.  When the engine throws, the answer is 500 and  *)
(* no flush is asked for.                                                  *)
Authorize(item) ==
  /\ Arrived
  /\ CASE item = "invalid" -> Refuses
       [] item = "decided" -> Answered(<< item >>, 200, TRUE)
       [] OTHER            -> Answered(<< item >>, 500, FALSE)

(* authorize/batch: a payment that fails does not stop the others. *)
AuthorizeBatch(body) ==
  /\ Arrived
  /\ IF body = NotAList \/ body = << >> \/ Len(body) > MaxBatch THEN Refuses
     ELSE Answered(body, 200, BatchPersists)

-----------------------------------------------------------------------------
(* start, called with the sink and by every flush after it failed. *)

SetupSucceeds ==
  /\ instance = "awake" /\ setup = "running"
  /\ setup' = "done"
  /\ UNCHANGED << instance, sealed, buffers, flush, tabAt, batch, keptAlive, rows, rowVars,
                  unflushed, late, faults, requests >>

(* A flush that awaited it returns, its rows stay in the buffers, and the  *)
(* promise waitUntil was given has settled.                                *)
SetupFails ==
  /\ instance = "awake" /\ setup = "running"
  /\ faults < MaxFaults
  /\ faults' = faults + 1
  /\ setup' = "failed"
  /\ IF flush = "starting"
     THEN flush' = "idle" /\ keptAlive' = FALSE /\ unset' = unset \cup Waiting
     ELSE UNCHANGED << flush, keptAlive, unset >>
  /\ UNCHANGED << instance, sealed, buffers, tabAt, batch, rows, written, given, retried,
                  unflushed, late, requests >>

(* The loop of doFlush, tab by tab: a tab's rows are taken when its turn comes. *)

SendFrom(t, bufs) ==
  LET later == {u \in t..2 : bufs[u] # << >>}
  IN  IF later = {}
      THEN /\ flush' = "idle" /\ tabAt' = 0 /\ batch' = << >> /\ buffers' = bufs
           /\ keptAlive' = FALSE
      ELSE \E u \in later :
             /\ \A v \in later : u <= v
             /\ flush' = "sending" /\ tabAt' = u /\ batch' = bufs[u]
             /\ buffers' = [bufs EXCEPT ![u] = << >>]
             /\ UNCHANGED keptAlive

Starts ==
  /\ instance = "awake" /\ flush = "starting" /\ setup = "done"
  /\ SendFrom(1, buffers)
  /\ UNCHANGED << instance, setup, sealed, rows, rowVars, unflushed, late, faults, requests >>

AppendSucceeds ==
  /\ instance = "awake" /\ flush = "sending"
  /\ written' = written \cup ToSet(batch)
  /\ SendFrom(tabAt + 1, buffers)
  /\ UNCHANGED << instance, setup, sealed, rows, given, retried, unset, unflushed, late,
                  faults, requests >>

AppendFails(retryable) ==
  /\ instance = "awake" /\ flush = "sending"
  /\ faults < MaxFaults
  /\ faults' = faults + 1
  /\ IF retryable
     THEN /\ retried' = retried \cup ToSet(batch) /\ UNCHANGED given
          /\ SendFrom(tabAt + 1, [buffers EXCEPT ![tabAt] = batch \o @])
     ELSE /\ given' = given \cup ToSet(batch) /\ UNCHANGED retried
          /\ SendFrom(tabAt + 1, buffers)
  /\ UNCHANGED << instance, setup, sealed, rows, written, unset, unflushed, late, requests >>

(* The timer's flush is kept alive by nothing. *)
TimerFires ==
  /\ instance = "awake" /\ flush = "idle" /\ Waiting # {}
  /\ flush' = "starting"
  /\ setup' = Started
  /\ UNCHANGED << instance, sealed, buffers, tabAt, batch, keptAlive, rows, rowVars,
                  unflushed, late, faults, requests >>

(* The platform: an instance that nothing keeps alive is frozen, and a     *)
(* frozen one may be recycled, with everything it held in memory.          *)
Freeze ==
  /\ instance = "awake" /\ ~keptAlive
  /\ instance' = "frozen"
  /\ UNCHANGED << sealed, sinkVars, keptAlive, rows, rowVars, unflushed, late, faults,
                  requests >>

Recycle ==
  /\ instance = "frozen" /\ setup # "none"
  /\ setup' = "none"
  /\ buffers' = [t \in 1..2 |-> << >>]
  /\ flush' = "idle" /\ tabAt' = 0 /\ batch' = << >>
  /\ given' = given \cup Waiting \cup ToSet(batch)
  /\ UNCHANGED << instance, keptAlive, sealed, rows, written, retried, unset, unflushed, late,
                  faults, requests >>

ServerNext ==
  \/ \E item \in Items : Authorize(item)
  \/ \E body \in Bodies : AuthorizeBatch(body)
  \/ SetupSucceeds
  \/ SetupFails
  \/ Starts
  \/ AppendSucceeds
  \/ \E retryable \in BOOLEAN : AppendFails(retryable)
  \/ TimerFires
  \/ Freeze
  \/ Recycle

ServerSpec == ServerInit /\ [][ServerNext]_serverVars

-----------------------------------------------------------------------------
(* What a frozen instance holds unsent, which a recycling would lose: only *)
(* the rows of requests answered 500 (a failed authorize asks for no       *)
(* flush), those Google refused for now, those that came when a flush had  *)
(* passed their tab, and those whose flush gave up because the setup it    *)
(* awaited failed (sink.ts: "start() already reported it; the rows stay    *)
(* buffered").  Every other row of an answered request is sent or given up *)
(* by the time the platform may freeze the instance.                       *)
KeptAliveUntilWritten ==
  instance = "frozen" =>
    Waiting \cup ToSet(batch) \subseteq unflushed \cup retried \cup late \cup unset

(* server-engine.ts:72: "`waitUntil` keeps the instance alive until the    *)
(* promise settles".  Rows that came while a flush was running wait on its *)
(* promise too, but a tab it has passed is not visited again.              *)
JoinedFlushWrites ==
  instance = "frozen" /\ flush = "idle" => Waiting \subseteq unflushed \cup retried \cup unset

(* server-engine.ts:74: "Call it at the end of any route that produced a   *)
(* decision".  A decision that is sealed is not left behind for want of a  *)
(* flush, whatever its request came to be answered.                        *)
SealedIsFlushed ==
  instance = "frozen" /\ flush = "idle" =>
    Waiting \cap sealed \subseteq retried \cup late \cup unset
=============================================================================
