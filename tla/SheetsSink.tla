----------------------------- MODULE SheetsSink -----------------------------
(***************************************************************************)
(* GoogleSheetsSink (packages/sheets/src/sink.ts) over SheetsClient        *)
(* (client.ts): the engine pushes rows, one flush at a time appends them   *)
(* to the tabs of a spreadsheet, a setup creates the tabs and writes their *)
(* headers first, and any request may fail, or take effect and have its    *)
(* answer lost.                                                            *)
(*                                                                         *)
(* A row is its number, counted from 1 in the order rows were pushed.      *)
(* What a row says is left out, and so are the counters "written" and      *)
(* "failed" and the last error, which the sink only reports.               *)
(*                                                                         *)
(* JavaScript runs to its next await: an action is what happens from one   *)
(* await to the next.                                                      *)
(***************************************************************************)
EXTENDS Integers, Sequences, FiniteSets

CONSTANTS
  TabCount,     \* how many values TABS has: a tab is its place among them
  MaxBuffered,  \* maxBufferedRows
  MaxQueued,    \* maxQueuedRows
  Faults,       \* how requests may fail, a subset of FaultKinds
  MayClose,     \* TRUE when close may be called
  MaxPushes,    \* bound: how many rows the engine pushes
  MaxFaults     \* bound: how many requests fail

(* The error of a failed request has a status that is retryable (429 or    *)
(* 5xx), a status that is not, or no status at all: fetch rejected, or the *)
(* token could not be renewed.  An error may come after the request took   *)
(* effect.                                                                 *)
FaultKinds == [error : {"retryable", "refused", "noStatus"}, applied : BOOLEAN]

ASSUME SinkAssumption ==
  /\ TabCount \in Nat
  /\ MaxBuffered \in Nat \ {0}
  /\ MaxQueued \in Nat \ {0}
  /\ Faults \subseteq FaultKinds
  /\ MayClose \in BOOLEAN
  /\ MaxPushes \in Nat
  /\ MaxFaults \in Nat

Tabs == 1..TabCount
Header == 0

VARIABLES
  buffers,   \* per tab, the rows waiting
  order,     \* the tabs in the order their buffers were created
  flush,     \* "idle", "setup" while it awaits start, "sending"
  at,        \* while sending: the position in order of the tab being sent
  batch,     \* while sending: the rows in the request
  setup,     \* start: "none", "listing", "creating", "heading", "done"
  toHead,    \* while heading: the created tabs whose header is not written, a set
  timer,     \* the flush timer is set
  closing,   \* close was called
  dropped,   \* the counter the sink reports
  tabs,      \* the tabs of the spreadsheet
  sheet,     \* per tab, its rows
  pushed,    \* how many rows were pushed
  faults     \* how many requests failed

sinkVars == << buffers, order, flush, at, batch, dropped >>
setupVars == << setup, toHead >>
vars == << sinkVars, setupVars, timer, closing, tabs, sheet, pushed, faults >>

-----------------------------------------------------------------------------
Elements(s) == {s[i] : i \in DOMAIN s}

(* The sum of the buffers' lengths: rows are distinct. *)
Rows(bufs) == UNION {Elements(bufs[t]) : t \in Tabs}
Queued(bufs) == Cardinality(Rows(bufs))

(* buildSink constructs the sink and calls start, which sets the timer. *)
Init ==
  /\ buffers = [t \in Tabs |-> << >>]
  /\ order = << >>
  /\ flush = "idle" /\ at = 0 /\ batch = << >>
  /\ setup = "listing" /\ toHead = {}
  /\ timer = TRUE
  /\ closing = FALSE
  /\ dropped = 0
  /\ tabs \in SUBSET Tabs
  /\ sheet = [t \in Tabs |-> IF t \in tabs THEN << Header >> ELSE << >>]
  /\ pushed = 0
  /\ faults = 0

(* flush with the buffers bufs: nothing when a flush is running or there   *)
(* is nothing to send; it awaits start, which it calls, timer and all,     *)
(* when no setup has succeeded or is running.                              *)
Flushing(bufs, timerSet) ==
  IF flush = "idle" /\ Queued(bufs) > 0
  THEN /\ flush' = "setup"
       /\ setup' = IF setup = "none" THEN "listing" ELSE setup
       /\ timer' = (timerSet \/ setup = "none")
  ELSE /\ timer' = timerSet
       /\ UNCHANGED << flush, setup >>

(* Slip: one row too many is cut. *)
CutOneMore(buffer, excess) ==
  IF excess <= 0 THEN buffer ELSE SubSeq(buffer, excess + 2, Len(buffer))

(* What is left of a buffer when excess rows are cut from its front. *)
Cut(buffer, excess) ==
  IF excess <= 0 THEN buffer ELSE SubSeq(buffer, excess + 1, Len(buffer))

Push(t) ==
  LET grown  == Append(buffers[t], pushed + 1)
      excess == Queued(buffers) + 1 - MaxQueued
      kept   == Cut(grown, excess)
  IN  /\ pushed < MaxPushes
      /\ pushed' = pushed + 1
      /\ buffers' = [buffers EXCEPT ![t] = kept]
      /\ order' = IF t \in Elements(order) THEN order ELSE Append(order, t)
      /\ dropped' = IF excess > 0 THEN dropped + excess ELSE dropped
      /\ IF Len(kept) >= MaxBuffered THEN Flushing(buffers', timer)
         ELSE UNCHANGED << flush, setup, timer >>
      /\ UNCHANGED << at, batch, toHead, closing, tabs, sheet, faults >>

(* PersistenceSink: a ledger record, a payment or a hold is one row of its *)
(* tab.  Profiles are not persisted, and payments may be switched off.     *)
Persisted == \E t \in Tabs : Push(t)

TimerFires ==
  /\ timer
  /\ flush = "idle" /\ Queued(buffers) > 0
  /\ Flushing(buffers, timer)
  /\ UNCHANGED << buffers, order, at, batch, dropped, toHead, closing, tabs, sheet,
                  pushed, faults >>

(* A route hands flush to waitUntil after its response. *)
PersistAfterResponse ==
  /\ flush = "idle" /\ Queued(buffers) > 0
  /\ Flushing(buffers, timer)
  /\ UNCHANGED << buffers, order, at, batch, dropped, toHead, closing, tabs, sheet,
                  pushed, faults >>

(* close clears the timer, then awaits flush. *)
Close ==
  /\ MayClose /\ ~closing
  /\ closing' = TRUE
  /\ Flushing(buffers, FALSE)
  /\ UNCHANGED << buffers, order, at, batch, dropped, toHead, tabs, sheet, pushed, faults >>

-----------------------------------------------------------------------------
(* start: list the tabs, create those that are missing, write the headers  *)
(* of those it created.                                                    *)

Missing == Tabs \ tabs

Created == tabs' = tabs \cup Missing

(* The header of tab t, the first of TABS whose header is still to write. *)
Headed(t) ==
  /\ t \in toHead
  /\ \A u \in toHead : t <= u
  /\ sheet' = [sheet EXCEPT ![t] = Append(@, Header)]

TabsListed ==
  /\ setup = "listing"
  /\ setup' = IF Missing = {} THEN "done" ELSE "creating"
  /\ UNCHANGED << sinkVars, toHead, timer, closing, tabs, sheet, pushed, faults >>

TabsCreated ==
  /\ setup = "creating"
  /\ Created
  /\ toHead' = Missing
  /\ setup' = "heading"
  /\ UNCHANGED << sinkVars, timer, closing, sheet, pushed, faults >>

HeaderWritten ==
  /\ setup = "heading"
  /\ \E t \in Tabs :
       /\ Headed(t)
       /\ toHead' = toHead \ {t}
       /\ setup' = IF toHead = {t} THEN "done" ELSE setup
  /\ UNCHANGED << sinkVars, timer, closing, tabs, pushed, faults >>

(* Slip: the failed promise is kept. *)
AfterFailedSetupKept == "failed"

(* "A failed setup must not poison the sink forever": it is cleared. *)
AfterFailedSetup == "none"

(* A failed setup is forgotten, so that the next flush starts it again; a  *)
(* flush that awaited it gives up and its rows stay buffered.              *)
SetupFails(fault) ==
  /\ setup \in {"listing", "creating", "heading"}
  /\ faults < MaxFaults
  /\ faults' = faults + 1
  /\ IF fault.applied /\ setup = "creating" THEN Created ELSE UNCHANGED tabs
  /\ IF fault.applied /\ setup = "heading" THEN \E t \in Tabs : Headed(t)
     ELSE UNCHANGED sheet
  /\ setup' = AfterFailedSetup
  /\ toHead' = {}
  /\ flush' = IF flush = "setup" THEN "idle" ELSE flush
  /\ UNCHANGED << buffers, order, at, batch, dropped, timer, closing, pushed >>

-----------------------------------------------------------------------------
(* The loop of doFlush: the next tab after position i, in creation order,  *)
(* whose buffer is not empty is emptied into a request.                    *)

LaterTabs(i, bufs) == {j \in DOMAIN order : j > i /\ bufs[order[j]] # << >>}

SendNext(i, bufs) ==
  IF LaterTabs(i, bufs) = {}
  THEN /\ flush' = "idle" /\ at' = 0 /\ batch' = << >>
       /\ buffers' = bufs
  ELSE \E j \in LaterTabs(i, bufs) :
         /\ \A k \in LaterTabs(i, bufs) : j <= k
         /\ flush' = "sending" /\ at' = j /\ batch' = bufs[order[j]]
         /\ buffers' = [bufs EXCEPT ![order[j]] = << >>]

SetupAwaited ==
  /\ flush = "setup"
  /\ setup = "done"
  /\ SendNext(0, buffers)
  /\ UNCHANGED << order, dropped, setupVars, timer, closing, tabs, sheet, pushed, faults >>

Appended == sheet' = [sheet EXCEPT ![order[at]] = @ \o batch]

AppendSucceeds ==
  /\ flush = "sending"
  /\ Appended
  /\ SendNext(at, buffers)
  /\ UNCHANGED << order, dropped, setupVars, timer, closing, tabs, pushed, faults >>

(* Slips: the rows go back behind newer ones, or in their place. *)
RequeuedBehind == [buffers EXCEPT ![order[at]] = @ \o batch]
RequeuedOver == [buffers EXCEPT ![order[at]] = batch]

(* The rows of a retryable failure go back to the front of their buffer,   *)
(* whatever was pushed meanwhile; those of any other failure are let go.   *)
Requeued == [buffers EXCEPT ![order[at]] = batch \o @]

AppendFails(fault) ==
  /\ flush = "sending"
  /\ faults < MaxFaults
  /\ faults' = faults + 1
  /\ IF fault.applied THEN Appended ELSE UNCHANGED sheet
  /\ \/ /\ fault.error = "retryable"
        /\ SendNext(at, Requeued)
        /\ UNCHANGED dropped
     \/ /\ fault.error # "retryable"
        /\ SendNext(at, buffers)
        /\ dropped' = dropped + Len(batch)
  /\ UNCHANGED << order, setupVars, timer, closing, tabs, pushed >>

Succeeds == TabsListed \/ TabsCreated \/ HeaderWritten \/ AppendSucceeds
Fails == \E fault \in Faults : SetupFails(fault) \/ AppendFails(fault)

Next ==
  \/ Persisted
  \/ TimerFires
  \/ PersistAfterResponse
  \/ Close
  \/ Succeeds
  \/ SetupAwaited
  \/ Fails

Spec == Init /\ [][Next]_vars

(* The timer keeps firing, an await whose promise is settled resumes, and  *)
(* every request is answered, one way or the other.                        *)
FairSpec == Spec /\ WF_vars(TimerFires) /\ WF_vars(SetupAwaited) /\ WF_vars(Succeeds \/ Fails)

-----------------------------------------------------------------------------
(* Type invariant *)

TypeOK ==
  /\ buffers \in [Tabs -> Seq(Nat \ {Header})]
  /\ order \in Seq(Tabs)
  /\ flush \in {"idle", "setup", "sending"}
  /\ flush = "sending" => at \in DOMAIN order /\ batch # << >>
  /\ batch \in Seq(Nat \ {Header})
  /\ setup \in {"none", "listing", "creating", "heading", "done"}
  /\ toHead \subseteq Tabs
  /\ timer \in BOOLEAN /\ closing \in BOOLEAN
  /\ tabs \subseteq Tabs
  /\ sheet \in [Tabs -> Seq(Nat)]
  /\ pushed \in Nat /\ dropped \in Nat /\ faults \in Nat

(* What waits in a tab: the request in flight, followed by the buffer. *)
Waiting(t) ==
  IF flush = "sending" /\ order[at] = t THEN batch \o buffers[t] ELSE buffers[t]

-----------------------------------------------------------------------------
(* "Rows cannot arrive out of order": a row that arrives below a newer one *)
(* is a repetition, and the last row of a tab is the newest it has, so the *)
(* last row of a hold tells its state.  And no restarted setup writes a    *)
(* header below rows or a second time (SheetsClient.truncate keeps the     *)
(* first row as the header).                                               *)
RowsArriveInOrder ==
  \A t \in Tabs :
    /\ \A i, j \in DOMAIN sheet[t] :
         i < j /\ sheet[t][j] \in 1..sheet[t][i] => \E k \in 1..i : sheet[t][k] = sheet[t][j]
    /\ \A i \in DOMAIN sheet[t] : sheet[t][i] <= sheet[t][Len(sheet[t])]
    /\ \A i \in DOMAIN sheet[t] : sheet[t][i] = Header => i = 1

(* Unless close is called, which stops the timer, and as long as requests  *)
(* do not fail for ever, what was pushed does not stay buffered.           *)
EventuallySent == <>closing \/ []<>(Queued(buffers) = 0 /\ flush = "idle")

-----------------------------------------------------------------------------
(* The sink implements a write-behind queue.  What has arrived in a tab is *)
(* what follows its header.                                                *)
RowsOf(s) == IF s # << >> /\ Head(s) = Header THEN Tail(s) ELSE s

WaitingRows == [t \in Tabs |-> Waiting(t)]
ArrivedRows == [t \in Tabs |-> RowsOf(sheet[t])]

Behind == INSTANCE WriteBehind
  WITH RowIds <- 1..MaxPushes,
       waiting <- WaitingRows,
       arrived <- ArrivedRows,
       lost <- dropped

(* Whatever is restarted, retried or cut, the sink delivers prefixes of    *)
(* its queues and counts at least what it gives up.                        *)
ImplementsWriteBehind == Behind!Spec

=============================================================================
