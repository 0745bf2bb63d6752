---------------------------- MODULE ImportPanel ----------------------------
(***************************************************************************)
(* The import page (apps/web/components/ImportPanel.tsx): a file is read   *)
(* and its columns matched, the operator confirms or changes the matching, *)
(* the whole file is replayed.  Reading a file is awaited, and the replay  *)
(* is put off by a timer so that the button can paint; in between the      *)
(* operator goes on clicking.                                              *)
(*                                                                         *)
(* A mapping is which file's columns it was matched to, how often it was   *)
(* changed, and whether it supplies what a replay needs.                   *)
(***************************************************************************)
EXTENDS Integers, Sequences

CONSTANTS
  Files,
  NoHeadings,    \* files without column headings, or that do not parse
  Complete,      \* files whose detected mapping supplies what is required
  NoPayments,    \* files none of whose rows is a payment
  Nothing,
  MaxEdits,      \* bound on the changes of a mapping
  MaxDrops       \* bound on the files chosen or dropped

VARIABLES
  stage, loaded, mapping, error, busy, result,
  reads,      \* the files whose text is being read
  due,        \* the replays timers will start: the file and mapping of run
  corpus,     \* what the session replays: Nothing while it is the shipped one
  confirmed,  \* history: the pairs on the screen when run was clicked
  drops

panelVars == << stage, loaded, mapping, error, busy, result, reads, due, corpus, confirmed, drops >>

Detected(file) == [from |-> file, edits |-> 0, complete |-> file \in Complete]

PanelInit ==
  /\ stage = "choose"
  /\ loaded = Nothing /\ mapping = Nothing /\ result = Nothing
  /\ error = FALSE /\ busy = FALSE
  /\ reads = {}
  /\ due = << >> /\ corpus = Nothing
  /\ confirmed = {}
  /\ drops = 0

(* The dropzone takes a file while another is still being read. *)
Drop(file) ==
  /\ stage = "choose" /\ drops < MaxDrops
  /\ drops' = drops + 1
  /\ reads' = reads \cup {file}
  /\ busy' = TRUE
  /\ UNCHANGED << stage, loaded, mapping, error, result, due, corpus, confirmed >>

(* accept: a file without headings changes nothing but the message. *)
Accept(file) ==
  /\ result' = Nothing
  /\ IF file \in NoHeadings
     THEN error' = TRUE /\ UNCHANGED << stage, loaded, mapping >>
     ELSE /\ error' = FALSE
          /\ loaded' = file /\ mapping' = Detected(file) /\ stage' = "map"

TextArrives(file) ==
  /\ file \in reads
  /\ reads' = reads \ {file}
  /\ busy' = FALSE
  /\ Accept(file)
  /\ UNCHANGED << due, corpus, confirmed, drops >>

(* A sample is text the page already has. *)
TakeSample(file) ==
  /\ stage = "choose" /\ drops < MaxDrops
  /\ drops' = drops + 1
  /\ Accept(file)
  /\ UNCHANGED << busy, reads, due, corpus, confirmed >>

TextFails(file) ==
  /\ file \in reads
  /\ reads' = reads \ {file}
  /\ busy' = FALSE
  /\ error' = TRUE
  /\ UNCHANGED << stage, loaded, mapping, result, due, corpus, confirmed, drops >>

(* What the page shows when it is neither choosing nor done: also after a  *)
(* late file without headings took the result of a replay away.            *)
MapShown == stage = "map" \/ (stage = "done" /\ result = Nothing)

(* setBinding, applyPreset: the columns offered are those of the file. *)
EditMapping(complete) ==
  /\ MapShown /\ mapping # Nothing /\ mapping.edits < MaxEdits
  /\ mapping' = [mapping EXCEPT !.edits = @ + 1, !.complete = complete]
  /\ UNCHANGED << stage, loaded, error, busy, result, reads, due, corpus, confirmed, drops >>

(* The button is disabled while busy or while something required has no    *)
(* column; the timer will use the file and the mapping of this click.  A   *)
(* file that arrives meanwhile makes the page idle, and run can be clicked *)
(* again.                                                                  *)
Run ==
  /\ MapShown /\ ~busy
  /\ loaded # Nothing /\ mapping.complete
  /\ busy' = TRUE /\ error' = FALSE
  /\ LET pair == [file |-> loaded, mapping |-> mapping]
     IN  due' = Append(due, pair) /\ confirmed' = confirmed \cup {pair}
  /\ UNCHANGED << stage, loaded, mapping, result, reads, corpus, drops >>

(* Slip: the timer reads the state of the page when it fires. *)
ReplayedNow == [file |-> IF loaded = Nothing THEN Head(due).file ELSE loaded, mapping |-> mapping]

Replayed == Head(due)

StartReplay ==
  /\ due # << >>
  /\ due' = Tail(due)
  /\ busy' = FALSE
  /\ result' = Replayed
  /\ IF Replayed.file \in NoPayments
     THEN error' = TRUE /\ UNCHANGED << corpus, stage >>
     ELSE corpus' = Replayed /\ stage' = "done" /\ UNCHANGED error
  /\ UNCHANGED << loaded, mapping, reads, confirmed, drops >>

Cleared ==
  /\ loaded' = Nothing /\ mapping' = Nothing /\ result' = Nothing
  /\ error' = FALSE /\ stage' = "choose"

Reset ==
  /\ stage # "choose"
  /\ Cleared
  /\ UNCHANGED << busy, reads, due, corpus, confirmed, drops >>

RestoreShipped ==
  /\ stage = "done" /\ result # Nothing
  /\ corpus' = Nothing
  /\ Cleared
  /\ UNCHANGED << busy, reads, due, confirmed, drops >>

PanelNext ==
  \/ \E file \in Files : Drop(file) \/ TextArrives(file) \/ TextFails(file) \/ TakeSample(file)
  \/ \E complete \in BOOLEAN : EditMapping(complete)
  \/ Run \/ StartReplay \/ Reset \/ RestoreShipped

PanelSpec == PanelInit /\ [][PanelNext]_panelVars

-----------------------------------------------------------------------------
(* "The operator confirms that matching ... Only then is the file          *)
(* replayed": whatever files arrive or are reset between the click and the *)
(* replay, the corpus is a file under a mapping of its own columns that    *)
(* was on the screen, and complete, when the operator started it.          *)
CorpusWasConfirmed ==
  corpus # Nothing =>
    /\ corpus \in confirmed
    /\ corpus.mapping.from = corpus.file /\ corpus.mapping.complete
    /\ corpus.file \notin NoPayments \cup NoHeadings
=============================================================================
