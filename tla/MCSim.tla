------------------------------- MODULE MCSim --------------------------------
(***************************************************************************)
(* What runs off line, each part on its own: EvaluationSpace's inputs, and *)
(* small corpora: two days of two slots, two payers, two shops, a friend   *)
(* and two networks.  Some worlds have most of their payments legitimate,  *)
(* the others most of them fraud, with a network that comes into service   *)
(* late or never.                                                          *)
(***************************************************************************)
EXTENDS MCEvaluationSpace, Corpus

VARIABLE subject

SimInit ==
  \/ subject = "evaluation" /\ Init /\ CorpusInit /\ world = CHOOSE w \in Worlds : TRUE
  \/ subject = "corpus" /\ CorpusInit /\ case = [kind |-> "outcomes", xs |-> << >>, ys |-> << >>]

SimNext ==
  /\ UNCHANGED subject
  /\ \/ subject = "evaluation" /\ Next /\ UNCHANGED corpusVars
     \/ subject = "corpus" /\ CorpusNext /\ UNCHANGED vars

SimSpec == SimInit /\ [][SimNext]_<< subject, vars, corpusVars >>

-----------------------------------------------------------------------------
SomePayers == << "p1", "p2" >>
SomeChains == [x1 |-> "chain_0", x2 |-> "chain_0", y1 |-> "chain_1"]
Typology(id, min, max, repeats, newDevice) ==
  [id |-> id, episodeMin |-> min, episodeMax |-> max, repeats |-> repeats, newDevice |-> newDevice]
SomeTypologies ==
  {Typology("impersonation", 1, 1, FALSE, TRUE), Typology("investment", 2, 2, TRUE, FALSE)}

Acquainted == [p \in {"p1", "p2"} |-> [merchants |-> {"m1"}, personals |-> {"f1"}]]
World(firstSeen, activeFrom, rate, perDay, legit) ==
  [firstSeen |-> firstSeen, activeFrom |-> activeFrom, rate |-> rate, perDay |-> perDay,
   legit |-> legit, circle |-> Acquainted, second |-> [p1 |-> 1, p2 |-> NoDevice]]

InService == [x1 |-> 0, x2 |-> 0, y1 |-> 0]
Honest(firstSeen) == World(firstSeen, InService, << 1, 2 >>, [p1 |-> 1, p2 |-> 1], 2)
Fraudulent(activeFrom) ==
  World([m1 |-> 0, m2 |-> 0, f1 |-> 0], activeFrom, << 2, 1 >>, [p1 |-> 1, p2 |-> 0], 1)

SomeWorlds ==
  {Honest([m1 |-> 0, m2 |-> 3, f1 |-> 0]), Honest([m1 |-> 1, m2 |-> 0, f1 |-> 3]),
   Fraudulent([x1 |-> 0, x2 |-> 3, y1 |-> 9]), Fraudulent([x1 |-> 1, x2 |-> 0, y1 |-> 0]),
   Fraudulent([x1 |-> 9, x2 |-> 9, y1 |-> 9])}
=============================================================================
