--------------------------- MODULE ColumnMapping ---------------------------
(***************************************************************************)
(* Binding a file's columns to the engine's fields (packages/ingest/src/   *)
(* mapping.ts).  A header is a sequence of normalised columns; score is    *)
(* what ScoreColumn makes of every field and column, and a preset names    *)
(* columns for some fields.                                                *)
(***************************************************************************)
EXTENDS Integers, Sequences, SequencesExt, FiniteSetsExt, Functions, TLC

CONSTANTS
  FieldList,     \* the paths of FIELDS, in the order of their names
  PayerId, PayeeId, PayeeName, Amount,
  Nothing        \* no column bound

Fields == ToSet(FieldList)

(* scoreColumn: the best of how a column compares with the field's path,   *)
(* label and synonyms; the longer text on the shorter side counts more.    *)
ScoreOf(match) ==
  CASE match.how = "equal"    -> 1000 + match.chars
    [] match.how = "prefix"   -> 500 + match.chars
    [] match.how = "contains" -> 200 + match.chars
    [] match.how = "within"   -> IF match.chars >= 4 THEN 100 + match.chars ELSE 0
    [] OTHER                  -> 0
ScoreColumn(matches) == Max({0} \cup {ScoreOf(match) : match \in matches})

(* The threshold of detectMapping. *)
Threshold == 200

(* A mapping has a column for every field, or Nothing. *)
Unbound == [f \in Fields |-> Nothing]
UsedColumns(mapping) == {mapping[f] : f \in Fields} \ {Nothing}

(* Slip: the candidates are taken as they were found. *)
CandidatesUnsorted(header, score) ==
  SetToSortSeq({<< i, j >> \in (DOMAIN FieldList) \X (DOMAIN header) :
                  score[FieldList[i], header[j]] >= Threshold},
               LAMBDA c, d : c[1] < d[1] \/ (c[1] = d[1] /\ c[2] < d[2]))

(* The candidates in the order they are taken: by score, then by the name  *)
(* of the field, then as they were found.                                  *)
Candidates(header, score) ==
  LET found == {<< i, j >> \in (DOMAIN FieldList) \X (DOMAIN header) :
                  score[FieldList[i], header[j]] >= Threshold}
      S(c) == score[FieldList[c[1]], header[c[2]]]
      Before(c, d) == \/ S(c) > S(d)
                      \/ S(c) = S(d) /\ c[1] < d[1]
                      \/ S(c) = S(d) /\ c[1] = d[1] /\ c[2] < d[2]
  IN  SetToSortSeq(found, Before)

(* PRESETS, the named layouts: the columns they name for the engine's      *)
(* fields and, for the fields that have one, their unit or mode.  A path   *)
(* is written without its group (context, label).                          *)
Verbatim == {"txnId", "ts", "payerId", "payerVpa", "payeeId", "payeeVpa", "payeeName", "amountPaise",
             "channel", "deviceId", "activeCall", "activeCallSeconds", "screenShareActive",
             "remoteAccessAppRunning", "appSwitchCount", "secondsFromOpenToAuthorize",
             "vpaEnteredBy", "isNewDevice", "simChangedRecently", "isFraud", "typology"}
PRESETS ==
  << [columns |-> [f \in Verbatim |-> f],
      kinds   |-> ("amountPaise" :> "paise") @@ ("ts" :> "epoch_ms")],
     [columns |-> ("ts" :> "step") @@ ("direction" :> "type") @@ ("amountPaise" :> "amount")
                    @@ ("payerId" :> "nameOrig") @@ ("payeeId" :> "nameDest")
                    @@ ("balancePaise" :> "newbalanceOrig") @@ ("isFraud" :> "isFraud"),
      kinds   |-> ("amountPaise" :> "rupees") @@ ("balancePaise" :> "rupees") @@ ("ts" :> "step_hours")],
     [columns |-> ("ts" :> "Date") @@ ("payeeName" :> "Narration") @@ ("amountPaise" :> "Debit")
                    @@ ("creditPaise" :> "Credit") @@ ("balancePaise" :> "Balance"),
      kinds   |-> [f \in {"amountPaise", "creditPaise", "balancePaise"} |-> "rupees"]
                    @@ ("ts" :> "day_first")] >>

(* withDefaults: the unit or mode of a field when none is stated.  A column*)
(* that names paise is in paise; PaiseColumns are those that do.           *)
PaiseColumns == {"amountPaise"}
WithDefaults(f, column, kinds) ==
  CASE f \in DOMAIN kinds                                       -> kinds[f]
    [] f \in {"amountPaise", "creditPaise", "balancePaise"}      ->
         IF column \in PaiseColumns THEN "paise" ELSE "rupees"
    [] f = "ts"                                                  -> "auto"
    [] OTHER                                                     -> "as written"

Take(header, mapping, c) ==
  LET f == FieldList[c[1]]
      column == header[c[2]]
  IN  IF mapping[f] # Nothing \/ column \in UsedColumns(mapping) THEN mapping
      ELSE [mapping EXCEPT ![f] = column]

(* A preset fits when the columns it names for required fields are there   *)
(* and seven in ten of all it names.                                       *)
PresetFits(preset, header) ==
  LET hits == Quantify(DOMAIN preset, LAMBDA f : preset[f] \in ToSet(header))
  IN  /\ \A f \in DOMAIN preset \cap {PayerId, PayeeId, Amount} : preset[f] \in ToSet(header)
      /\ 10 * hits >= 7 * Cardinality(DOMAIN preset)

MappingFromPreset(preset, header) ==
  [f \in Fields |-> IF f \in DOMAIN preset /\ preset[f] \in ToSet(header)
                    THEN preset[f] ELSE Nothing]

(* detectMapping: the first preset that fits, or the candidates in order,  *)
(* each field and each column at most once.                                *)
DetectMapping(header, score, presets) ==
  LET fitting == SelectSeq(presets, LAMBDA p : PresetFits(p, header))
  IN  IF fitting # << >> THEN MappingFromPreset(fitting[1], header)
      ELSE FoldLeft(LAMBDA m, c : Take(header, m, c), Unbound, Candidates(header, score))

(* suppliedPaths: the fields a mapping supplies.  That a field may be      *)
(* given one literal value for every row is left out.                      *)
SuppliedPaths(mapping) == {f \in DOMAIN mapping : mapping[f] # Nothing}

(* missingRequired: what keeps an import from running.  A file without a   *)
(* payer is read as one account, a beneficiary is known by its name.       *)
MissingRequired(mapping) ==
  LET supplied == SuppliedPaths(mapping)
  IN  {f \in {Amount, PayeeId} \ supplied : f = PayeeId => PayeeName \notin supplied}
=============================================================================
