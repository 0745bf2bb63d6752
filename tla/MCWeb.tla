------------------------------- MODULE MCWeb --------------------------------
(***************************************************************************)
(* Small instances of what the web application serves, each part on its    *)
(* own.  The token source and the service take requests.  A text is        *)
(* written cell by cell and parsed, a calendar is written day by day and   *)
(* read back, columns are scored and bound, a file's rows become a replay, *)
(* and an operator works the import page.                                  *)
(***************************************************************************)
EXTENDS TextCells, ImportPanel, TokenSource, ServerEngine, TLC

CONSTANTS
  Blank, Unreadable,
  Cells, MaxCells, LastYear,              \* text
  FieldList, PayerId, PayeeId, PayeeName, Amount, Columns, Matches, Preset,
  RowChoices, MaxLength, Base, Limit, ImpliedPayer, PayersNamed, CreditBound, Slug

VARIABLES
  subject,
  cells, style,                           \* text: the cells written, and how
  date, days,                             \* dates: a day, and its number
  header, score,                          \* columns
  length, phase, rowsRead, skipped, drafts, creditBalances, reached, addedAt, payees, intel, known,
  balances, balanceBefore, confirmedPayees, observed, seen

C == INSTANCE ColumnMapping
D == INSTANCE Dataset WITH confirmed <- confirmedPayees, at <- reached

textVars == << cells, style, date, days >>
columnVars == << header, score >>
datasetVars == << length, phase, rowsRead, skipped, drafts, creditBalances, reached, addedAt, payees,
              intel, known, balances, balanceBefore, confirmedPayees, observed, seen >>
vars == << subject, textVars, columnVars, datasetVars, panelVars, tokenVars, serverVars >>

Symmetry == Permutations(Callers)

-----------------------------------------------------------------------------
(* RFC 4180, the reference the parser names: a cell may be quoted and must *)
(* be when it holds a quote, a delimiter or a line end; inside quotes a    *)
(* quote is doubled.                                                       *)
Doubled(cell) == FlattenSeq([i \in DOMAIN cell |->
                               IF cell[i] = Quote THEN << Quote, Quote >> ELSE << cell[i] >>])
MustQuote(cell) == ToSet(cell) \cap {Quote, Delim, Newline, Return} # {}
CellText(cell) == IF style.quoteAll \/ MustQuote(cell)
                  THEN << Quote >> \o Doubled(cell) \o << Quote >> ELSE cell
LineEnd == IF style.crlf THEN << Return, Newline >> ELSE << Newline >>

(* Two columns: the cells written so far, padded to whole rows. *)
Names == << << "letter" >>, << "letter", "letter" >> >>
Rows == [i \in 1..((Len(cells) + 1) \div 2) |->
           << cells[2 * i - 1], IF 2 * i <= Len(cells) THEN cells[2 * i] ELSE << "letter" >> >>]
Line(row) == CellText(row[1]) \o << Delim >> \o CellText(row[2])
Written ==
  (IF style.mark THEN << Mark >> ELSE << >>) \o Line(Names)
    \o FlattenSeq([i \in DOMAIN Rows |-> LineEnd \o Line(Rows[i])])
    \o (IF style.lastEnd THEN LineEnd ELSE << >>)

(* The lines sniffDelimiter looks at are those between line ends, quoted   *)
(* or not; of these the first decides.                                     *)
Counts(candidate) ==
  << CountOutsideQuotes(Line(Names), candidate) >>
    \o [i \in DOMAIN Rows |-> CountOutsideQuotes(Line(Rows[i]), candidate)]

Styles == [quoteAll : BOOLEAN, crlf : BOOLEAN, mark : {FALSE}, lastEnd : BOOLEAN]
            \cup {[quoteAll |-> FALSE, crlf |-> FALSE, mark |-> TRUE, lastEnd |-> TRUE]}

WriteCell ==
  /\ subject = "text" /\ Len(cells) < MaxCells
  /\ \E cell \in Cells : cells' = Append(cells, cell)
  /\ UNCHANGED << style, date, days >>

(* The calendar, a day at a time. *)
Leap(y) == y % 4 = 0 /\ (y % 100 # 0 \/ y % 400 = 0)
LengthOf(m, y) == CASE m = 2 -> IF Leap(y) THEN 29 ELSE 28
                    [] m \in {4, 6, 9, 11} -> 30
                    [] OTHER -> 31
NextDay ==
  /\ subject = "dates" /\ date.year <= LastYear
  /\ days' = days + 1
  /\ date' = CASE date.day < LengthOf(date.month, date.year) -> [date EXCEPT !.day = @ + 1]
               [] date.month < 12 -> [date EXCEPT !.day = 1, !.month = @ + 1]
               [] OTHER -> [day |-> 1, month |-> 1, year |-> date.year + 1]
  /\ UNCHANGED << cells, style >>

(* The next file has its columns in another order, or lacks the last.      *)
ChangeColumns ==
  /\ subject = "columns"
  /\ \/ \E i \in 1..(Len(header) - 1) :
          header' = [header EXCEPT ![i] = header[i + 1], ![i + 1] = header[i]]
     \/ header # << >> /\ header' = Front(header)
  /\ UNCHANGED score

NoText == cells = << >> /\ style = [quoteAll |-> FALSE, crlf |-> FALSE, mark |-> FALSE, lastEnd |-> FALSE]
NoColumns == header = << >> /\ score = << >>

Init ==
  /\ subject \in {"tokens", "service", "text", "dates", "columns", "rows", "page"}
  /\ TokenInit /\ ServerInit
  /\ IF subject = "text" THEN cells = << >> /\ style \in Styles ELSE NoText
  /\ date = [day |-> 1, month |-> 1, year |-> 1999] /\ days = 10592
  /\ IF subject = "columns"
     THEN header = Columns /\ score \in [ToSet(FieldList) \X ToSet(Columns) -> {C!ScoreColumn(M) : M \in Matches}]
     ELSE NoColumns
  /\ D!DatasetInit
  /\ subject # "rows" => length = 0
  /\ PanelInit

IngestNext ==
  \/ WriteCell /\ UNCHANGED << columnVars, datasetVars, panelVars >>
  \/ NextDay /\ UNCHANGED << columnVars, datasetVars, panelVars >>
  \/ ChangeColumns /\ UNCHANGED << textVars, datasetVars, panelVars >>
  \/ subject = "rows" /\ D!DatasetNext /\ UNCHANGED << textVars, columnVars, panelVars >>
  \/ subject = "page" /\ PanelNext /\ UNCHANGED << textVars, columnVars, datasetVars >>

Next ==
  /\ UNCHANGED subject
  /\ \/ IngestNext /\ UNCHANGED << tokenVars, serverVars >>
     \/ /\ UNCHANGED << textVars, columnVars, datasetVars, panelVars >>
        /\ \/ subject = "tokens" /\ TokenNext /\ UNCHANGED serverVars
           \/ subject = "service" /\ ServerNext /\ UNCHANGED tokenVars

Spec == Init /\ [][Next]_vars

-----------------------------------------------------------------------------
(* delimited.ts: what a spreadsheet writes is what the importer reads,     *)
(* whatever is in the cells (delimiters, newlines, quotes) and however it  *)
(* quotes and ends lines; with a limit, the first rows of it.  And where   *)
(* cells are quoted, what they hold is never taken for the delimiter.      *)
TextIsReadBack ==
  subject = "text" =>
    /\ ParseDelimited(Written, 99) = [header |-> Names, rows |-> Rows, ragged |-> << >>]
    /\ ParseDelimited(Written, 1).rows = SubSeq(Rows, 1, IF Rows = << >> THEN 0 ELSE 1)
    /\ style.quoteAll => Sniff(<< Counts("letter"), Counts(Delim) >>) = 2

(* coerce.ts: a date reads as its day, written year first, or with the day *)
(* or the month first as stated, with two digits or four for the year, and *)
(* a number as the time it can plausibly be; what is no date reads as the  *)
(* base time and is reported.                                              *)
Slashed(a, b, c, wide) ==
  [kind |-> "date", a |-> a, b |-> b, c |-> c, wide |-> wide, hour |-> 5, parsed |-> NotATime]
Numeral(n) == [kind |-> "number", value |-> n, parsed |-> NotATime]
DatesAreReadBack ==
  subject = "dates" =>
    LET d == date.day
        m == date.month
        t == [ok |-> TRUE, value |-> days * Day + 5]
    IN  /\ \A y \in {date.year, date.year % 100} :
             /\ CoerceTimestamp(Slashed(d, m, y, FALSE), "day_first", 0) = t
             /\ CoerceTimestamp(Slashed(m, d, y, FALSE), "month_first", 0) = t
             /\ d > 12 => CoerceTimestamp(Slashed(m, d, y, FALSE), "auto", 0) = t
        /\ \A mode \in {"auto", "day_first", "month_first"} :
             CoerceTimestamp(Slashed(date.year, m, d, TRUE), mode, 0) = t
        /\ CoerceTimestamp(Numeral(days * Day + 5), "auto", 0) = t
        /\ CoerceTimestamp(Numeral((days * Day) \div 1000), "auto", 0)
             = CoerceTimestamp(Numeral((days * Day) \div 1000), "epoch_s", 0)
        /\ CoerceTimestamp(Numeral(d), "auto", days) = CoerceTimestamp(Numeral(d), "step_hours", days)
        /\ CoerceTimestamp(Slashed(13, 13, date.year, FALSE), "auto", days)
             = [ok |-> FALSE, value |-> days]

ParsedAsWritten == TextIsReadBack /\ DatesAreReadBack

(* mapping.ts, detectMapping: "each column and each field taken at most    *)
(* once"; what is proposed are columns of this file, and a field goes      *)
(* without a good column only for a better one or because the column       *)
(* suited another field better.  A preset claims a file only if nothing    *)
(* required that it names is missing.                                      *)
ProposalIsSound(m, presets) ==
  /\ \A f, g \in C!Fields : m[f] = m[g] /\ f # g => m[f] = Nothing
  /\ \A f \in C!Fields : m[f] = Nothing \/ m[f] \in ToSet(header)
  /\ \/ \E p \in presets : C!MappingFromPreset(p, header) = m /\ C!MissingRequired(m) = {}
     \/ \A f \in C!Fields, c \in ToSet(header) :
          score[f, c] >= C!Threshold =>
            \/ m[f] # Nothing /\ score[f, m[f]] >= score[f, c]
            \/ \E g \in C!Fields : m[g] = c /\ score[g, c] >= score[f, c]
(* A file in one of the named layouts, or one that lacks a single column   *)
(* nobody requires, is read as that layout and no other, lacks nothing an  *)
(* import needs but the beneficiary's name, and its money is counted in    *)
(* the unit its column says.                                               *)
FileOf(own, lost) == FoldSet(LAMBDA c, h : Append(h, c), << >>, Range(own) \ {lost})
PresetsKnowTheirOwn ==
  \A i, j \in DOMAIN C!PRESETS :
    LET own == C!PRESETS[i].columns
        kinds == C!PRESETS[i].kinds
        required == {own[f] : f \in DOMAIN own \cap {PayerId, PayeeId, Amount}}
    IN  /\ \A lost \in (Range(own) \ required) \cup {Nothing} :
             LET there == FileOf(own, lost)
                 m == C!DetectMapping(there, << >>, [k \in DOMAIN C!PRESETS |-> C!PRESETS[k].columns])
             IN  /\ C!PresetFits(C!PRESETS[j].columns, there) => i = j
                 /\ \A f \in C!Fields : m[f] = IF f \in DOMAIN own /\ own[f] # lost
                                               THEN own[f] ELSE Nothing
                 /\ C!MissingRequired(m) \subseteq
                      (IF PayeeId \notin DOMAIN own /\ own[PayeeName] = lost THEN {PayeeId} ELSE {})
        /\ \A f \in DOMAIN kinds \ {"ts"} : C!WithDefaults(f, own[f], << >>) = kinds[f]

MappingIsStable ==
  subject = "columns" =>
    /\ header = << >> /\ Range(score) = {0} => PresetsKnowTheirOwn
    /\ \A m \in {C!DetectMapping(header, score, << >>)} : ProposalIsSound(m, {})
    /\ \A m \in {C!DetectMapping(header, score, << Preset >>)} : ProposalIsSound(m, {Preset})

(* A dataset is the payments of its file and no others, in time order,     *)
(* with acquaintance and marks taken from no later row, and beneficiaries  *)
(* and balances as the file as a whole has them (build.ts and the import   *)
(* route; stated in Dataset).                                              *)
DatasetIsFaithful == D!DatasetIsFaithful

-----------------------------------------------------------------------------
SomeCells == {<< >>, << "letter" >>, << Quote >>, << Quote, Quote >>, << "letter", Quote >>,
              << Delim >>, << Newline >>, << Return >>, << Space >>, << Quote, Delim, Newline >>}
SomeColumns == << "a", "b" >>
SomeMatches == {{}, {[how |-> "within", chars |-> 5]},
                {[how |-> "contains", chars |-> 4], [how |-> "within", chars |-> 3]},
                {[how |-> "prefix", chars |-> 4]},
                {[how |-> "equal", chars |-> 9], [how |-> "prefix", chars |-> 7]}}
SomeFields == << "amountPaise", "payeeId", "payeeName" >>
SomePreset == ("amountPaise" :> "b") @@ ("payeeId" :> "a")

Row(direction, credit, payer, payee, name, amount, ts, balance, mule) ==
  [direction |-> direction, credit |-> credit, payer |-> payer, payee |-> payee, name |-> name,
   amount |-> amount, ts |-> ts, balance |-> balance, mule |-> mule, firstSeen |-> Blank,
   velocity |-> Blank, id |-> Blank]
Paid(payee, ts, balance, mule) == Row("out", Blank, "p", payee, Blank, 2, ts, balance, mule)
Payments ==
  {Paid("s", 1, Blank, FALSE), Paid("s", 2, Blank, FALSE), Paid("x", 2, Blank, TRUE),
   [Paid("s", Blank, 0, TRUE) EXCEPT !.velocity = 3],
   [Paid("s", Unreadable, 3, FALSE) EXCEPT !.id = 7, !.firstSeen = Unreadable],
   [Paid("s", 1, 1, FALSE) EXCEPT !.velocity = 5, !.id = 7],
   [Paid("x", 2, 1, FALSE) EXCEPT !.firstSeen = 1, !.payer = "q", !.velocity = Unreadable],
   Row("none", Blank, "p", Blank, "n", 1, 1, Blank, FALSE)}
MoneyIn == {Row("in", Blank, "p", "s", Blank, 1, 1, 5, FALSE),
            Row("none", 4, "p", "s", Blank, Blank, 1, 5, FALSE)}
NoPayment == {Row("none", Blank, Blank, "s", Blank, 1, 1, Blank, FALSE),
              Row("none", Blank, "p", Blank, Blank, 1, 1, Blank, FALSE),
              Row("none", Blank, "p", "s", Blank, Blank, 1, Blank, FALSE),
              Row("none", Blank, "p", "s", Blank, Unreadable, 1, Blank, FALSE),
              Row("none", Blank, "p", "s", Blank, 0, 1, Blank, FALSE)}
SomeRows == << Payments \cup NoPayment, Payments \cup MoneyIn, Payments \cup MoneyIn, Payments >>
SomeSlug == [n \in {"n"} |-> "s"]
=============================================================================
