----------------------------- MODULE TextCells -----------------------------
(***************************************************************************)
(* From a text to cells and from cells to times: delimited text (packages/ *)
(* ingest/src/delimited.ts and the delimited side of source.ts), and what  *)
(* coerce.ts reads as a time.                                              *)
(***************************************************************************)
EXTENDS Integers, Sequences, SequencesExt, FiniteSetsExt

(* A character is one of those the parser tells apart, or a letter. *)
Quote == "quote"
Delim == "delimiter"
Newline == "newline"
Return == "return"
Space == "space"
Mark == "byteOrderMark"
CONSTANTS NoHeader,  \* no header line has been read yet
          NotATime

Empty == << >>
Solid(cell) == {i \in DOMAIN cell : cell[i] # Space}
Trim(cell) == IF Solid(cell) = {} THEN Empty ELSE SubSeq(cell, Min(Solid(cell)), Max(Solid(cell)))

(* The parser between two characters: the cell and the row being read,     *)
(* whether it is inside quotes, whether the cell has started, and whether  *)
(* the next character is the second of a doubled quote.                    *)
Reading == [header |-> NoHeader, rows |-> Empty, ragged |-> Empty, field |-> Empty,
            row |-> Empty, quoted |-> FALSE, started |-> FALSE, skip |-> FALSE,
            line |-> 1, full |-> FALSE]

EndField(s) == [s EXCEPT !.row = Append(@, s.field), !.field = Empty]

(* A row that is one blank cell is no row; the first row is the header;    *)
(* a row of another width is kept and reported by its line.                *)
EndRow(s, limit) ==
  LET row == Append(s.row, s.field)
      next == [s EXCEPT !.row = Empty, !.field = Empty, !.line = @ + 1]
      read == IF Len(row) = 1 /\ Trim(row[1]) = Empty THEN next
              ELSE IF s.header = NoHeader THEN [next EXCEPT !.header = [i \in DOMAIN row |-> Trim(row[i])]]
              ELSE [next EXCEPT
                      !.rows = Append(@, row),
                      !.ragged = IF Len(row) = Len(s.header) THEN @
                                 ELSE Append(@, [line |-> s.line, cells |-> Len(row)])]
  IN  [read EXCEPT !.full = read.header # NoHeader /\ Len(read.rows) >= limit]

(* Slip: a doubled quote inside quotes closes them and opens a new cell    *)
(* text, as a parser without lookahead would have it.                      *)
ReadQuotedPlain(s, ch, following) ==
  IF ch = Quote THEN [s EXCEPT !.quoted = FALSE] ELSE [s EXCEPT !.field = Append(@, ch)]

ReadQuoted(s, ch, following) ==
  IF ch # Quote THEN [s EXCEPT !.field = Append(@, ch)]
  ELSE IF following = Quote THEN [s EXCEPT !.field = Append(@, Quote), !.skip = TRUE]
  ELSE [s EXCEPT !.quoted = FALSE]

ReadPlain(s, ch, limit) ==
  CASE ch = Quote /\ ~s.started -> [s EXCEPT !.quoted = TRUE, !.started = TRUE]
    [] ch = Delim   -> [EndField(s) EXCEPT !.started = FALSE]
    [] ch = Return  -> s
    [] ch = Newline -> LET ended == EndRow(s, limit)
                       IN  IF ended.full THEN ended ELSE [ended EXCEPT !.started = FALSE]
    [] OTHER        -> [s EXCEPT !.field = Append(@, ch), !.started = TRUE]

(* parseDelimited: the characters in turn, until the limit is reached, and *)
(* whatever is left after the last newline.                                *)
ParseDelimited(text, limit) ==
  LET body == IF text # Empty /\ Head(text) = Mark THEN Tail(text) ELSE text
      Following(i) == IF i < Len(body) THEN body[i + 1] ELSE Space
      Step(s, i) ==
        IF s.full THEN s
        ELSE IF s.skip THEN [s EXCEPT !.skip = FALSE]
        ELSE IF s.quoted THEN ReadQuoted(s, body[i], Following(i))
        ELSE ReadPlain(s, body[i], limit)
      read == FoldLeft(Step, Reading, [i \in DOMAIN body |-> i])
      whole == IF read.full \/ (read.field = Empty /\ read.row = Empty) THEN read
               ELSE EndRow(read, limit)
  IN  [header |-> IF whole.header = NoHeader THEN Empty ELSE whole.header,
       rows |-> whole.rows, ragged |-> whole.ragged]

(* Occurrences of a character outside quotes in a line: of a doubled quote *)
(* inside quotes the second is skipped.                                    *)
CountOutsideQuotes(line, ch) ==
  LET Step(s, i) ==
        IF s.skip THEN [s EXCEPT !.skip = FALSE]
        ELSE IF line[i] = Quote
        THEN IF s.quoted /\ i < Len(line) /\ line[i + 1] = Quote
             THEN [s EXCEPT !.skip = TRUE]
             ELSE [s EXCEPT !.quoted = ~@]
        ELSE IF ~s.quoted /\ line[i] = ch THEN [s EXCEPT !.count = @ + 1] ELSE s
  IN  FoldLeft(Step, [quoted |-> FALSE, skip |-> FALSE, count |-> 0],
               [i \in DOMAIN line |-> i]).count

(* sniffDelimiter over counts[i][l], how often the i-th candidate occurs   *)
(* on line l: consistency first, then frequency on the first line, then    *)
(* the order of the candidates.                                            *)
Consistent(counts) == \A l \in DOMAIN counts : counts[l] = counts[1]
Score(counts) == (IF Consistent(counts) THEN 1000 ELSE 0) + counts[1]
Sniff(counts) ==
  LET present == {i \in DOMAIN counts : counts[i] # Empty /\ counts[i][1] # 0}
  IN  IF present = {} THEN 1
      ELSE CHOOSE i \in present :
             \A j \in present :
               \/ Score(counts[j]) < Score(counts[i])
               \/ Score(counts[j]) = Score(counts[i]) /\ i <= j
-----------------------------------------------------------------------------
(* Cells read as times.  Time is in hours: what the code calls             *)
(* milliseconds is a number of hours since 1970, and a thousandth of it is *)
(* what it calls seconds.  A cell is Blank; or a number; or three numbers  *)
(* with slashes, dashes or dots between them, the first of four digits if  *)
(* wide, and an hour; or some other text.  parsed is what Date.parse makes *)
(* of it.                                                                  *)
Day == 24
MinPlausible == 7305 * Day    \* 1990
MaxPlausible == 47482 * Day   \* 2100
Plausible(t) == MinPlausible <= t /\ t <= MaxPlausible

(* Date.UTC: days from 1970 to the first of a month counted from March,    *)
(* and a day past the end of its month runs into the next.                 *)
DateUTC(year, month, day, hour) ==
  LET y == IF month > 2 THEN year ELSE year - 1
      m == (month + 9) % 12
      days == 365 * y + y \div 4 - y \div 100 + y \div 400 + (153 * m + 2) \div 5 + day - 1
  IN  (days - 719468) * Day + hour

(* A value above twelve can only be the day, whatever the stated order. *)
OnlyADay(n) == n > 12

ParseSlashDate(cell, dayFirst) ==
  LET dayIsFirst == OnlyADay(cell.a) \/ (~OnlyADay(cell.b) /\ dayFirst)
      year == CASE cell.wide    -> cell.a
                [] cell.c < 70  -> 2000 + cell.c
                [] cell.c < 100 -> 1900 + cell.c
                [] OTHER        -> cell.c
      month == IF cell.wide \/ dayIsFirst THEN cell.b ELSE cell.a
      day == CASE cell.wide -> cell.c [] dayIsFirst -> cell.a [] OTHER -> cell.b
  IN  IF month \in 1..12 /\ day \in 1..31 THEN DateUTC(year, month, day, cell.hour) ELSE NotATime

(* A bare number: a time if it is a plausible one, else seconds if that    *)
(* is, else hours from the base.                                           *)
ReadNumber(n, base) ==
  IF Plausible(n) THEN n ELSE IF Plausible(1000 * n) THEN 1000 * n ELSE base + n

Read(cell, mode, base) ==
  CASE mode = "step_hours" -> IF cell.kind = "number" THEN base + cell.value ELSE NotATime
    [] mode = "epoch_ms"   -> IF cell.kind = "number" THEN cell.value ELSE NotATime
    [] mode = "epoch_s"    -> IF cell.kind = "number" THEN 1000 * cell.value ELSE NotATime
    [] mode \in {"day_first", "month_first"} ->
         IF cell.kind = "date" THEN ParseSlashDate(cell, mode = "day_first") ELSE NotATime
    [] mode = "iso"        -> cell.parsed
    [] cell.kind = "number" -> ReadNumber(cell.value, base)
    [] cell.kind = "date" /\ ParseSlashDate(cell, TRUE) # NotATime -> ParseSlashDate(cell, TRUE)
    [] OTHER               -> cell.parsed

CoerceTimestamp(cell, mode, base) ==
  LET t == Read(cell, mode, base)
  IN  IF t = NotATime THEN [ok |-> FALSE, value |-> base] ELSE [ok |-> TRUE, value |-> t]
=============================================================================
