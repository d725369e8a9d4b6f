------------------------------ MODULE Exports ------------------------------
(***************************************************************************)
(* The tables the program writes to files.  A text is a sequence of        *)
(* characters, of which comma, quote and newline (a line feed or a         *)
(* carriage return) matter; a table is its columns and its rows, which     *)
(* need not be as long as they.                                            *)
(***************************************************************************)
EXTENDS Integers, Sequences, FiniteSets, FiniteSetsExt

CONSTANTS
  Characters,                     (* what texts are made of                *)
  comma, quote, newline, other,   (* four of them                          *)
  Exported                        (* the results that may be exported      *)

VARIABLE table

(* Pieces of a text, or parts of a list, put one behind the other.         *)
Strung(pieces) ==
  LET upTo[n \in 0 .. Len(pieces)] == IF n = 0 THEN <<>> ELSE upTo[n - 1] \o pieces[n]
  IN upTo

Concat(pieces) == Strung(pieces)[Len(pieces)]

(* csv_field(): quoted when it has to be, its quotes doubled.              *)
Doubled(s) == [i \in DOMAIN s |-> IF s[i] = quote THEN <<quote, quote>> ELSE <<s[i]>>]

(* Mutant of Plain: a quote alone is not looked for.                       *)
NeedsNoQuotes(s) == \A i \in DOMAIN s : s[i] \notin {comma, newline}

Plain(s) == \A i \in DOMAIN s : s[i] \notin {comma, quote, newline}

CsvField(s) == IF Plain(s) THEN s ELSE <<quote>> \o Concat(Doubled(s)) \o <<quote>>

(* csv_row(): a comma between two cells, a newline behind the last.        *)
Mark(cells, i) == IF i < Len(cells) THEN comma ELSE newline

CsvRow(cells) ==
  IF cells = <<>> THEN <<newline>>
  ELSE Concat([i \in DOMAIN cells |-> CsvField(cells[i]) \o <<Mark(cells, i)>>])

(* export_header(): as wide as the longest row, the columns that have no   *)
(* name numbered; export_cells(): each row filled up to it.                *)
Width(t) == Max({Len(t.columns)} \cup {Len(t.rows[i]) : i \in DOMAIN t.rows})

Header(t) == [i \in 1 .. Width(t) |-> IF i <= Len(t.columns) THEN t.columns[i] ELSE <<other>>]

Cells(t, row) == [i \in 1 .. Width(t) |-> IF i <= Len(row) THEN row[i] ELSE <<>>]

(* query_to_csv()                                                          *)
QueryToCsv(t) ==
  CsvRow(Header(t)) \o Concat([i \in DOMAIN t.rows |-> CsvRow(Cells(t, t.rows[i]))])

(* query_to_json(): objects whose members are pairs in column order.       *)
QueryToJson(t) ==
  [i \in DOMAIN t.rows |->
     [j \in 1 .. Width(t) |-> <<Header(t)[j], Cells(t, t.rows[i])[j]>>]]

-----------------------------------------------------------------------------
(* A reader of RFC 4180: the fields it has read, each with the mark behind *)
(* it, the field it is in, and how far in that it is.                      *)
ReadChar(r, c) ==
  LET mode == IF r.mode \in {"start", "closing"} /\ c = quote THEN "quoted"
              ELSE IF r.mode = "quoted" THEN IF c = quote THEN "closing" ELSE "quoted"
              ELSE IF c \in {comma, newline} THEN "start" ELSE "plain"
  IN [fields |-> IF mode = "start" THEN Append(r.fields, <<r.field, c>>) ELSE r.fields,
      field |-> IF mode = "start" THEN <<>>
                ELSE IF mode = "closing" \/ (r.mode = "start" /\ c = quote) THEN r.field
                ELSE Append(r.field, c),
      mode |-> mode]

Reading(r, s) ==
  LET after[n \in 0 .. Len(s)] == IF n = 0 THEN r ELSE ReadChar(after[n - 1], s[n]) IN after

After(r, s) == Reading(r, s)[Len(s)]

NothingRead == [fields |-> <<>>, field |-> <<>>, mode |-> "start"]

Separated(cells) == [i \in DOMAIN cells |-> <<cells[i], Mark(cells, i)>>]

(* A reader gets back every cell of the table from the file, under a       *)
(* column of its own and up to the last line, whatever characters are in   *)
(* it and however ragged the rows are; and the JSON of the same table has  *)
(* the same cells.                                                         *)
CsvReadsBack(t) ==
  Width(t) > 0 =>
    /\ After(NothingRead, QueryToCsv(t)) =
         [NothingRead EXCEPT !.fields =
            Separated(Header(t)) \o Concat([i \in DOMAIN t.rows |-> Separated(Cells(t, t.rows[i]))])]
    /\ \A i \in DOMAIN t.rows : \A j \in DOMAIN t.rows[i] :
         QueryToJson(t)[i][j][2] = t.rows[i][j]

-----------------------------------------------------------------------------
(* Cells and names are texts, whatever their number.                       *)
IsTable(t) ==
  t.columns \in Seq(Seq(Characters)) /\ t.rows \in Seq(Seq(Seq(Characters)))

ASSUME ExportsAssumption ==
  /\ {comma, quote, newline, other} \subseteq Characters
  /\ comma # quote /\ newline # quote
  /\ \A t \in Exported : IsTable(t)

FileInit == table \in Exported

(* A reader of an exported file gets the table back.                       *)
FileReadsBack == CsvReadsBack(table)
=============================================================================
