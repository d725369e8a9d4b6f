---------------------------- MODULE CompareTable ----------------------------
(***************************************************************************)
(* What the Compare view makes of two results: the key it aligns them on,  *)
(* the columns it disregards, the difference, and the lines of the table   *)
(* that is drawn and exported (views/compare.rs).  The user may pick other *)
(* keys and other columns to ignore, and accept sides that were cut.       *)
(* An override marks the view stale; the next frame drops it and builds    *)
(* another before anything is drawn, which is Rebuild after NoView here.   *)
(***************************************************************************)
EXTENDS Diffs

CONSTANTS
  Derived,     (* no override: the key, or the ignores, are derived        *)
  RelPath,     (* the column __RELPATH                                     *)
  Volatile,    (* the columns whose names say that they move by themselves *)
  TablePairs   (* what the two sides may answer                            *)

VARIABLES
  sideA, sideB,   (* what the two sides answered                           *)
  keyOverride, ignoreOverride, allowPartial, view

tableVars == <<sideA, sideB, keyOverride, ignoreOverride, allowPartial, view>>

RowsOf(t) == {t.rows[i] : i \in DOMAIN t.rows}

(* The rows of an answer come one after another.                           *)
Ordered(t) == t.rows \in Seq(RowsOf(t))

ASSUME TableAssumption == \A pair \in TablePairs : Ordered(pair[1]) /\ Ordered(pair[2])

NoView == [built |-> FALSE]

-----------------------------------------------------------------------------
(* The class key is used if both sides returned all of it; then __RELPATH; *)
(* then nothing, which stands for the whole row.                           *)
ResolveKeys(over) ==
  LET declared == IF sideA.keys # {} THEN sideA.keys ELSE sideB.keys
      usable == declared \cap sideA.columns \cap sideB.columns
  IN IF over # Derived THEN [keys |-> over, source |-> "manual"]
     ELSE IF usable # {} /\ usable = declared THEN [keys |-> usable, source |-> "class key"]
     ELSE IF RelPath \in sideA.columns \cap sideB.columns
          THEN [keys |-> {RelPath}, source |-> "__RELPATH"]
     ELSE [keys |-> {}, source |-> "whole row"]

DisplayColumns(keys) == keys \cup sideA.columns \cup sideB.columns

(* Mutant of ResolveIgnores: a key column can be ignored.                  *)
ResolveIgnoresKeys(columns, keys, over) ==
  IF over # Derived THEN over ELSE columns \cap Volatile

(* A column of the key is not ignored for its name.                        *)
ResolveIgnores(columns, keys, over) ==
  IF over # Derived THEN over ELSE (columns \cap Volatile) \ keys

(* label_b_rows(): the rows of B against the rows reported as added and as *)
(* changed, with a cursor in each list.                                    *)
LabelRow(d, acc, row) ==
  IF acc.ai <= Len(d.added) /\ d.added[acc.ai] = row
  THEN [acc EXCEPT !.ai = @ + 1, !.signs = Append(@, "OnlyB")]
  ELSE IF acc.ci <= Len(d.changed) /\ d.changed[acc.ci].b = row
  THEN [acc EXCEPT !.ci = @ + 1, !.signs = Append(@, "Changed")]
  ELSE [acc EXCEPT !.signs = Append(@, "Same")]

(* Where the two cursors are, and the labels so far, after each row of B.  *)
Labels(rows, d) ==
  LET after[n \in 0 .. Len(rows)] ==
        IF n = 0 THEN [ai |-> 1, ci |-> 1, signs |-> <<>>]
        ELSE LabelRow(d, after[n - 1], rows[n])
  IN after

LabelBRows(rows, d) == Labels(rows, d)[Len(rows)].signs

(* The lines in the order they are drawn: the rows of B, then what only A  *)
(* has.                                                                    *)
Lines(d) ==
  LET signs == LabelBRows(sideB.rows, d)
  IN [i \in DOMAIN sideB.rows |-> [sign |-> signs[i], row |-> sideB.rows[i]]]
     \o [i \in DOMAIN d.removed |-> [sign |-> "OnlyA", row |-> d.removed[i]]]

Sound == sideA.whole /\ sideB.whole

BuildView(key, ignored) ==
  LET d == DiffTables(sideA, sideB, key.keys, ignored) IN
  [built |-> TRUE, keys |-> key.keys, source |-> key.source, ignored |-> ignored,
   diff |-> d, lines |-> Lines(d), sound |-> Sound,
   onlyA |-> sideA.columns \ sideB.columns, onlyB |-> sideB.columns \ sideA.columns]

(* diff_to_csv(): a line per side of each row, identical rows once.        *)
CsvLines ==
  LET Line(sign, w, row) == [sign |-> sign, side |-> w, row |-> row]
      Each(rows, sign, w) == [i \in DOMAIN rows |-> Line(sign, w, rows[i])]
      d == view.diff
      same == Without(view.lines, {i \in DOMAIN view.lines : view.lines[i].sign # "Same"})
  IN [i \in 1 .. 2 * Len(d.changed) |->
        IF i % 2 = 1 THEN Line("Changed", "A", d.changed[(i + 1) \div 2].a)
        ELSE Line("Changed", "B", d.changed[i \div 2].b)]
     \o Each(d.added, "OnlyB", "B") \o Each(d.removed, "OnlyA", "A")
     \o [i \in DOMAIN same |-> Line("Same", "B", same[i].row)]

(* compare_rebuild(): a side that was cut withholds the table until the    *)
(* user accepts it.                                                        *)
Rebuild ==
  /\ ~view.built
  /\ Sound \/ allowPartial
  /\ LET key == ResolveKeys(keyOverride)
     IN view' = BuildView(key, ResolveIgnores(DisplayColumns(key.keys), key.keys, ignoreOverride))
  /\ UNCHANGED <<sideA, sideB, keyOverride, ignoreOverride, allowPartial>>

(* "Diff the partial results anyway".                                      *)
Accept ==
  /\ ~view.built /\ ~Sound /\ ~allowPartial
  /\ allowPartial' = TRUE
  /\ UNCHANGED <<sideA, sideB, keyOverride, ignoreOverride, view>>

(* "Compare shared columns only".                                          *)
IgnoreOneSided ==
  /\ view.built /\ view.onlyA \cup view.onlyB # {}
  /\ ignoreOverride' = view.ignored \cup view.onlyA \cup view.onlyB
  /\ view' = NoView
  /\ UNCHANGED <<sideA, sideB, keyOverride, allowPartial>>

(* The legend's two menus: a column is put into the key or taken out of    *)
(* it, ignored or no longer ignored, or the choice is reset.               *)
Toggle(columns, c) == IF c \in columns THEN columns \ {c} ELSE columns \cup {c}

PickKey ==
  /\ view.built
  /\ keyOverride' \in {Derived} \cup {Toggle(view.keys, c) : c \in DisplayColumns(view.keys)}
  /\ view' = NoView
  /\ UNCHANGED <<sideA, sideB, ignoreOverride, allowPartial>>

PickIgnored ==
  /\ view.built
  /\ ignoreOverride' \in {Derived} \cup {Toggle(view.ignored, c) : c \in DisplayColumns(view.keys)}
  /\ view' = NoView
  /\ UNCHANGED <<sideA, sideB, keyOverride, allowPartial>>

TableInit ==
  /\ \E pair \in TablePairs : sideA = pair[1] /\ sideB = pair[2]
  /\ keyOverride = Derived /\ ignoreOverride = Derived
  /\ allowPartial = FALSE /\ view = NoView

TableNext == Rebuild \/ Accept \/ IgnoreOneSided \/ PickKey \/ PickIgnored

TableSpec == TableInit /\ [][TableNext]_tableVars

-----------------------------------------------------------------------------
KeyInUse == EffectiveKey(sideA, sideB, view.keys, view.ignored)

With(rows, k) == {i \in DOMAIN rows : KeyOf(rows[i], KeyInUse) = k}

Surplus(these, others, k) ==
  IF Cardinality(With(these, k)) > Cardinality(With(others, k))
  THEN Cardinality(With(these, k)) - Cardinality(With(others, k)) ELSE 0

(* What diff_tables() says of duplicate keys: rows of one key are paired   *)
(* in the order they came, any surplus is added or removed, and no row is  *)
(* dropped.  And what the empty view says of one machine on both sides: it *)
(* comes back identical.                                                   *)
EveryRowIsAccounted ==
  view.built =>
    LET d == view.diff
        keys == {KeyOf(r, KeyInUse) : r \in RowsOf(sideA) \cup RowsOf(sideB)}
    IN /\ Len(d.added) + Len(d.changed) + d.unchanged = Len(sideB.rows)
       /\ Len(d.removed) + Len(d.changed) + d.unchanged = Len(sideA.rows)
       /\ \A k \in keys : /\ Cardinality(With(d.added, k)) = Surplus(sideB.rows, sideA.rows, k)
                          /\ Cardinality(With(d.removed, k)) = Surplus(sideA.rows, sideB.rows, k)
       /\ Len(view.lines) = Len(sideB.rows) + Len(d.removed)
       /\ sideA.rows = sideB.rows => d.added = <<>> /\ d.changed = <<>>

UniqueKeys(rows) == \A i, j \in DOMAIN rows :
  KeyOf(rows[i], KeyInUse) = KeyOf(rows[j], KeyInUse) => i = j

(* The sign a row of B has by the definition of a keyed comparison.        *)
SignByKey(row) ==
  LET others == With(sideA.rows, KeyOf(row, KeyInUse)) IN
  IF others = {} THEN "OnlyB"
  ELSE IF \E i \in others : ChangedColumns(sideA.rows[i], row, view.ignored) = {} THEN "Same"
  ELSE "Changed"

(* When the key identifies rows on both sides, each line carries the sign  *)
(* its row has by that key -- though the differ reports no row it found    *)
(* equal, and the lines are found again with two cursors -- and the        *)
(* exported file holds each row of B once.  A derived key never counts on  *)
(* a column that one side did not return, and keeps a volatile column that *)
(* belongs to it.                                                          *)
KeyedRowsAreLabelled ==
  view.built =>
    /\ UniqueKeys(sideA.rows) /\ UniqueKeys(sideB.rows) =>
         \A i \in DOMAIN sideB.rows :
           /\ view.lines[i].sign = SignByKey(sideB.rows[i])
           /\ Cardinality({k \in DOMAIN CsvLines :
                             CsvLines[k].side = "B" /\ CsvLines[k].row = sideB.rows[i]}) = 1
    /\ view.source # "manual" => view.keys \subseteq sideA.columns \cap sideB.columns
    /\ view.source # "manual" /\ ignoreOverride = Derived => view.keys \cap view.ignored = {}

(* Every row of two compared tables is added, removed, changed or equal,   *)
(* exactly once, and each line is labelled by the key.                     *)
TablesAreAccounted == EveryRowIsAccounted /\ KeyedRowsAreLabelled

(* The invariant behind it: the view is the one of what was answered and   *)
(* what was picked.                                                        *)
TableInv ==
  /\ Ordered(sideA) /\ Ordered(sideB)
  /\ view.built =>
       LET key == ResolveKeys(keyOverride)
       IN view = BuildView(key, ResolveIgnores(DisplayColumns(key.keys), key.keys, ignoreOverride))

Alike(rows, row) == {i \in DOMAIN rows : rows[i] = row}

(* What label_b_rows() says of its cursors: a row labelled Same was equal  *)
(* to nothing the differ reported, identical rows aside.                   *)
SameIsNotReported ==
  view.built =>
    \A row \in RowsOf(sideB) :
      Cardinality({i \in Alike(sideB.rows, row) : view.lines[i].sign # "Same"}) =
      Cardinality(Alike(view.diff.added, row))
      + Cardinality({i \in DOMAIN view.diff.changed : view.diff.changed[i].b = row})
=============================================================================
