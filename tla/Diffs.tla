------------------------------- MODULE Diffs -------------------------------
(***************************************************************************)
(* The comparisons of diff.rs.  A table has a set of columns, the columns  *)
(* of its class key, and rows in the order they were read; a row is a      *)
(* function of the columns it has, as two sides need not have the same.    *)
(* A snapshot is a sequence of entries, each with an identity and a rest.  *)
(***************************************************************************)
EXTENDS Retain

CONSTANT Empty   (* the value a missing key column counts as *)

Present(row, c) == c \in DOMAIN row

KeyOf(row, key) == [c \in key |-> IF Present(row, c) THEN row[c] ELSE Empty]

(* A column that only one side has counts as a difference.                 *)
ChangedColumns(a, b, ignored) ==
  {c \in (DOMAIN a \cup DOMAIN b) \ ignored :
     ~(Present(a, c) /\ Present(b, c) /\ a[c] = b[c])}

(* Without key columns a row is identified by everything that counts.      *)
EffectiveKey(a, b, keys, ignored) ==
  IF keys = {} THEN (a.columns \cup b.columns) \ ignored ELSE keys

(* Mutant of Partner: a row of A can be matched again.                     *)
PartnerAgain(a, key, row, matched) == {i \in DOMAIN a.rows : KeyOf(a.rows[i], key) = KeyOf(row, key)}

(* The rows of A that are still free to be the other side of a row of B.   *)
Partner(a, key, row, matched) ==
  {i \in DOMAIN a.rows \ matched : KeyOf(a.rows[i], key) = KeyOf(row, key)}

(* Mutant of Matched: the partner is the last of its key.                  *)
MatchedLast(partners) == CHOOSE i \in partners : \A j \in partners : i >= j

(* Rows with one key are paired in the order they came.                    *)
Matched(partners) == First(partners)

(* What one row of B adds to the difference d.                             *)
MatchRow(a, key, ignored, d, row) ==
  LET partners == Partner(a, key, row, d.matched)
      i == Matched(partners)
      moved == ChangedColumns(a.rows[i], row, ignored)
  IN IF partners = {} THEN [d EXCEPT !.added = Append(@, row)]
     ELSE IF moved = {} THEN [d EXCEPT !.matched = @ \cup {i}, !.unchanged = @ + 1]
     ELSE [d EXCEPT !.matched = @ \cup {i},
                    !.changed = Append(@, [a |-> a.rows[i], b |-> row, columns |-> moved])]

NoDifference == [matched |-> {}, added |-> <<>>, changed |-> <<>>, unchanged |-> 0]

(* The rows of A that no row of B was matched with, in their order.        *)
Left(a, matched) == Without(a.rows, matched)

(* What the difference is after each row of B.                             *)
Matching(a, b, key, ignored) ==
  LET after[n \in 0 .. Len(b.rows)] ==
        IF n = 0 THEN NoDifference ELSE MatchRow(a, key, ignored, after[n - 1], b.rows[n])
  IN after

DiffTables(a, b, keys, ignored) ==
  LET d == Matching(a, b, EffectiveKey(a, b, keys, ignored), ignored)[Len(b.rows)]
  IN [added |-> d.added, changed |-> d.changed, unchanged |-> d.unchanged,
      removed |-> Left(a, d.matched)]

-----------------------------------------------------------------------------
(* diff_subscriptions() and diff_providers(), which differ only in what is *)
(* identity and what is the rest.  The baseline becomes a map by identity: *)
(* the last of several entries with one identity stands for them all.      *)
InBaseline(baseline, id) == {i \in DOMAIN baseline : baseline[i].id = id}

Recorded(baseline, id) ==
  baseline[CHOOSE i \in InBaseline(baseline, id) : \A j \in InBaseline(baseline, id) : j <= i]

Verdict(baseline, entry) ==
  IF InBaseline(baseline, entry.id) = {} THEN "added"
  ELSE IF Recorded(baseline, entry.id).rest # entry.rest THEN "changed" ELSE "unchanged"

DiffSnapshots(baseline, current) ==
  LET Judged(verdict) ==
        Without(current, {i \in DOMAIN current : Verdict(baseline, current[i]) # verdict})
  IN [added |-> Judged("added"), changed |-> Judged("changed"),
      unchanged |-> Len(Judged("unchanged")),
      removed |-> Without(baseline, {i \in DOMAIN baseline : InBaseline(current, baseline[i].id) # {}})]
=============================================================================
