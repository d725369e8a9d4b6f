---------------------------- MODULE ProcessTable ---------------------------
(***************************************************************************)
(* The table of the process view over the rows of its log: which rows the  *)
(* filters keep, in which order the table shows them, how deep the tree    *)
(* indents them.  The rows come in the order their events arrived, which   *)
(* is not the order the processes started in.                              *)
(***************************************************************************)
EXTENDS Retain, SequencesExt, FiniteSetsExt

CONSTANTS
  Arrivals,    (* the rows a start event may bring: records [pid, parent,  *)
               (* started, session, cell], a cell being [number, text]     *)
  Sessions,    (* the sessions there may be                                *)
  AnySession,  (* the session filter's "all sessions"                      *)
  NoNumber,    (* the number of a cell that does not parse as one          *)
  MaxRows,     (* how many rows the log gets                               *)
  MaxDepth     (* MAX_DEPTH, where the walk up the tree stops              *)

ASSUME TableAssumption == MaxDepth \in Nat

VARIABLES
  log,         (* the rows, oldest arrival first                           *)
  filters,     (* the lifecycle and session filters                        *)
  tree,        (* is the tree on?                                          *)
  sort         (* "off", "ascending" or "descending" on the cell's column  *)

tableVars == <<log, filters, tree, sort>>

Keeps(t) ==
  /\ filters.lifecycle = "live" => t.alive
  /\ filters.lifecycle = "ended" => ~t.alive
  /\ filters.failed => t.failed
  /\ filters.session # AnySession => t.session = filters.session

(* by_pid: of several rows with one PID the last, whose process must not   *)
(* have started after its child.                                           *)
ByPid(pid) == Max({i \in DOMAIN log : log[i].pid = pid})

HasEarlierParent(i) ==
  /\ \E j \in DOMAIN log : log[j].pid = log[i].parent
  /\ LET up == ByPid(log[i].parent) IN up < i /\ log[up].started <= log[i].started

HasParent(i) ==
  /\ \E j \in DOMAIN log : log[j].pid = log[i].parent
  /\ LET up == ByPid(log[i].parent) IN up # i /\ log[up].started <= log[i].started

(* depths(): steps up from each row, at most MaxDepth of them.             *)
Climb[n \in 0..MaxDepth] ==
  [i \in DOMAIN log |->
     IF n = 0 \/ ~HasParent(i) THEN 0 ELSE 1 + Climb[n - 1][ByPid(log[i].parent)]]

Depths == Climb[MaxDepth]

(* smart_cmp(): numbers when both cells are, the text otherwise.           *)
Below(a, b) == IF a.number # NoNumber /\ b.number # NoNumber THEN a.number < b.number
                                                             ELSE a.text < b.text

IsTotal(cells) ==
  \A a, b, c \in cells : (~Below(b, a) /\ ~Below(c, b)) => ~Below(c, a)

(* sort_order(): a stable sort by the cells; with cells no order fits, any *)
(* permutation may come out.                                               *)
SortedRows(kept, ascending) ==
  LET Before(i, j) == IF ascending THEN Below(log[i].cell, log[j].cell)
                                   ELSE Below(log[j].cell, log[i].cell)
  IN  {s \in SetToSeqs(kept) :
         IsTotal({log[i].cell : i \in kept}) =>
           \A m, n \in DOMAIN s : m < n =>
             Before(s[m], s[n]) \/ (~Before(s[n], s[m]) /\ s[m] < s[n])}

(* Newest first, or with the tree on oldest first.                         *)
Natural(kept) ==
  LET oldest == Without([i \in DOMAIN log |-> i], DOMAIN log \ kept)
  IN  IF tree THEN oldest ELSE Reverse(oldest)

(* ui_process(): the rows the filters keep, in an order they may come in,  *)
(* each with its depth over all the rows, kept or not.                     *)
Drawn ==
  LET kept == {i \in DOMAIN log : Keeps(log[i])}
  IN  {[n \in DOMAIN s |-> [row |-> s[n], depth |-> IF tree THEN Depths[s[n]] ELSE 0]] :
         s \in IF sort = "off" THEN {Natural(kept)} ELSE SortedRows(kept, sort = "ascending")}

TableInit ==
  /\ log = <<>> /\ tree = FALSE /\ sort = "off"
  /\ filters = [lifecycle |-> "all", failed |-> FALSE, session |-> AnySession]

(* A start event: a new row, alive.                                        *)
Start(a) ==
  /\ Len(log) < MaxRows
  /\ log' = Append(log, a @@ [alive |-> TRUE, failed |-> FALSE])
  /\ UNCHANGED <<filters, tree, sort>>

(* Its stop: the newest live row of its PID stays, ended, with or without  *)
(* a non-zero status.                                                      *)
Stop(i) ==
  /\ log[i].alive
  /\ \A j \in (i + 1)..Len(log) : log[j].pid = log[i].pid => ~log[j].alive
  /\ \E bad \in BOOLEAN :
       log' = [log EXCEPT ![i].alive = FALSE, ![i].failed = bad]
  /\ UNCHANGED <<filters, tree, sort>>

ClearEnded ==
  /\ \E i \in DOMAIN log : ~log[i].alive
  /\ log' = Without(log, {i \in DOMAIN log : ~log[i].alive})
  /\ UNCHANGED <<filters, tree, sort>>

Filter ==
  /\ \E l \in {"all", "live", "ended"}, f \in BOOLEAN, s \in Sessions \cup {AnySession} :
       filters' = [lifecycle |-> l, failed |-> f, session |-> s]
  /\ UNCHANGED <<log, tree, sort>>

Tree == tree' = ~tree /\ UNCHANGED <<log, filters, sort>>

(* cycle_sort(): off, ascending, descending, off.                          *)
ClickHeader ==
  /\ sort' = CASE sort = "off" -> "ascending" [] sort = "ascending" -> "descending"
               [] OTHER -> "off"
  /\ UNCHANGED <<log, filters, tree>>

TableNext ==
  \/ \E a \in Arrivals : Start(a)
  \/ \E i \in DOMAIN log : Stop(i)
  \/ ClearEnded \/ Filter \/ Tree \/ ClickHeader

TableSpec == TableInit /\ [][TableNext]_tableVars

-----------------------------------------------------------------------------
(* In the tree a row is drawn exactly one step under the row it names as   *)
(* its parent, up to the bound, whatever order the two arrived in and      *)
(* whether the filters keep the parent or not; a row with no parent in the *)
(* log is drawn at the edge.                                               *)
IndentsFollowParents ==
  tree => \A d \in Drawn : \A n \in DOMAIN d :
    LET i   == d[n].row
        ups == {j \in DOMAIN log : log[j].pid = log[i].parent}
        up  == Max(ups)
    IN  IF ups # {} /\ up # i /\ log[up].started <= log[i].started
        THEN d[n].depth = (IF Depths[up] < MaxDepth THEN Depths[up] + 1 ELSE MaxDepth)
        ELSE d[n].depth = 0

TableInv == log \in Seq({log[i] : i \in DOMAIN log})

(* "A placeholder against a number: no panic, and a total order"           *)
(* (util.rs:433), of the comparison every table sorts its cells with.      *)
OrderIsTotal == sort # "off" => IsTotal({log[i].cell : i \in DOMAIN log})
=============================================================================
