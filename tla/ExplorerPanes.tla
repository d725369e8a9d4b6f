--------------------------- MODULE ExplorerPanes ---------------------------
(***************************************************************************)
(* The panes of the Explorer beside one class: its schema, associations    *)
(* and MOF, asked for one class at a time, and the rows of the last query, *)
(* which another class may have answered.  The worker answers in order     *)
(* and one namespace stays selected.                                       *)
(***************************************************************************)
EXTENDS Naturals, Sequences, FiniteSets

CONSTANTS
  Classes, NoClass,
  Keys,       (* class -> the properties that are its keys                 *)
  Columns,    (* class -> the columns its instances come with              *)
  MaxQueue    (* bound: how many requests wait at once                     *)

Parts == {"schema", "associations", "mof"}

VARIABLES
  selected,   (* selected_class                                            *)
  slots,      (* part -> the class asked for, whose answer it has, loading *)
  result,     (* the class whose rows are loaded, or NoClass               *)
  row,        (* is one of them selected?                                  *)
  querying,   (* query_loading                                             *)
  queue       (* the requests in flight: [part, class, latest]             *)

paneVars == <<selected, slots, result, row, querying, queue>>

Empty == [for |-> NoClass, has |-> NoClass, loading |-> FALSE]

(* request_schema(), request_associations(), request_class_mof_inline():   *)
(* once for a class, until it fails.                                       *)
Held(p, c) == slots[p].for = c /\ (slots[p].has # NoClass \/ slots[p].loading)

Wanted(ps, c) == {p \in ps : ~Held(p, c)}

AsksFor(ps, c) ==
  slots' = [p \in Parts |-> IF p \in Wanted(ps, c)
                            THEN [for |-> c, has |-> NoClass, loading |-> TRUE] ELSE slots[p]]

(* run_query(): the ones before are superseded.                            *)
Queried(c) ==
  Append([i \in DOMAIN queue |-> [queue[i] EXCEPT !.latest = FALSE]],
         [part |-> "query", class |-> c, latest |-> TRUE])

Request(p, c) == [part |-> p, class |-> c, latest |-> FALSE]

PanesInit ==
  /\ selected = NoClass /\ slots = [p \in Parts |-> Empty]
  /\ result = NoClass /\ row = FALSE /\ querying = FALSE /\ queue = <<>>

(* select_class(): its query, then its schema.                             *)
SelectClass(c) ==
  /\ Len(queue) + 2 <= MaxQueue
  /\ selected' = c /\ querying' = TRUE
  /\ AsksFor({"schema"}, c)
  /\ queue' = IF Held("schema", c) THEN Queried(c) ELSE Append(Queried(c), Request("schema", c))
  /\ UNCHANGED <<result, row>>

(* apply_search_hit() on a property: selects and queries, asks no schema.  *)
SelectProperty(c) ==
  /\ Len(queue) < MaxQueue
  /\ selected' = c /\ querying' = TRUE /\ queue' = Queried(c)
  /\ UNCHANGED <<slots, result, row>>

(* A query typed in the editor: of any class, the selection stays.         *)
RunQuery(c) ==
  /\ Len(queue) < MaxQueue
  /\ querying' = TRUE /\ queue' = Queried(c)
  /\ UNCHANGED <<selected, slots, result, row>>

(* A frame of the Schema tab.                                              *)
DrawSchemaTab ==
  LET parts == Wanted({"associations", "mof"}, selected)
  IN  /\ selected # NoClass /\ parts # {}
      /\ Len(queue) + Cardinality(parts) <= MaxQueue
      /\ AsksFor(parts, selected)
      /\ queue' = queue \o
           (IF "associations" \in parts THEN <<Request("associations", selected)>> ELSE <<>>) \o
           (IF "mof" \in parts THEN <<Request("mof", selected)>> ELSE <<>>)
      /\ UNCHANGED <<selected, result, row, querying>>

(* A click on a row of the result table, a second one to let it go.        *)
SelectRow == result # NoClass /\ row' = ~row /\ UNCHANGED <<selected, slots, result, querying, queue>>

-----------------------------------------------------------------------------
(* The answers: of a panel only for the class it now asks for.             *)
TakenAny(p, c) == slots[p].for # NoClass

Taken(p, c) == slots[p].for = c

Answer ==
  /\ queue # <<>> /\ queue' = Tail(queue)
  /\ LET q == Head(queue) IN
       IF q.part = "query"
       THEN /\ result' = IF q.latest THEN q.class ELSE result
            /\ row' = (row /\ ~q.latest) /\ querying' = (querying /\ ~q.latest)
            /\ UNCHANGED <<selected, slots>>
       ELSE /\ slots' = IF Taken(q.part, q.class)
                        THEN [slots EXCEPT ![q.part].has = q.class, ![q.part].loading = FALSE]
                        ELSE slots
            /\ UNCHANGED <<selected, result, row, querying>>

(* An error names the kind of request, not its class; the rows stay.       *)
Error ==
  /\ queue # <<>> /\ queue' = Tail(queue)
  /\ LET q == Head(queue) IN
       IF q.part = "query"
       THEN querying' = (querying /\ ~q.latest) /\ UNCHANGED slots
       ELSE slots' = [slots EXCEPT ![q.part].loading = FALSE] /\ UNCHANGED querying
  /\ UNCHANGED <<selected, result, row>>

PanesNext ==
  \/ \E c \in Classes : SelectClass(c) \/ SelectProperty(c) \/ RunQuery(c)
  \/ DrawSchemaTab \/ SelectRow \/ Answer \/ Error

PanesSpec == PanesInit /\ [][PanesNext]_paneVars

-----------------------------------------------------------------------------
(* schema_for_selected(), and the same test in the Schema tab's columns:   *)
(* what a part shows.                                                      *)
PartShown(p) ==
  CASE slots[p].for = selected /\ slots[p].has # NoClass -> "data"
    [] slots[p].for = selected /\ slots[p].has = NoClass /\ slots[p].loading -> "spinner"
    [] slots[p].for = selected /\ slots[p].has = NoClass /\ ~slots[p].loading -> "unavailable"
    [] slots[p].for # selected -> IF p = "schema" THEN "unavailable" ELSE "spinner"

(* instance_header(): the keys it joins into a path, or none.              *)
HeaderKeys ==
  IF row /\ result # NoClass /\ selected # NoClass /\ PartShown("schema") = "data"
  THEN Keys[slots["schema"].has] \cap Columns[result] ELSE {}

(* "a stale schema from the previous selection must not label this one"    *)
(* (schema_for_selected()): whatever a part of the panes shows was         *)
(* answered for the class selected, however answers and selections cross.  *)
PanesAreOfTheClass ==
  \A p \in Parts : (selected # NoClass /\ PartShown(p) = "data") => slots[p].has = selected

(* The inductive invariant behind it: a part has the answer for the class  *)
(* it was last asked for, or none.                                         *)
PanesInv ==
  /\ selected \in Classes \cup {NoClass}
  /\ slots \in [Parts -> [for : Classes \cup {NoClass}, has : Classes \cup {NoClass}, loading : BOOLEAN]]
  /\ \A p \in Parts : slots[p].has \in {NoClass, slots[p].for}

(* "Header: the selected instance's relative path when a row is selected"  *)
(* (properties.rs): the path in the header, the selected class with key    *)
(* values of the selected row, is that of an instance of the class.        *)
HeaderNamesAnInstance == HeaderKeys # {} => result = selected

(* "Says "reflecting" while it loads and "unavailable" if it never comes"  *)
(* (detail.rs): while a request for the class's schema is in flight, the   *)
(* header does not call it unavailable.                                    *)
UnavailableNeverComes ==
  (slots["schema"].for = selected /\ PartShown("schema") = "unavailable") =>
    \A i \in DOMAIN queue : ~(queue[i].part = "schema" /\ queue[i].class = selected)
=============================================================================
