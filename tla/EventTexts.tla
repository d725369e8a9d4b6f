------------------------------- MODULE EventTexts -------------------------------
(***************************************************************************)
(* The two texts of the Events view: the query in the editor, which the    *)
(* interval field rewrites, and the line of an event.  EventMonitor has    *)
(* the same field among everything else the view does, on a few queries;   *)
(* here the query is any that may be typed.                                *)
(***************************************************************************)
EXTENDS EventQuery

CONSTANTS
  Queries,     (* what may be typed into the editor                        *)
  Deliveries   (* the events that may arrive                               *)

ASSUME TextsAssumption ==
  (\A q \in Queries : IsQuery(q)) /\ \A p \in Deliveries : IsDelivery(p)

VARIABLES
  query,       (* monitor_wql                                              *)
  pairs        (* an event that arrived                                    *)

textVars == <<query, pairs>>

TextsInit == query \in Queries /\ pairs \in Deliveries

(* A number typed into the interval field, which is off where it would not *)
(* apply.                                                                  *)
SetInterval ==
  /\ AcceptsWithin(query)
  /\ \E n \in Numbers : query' = Injected(query, n)
  /\ UNCHANGED pairs

TextsSpec == TextsInit /\ [][SetInterval]_textVars

(* However often the field was used, it writes what it accepts, and an     *)
(* event's line says what it is about.                                     *)
EventTextsAreTrue ==
  /\ \A n \in Numbers : FieldIsWritten(query, n)
  /\ \A limit \in 1 .. Len(pairs) + 1 : SummaryIdentifies(pairs, limit)

(* The invariant behind it: the query stays one.                           *)
TextsInv == IsQuery(query) /\ IsDelivery(pairs)
=============================================================================
