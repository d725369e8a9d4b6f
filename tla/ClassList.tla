----------------------------- MODULE ClassList -----------------------------
(***************************************************************************)
(* The Explorer's class list: what the facet chip, the filter box and the  *)
(* "show system classes" setting leave of the namespace's classes, what    *)
(* the line over the list counts, and what an empty list says.             *)
(***************************************************************************)
EXTENDS Naturals, FiniteSets

CONSTANTS
  AllClasses, (* the classes there may be: [system, qualifiers, matches],  *)
              (* does the name begin with "__", the kinds its qualifiers   *)
              (* and ancestry give it, the filter texts it contains        *)
  BoxTexts, NoText

(* Only the name makes a class one of the system.                          *)
ASSUME ListAssumption ==
  IsFiniteSet(AllClasses) /\ \A c \in AllClasses : "system" \notin c.qualifiers

VARIABLES
  classes,    (* the classes listed                                        *)
  loading,    (* classes_loading                                           *)
  chip, typed,
  showSystem, (* the setting                                               *)
  drawn       (* the last frame: its rows, its count of hidden classes,    *)
              (* its chip's count, its note                                *)

listVars == <<classes, loading, chip, typed, showSystem, drawn>>

(* classify()                                                              *)
KindOfQualifiers(c) == c.qualifiers

Kind(c) == c.qualifiers \cup (IF c.system THEN {"system"} ELSE {})

Chips == {"all", "dynamic", "association", "event", "system"}

Passes(x, c) == x = "all" \/ x \in Kind(c)

Matches(t, c) == t = NoText \/ t \in c.matches

HiddenOfAll(hides, x) == IF hides /\ x = "all" THEN {c \in classes : c.system} ELSE {}

Hidden(hides, x) == IF hides THEN {c \in classes : Passes(x, c) /\ c.system} ELSE {}

Shown(hides, x, t) == {c \in classes : Passes(x, c) /\ ~(hides /\ c.system) /\ Matches(t, c)}

(* class_empty_note()                                                      *)
Note(hides, x, t) ==
  CASE loading -> "enumerating"
    [] ~loading /\ classes = {} -> "none"
    [] ~loading /\ classes # {} /\ t # NoText -> "no name matches"
    [] ~loading /\ classes # {} /\ t = NoText /\ x # "all" -> "none of this kind"
    [] ~loading /\ classes # {} /\ t = NoText /\ x = "all" ->
         IF Hidden(hides, x) # {} THEN "all system" ELSE "should not happen"

ListInit ==
  /\ classes = {} /\ loading = TRUE /\ chip = "all" /\ typed = NoText
  /\ showSystem \in BOOLEAN
  /\ drawn = [rows |-> {}, hidden |-> 0, chip |-> "all", text |-> NoText, note |-> "enumerating"]

(* A frame: the box is read first, whether system classes hide is settled, *)
(* then the chips are.                                                     *)
Frame(x, t) ==
  LET hides == ~showSystem /\ chip # "system"
      rows  == Shown(hides, x, t)
  IN  /\ chip' = x /\ typed' = t
      /\ drawn' = [rows |-> rows, hidden |-> Cardinality(Hidden(hides, x)), chip |-> x,
                   text |-> t, note |-> IF rows = {} THEN Note(hides, x, t) ELSE "rows"]
      /\ UNCHANGED <<classes, loading, showSystem>>

(* The list of a namespace asked for and delivered, the setting changed.   *)
Listed ==
  /\ loading' = ~loading
  /\ classes' \in IF loading THEN SUBSET AllClasses ELSE {{}}
  /\ UNCHANGED <<chip, typed, showSystem, drawn>>

Setting == showSystem' = ~showSystem /\ UNCHANGED <<classes, loading, chip, typed, drawn>>

ListNext == (\E x \in Chips, t \in BoxTexts \cup {NoText} : Frame(x, t)) \/ Listed \/ Setting

ListSpec == ListInit /\ [][ListNext]_listVars

-----------------------------------------------------------------------------
(* "Never silently: a list that is shorter than the namespace has to say   *)
(* so" (ui_class_list()): when a frame lists fewer classes than its chip   *)
(* and its text let through, it counts at least as many hidden ones.       *)
NeverSilentlyStep ==
    drawn' # drawn =>
       LET left == {c \in classes : Passes(drawn'.chip, c) /\ Matches(drawn'.text, c)} \ drawn'.rows
       IN  Cardinality(left) <= drawn'.hidden

(* "The System chip still reaches every one of them with the setting off": *)
(* the second frame under that chip lists every "__" class.                *)
SystemIsReachableStep ==
    (chip = "system" /\ drawn' # drawn /\ drawn'.chip = "system" /\ drawn'.text = NoText)
       => {c \in classes : c.system} = drawn'.rows

ListInv == classes \subseteq AllClasses

(* No class is left out of the list without being counted, and those of    *)
(* the system can be reached.                                              *)
NoClassVanishes == [][NeverSilentlyStep /\ SystemIsReachableStep]_listVars

(* "The namespace has classes; none of their names contain what you typed" *)
(* and "The namespace has classes, but none of this kind"                  *)
(* (class_empty_note()): an empty list gives the true reason.              *)
ClassNoteIsTrueStep ==
    drawn' # drawn =>
       /\ drawn'.note = "no name matches" => \A c \in classes : ~Matches(drawn'.text, c)
       /\ drawn'.note = "none of this kind" => \A c \in classes : ~Passes(drawn'.chip, c)
       /\ drawn'.note = "all system" => \A c \in classes : c.system
ClassNoteIsTrue == [][ClassNoteIsTrueStep]_listVars
=============================================================================
