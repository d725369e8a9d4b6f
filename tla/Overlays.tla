----------------------------- MODULE Overlays ------------------------------
(***************************************************************************)
(* The global keys and the overlays they open and close, with the command  *)
(* palette: its query, its rows and the row that Enter runs.  A step is    *)
(* one frame of the window, in the order app.rs draws it: the global keys, *)
(* the view, the invoke modal, the palette.                                *)
(***************************************************************************)
EXTENDS Retain

CONSTANTS
  Views,      (* the destinations the rail leads to                        *)
  Explorer,   (* the one that has the result table                         *)
  Texts,      (* what the query field may hold                             *)
  Short,      (* the texts of fewer than MIN_QUERY characters              *)
  Found,      (* text -> the hits of the index, sorted: [kind, name]       *)
  Commands,   (* Command::all(): records [does, to]                        *)
  Score,      (* text -> command -> its rank, or NoMatch                   *)
  NoMatch, NoRow,
  MaxPerGroup,
  Buttons,    (* the overlays a button of the window opens                 *)
  Chords      (* the sets of keys that may go down in one frame            *)

VARIABLES
  open,       (* the overlays that are up                                  *)
  actions,    (* actions_open: the Explorer opens the invoke modal next    *)
  view, live, theme,
  text, sel,  (* palette_query and palette_sel                             *)
  shown,      (* palette_shown: the palette was up in the last frame       *)
  indexed,    (* has the search index arrived?                             *)
  input,      (* the keys of the last frame, and was a field focused?      *)
  ran         (* the row it ran, or NoRow                                  *)

overlayVars == <<open, actions, view, live, theme, text, sel, shown, indexed, input, ran>>

(* close_topmost_overlay()'s order, front to back.                         *)
Stacking == <<"palette", "keymap", "invoke", "save_query", "mof", "error_log">>

Layers == {Stacking[i] : i \in DOMAIN Stacking}

(* The rows the palette may have.                                          *)
PaletteRows ==
  {Commands[i] : i \in DOMAIN Commands}
  \cup UNION {{Found[t][i] : i \in DOMAIN Found[t]} : t \in Texts}

ASSUME OverlayAssumption ==
  /\ Explorer \in Views /\ Short \subseteq Texts /\ MaxPerGroup \in Nat \ {0}
  /\ Commands \in Seq(PaletteRows) /\ \A t \in Texts : Found[t] \in Seq(PaletteRows)
  /\ NoRow \notin PaletteRows /\ Buttons \subseteq Layers

(* BINDINGS, in its order, with the keys that stand down in a text field.  *)
OutsideText == {"Ctrl+Enter", "Escape"}

Toggle(o, set) == IF o \in set THEN set \ {o} ELSE set \cup {o}

-----------------------------------------------------------------------------
CloseAll(up) == {}

CloseTopmost(up) ==
  IF up = {} THEN up
  ELSE up \ {Stacking[CHOOSE i \in DOMAIN Stacking :
                     Stacking[i] \in up /\ \A j \in 1..(i - 1) : Stacking[j] \notin up]}

(* palette_rows(): up to MaxPerGroup hits of each kind, for a text that is *)
(* long enough, then the commands that match, best rank first.             *)
Group(t, k) ==
  LET hits == Without(Found[t], {i \in DOMAIN Found[t] : Found[t][i].kind # k})
  IN  SubSeq(hits, 1, IF Len(hits) < MaxPerGroup THEN Len(hits) ELSE MaxPerGroup)

Hits(t) == Group(t, "class") \o Group(t, "property") \o Group(t, "method")

Ranked(t, n) == Without(Commands, {i \in DOMAIN Commands : Score[t][Commands[i]] # n})

Matching(t) == Ranked(t, 0) \o Ranked(t, 1) \o Ranked(t, 2) \o Ranked(t, 3)

AllRows ==
  [t \in Texts |-> [x \in BOOLEAN |->
     IF x /\ t \notin Short THEN Hits(t) \o Matching(t) ELSE Matching(t)]]

Rows(t, hasIndex) == AllRows[t][hasIndex]

(* palette_body(): where the selection goes, given the row count.          *)
SelectionUnclamped(keys, changed, n) ==
  LET moved == IF "Down" \in keys THEN (sel + 1) % n ELSE sel
  IN  IF n = 0 THEN 0 ELSE IF "Up" \in keys THEN (moved + n - 1) % n ELSE moved

Selection(keys, changed, n) ==
  LET kept  == IF changed THEN 0 ELSE IF sel < n THEN sel ELSE n - 1
      moved == IF "Down" \in keys THEN (kept + 1) % n ELSE kept
  IN  IF n = 0 THEN 0 ELSE IF "Up" \in keys THEN (moved + n - 1) % n ELSE moved

(* run_command() and apply_search_hit(): where a row leads, what it sets.  *)
RunsRow(row) ==
  /\ ran' = row
  /\ view' = CASE row.does = "go" -> row.to
               [] row.does \in {"run_query", "hit"} -> Explorer
               [] OTHER -> view
  /\ live' = IF row.does = "toggle_live" THEN ~live ELSE live
  /\ theme' = IF row.does \in DOMAIN theme THEN [theme EXCEPT ![row.does] = row.to] ELSE theme
  /\ actions' = (row.does = "hit" /\ row.kind = "method")

RunsNoRow(queries) ==
  /\ ran' = NoRow
  /\ view' = IF queries THEN Explorer ELSE view
  /\ actions' = (actions /\ view' # Explorer)
  /\ UNCHANGED <<live, theme>>

(* The frame up to the palette: the global keys in the order of BINDINGS,  *)
(* the Explorer, which opens the invoke modal it was asked for, and that   *)
(* modal, which takes an Escape nobody took if it was in front before.     *)
UnderPalette(keys, typing) ==
  LET global  == IF typing THEN keys \ OutsideText ELSE keys
      toggled == IF "Ctrl+K" \in global THEN Toggle("palette", open) ELSE open
      queries == "Ctrl+Enter" \in global /\ "palette" \notin toggled
      mapped  == IF "F1" \in global THEN Toggle("keymap", toggled) ELSE toggled
      left    == IF "Escape" \in global THEN CloseTopmost(mapped) ELSE mapped
      invoked == actions /\ (view = Explorer \/ queries)
      modal   == "Escape" \in keys \ global /\ "invoke" \in left /\ ~shown
  IN  [up      |-> IF modal THEN left \ {"invoke"}
                   ELSE IF invoked THEN left \cup {"invoke"} ELSE left,
       escape  |-> "Escape" \in keys \ global /\ ~modal,
       queries |-> queries]

-----------------------------------------------------------------------------
OverlaysInit ==
  /\ open = {} /\ actions = FALSE /\ view \in Views /\ live = TRUE
  /\ theme = [accent |-> 1, density |-> 1]
  /\ text \in Texts /\ sel = 0 /\ shown = FALSE /\ indexed = FALSE
  /\ ran = NoRow /\ input = [keys |-> {}, typing |-> FALSE]

(* A frame without the palette.                                            *)
PlainFrame(keys, typing) ==
  LET under == UnderPalette(keys, typing)
  IN  /\ "palette" \notin under.up
      /\ open' = under.up /\ shown' = FALSE /\ input' = [keys |-> keys, typing |-> typing]
      /\ RunsNoRow(under.queries)
      /\ UNCHANGED <<text, sel, indexed>>

(* A frame with it: the text after the frame's typing, the row clicked in  *)
(* it or 0.  A click beats Enter; either closes the palette, as Escape.    *)
PaletteFrame(keys, typing, typed, clicked) ==
  LET under == UnderPalette(keys, typing)
      rows  == Rows(typed, indexed)
      at    == Selection(keys, typed # text, Len(rows))
      row   == IF clicked # 0 THEN clicked ELSE IF "Enter" \in keys THEN at + 1 ELSE 0
      runs  == row \in DOMAIN rows
  IN  /\ "palette" \in under.up /\ clicked <= Len(rows)
      /\ text' = typed /\ sel' = at /\ shown' = TRUE
      /\ input' = [keys |-> keys, typing |-> typing]
      /\ open' = IF runs \/ under.escape THEN under.up \ {"palette"} ELSE under.up
      /\ IF runs THEN RunsRow(rows[row]) ELSE RunsNoRow(FALSE)
      /\ UNCHANGED indexed

(* The buttons of the title bar, the status bar and the views, and the     *)
(* windows' own; a modal in front takes the clicks.                        *)
Press(o) ==
  /\ open \cap {"palette", "invoke"} \subseteq {o}
  /\ open' = Toggle(o, open) /\ input' = [input EXCEPT !.keys = {}] /\ ran' = NoRow
  /\ UNCHANGED <<actions, view, live, theme, text, sel, shown, indexed>>

(* The index arrives, or goes with the machine it was built on.            *)
IndexChanges ==
  /\ indexed' = ~indexed /\ input' = [input EXCEPT !.keys = {}] /\ ran' = NoRow
  /\ UNCHANGED <<open, actions, view, live, theme, text, sel, shown>>

OverlaysNext ==
  \/ \E keys \in Chords, typing \in BOOLEAN : PlainFrame(keys, typing)
  \/ \E keys \in Chords, typing \in BOOLEAN, typed \in Texts :
       \E clicked \in 0..Len(Rows(typed, indexed)) : PaletteFrame(keys, typing, typed, clicked)
  \/ \E o \in open \cup Buttons : Press(o)
  \/ IndexChanges

OverlaysSpec == OverlaysInit /\ [][OverlaysNext]_overlayVars

-----------------------------------------------------------------------------
(* "Escape must close exactly one of them -- closing the lot would be a    *)
(* single keystroke undoing several decisions" (close_topmost_overlay()):  *)
(* a frame with Escape alone closes at most one overlay, wherever the      *)
(* focus is, and one if the palette or nothing but windows was up outside  *)
(* a text field.                                                           *)
EscapeClosesOneStep ==
    input'.keys = {"Escape"} =>
       /\ Cardinality(open \ open') <= 1
       /\ (open # {} /\ ~actions /\ (~input'.typing \/ "palette" \in open))
            => open \ open' # {}

(* The inductive invariant behind them: the invoke modal and the palette   *)
(* are up together only once the palette has had a frame, so that no       *)
(* Escape in a text field closes the one and a click in it the other.      *)
OverlaysInv ==
  /\ open \subseteq Layers /\ text \in Texts /\ sel \in Nat
  /\ shown \in BOOLEAN /\ indexed \in BOOLEAN
  /\ input \in [keys : Chords \cup {{}}, typing : BOOLEAN]
  /\ {"palette", "invoke"} \subseteq open => shown

(* Enter in the palette runs a row whenever one is drawn, and closes it:   *)
(* the selection kept from the last frame points at a row of this frame's  *)
(* list, however the text and the index changed the list in between.       *)
EnterRunsARowStep ==
    (shown' /\ "Enter" \in input'.keys /\ Rows(text', indexed) # <<>>)
       => ran' # NoRow /\ "palette" \notin open'

(* Escape closes one overlay, and Enter runs a row the palette shows.      *)
KeysReachTheTop == [][EscapeClosesOneStep /\ EnterRunsARowStep]_overlayVars
=============================================================================
