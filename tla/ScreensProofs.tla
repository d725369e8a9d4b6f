---------------------------- MODULE ScreensProofs ----------------------------
(***************************************************************************)
(* What a frame draws and what its keys do, for any classes, rows, texts   *)
(* and chords: the class list leaves out nothing in silence, the panes are *)
(* of the class that is selected, Escape closes one overlay and Enter runs *)
(* a row of the palette; the interval field writes what it accepts, the    *)
(* line of an event says what it is about, and a reader of an exported     *)
(* file gets the table back.                                               *)
(***************************************************************************)
EXTENDS Overlays, ClassList, ExplorerPanes, ProcessTable, EventTexts, Exports, RetainProofs,
        SequenceTheorems

-----------------------------------------------------------------------------
(*                              The class list                             *)

LEMMA ListedAreFinite == ListSpec => []ListInv
<1>1. ListInit => ListInv
  BY DEF ListInit, ListInv
<1>2. ListInv /\ [ListNext]_listVars => ListInv'
  BY DEF ListInv, ListNext, Frame, Listed, Setting, listVars
<1> QED
  BY <1>1, <1>2, PTL DEF ListSpec

(* The classes a frame leaves out beyond its chip and its text are system  *)
(* classes its chip lets through, which it counts.                         *)
LEMMA FrameCounts ==
  ASSUME ListInv, NEW x \in Chips, NEW t \in BoxTexts \cup {NoText}, Frame(x, t)
  PROVE  NeverSilentlyStep /\ SystemIsReachableStep
<1> DEFINE hides == ~showSystem /\ chip # "system"
           left == {c \in classes : Passes(x, c) /\ Matches(t, c)} \ Shown(hides, x, t)
<1>1. drawn' = [rows |-> Shown(hides, x, t), hidden |-> Cardinality(Hidden(hides, x)), chip |-> x,
                text |-> t, note |-> IF Shown(hides, x, t) = {} THEN Note(hides, x, t) ELSE "rows"]
  BY DEF Frame
<1>2. IsFiniteSet(classes)
  BY ListAssumption, FS_Subset DEF ListInv
<1>3. left \subseteq Hidden(hides, x)
  BY DEF Shown, Hidden
<1>4. Hidden(hides, x) \subseteq classes
  BY DEF Hidden
<1>5. Cardinality(left) <= Cardinality(Hidden(hides, x))
  <2> HIDE DEF left, hides
  <2>1. IsFiniteSet(Hidden(hides, x))
    BY <1>2, <1>4, FS_Subset
  <2> QED
    BY <1>3, <2>1, FS_Subset
<1>6. NeverSilentlyStep
  <2>1. /\ drawn'.rows = Shown(hides, x, t) /\ drawn'.hidden = Cardinality(Hidden(hides, x))
        /\ drawn'.chip = x /\ drawn'.text = t
    BY <1>1
  <2> HIDE DEF hides
  <2> QED
    BY <1>5, <2>1 DEF NeverSilentlyStep
<1>7. SystemIsReachableStep
  <2> SUFFICES ASSUME chip = "system", x = "system", t = NoText
               PROVE  {c \in classes : c.system} = Shown(hides, x, t)
    BY <1>1 DEF SystemIsReachableStep
  <2>1. \A c \in classes : Passes("system", c) <=> c.system
    BY ListAssumption DEF Passes, Kind, ListInv
  <2> QED
    BY <2>1 DEF Shown, Matches
<1> QED
  BY <1>6, <1>7

(* The class list leaves out no class without counting it, and its System  *)
(* chip reaches them all, whatever classes the namespace has.              *)
THEOREM ClassListCounts == ListSpec => NoClassVanishes
<1>1. ListInv /\ [ListNext]_listVars => [NeverSilentlyStep /\ SystemIsReachableStep]_listVars
  <2> SUFFICES ASSUME ListInv, ListNext
               PROVE  [NeverSilentlyStep /\ SystemIsReachableStep]_listVars
    OBVIOUS
  <2>1. ASSUME NEW x \in Chips, NEW t \in BoxTexts \cup {NoText}, Frame(x, t)
        PROVE  NeverSilentlyStep /\ SystemIsReachableStep
    BY <2>1, FrameCounts
  <2>2. ASSUME drawn' = drawn
        PROVE  NeverSilentlyStep /\ SystemIsReachableStep
    BY <2>2 DEF NeverSilentlyStep, SystemIsReachableStep
  <2> QED
    BY <2>1, <2>2 DEF ListNext, Listed, Setting
<1> QED
  BY <1>1, ListedAreFinite, PTL DEF ListSpec, NoClassVanishes

-----------------------------------------------------------------------------
(*                          The panes of a class                           *)

(* A part is asked for the class selected and loses its answer then; it    *)
(* takes an answer of the class it was asked for.                          *)
LEMMA PanesStep == PanesInv /\ [PanesNext]_paneVars => PanesInv'
<1> SUFFICES ASSUME PanesInv, [PanesNext]_paneVars PROVE PanesInv'
  OBVIOUS
<1> USE DEF PanesInv
<1>1. ASSUME NEW ps, NEW c \in Classes, AsksFor(ps, c), selected' \in Classes \cup {NoClass}
      PROVE  PanesInv'
  BY <1>1 DEF AsksFor, Wanted
<1>2. ASSUME NEW c \in Classes, SelectClass(c) \/ SelectProperty(c) \/ RunQuery(c)
      PROVE  PanesInv'
  <2>1. CASE SelectClass(c)
    <3>1. AsksFor({"schema"}, c) /\ selected' = c
      BY <2>1 DEF SelectClass
    <3> QED
      BY <1>1, <3>1
  <2>2. CASE SelectProperty(c) \/ RunQuery(c)
    BY <2>2 DEF SelectProperty, RunQuery
  <2> QED
    BY <1>2, <2>1, <2>2
<1>3. CASE DrawSchemaTab
  <2>1. selected \in Classes /\ AsksFor(Wanted({"associations", "mof"}, selected), selected)
    BY <1>3 DEF DrawSchemaTab
  <2> QED
    BY <1>1, <1>3, <2>1 DEF DrawSchemaTab
<1>4. CASE SelectRow
  BY <1>4 DEF SelectRow
<1>5. CASE Answer
  <2> DEFINE q == Head(queue)
  <2>1. CASE slots' = slots /\ selected' = selected
    BY <2>1
  <2>2. CASE /\ slots[q.part].for = q.class /\ selected' = selected
             /\ slots' = [slots EXCEPT ![q.part].has = q.class, ![q.part].loading = FALSE]
    <3> HIDE DEF q
    <3> DEFINE had == [slots EXCEPT ![q.part].has = q.class]
    <3>1. had \in [Parts -> [for : Classes \cup {NoClass}, has : Classes \cup {NoClass}, loading : BOOLEAN]]
      <4>1. q.part \in Parts => q.class \in Classes \cup {NoClass}
        BY <2>2
      <4> QED
        BY <4>1
    <3>2. \A p \in Parts : had[p].has \in {NoClass, had[p].for}
      BY <2>2
    <3>3. slots' = [had EXCEPT ![q.part].loading = FALSE]
      BY <2>2
    <3> HIDE DEF had
    <3>4. slots' \in [Parts -> [for : Classes \cup {NoClass}, has : Classes \cup {NoClass}, loading : BOOLEAN]]
      BY <3>1, <3>3
    <3>5. ASSUME NEW p \in Parts
          PROVE  slots'[p].has = had[p].has /\ slots'[p].for = had[p].for
      BY <3>1, <3>3
    <3> QED
      BY <2>2, <3>2, <3>4, <3>5
  <2> QED
    BY <1>5, <2>1, <2>2 DEF Answer, Taken
<1>6. CASE Error
  BY SMTT(30), ZenonT(30), <1>6 DEF Error
<1>7. CASE UNCHANGED paneVars
  BY <1>7 DEF paneVars
<1> QED
  BY <1>2, <1>3, <1>4, <1>5, <1>6, <1>7 DEF PanesNext

(* What a part of the panes shows was answered for the class selected, for *)
(* any classes, however many requests wait.                                *)
THEOREM PanesAreTrue == PanesSpec => []PanesAreOfTheClass
<1>1. PanesInit => PanesInv
  BY DEF PanesInit, PanesInv, Empty
<1>2. PanesInv => PanesAreOfTheClass
  BY DEF PanesInv, PanesAreOfTheClass, PartShown
<1> QED
  BY <1>1, <1>2, PanesStep, PTL DEF PanesSpec

-----------------------------------------------------------------------------
(*                       The overlays and the palette                      *)

(* The rows of the palette are commands and hits of the index.             *)
LEMMA RowsOfThePalette ==
  ASSUME NEW t \in Texts, NEW x \in BOOLEAN
  PROVE  Rows(t, x) \in Seq(PaletteRows)
<1>1. ASSUME NEW k PROVE Group(t, k) \in Seq(PaletteRows)
  <2> DEFINE gone == {i \in DOMAIN Found[t] : Found[t][i].kind # k}
             hits == Without(Found[t], gone)
             most == IF Len(hits) < MaxPerGroup THEN Len(hits) ELSE MaxPerGroup
  <2>1. Found[t] \in Seq(PaletteRows) /\ MaxPerGroup \in Nat \ {0}
    BY OverlayAssumption
  <2>2. gone \in SUBSET DOMAIN Found[t]
    OBVIOUS
  <2>3. hits \in Seq(PaletteRows)
    <3> HIDE DEF gone
    <3> QED
      BY <2>1, <2>2, WithoutKeeps
  <2> HIDE DEF hits
  <2>4. most \in 0 .. Len(hits)
    BY <2>1, <2>3
  <2>5. SubSeq(hits, 1, most) \in Seq(PaletteRows)
    <3> HIDE DEF most
    <3>1. \A i \in 1 .. most : hits[i] \in PaletteRows
      BY <2>3, <2>4
    <3> QED
      BY <2>3, <2>4, <3>1
  <2> QED
    BY <2>5 DEF Group, hits
<1>2. ASSUME NEW n PROVE Ranked(t, n) \in Seq(PaletteRows)
  <2> DEFINE gone == {i \in DOMAIN Commands : Score[t][Commands[i]] # n}
  <2>1. Commands \in Seq(PaletteRows)
    BY OverlayAssumption
  <2>2. gone \in SUBSET DOMAIN Commands
    OBVIOUS
  <2>3. Without(Commands, gone) \in Seq(PaletteRows)
    <3> HIDE DEF gone
    <3> QED
      BY <2>1, <2>2, WithoutKeeps
  <2> QED
    BY <2>3 DEF Ranked
<1>3. Hits(t) \in Seq(PaletteRows)
  BY <1>1 DEF Hits
<1>4. Matching(t) \in Seq(PaletteRows)
  BY <1>2 DEF Matching
<1> QED
  BY <1>3, <1>4 DEF Rows, AllRows

(* The selection points at a row whenever there is one.                    *)
LEMMA SelectionIsARow ==
  ASSUME sel \in Nat, NEW keys, NEW changed \in BOOLEAN, NEW n \in Nat
  PROVE  Selection(keys, changed, n) \in 0 .. (IF n = 0 THEN 0 ELSE n - 1)
<1>1. CASE n = 0
  BY <1>1 DEF Selection
<1>2. CASE n # 0
  <2> DEFINE kept  == IF changed THEN 0 ELSE IF sel < n THEN sel ELSE n - 1
             moved == IF "Down" \in keys THEN (kept + 1) % n ELSE kept
  <2>1. \A a \in Nat : a % n \in 0 .. n - 1
    BY <1>2
  <2>2. kept \in 0 .. n - 1
    BY <1>2
  <2>3. moved \in 0 .. n - 1
    <3> HIDE DEF kept
    <3>1. kept + 1 \in Nat
      BY <2>2
    <3> QED
      BY <2>1, <2>2, <3>1
  <2>4. (moved + n - 1) % n \in 0 .. n - 1
    <3> HIDE DEF moved
    <3>1. moved + n - 1 \in Nat
      BY <1>2, <2>3
    <3> QED
      BY <2>1, <3>1
  <2>5. Selection(keys, changed, n) = IF "Up" \in keys THEN (moved + n - 1) % n ELSE moved
    BY <1>2, Zenon DEF Selection
  <2> HIDE DEF moved
  <2> QED
    BY <1>2, <2>3, <2>4, <2>5
<1> QED
  BY <1>1, <1>2

(* The topmost of the overlays that are up is one of them, and the palette *)
(* when it is up.                                                          *)
LEMMA OneIsOnTop ==
  ASSUME NEW up \in SUBSET Layers, up # {}
  PROVE  \E o \in up : CloseTopmost(up) = up \ {o} /\ ("palette" \in up => o = "palette")
<1> DEFINE top(i) == Stacking[i] \in up /\ \A j \in 1..(i - 1) : Stacking[j] \notin up
           at == CHOOSE i \in DOMAIN Stacking : top(i)
<1>1. DOMAIN Stacking = 1 .. 6
  BY DEF Stacking
<1>2. \E i \in 1 .. 6 : top(i)
  <2>1. \E i \in 1 .. 6 : Stacking[i] \in up
    BY <1>1 DEF Layers
  <2>2. CASE Stacking[1] \in up
    BY <2>2
  <2>3. CASE Stacking[1] \notin up /\ Stacking[2] \in up
    BY <2>3
  <2>4. CASE Stacking[1] \notin up /\ Stacking[2] \notin up /\ Stacking[3] \in up
    BY <2>4
  <2>5. CASE \A i \in 1 .. 3 : Stacking[i] \notin up
    <3>1. CASE Stacking[4] \in up
      BY <2>5, <3>1
    <3>2. CASE Stacking[4] \notin up /\ Stacking[5] \in up
      BY <2>5, <3>2
    <3>3. CASE Stacking[4] \notin up /\ Stacking[5] \notin up
      BY <2>1, <2>5, <3>3
    <3> QED
      BY <3>1, <3>2, <3>3
  <2> QED
    BY <2>2, <2>3, <2>4, <2>5
<1>3. at \in 1 .. 6 /\ top(at)
  <2> HIDE DEF top
  <2> QED
    BY <1>1, <1>2
<1>4. CloseTopmost(up) = up \ {Stacking[at]}
  BY Zenon DEF CloseTopmost
<1>5. Stacking[1] = "palette"
  BY DEF Stacking
<1>6. "palette" \in up => at = 1
  <2> HIDE DEF at
  <2> QED
    BY <1>3, <1>5
<1> HIDE DEF at
<1> QED
  BY <1>3, <1>4, <1>5, <1>6

(* What is up after the keys, the view and the modal are overlays.         *)
LEMMA UnderIsOverlays ==
  ASSUME OverlaysInv, NEW keys \in Chords, NEW typing \in BOOLEAN
  PROVE  UnderPalette(keys, typing).up \in SUBSET Layers
<1> DEFINE global  == IF typing THEN keys \ OutsideText ELSE keys
           toggled == IF "Ctrl+K" \in global THEN Toggle("palette", open) ELSE open
           mapped  == IF "F1" \in global THEN Toggle("keymap", toggled) ELSE toggled
           left    == IF "Escape" \in global THEN CloseTopmost(mapped) ELSE mapped
<1>1. {"palette", "keymap", "invoke"} \subseteq Layers
  BY DEF Layers, Stacking
<1>2. toggled \in SUBSET Layers
  BY <1>1 DEF OverlaysInv, Toggle
<1>3. mapped \in SUBSET Layers
  BY <1>1, <1>2 DEF Toggle
<1>4. left \in SUBSET Layers
  <2> HIDE DEF mapped
  <2> QED
    BY <1>3, OneIsOnTop DEF CloseTopmost
<1>5. UnderPalette(keys, typing).up \in {left \ {"invoke"}, left \cup {"invoke"}, left}
  BY DEF UnderPalette
<1> HIDE DEF left
<1> QED
  BY <1>1, <1>4, <1>5

LEMMA OverlaysStep == OverlaysInv /\ [OverlaysNext]_overlayVars => OverlaysInv'
<1> SUFFICES ASSUME OverlaysInv, [OverlaysNext]_overlayVars PROVE OverlaysInv'
  OBVIOUS
<1>1. ASSUME NEW keys \in Chords, NEW typing \in BOOLEAN, PlainFrame(keys, typing)
      PROVE  OverlaysInv'
  <2>1. /\ open' \in SUBSET Layers /\ "palette" \notin open' /\ shown' = FALSE
        /\ input' = [keys |-> keys, typing |-> typing]
        /\ UNCHANGED <<text, sel, indexed>>
    BY <1>1, UnderIsOverlays DEF PlainFrame
  <2> QED
    BY <2>1 DEF OverlaysInv
<1>2. ASSUME NEW keys \in Chords, NEW typing \in BOOLEAN, NEW new \in Texts,
             NEW clicked \in Nat, PaletteFrame(keys, typing, new, clicked)
      PROVE  OverlaysInv'
  <2> DEFINE up == UnderPalette(keys, typing).up
  <2>1. up \in SUBSET Layers
    BY UnderIsOverlays
  <2>2. open' \in {up, up \ {"palette"}} /\ shown' = TRUE /\ text' = new /\ indexed' = indexed
        /\ input' = [keys |-> keys, typing |-> typing]
    BY <1>2 DEF PaletteFrame
  <2>3. sel' \in Nat
    <3>1. Rows(new, indexed) \in Seq(PaletteRows)
      BY RowsOfThePalette DEF OverlaysInv
    <3>2. Len(Rows(new, indexed)) \in Nat /\ (new # text) \in BOOLEAN /\ sel \in Nat
      BY <3>1 DEF OverlaysInv
    <3>3. sel' = Selection(keys, new # text, Len(Rows(new, indexed)))
      BY <1>2 DEF PaletteFrame
    <3> DEFINE n == Len(Rows(new, indexed))
    <3>4. Selection(keys, new # text, n) \in 0 .. (IF n = 0 THEN 0 ELSE n - 1) /\ n \in Nat
      BY <3>2, SelectionIsARow
    <3> HIDE DEF n
    <3>5. Selection(keys, new # text, n) \in Nat
      BY <3>4
    <3> QED
      BY <3>3, <3>5 DEF n
  <2> HIDE DEF up
  <2> QED
    BY <2>1, <2>2, <2>3 DEF OverlaysInv
<1>3. ASSUME NEW o \in open \cup Buttons, Press(o)
      PROVE  OverlaysInv'
  <2>1. o \in Layers
    BY OverlayAssumption DEF OverlaysInv
  <2>2. open' \in SUBSET Layers /\ ({"palette", "invoke"} \subseteq open' => shown)
    BY <1>3, <2>1 DEF OverlaysInv, Press, Toggle
  <2>3. input' = [keys |-> {}, typing |-> input.typing] /\ input.typing \in BOOLEAN
    BY <1>3 DEF OverlaysInv, Press
  <2> QED
    BY <1>3, <2>2, <2>3 DEF OverlaysInv, Press
<1>4. CASE IndexChanges
  <2>1. input' = [keys |-> {}, typing |-> input.typing] /\ input.typing \in BOOLEAN
    BY <1>4 DEF OverlaysInv, IndexChanges
  <2> QED
    BY <1>4, <2>1 DEF OverlaysInv, IndexChanges
<1>5. CASE UNCHANGED overlayVars
  BY <1>5 DEF OverlaysInv, overlayVars
<1>6. ASSUME NEW t \in Texts, NEW clicked \in 0 .. Len(Rows(t, indexed)) PROVE clicked \in Nat
  <2>1. Rows(t, indexed) \in Seq(PaletteRows)
    BY RowsOfThePalette DEF OverlaysInv
  <2> QED
    BY <2>1
<1> QED
  BY <1>1, <1>2, <1>3, <1>4, <1>5, <1>6 DEF OverlaysNext

THEOREM OverlaysInvariant == OverlaysSpec => []OverlaysInv
<1>1. OverlaysInit => OverlaysInv
  <2> SUFFICES ASSUME OverlaysInit PROVE OverlaysInv
    OBVIOUS
  <2>1. open = {} /\ text \in Texts /\ sel = 0 /\ shown = FALSE /\ indexed = FALSE
    BY DEF OverlaysInit
  <2>2. input \in [keys : Chords \cup {{}}, typing : BOOLEAN]
    BY DEF OverlaysInit
  <2>3. ~({"palette", "invoke"} \subseteq open)
    BY <2>1
  <2> QED
    BY <2>1, <2>2, <2>3 DEF OverlaysInv
<1> QED
  BY <1>1, OverlaysStep, PTL DEF OverlaysSpec

(* With one overlay closed, or none, one at most is gone.                  *)
LEMMA OneIsGone ==
  ASSUME NEW o, open \ open' \subseteq {o}
  PROVE  Cardinality(open \ open') <= 1
<1>1. IsFiniteSet({o}) /\ Cardinality({o}) = 1
  BY FS_Singleton
<1> QED
  BY <1>1, FS_Subset

(* Outside a text field Escape takes the topmost overlay before anything   *)
(* else sees it, and the palette has no frame then.  In a text field the   *)
(* palette takes it; the invoke modal does only if the palette is not up.  *)
LEMMA EscapeStep ==
  ASSUME OverlaysInv, OverlaysNext, input'.keys = {"Escape"}
  PROVE  EscapeClosesOneStep
<1> DEFINE keys == {"Escape"}
<1>1. ASSUME NEW typing \in BOOLEAN
      PROVE  /\ ~typing => UnderPalette(keys, typing).up =
                  IF actions /\ view = Explorer THEN CloseTopmost(open) \cup {"invoke"}
                                                ELSE CloseTopmost(open)
             /\ typing /\ "invoke" \in open /\ ~shown
                  => UnderPalette(keys, typing).up = open \ {"invoke"}
             /\ typing /\ ~("invoke" \in open /\ ~shown)
                  => /\ UnderPalette(keys, typing).up \in {open \cup {"invoke"}, open}
                     /\ UnderPalette(keys, typing).escape
  <2> DEFINE global == IF typing THEN keys \ OutsideText ELSE keys
  <2>1. /\ "Ctrl+K" \notin global /\ "Ctrl+Enter" \notin global /\ "F1" \notin global
        /\ ("Escape" \in global) = ~typing /\ ("Escape" \in keys \ global) = typing
    BY DEF OutsideText
  <2> HIDE DEF global
  <2>2. CASE ~typing
    BY <2>1, <2>2 DEF UnderPalette, global
  <2>3. CASE typing
    BY <2>1, <2>3 DEF UnderPalette, global
  <2> QED
    BY <2>2, <2>3
<1>2. open \in SUBSET Layers
  BY DEF OverlaysInv
<1>3. CASE open = {}
  BY <1>3, FS_EmptySet DEF EscapeClosesOneStep
<1>4. ASSUME open # {}, NEW typing \in BOOLEAN, PlainFrame(keys, typing)
      PROVE  EscapeClosesOneStep
  <2>1. open' = UnderPalette(keys, typing).up /\ input'.typing = typing /\ "palette" \notin open'
    BY <1>4 DEF PlainFrame
  <2>2. PICK o \in open : CloseTopmost(open) = open \ {o} /\ ("palette" \in open => o = "palette")
    BY <1>2, <1>4, OneIsOnTop
  <2>3. CASE ~typing
    <3>1. open' \in {open \ {o}, (open \ {o}) \cup {"invoke"}} /\ (~actions => open' = open \ {o})
      BY <1>1, <2>1, <2>2, <2>3
    <3>2. open \ open' \subseteq {o} /\ (~actions => open \ open' # {})
      BY <3>1
    <3> QED
      BY <2>1, <2>3, <3>2, OneIsGone DEF EscapeClosesOneStep
  <2>4. CASE typing
    <3>1. open' \in {open \ {"invoke"}, open \cup {"invoke"}, open}
      BY <1>1, <2>1, <2>4
    <3>2. open \ open' \subseteq {"invoke"} /\ "palette" \notin open
      BY <2>1, <3>1
    <3> QED
      BY <2>1, <2>4, <3>2, OneIsGone DEF EscapeClosesOneStep
  <2> QED
    BY <1>4, <2>3, <2>4
<1>5. ASSUME NEW typing \in BOOLEAN, NEW new \in Texts, NEW clicked \in Nat,
             PaletteFrame(keys, typing, new, clicked), open # {}
      PROVE  EscapeClosesOneStep
  <2> DEFINE under == UnderPalette(keys, typing)
  <2>1. "palette" \in under.up /\ input'.typing = typing
    BY <1>5 DEF PaletteFrame
  <2>2. typing
    <3> SUFFICES ASSUME ~typing PROVE FALSE
      BY <1>5
    <3>1. PICK o \in open : CloseTopmost(open) = open \ {o} /\ ("palette" \in open => o = "palette")
      BY <1>2, <1>5, OneIsOnTop
    <3>2. under.up \in {open \ {o}, (open \ {o}) \cup {"invoke"}}
      BY <1>1, <3>1
    <3> QED
      BY <2>1, <3>1, <3>2
  <2>3. under.up \in {open \ {"invoke"}, open \cup {"invoke"}, open} /\ "palette" \in open
    BY <1>1, <2>1, <2>2
  <2>4. ~("invoke" \in open /\ ~shown)
    BY <2>3 DEF OverlaysInv
  <2>5. under.escape /\ under.up \in {open \cup {"invoke"}, open}
    BY <1>1, <2>2, <2>4
  <2>6. open' = under.up \ {"palette"}
    <3> HIDE DEF under
    <3> QED
      BY <1>5, <2>5 DEF PaletteFrame, under
  <2>7. open \ open' = {"palette"}
    BY <2>3, <2>5, <2>6
  <2> QED
    BY <2>7, OneIsGone DEF EscapeClosesOneStep
<1>6. ASSUME NEW o, Press(o) \/ IndexChanges
      PROVE  FALSE
  <2>1. input'.keys = {}
    BY <1>6 DEF OverlaysInv, Press, IndexChanges
  <2> QED
    BY <2>1
<1>7. ASSUME NEW t \in Texts, NEW clicked \in 0 .. Len(Rows(t, indexed)) PROVE clicked \in Nat
  <2>1. Rows(t, indexed) \in Seq(PaletteRows)
    BY RowsOfThePalette DEF OverlaysInv
  <2> QED
    BY <2>1
<1>8. \A ks, typing : PlainFrame(ks, typing) => ks = keys
  BY DEF PlainFrame
<1>9. \A ks, typing, new, clicked : PaletteFrame(ks, typing, new, clicked) => ks = keys
  BY DEF PaletteFrame
<1> HIDE DEF keys
<1> QED
  BY <1>3, <1>4, <1>5, <1>6, <1>7, <1>8, <1>9, Zenon DEF OverlaysNext

(* The row of a click is drawn, that of Enter is the one selected; one of  *)
(* the rows it is, and it is run.                                          *)
LEMMA EnterStep ==
  ASSUME OverlaysInv, OverlaysNext
  PROVE  EnterRunsARowStep
<1> SUFFICES ASSUME shown', "Enter" \in input'.keys, Rows(text', indexed) # <<>>
             PROVE  ran' # NoRow /\ "palette" \notin open'
  BY DEF EnterRunsARowStep
<1>1. ASSUME NEW keys \in Chords, NEW typing \in BOOLEAN, NEW new \in Texts,
             NEW clicked \in 0 .. Len(Rows(new, indexed)), PaletteFrame(keys, typing, new, clicked)
      PROVE  ran' # NoRow /\ "palette" \notin open'
  <2> DEFINE rows == Rows(new, indexed)
             at   == Selection(keys, new # text, Len(rows))
             place  == IF clicked # 0 THEN clicked ELSE IF "Enter" \in keys THEN at + 1 ELSE 0
  <2>1. rows \in Seq(PaletteRows)
    BY RowsOfThePalette DEF OverlaysInv
  <2>2. "Enter" \in keys /\ rows # <<>>
    BY <1>1 DEF PaletteFrame
  <2>3. Len(rows) \in Nat \ {0} /\ DOMAIN rows = 1 .. Len(rows)
    <3> HIDE DEF rows
    <3> QED
      BY <2>1, <2>2
  <2>4. at \in 0 .. Len(rows) - 1
    <3>1. (new # text) \in BOOLEAN /\ sel \in Nat
      BY DEF OverlaysInv
    <3> HIDE DEF rows
    <3>2. at \in 0 .. (IF Len(rows) = 0 THEN 0 ELSE Len(rows) - 1)
      BY <2>3, <3>1, SelectionIsARow
    <3> HIDE DEF at
    <3> QED
      BY <2>3, <3>2
  <2>5. place \in DOMAIN rows
    <3> HIDE DEF at, rows
    <3>1. clicked \in 0 .. Len(rows)
      BY <1>1 DEF rows
    <3> QED
      BY <2>2, <2>3, <2>4, <3>1
  <2>6. open' = UnderPalette(keys, typing).up \ {"palette"} /\ RunsRow(rows[place])
    <3>1. place \in DOMAIN rows =>
            open' = UnderPalette(keys, typing).up \ {"palette"} /\ RunsRow(rows[place])
      BY <1>1, Zenon DEF PaletteFrame
    <3> QED
      BY <2>5, <3>1
  <2>7. ran' = rows[place] /\ rows[place] \in PaletteRows
    <3> HIDE DEF place, rows
    <3> QED
      BY <2>1, <2>5, <2>6 DEF RunsRow
  <2> HIDE DEF place, rows
  <2> QED
    BY <2>6, <2>7, OverlayAssumption
<1>2. ASSUME NEW keys, NEW typing, PlainFrame(keys, typing) PROVE FALSE
  BY <1>2 DEF PlainFrame
<1>3. ASSUME NEW o, Press(o) \/ IndexChanges
      PROVE  FALSE
  <2>1. input'.keys = {}
    BY <1>3 DEF OverlaysInv, Press, IndexChanges
  <2> QED
    BY <2>1
<1> QED
  BY <1>1, <1>2, <1>3, Zenon DEF OverlaysNext

(* Escape closes exactly one overlay and Enter runs a row the palette      *)
(* draws, for any commands, hits, texts and chords.                        *)
THEOREM OneKeyOneDecision == OverlaysSpec => KeysReachTheTop
<1>1. OverlaysInv /\ [OverlaysNext]_overlayVars => [EscapeClosesOneStep /\ EnterRunsARowStep]_overlayVars
  <2> SUFFICES ASSUME OverlaysInv, OverlaysNext
               PROVE  EscapeClosesOneStep /\ EnterRunsARowStep
    OBVIOUS
  <2>1. EscapeClosesOneStep
    BY EscapeStep DEF EscapeClosesOneStep
  <2> QED
    BY <2>1, EnterStep
<1> QED
  BY <1>1, OverlaysInvariant, PTL DEF OverlaysSpec, KeysReachTheTop

-----------------------------------------------------------------------------
(*                            The process table                            *)

(* One step of the walk up, from the walks of one step less.               *)
Step(n, f) ==
  [i \in DOMAIN log |->
     IF n = 0 \/ ~HasParent(i) THEN 0 ELSE 1 + f[n - 1][ByPid(log[i].parent)]]

(* The walks are well defined: those of n steps give those of n + 1.       *)
LEMMA ClimbIsStepwise == Climb = [n \in 0 .. MaxDepth |-> Step(n, Climb)]
<1> DEFINE Walks(k, f) == f = [n \in 0 .. k |-> Step(n, f)]
           good == {k \in 0 .. MaxDepth : \E f : Walks(k, f)}
<1> USE TableAssumption
<1>1. 0 \in good
  <2> DEFINE f == [n \in {0} |-> [i \in DOMAIN log |-> 0]]
  <2>1. Walks(0, f)
    BY DEF Step
  <2> QED
    BY <2>1
<1>2. ASSUME NEW k \in 0 .. MaxDepth, k \in good, k < MaxDepth
      PROVE  k + 1 \in good
  <2>1. PICK f : Walks(k, f)
    BY <1>2
  <2> DEFINE g == [n \in 0 .. k + 1 |-> IF n <= k THEN f[n] ELSE Step(n, f)]
  <2>2. ASSUME NEW n \in 0 .. k + 1 PROVE g[n] = Step(n, g)
    <3>1. n # 0 => g[n - 1] = f[n - 1]
      OBVIOUS
    <3>2. Step(n, g) = Step(n, f)
      <4> HIDE DEF g
      <4>1. CASE n = 0
        BY <4>1 DEF Step
      <4>2. CASE n # 0
        BY <3>1, <4>2, Zenon DEF Step
      <4> QED
        BY <4>1, <4>2
    <3>3. g[n] = Step(n, f)
      <4>1. n \in 0 .. k => f[n] = Step(n, f)
        BY <2>1
      <4> QED
        BY <4>1
    <3> QED
      BY <3>2, <3>3
  <2>3. Walks(k + 1, g)
    <3>1. g = [n \in 0 .. k + 1 |-> g[n]]
      OBVIOUS
    <3> HIDE DEF g
    <3> QED
      BY <2>2, <3>1
  <2>4. k + 1 \in 0 .. MaxDepth
    BY <1>2
  <2> HIDE DEF Walks, g
  <2> QED
    BY <2>3, <2>4
<1>3. MaxDepth \in good
  <2> HIDE DEF good
  <2>1. \A n \in 0 .. MaxDepth : n \in good /\ n < MaxDepth => n + 1 \in good
    BY <1>2
  <2>2. 0 .. MaxDepth \subseteq good
    BY <1>1, <2>1, UpTo
  <2> QED
    BY <2>2
<1>4. \E f : Walks(MaxDepth, f)
  BY <1>3
<1> QED
  BY <1>4 DEF Climb, Step

(* A parent that is found is one of the rows.                              *)
LEMMA ParentsAreRows ==
  ASSUME TableInv, NEW i \in DOMAIN log, HasParent(i)
  PROVE  ByPid(log[i].parent) \in DOMAIN log
<1> DEFINE ups == {j \in DOMAIN log : log[j].pid = log[i].parent}
<1>1. IsFiniteSet(DOMAIN log) /\ DOMAIN log \in SUBSET Int
  BY PositionsAreFinite DEF TableInv
<1>2. ups \in SUBSET Int /\ IsFiniteSet(ups) /\ ups # {}
  BY <1>1, FS_Subset DEF HasParent
<1>3. Max(ups) \in ups
  <2> HIDE DEF ups
  <2> QED
    BY <1>2, MaxIsTheLast
<1> QED
  BY <1>3 DEF ByPid

(* A walk that may take one step more gets one step further, if the one it *)
(* is cut off by is the bound.                                             *)
LEMMA ClimbIsCut ==
  ASSUME TableInv, NEW n \in 0 .. MaxDepth, n < MaxDepth
  PROVE  \A i \in DOMAIN log : /\ Climb[n][i] \in Nat /\ Climb[n + 1][i] \in Nat
                               /\ Climb[n][i] = IF Climb[n + 1][i] < n THEN Climb[n + 1][i] ELSE n
<1> USE TableAssumption
<1> DEFINE Cut(k) == \A i \in DOMAIN log :
             /\ Climb[k][i] \in Nat /\ Climb[k + 1][i] \in Nat
             /\ Climb[k][i] = IF Climb[k + 1][i] < k THEN Climb[k + 1][i] ELSE k
           good == {k \in 0 .. MaxDepth - 1 : Cut(k)}
<1>1. ASSUME NEW k \in 0 .. MaxDepth, NEW i \in DOMAIN log
      PROVE  Climb[k][i] = IF k = 0 \/ ~HasParent(i) THEN 0
                           ELSE 1 + Climb[k - 1][ByPid(log[i].parent)]
  <2>1. Climb[k] = Step(k, Climb)
    BY ClimbIsStepwise
  <2> QED
    BY <2>1, Zenon DEF Step
<1>2. Cut(0)
  <2> SUFFICES ASSUME NEW i \in DOMAIN log
               PROVE  /\ Climb[0][i] \in Nat /\ Climb[0 + 1][i] \in Nat
                      /\ Climb[0][i] = IF Climb[0 + 1][i] < 0 THEN Climb[0 + 1][i] ELSE 0
    BY Zenon
  <2>1. \A j \in DOMAIN log : Climb[0][j] = 0
    BY <1>1
  <2>2. Climb[0 + 1][i] = IF ~HasParent(i) THEN 0 ELSE 1 + Climb[0][ByPid(log[i].parent)]
    <3>1. 0 + 1 = 1 /\ 1 \in 0 .. MaxDepth /\ 1 - 1 = 0
      OBVIOUS
    <3> QED
      BY <1>1, <3>1
  <2>3. Climb[0 + 1][i] \in {0, 1}
    BY <2>1, <2>2, ParentsAreRows
  <2> QED
    BY <2>1, <2>3
<1>3. ASSUME NEW k \in 0 .. MaxDepth - 1, Cut(k), k < MaxDepth - 1
      PROVE  Cut(k + 1)
  <2> SUFFICES ASSUME NEW i \in DOMAIN log
               PROVE  /\ Climb[k + 1][i] \in Nat /\ Climb[k + 1 + 1][i] \in Nat
                      /\ Climb[k + 1][i] = IF Climb[k + 1 + 1][i] < k + 1 THEN Climb[k + 1 + 1][i] ELSE k + 1
    BY Zenon
  <2> DEFINE up == ByPid(log[i].parent)
  <2>1. /\ k + 1 \in 0 .. MaxDepth /\ k + 1 - 1 = k /\ k + 1 # 0
        /\ k + 1 + 1 \in 0 .. MaxDepth /\ k + 1 + 1 - 1 = k + 1 /\ k + 1 + 1 # 0
    BY <1>3
  <2>2. /\ Climb[k + 1][i] = IF ~HasParent(i) THEN 0 ELSE 1 + Climb[k][up]
        /\ Climb[k + 1 + 1][i] = IF ~HasParent(i) THEN 0 ELSE 1 + Climb[k + 1][up]
    BY <1>1, <2>1
  <2>3. HasParent(i) => /\ Climb[k][up] \in Nat /\ Climb[k + 1][up] \in Nat
                        /\ Climb[k][up] = IF Climb[k + 1][up] < k THEN Climb[k + 1][up] ELSE k
    BY <1>3, ParentsAreRows
  <2> HIDE DEF up
  <2> QED
    BY <2>2, <2>3
<1>4. 0 .. MaxDepth - 1 \subseteq good
  <2>1. MaxDepth - 1 \in Nat /\ 0 \in 0 .. MaxDepth - 1
    OBVIOUS
  <2>2. 0 \in good
    BY <1>2, <2>1
  <2>3. \A k \in 0 .. MaxDepth - 1 : k \in good /\ k < MaxDepth - 1 => k + 1 \in good
    <3> SUFFICES ASSUME NEW k \in 0 .. MaxDepth - 1, Cut(k), k < MaxDepth - 1
                 PROVE  k + 1 \in good
      BY Zenon
    <3>1. Cut(k + 1) /\ k + 1 \in 0 .. MaxDepth - 1
      BY <1>3
    <3> HIDE DEF Cut
    <3> QED
      BY <3>1
  <2> HIDE DEF good
  <2> QED
    BY <2>1, <2>2, <2>3, UpTo
<1>5. n \in good
  BY <1>4
<1> QED
  BY <1>5

(* What is drawn is rows of the log, in whatever order.                    *)
LEMMA DrawnAreRows ==
  ASSUME TableInv, NEW d \in Drawn, NEW n \in DOMAIN d
  PROVE  /\ d[n].row \in DOMAIN log
         /\ d[n].depth = IF tree THEN Depths[d[n].row] ELSE 0
<1> DEFINE kept == {i \in DOMAIN log : Keeps(log[i])}
           line(s) == [k \in DOMAIN s |-> [row |-> s[k], depth |-> IF tree THEN Depths[s[k]] ELSE 0]]
<1>1. PICK s \in IF sort = "off" THEN {Natural(kept)} ELSE SortedRows(kept, sort = "ascending") :
        d = line(s)
  BY DEF Drawn
<1>2. DOMAIN d = DOMAIN s /\ d[n].row = s[n] /\ d[n].depth = IF tree THEN Depths[s[n]] ELSE 0
  BY <1>1
<1>3. ASSUME s = Natural(kept) PROVE s[n] \in DOMAIN log
  <2> DEFINE places == [i \in DOMAIN log |-> i]
             oldest == Without(places, DOMAIN log \ kept)
  <2>1. places \in Seq(DOMAIN log) /\ DOMAIN places = DOMAIN log
    BY DEF TableInv
  <2>2. oldest \in Seq(DOMAIN log)
    <3>1. DOMAIN log \ kept \in SUBSET DOMAIN places
      BY <2>1
    <3> HIDE DEF places, kept
    <3> QED
      BY <2>1, <3>1, WithoutKeeps
  <2>3. Reverse(oldest) \in Seq(DOMAIN log)
    <3> HIDE DEF oldest
    <3>1. \A k \in 1 .. Len(oldest) : oldest[Len(oldest) - k + 1] \in DOMAIN log
      BY <2>2
    <3> QED
      BY <2>2, <3>1 DEF Reverse
  <2>4. s \in {oldest, Reverse(oldest)}
    BY <1>3, Zenon DEF Natural
  <2> HIDE DEF oldest
  <2> QED
    BY <1>2, <2>2, <2>3, <2>4
<1>4. ASSUME NEW up \in BOOLEAN, s \in SortedRows(kept, up) PROVE s[n] \in DOMAIN log
  <2>1. s \in SetToSeqs(kept)
    BY <1>4 DEF SortedRows
  <2>2. s \in [1 .. Cardinality(kept) -> kept]
    BY <2>1 DEF SetToSeqs
  <2> QED
    BY <1>2, <2>2
<1> HIDE DEF kept
<1> QED
  BY <1>1, <1>2, <1>3, <1>4

LEMMA TableStep == TableInv /\ [TableNext]_tableVars => TableInv'
<1> SUFFICES ASSUME TableInv, [TableNext]_tableVars PROVE TableInv'
  OBVIOUS
<1> DEFINE rows == {log[i] : i \in DOMAIN log}
<1>1. log \in Seq(rows)
  BY DEF TableInv
<1>2. ASSUME NEW S, log' \in Seq(S) PROVE TableInv'
  BY <1>2 DEF TableInv
<1>3. ASSUME NEW a, Start(a) PROVE TableInv'
  <2> DEFINE new == a @@ [alive |-> TRUE, failed |-> FALSE]
  <2>1. log' = Append(log, new)
    BY <1>3 DEF Start
  <2> HIDE DEF new, rows
  <2>2. log \in Seq(rows \cup {new})
    BY <1>1
  <2>3. log' \in Seq(rows \cup {new})
    BY <2>1, <2>2
  <2> QED
    BY <1>2, <2>3
<1>4. ASSUME NEW i \in DOMAIN log, Stop(i) PROVE TableInv'
  <2>1. DOMAIN log' = DOMAIN log
    BY <1>4 DEF Stop
  <2>2. log' \in [1 .. Len(log) -> {log'[k] : k \in DOMAIN log'}]
    BY <1>1, <1>4, <2>1 DEF Stop
  <2> DEFINE new == {log'[k] : k \in DOMAIN log'}
  <2>3. log' \in Seq(new)
    <3>1. Len(log) \in Nat
      BY <1>1
    <3> HIDE DEF new
    <3> QED
      BY <2>2, <3>1 DEF new
  <2> HIDE DEF new
  <2> QED
    BY <1>2, <2>3
<1>5. CASE ClearEnded
  <2> DEFINE ended == {i \in DOMAIN log : ~log[i].alive}
  <2>1. log' = Without(log, ended)
    BY <1>5 DEF ClearEnded
  <2>2. ended \in SUBSET DOMAIN log
    OBVIOUS
  <2>3. log' \in Seq(rows)
    <3> HIDE DEF rows, ended
    <3> QED
      BY <1>1, <2>1, <2>2, WithoutKeeps
  <2> QED
    BY <1>2, <2>3
<1>6. CASE UNCHANGED log
  BY <1>6 DEF TableInv
<1> QED
  BY <1>3, <1>4, <1>5, <1>6 DEF TableNext, Filter, Tree, ClickHeader, tableVars

(* In the tree each row is drawn one step under the row it names as its    *)
(* parent, for any arrivals, filters, orders and any bound of the walk.    *)
THEOREM TreeIsDrawnTrue == TableSpec => []IndentsFollowParents
<1>1. TableInit => TableInv
  BY DEF TableInit, TableInv
<1>2. ASSUME TableInv PROVE IndentsFollowParents
  <2> USE TableAssumption
  <2> SUFFICES ASSUME tree, NEW d \in Drawn, NEW n \in DOMAIN d
               PROVE  LET i   == d[n].row
                          ups == {j \in DOMAIN log : log[j].pid = log[i].parent}
                          up  == Max(ups)
                      IN  IF ups # {} /\ up # i /\ log[up].started <= log[i].started
                          THEN d[n].depth = (IF Depths[up] < MaxDepth THEN Depths[up] + 1 ELSE MaxDepth)
                          ELSE d[n].depth = 0
    BY Zenon DEF IndentsFollowParents
  <2> DEFINE i   == d[n].row
             ups == {j \in DOMAIN log : log[j].pid = log[i].parent}
             up  == Max(ups)
  <2>1. i \in DOMAIN log /\ d[n].depth = Climb[MaxDepth][i]
    BY <1>2, DrawnAreRows DEF Depths
  <2>2. HasParent(i) <=> ups # {} /\ up # i /\ log[up].started <= log[i].started
    BY DEF HasParent, ByPid
  <2>3. Climb[MaxDepth][i] = IF MaxDepth = 0 \/ ~HasParent(i) THEN 0
                             ELSE 1 + Climb[MaxDepth - 1][up]
    <3>1. MaxDepth \in 0 .. MaxDepth
      OBVIOUS
    <3>2. Climb[MaxDepth] = Step(MaxDepth, Climb)
      BY <3>1, ClimbIsStepwise
    <3> HIDE DEF i
    <3> QED
      BY <2>1, <3>2, Zenon DEF Step, ByPid
  <2>4. HasParent(i) => up \in DOMAIN log
    BY <1>2, <2>1, ParentsAreRows DEF ByPid
  <2> HIDE DEF i, ups, up
  <2>5. CASE ~HasParent(i)
    BY <2>1, <2>2, <2>3, <2>5 DEF i, ups, up
  <2>6. CASE HasParent(i) /\ MaxDepth = 0
    <3>1. Depths[up] = 0
      <4>1. 0 \in 0 .. MaxDepth
        OBVIOUS
      <4>2. Climb[0] = Step(0, Climb)
        BY <4>1, ClimbIsStepwise
      <4> QED
        BY <2>4, <2>6, <4>2 DEF Depths, Step
    <3>2. d[n].depth = IF Depths[up] < MaxDepth THEN Depths[up] + 1 ELSE MaxDepth
      BY <2>1, <2>3, <2>6, <3>1
    <3> QED
      BY <2>2, <2>6, <3>2 DEF i, ups, up
  <2>7. CASE HasParent(i) /\ MaxDepth # 0
    <3>1. MaxDepth - 1 \in 0 .. MaxDepth /\ MaxDepth - 1 < MaxDepth /\ MaxDepth - 1 + 1 = MaxDepth
      BY <2>7
    <3>2. /\ Climb[MaxDepth - 1][up] \in Nat /\ Climb[MaxDepth][up] \in Nat
          /\ Climb[MaxDepth - 1][up] = IF Climb[MaxDepth][up] < MaxDepth - 1
                                       THEN Climb[MaxDepth][up] ELSE MaxDepth - 1
      BY <1>2, <2>4, <2>7, <3>1, ClimbIsCut
    <3>3. d[n].depth = IF Depths[up] < MaxDepth THEN Depths[up] + 1 ELSE MaxDepth
      BY <2>1, <2>3, <2>7, <3>2 DEF Depths
    <3> QED
      BY <2>2, <2>7, <3>3 DEF i, ups, up
  <2> QED
    BY <2>5, <2>6, <2>7
<1> QED
  BY <1>1, <1>2, TableStep, PTL DEF TableSpec

-----------------------------------------------------------------------------
(*                        The texts of the Events view                     *)

(* keyword_at() finds the first token that is the keyword, if one is.      *)
IsFirstOf(at, q, k) ==
  /\ at \in DOMAIN q /\ q[at] = Tok(k)
  /\ \A j \in DOMAIN q : j < at => q[j] # Tok(k)

LEMMA KeywordIs ==
  ASSUME NEW q, IsQuery(q), NEW k
  PROVE  /\ KeywordAt(q, k) \in 0 .. Len(q) /\ Len(q) \in Nat /\ DOMAIN q = 1 .. Len(q)
         /\ KeywordAt(q, k) # 0 => IsFirstOf(KeywordAt(q, k), q, k)
         /\ KeywordAt(q, k) = 0 => \A i \in DOMAIN q : q[i] # Tok(k)
         /\ \A at : IsFirstOf(at, q, k) => KeywordAt(q, k) = at
<1> DEFINE places == {i \in DOMAIN q : q[i] = Tok(k)}
<1>1. Len(q) \in Nat /\ DOMAIN q = 1 .. Len(q)
  BY DEF IsQuery
<1>2. places \in SUBSET (1 .. Len(q))
  BY <1>1
<1>3. KeywordAt(q, k) = IF places = {} THEN 0 ELSE First(places)
  BY DEF KeywordAt
<1>4. places # {} => First(places) \in places /\ \A j \in places : First(places) <= j
  <2> HIDE DEF places
  <2> QED
    BY <1>1, <1>2, FirstIs
<1> DEFINE at == KeywordAt(q, k)
<1>5. ASSUME places = {} PROVE at = 0 /\ \A i \in DOMAIN q : q[i] # Tok(k)
  BY <1>3, <1>5
<1>6. ASSUME places # {}
      PROVE  at \in 1 .. Len(q) /\ q[at] = Tok(k) /\ \A j \in places : at <= j
  <2>1. at = First(places)
    BY <1>3, <1>6
  <2> QED
    BY <1>1, <1>4, <1>6, <2>1
<1>7. ASSUME NEW i, IsFirstOf(i, q, k) PROVE at = i
  <2>1. i \in places /\ \A j \in places : ~(j < i)
    BY <1>7 DEF IsFirstOf
  <2>2. at \in places /\ at <= i /\ ~(at < i)
    BY <1>1, <1>6, <2>1
  <2>3. at \in Int /\ i \in Int
    BY <1>1, <2>1, <2>2
  <2> HIDE DEF at
  <2> QED
    BY <2>2, <2>3
<1>8. ASSUME places # {} PROVE IsFirstOf(at, q, k)
  <2>1. ASSUME NEW j \in DOMAIN q, j < at PROVE q[j] # Tok(k)
    <3>1. q[j] = Tok(k) => at <= j
      BY <1>6, <1>8
    <3>2. j \in Int /\ at \in Int
      BY <1>1, <1>6, <1>8
    <3> HIDE DEF at
    <3> QED
      BY <2>1, <3>1, <3>2
  <2> QED
    BY <1>1, <1>6, <1>8, <2>1 DEF IsFirstOf
<1> QED
  <2>1. CASE places = {}
    BY <1>1, <1>5, <1>7, <2>1
  <2>2. CASE places # {}
    <3>1. at \in 1 .. Len(q)
      BY <1>6, <2>2
    <3> HIDE DEF at, places
    <3> QED
      BY <1>1, <1>7, <1>8, <2>2, <3>1 DEF at
  <2> QED
    BY <2>1, <2>2

(* What a keyword finds, by where it is.                                   *)
LEMMA FoundBehind ==
  ASSUME NEW q, IsQuery(q), NEW k, NEW at, IsFirstOf(at, q, k), at < Len(q)
  PROVE  AfterKeyword(q, k) = q[at + 1].text
<1>1. KeywordAt(q, k) = at
  BY KeywordIs
<1>2. at # 0
  BY KeywordIs DEF IsFirstOf
<1> QED
  BY <1>1, <1>2 DEF AfterKeyword

(* A query stays one when a token is written over or put in.               *)
IsToken(t) == t = Tok(t.text) \/ t = Literal(t.text)

LEMMA TokensAre ==
  ASSUME NEW x
  PROVE  IsToken(Tok(x)) /\ IsToken(Literal(x)) /\ Tok(x).text = x /\ ~Tok(x).quoted
         /\ Literal(x).text = x /\ Literal(x).quoted
BY DEF IsToken, Tok, Literal

LEMMA IsQueryOf ==
  ASSUME NEW q, NEW n \in Nat, q = [i \in 1 .. n |-> q[i]], \A i \in 1 .. n : IsToken(q[i])
  PROVE  IsQuery(q) /\ Len(q) = n /\ DOMAIN q = 1 .. n
<1>1. DOMAIN q = 1 .. n /\ q \in [1 .. n -> {q[i] : i \in DOMAIN q}]
  OBVIOUS
<1>2. q \in Seq({q[i] : i \in DOMAIN q})
  BY SMTT(30), ZenonT(30), <1>1
<1> QED
  BY <1>1, <1>2 DEF IsQuery, IsToken

(* w is q with t over the token at place i, or put in there.               *)
IsOverwritten(w, q, i, t) ==
  /\ IsQuery(q) /\ IsQuery(w) /\ Len(w) = Len(q) /\ i \in DOMAIN q
  /\ \A j \in DOMAIN q : w[j] = IF j = i THEN t ELSE q[j]

IsInserted(w, q, i, t) ==
  /\ IsQuery(q) /\ IsQuery(w) /\ Len(w) = Len(q) + 1 /\ i \in 1 .. Len(q) + 1
  /\ \A j \in 1 .. Len(q) + 1 : w[j] = IF j < i THEN q[j] ELSE IF j = i THEN t ELSE q[j - 1]

LEMMA OverwrittenIs ==
  ASSUME NEW q, IsQuery(q), NEW i \in DOMAIN q, NEW t, IsToken(t)
  PROVE  IsOverwritten([q EXCEPT ![i] = t], q, i, t)
<1> DEFINE w == [q EXCEPT ![i] = t]
<1>1. Len(q) \in Nat /\ DOMAIN q = 1 .. Len(q) /\ q = [j \in 1 .. Len(q) |-> q[j]]
  BY DEF IsQuery
<1>2. \A j \in DOMAIN q : w[j] = IF j = i THEN t ELSE q[j]
  OBVIOUS
<1>3. w = [j \in 1 .. Len(q) |-> w[j]]
  BY <1>1
<1>4. \A j \in 1 .. Len(q) : IsToken(w[j])
  BY <1>1, <1>2 DEF IsQuery, IsToken
<1> HIDE DEF w
<1>5. IsQuery(w) /\ Len(w) = Len(q)
  BY <1>1, <1>3, <1>4, IsQueryOf
<1>6. IsOverwritten(w, q, i, t)
  BY <1>2, <1>5 DEF IsOverwritten
<1> QED
  BY <1>6 DEF w

LEMMA InsertedIs ==
  ASSUME NEW q, IsQuery(q), NEW i \in 1 .. Len(q) + 1, NEW t, IsToken(t)
  PROVE  IsInserted(Inserted(q, i, t), q, i, t)
<1> DEFINE w == Inserted(q, i, t)
<1>1. Len(q) \in Nat /\ DOMAIN q = 1 .. Len(q)
  BY DEF IsQuery
<1>2. \A j \in 1 .. Len(q) + 1 : w[j] = IF j < i THEN q[j] ELSE IF j = i THEN t ELSE q[j - 1]
  BY DEF Inserted
<1>3. w = [j \in 1 .. Len(q) + 1 |-> w[j]]
  BY DEF Inserted
<1>4. ASSUME NEW j \in 1 .. Len(q) + 1 PROVE IsToken(w[j])
  <2>1. CASE j < i
    <3>1. j \in DOMAIN q
      BY <1>1, <2>1
    <3> QED
      BY <1>2, <2>1, <3>1 DEF IsQuery, IsToken
  <2>2. CASE j = i
    BY <1>2, <2>2
  <2>3. CASE j > i
    <3>1. j - 1 \in DOMAIN q /\ w[j] = q[j - 1]
      BY <1>1, <1>2, <2>3
    <3> QED
      BY <3>1 DEF IsQuery, IsToken
  <2> QED
    BY <1>1, <2>1, <2>2, <2>3
<1> HIDE DEF w
<1>5. IsQuery(w) /\ Len(w) = Len(q) + 1
  BY <1>1, <1>3, <1>4, IsQueryOf
<1>6. IsInserted(w, q, i, t)
  BY <1>2, <1>5 DEF IsInserted
<1> QED
  BY <1>6 DEF w

(* The token t at place i has nothing to do with the keyword.              *)
Aside(q, i, t, k) == i # 1 /\ t # Tok(k) /\ q[i - 1] # Tok(k)

(* A keyword finds what it found when a token that is none is written over *)
(* one that is none and stands behind none.                                *)
LEMMA OverwrittenKeeps ==
  ASSUME NEW q, NEW w, NEW i \in Nat, NEW t, IsOverwritten(w, q, i, t), NEW k,
         Aside(q, i, t, k), q[i] # Tok(k)
  PROVE  AfterKeyword(w, k) = AfterKeyword(q, k)
<1> DEFINE at == KeywordAt(q, k)
<1>1. /\ IsQuery(q) /\ i \in DOMAIN q
      /\ IsQuery(w) /\ Len(w) = Len(q) /\ \A j \in DOMAIN q : w[j] = IF j = i THEN t ELSE q[j]
  BY DEF IsOverwritten
<1>aside. i # 1 /\ t # Tok(k) /\ q[i - 1] # Tok(k)
  BY DEF Aside
<1>2. at \in 0 .. Len(q) /\ Len(q) \in Nat /\ DOMAIN q = 1 .. Len(q) /\ DOMAIN w = 1 .. Len(q)
  BY <1>1, KeywordIs
<1>3. CASE at = 0
  <2>1. \A j \in DOMAIN w : w[j] # Tok(k)
    BY <1>aside, <1>1, <1>2, <1>3, KeywordIs
  <2>2. KeywordAt(w, k) = 0
    BY <1>1, <2>1, KeywordIs DEF IsFirstOf
  <2> QED
    BY <1>3, <2>2 DEF AfterKeyword
<1>4. CASE at # 0
  <2>1. IsFirstOf(at, q, k)
    BY <1>1, <1>4, KeywordIs
  <2> HIDE DEF at
  <2>2. IsFirstOf(at, w, k)
    BY <1>aside, <1>1, <1>2, <2>1 DEF IsFirstOf
  <2>3. at + 1 # i
    BY <1>aside, <1>2, <2>1 DEF IsFirstOf
  <2>4. KeywordAt(w, k) = at /\ KeywordAt(q, k) = at
    BY <1>1, <2>1, <2>2, KeywordIs
  <2>5. at < Len(q) => w[at + 1] = q[at + 1]
    BY <1>aside, <1>1, <1>2, <2>3
  <2> QED
    BY <1>1, <2>4, <2>5 DEF AfterKeyword
<1> QED
  BY <1>3, <1>4

(* Nor does one that is put in behind a token that is none.                *)
LEMMA InsertedKeeps ==
  ASSUME NEW q, NEW w, NEW i \in Nat, NEW t, IsInserted(w, q, i, t), NEW k, Aside(q, i, t, k)
  PROVE  AfterKeyword(w, k) = AfterKeyword(q, k)
<1> DEFINE at == KeywordAt(q, k)
           new == IF at < i THEN at ELSE at + 1
<1>1. /\ IsQuery(q) /\ i \in 1 .. Len(q) + 1
      /\ IsQuery(w) /\ Len(w) = Len(q) + 1
      /\ \A j \in 1 .. Len(q) + 1 : w[j] = IF j < i THEN q[j] ELSE IF j = i THEN t ELSE q[j - 1]
  BY DEF IsInserted
<1>aside. i # 1 /\ t # Tok(k) /\ q[i - 1] # Tok(k)
  BY DEF Aside
<1>2. /\ at \in 0 .. Len(q) /\ Len(q) \in Nat
      /\ DOMAIN q = 1 .. Len(q) /\ DOMAIN w = 1 .. Len(q) + 1
  BY <1>1, KeywordIs
<1>3. CASE at = 0
  <2>0. \A j \in 1 .. Len(q) : q[j] # Tok(k)
    BY <1>aside, <1>1, <1>2, <1>3, KeywordIs
  <2>1. ASSUME NEW j \in 1 .. Len(q) + 1 PROVE w[j] # Tok(k)
    <3>1. CASE j < i
      BY <1>aside, <1>1, <1>2, <2>0, <3>1
    <3>2. CASE j = i
      BY <1>aside, <1>1, <1>2, <3>2
    <3>3. CASE j > i
      <4>1. j - 1 \in 1 .. Len(q) /\ w[j] = q[j - 1]
        BY <1>aside, <1>1, <1>2, <3>3
      <4> QED
        BY <2>0, <4>1
    <3> QED
      BY <1>2, <3>1, <3>2, <3>3
  <2>2. KeywordAt(w, k) = 0
    BY <1>aside, <1>1, <1>2, <2>1, KeywordIs DEF IsFirstOf
  <2> QED
    BY <1>3, <2>2 DEF AfterKeyword
<1>4. CASE at # 0
  <2>1. IsFirstOf(at, q, k)
    BY <1>1, <1>4, KeywordIs
  <2> HIDE DEF at
  <2>2. at \in 1 .. Len(q) /\ q[at] = Tok(k) /\ \A j \in 1 .. Len(q) : j < at => q[j] # Tok(k)
    BY <1>aside, <1>2, <2>1 DEF IsFirstOf
  <2>3. at + 1 # i
    BY <1>aside, <1>2, <2>2
  <2>4. new \in 1 .. Len(q) + 1 /\ w[new] = Tok(k)
    <3>1. CASE at < i
      BY <1>aside, <1>1, <1>2, <2>2, <3>1
    <3>2. CASE at >= i
      <4>1. new = at + 1 /\ new \in 1 .. Len(q) + 1 /\ ~(new < i) /\ new # i /\ new - 1 = at
        BY <1>aside, <1>2, <2>2, <3>2
      <4> QED
        BY <1>1, <2>2, <4>1
    <3> QED
      BY <1>aside, <1>2, <2>2, <3>1, <3>2
  <2>5. ASSUME NEW j \in 1 .. Len(q) + 1, j < new PROVE w[j] # Tok(k)
    <3>1. CASE j < i
      <4>1. j \in 1 .. Len(q) /\ j < at /\ w[j] = q[j]
        BY <1>aside, <1>1, <1>2, <2>2, <2>5, <3>1
      <4> QED
        BY <2>2, <4>1
    <3>2. CASE j = i
      BY <1>aside, <1>1, <1>2, <3>2
    <3>3. CASE j > i
      <4>1. j - 1 \in 1 .. Len(q) /\ j - 1 < at /\ w[j] = q[j - 1]
        BY <1>aside, <1>1, <1>2, <2>2, <2>5, <3>3
      <4> QED
        BY <2>2, <4>1
    <3> QED
      BY <1>2, <3>1, <3>2, <3>3
  <2>6. KeywordAt(w, k) = new /\ KeywordAt(q, k) = at
    <3>1. IsFirstOf(new, w, k)
      BY <1>2, <2>4, <2>5 DEF IsFirstOf
    <3> HIDE DEF new
    <3> QED
      BY <1>1, <2>1, <3>1, KeywordIs
  <2>7. new # 0 /\ (new < Len(w) <=> at < Len(q)) /\ (at < Len(q) => w[new + 1] = q[at + 1])
    <3>1. CASE at < i
      <4>1. new = at /\ at + 1 < i
        BY <1>aside, <1>2, <2>2, <2>3, <3>1
      <4>2. at + 1 \in 1 .. Len(q) + 1 /\ at + 1 < Len(q) + 1
        BY <1>1, <1>2, <2>2, <4>1
      <4> QED
        BY <1>aside, <1>1, <1>2, <2>2, <4>1, <4>2
    <3>2. CASE at >= i
      <4>1. new = at + 1
        BY <1>aside, <1>2, <2>2, <3>2
      <4>2. at < Len(q) => new + 1 \in 1 .. Len(q) + 1 /\ ~(new + 1 < i) /\ new + 1 # i /\ new + 1 - 1 = at + 1
        BY <1>aside, <1>2, <2>2, <3>2, <4>1
      <4>3. ASSUME at < Len(q) PROVE w[new + 1] = q[at + 1]
        <5>1. \A j \in 1 .. Len(q) + 1 : ~(j < i) /\ j # i => w[j] = q[j - 1]
          BY <1>1, <1>2
        <5> HIDE DEF new
        <5>2. PICK j \in 1 .. Len(q) + 1 : j = new + 1 /\ ~(j < i) /\ j # i /\ j - 1 = at + 1
          <6>1. at \in Nat /\ at + 2 \in 1 .. Len(q) + 1 /\ at + 2 = new + 1
            BY <1>2, <2>2, <4>1, <4>3
          <6>2. ~(at + 2 < i) /\ at + 2 # i /\ at + 2 - 1 = at + 1
            BY <1>2, <2>2, <3>2, <6>1
          <6> QED
            BY <6>1, <6>2
        <5>3. w[j] = q[j - 1]
          BY <5>1, <5>2
        <5> QED
          BY <5>2, <5>3
      <4> QED
        BY <1>aside, <1>1, <1>2, <2>2, <4>1, <4>3
    <3> QED
      BY <1>aside, <1>2, <2>2, <3>1, <3>2
  <2> HIDE DEF new
  <2> QED
    BY <1>4, <2>6, <2>7 DEF AfterKeyword, at
<1> QED
  BY <1>3, <1>4

(* What the interval field writes.                                         *)
LEMMA FieldWrites ==
  ASSUME NEW q, IsQuery(q), NEW n \in Numbers
  PROVE  FieldIsWritten(q, n) /\ (AcceptsWithin(q) => IsQuery(Injected(q, n)))
<1> DEFINE at == KeywordAt(q, "within")
           from == KeywordAt(q, "from")
           w == Injected(q, n)
<1>1. /\ at \in 0 .. Len(q) /\ from \in 0 .. Len(q) /\ Len(q) \in Nat /\ DOMAIN q = 1 .. Len(q)
      /\ at # 0 => IsFirstOf(at, q, "within")
      /\ from # 0 => IsFirstOf(from, q, "from")
  BY KeywordIs
<1>2. \A i \in DOMAIN q : IsToken(q[i])
  BY DEF IsQuery, IsToken
<1>3. /\ \A x : x.text \in Numbers \cup Intrinsic => \A k \in Words : x # Tok(k)
      /\ Tok("within") # Tok("from") /\ Tok("within") # Tok("isa")
      /\ Tok("within") # Tok(n) /\ Tok("from") # Tok(n) /\ Tok("isa") # Tok(n)
  BY EventAssumption DEF Words, Tok
<1>4. "from" \in Words /\ "isa" \in Words /\ "within" \in Words /\ NoToken \in Words
  BY DEF Words
<1>5. n # NoToken
  BY <1>4, EventAssumption
<1> DEFINE Good == /\ IsQuery(w) /\ WithinOf(w) = n
                   /\ EventClassOf(w) = EventClassOf(q) /\ WatchedClassOf(w) = WatchedClassOf(q)
<1>6. ASSUME at # 0 PROVE Good
  <2>1. IsFirstOf(at, q, "within") /\ at \in 1 .. Len(q) /\ q[at] = Tok("within")
    BY <1>1, <1>6 DEF IsFirstOf
  <2> DEFINE number == at < Len(q) /\ ~q[at + 1].quoted /\ q[at + 1].text \in Numbers
  <2>2. CASE number
    <3>1. w = [q EXCEPT ![at + 1] = Tok(n)]
      BY <1>6, <2>2 DEF Injected
    <3>2. at + 1 \in DOMAIN q /\ at + 1 # 1 /\ at + 1 - 1 = at
      BY <1>1, <2>1, <2>2
    <3>over. IsOverwritten(w, q, at + 1, Tok(n))
      <4> HIDE DEF w, at
      <4> QED
        BY <3>1, <3>2, OverwrittenIs, TokensAre
    <3>3. /\ IsQuery(w) /\ Len(w) = Len(q)
          /\ \A j \in DOMAIN q : w[j] = IF j = at + 1 THEN Tok(n) ELSE q[j]
      BY <3>over DEF IsOverwritten
    <3>4. \A k \in {"from", "isa"} : AfterKeyword(w, k) = AfterKeyword(q, k)
      <4> SUFFICES ASSUME NEW k \in {"from", "isa"} PROVE AfterKeyword(w, k) = AfterKeyword(q, k)
        OBVIOUS
      <4>1. Tok(n) # Tok(k) /\ q[at + 1] # Tok(k) /\ q[at + 1 - 1] # Tok(k)
        BY <1>3, <1>4, <2>1, <2>2, <3>2
      <4>2. Aside(q, at + 1, Tok(n), k) /\ at + 1 \in Nat
        BY <1>1, <3>2, <4>1 DEF Aside
      <4> HIDE DEF w, at
      <4> QED
        BY <3>over, <4>1, <4>2, OverwrittenKeeps
    <3>5. IsFirstOf(at, w, "within")
      <4> HIDE DEF w, at
      <4>1. \A j \in DOMAIN q : j <= at => w[j] = q[j]
        BY <1>1, <2>1, <3>3
      <4>2. DOMAIN w = DOMAIN q
        BY <1>1, <3>3, KeywordIs
      <4> QED
        BY <1>1, <2>1, <4>1, <4>2 DEF IsFirstOf
    <3>6. AfterKeyword(w, "within") = n
      <4>1. w[at + 1] = Tok(n) /\ at < Len(w)
        BY <2>2, <3>2, <3>3
      <4> HIDE DEF w, at
      <4> QED
        BY <3>3, <3>5, <4>1, FoundBehind, TokensAre
    <3> HIDE DEF w
    <3> QED
      BY <3>3, <3>4, <3>6 DEF WithinOf, EventClassOf, WatchedClassOf
  <2>3. CASE ~number
    <3>1. w = Inserted(q, at + 1, Tok(n))
      BY <1>6, <2>3 DEF Injected
    <3>2. at + 1 \in 2 .. Len(q) + 1 /\ at + 1 \in 1 .. Len(q) + 1 /\ at + 1 - 1 = at
      BY <1>1, <2>1
    <3>put. IsInserted(w, q, at + 1, Tok(n))
      BY <3>1, <3>2, InsertedIs, TokensAre
    <3>3. /\ IsQuery(w) /\ Len(w) = Len(q) + 1
          /\ \A j \in 1 .. Len(q) + 1 :
               w[j] = IF j < at + 1 THEN q[j] ELSE IF j = at + 1 THEN Tok(n) ELSE q[j - 1]
      BY <3>put DEF IsInserted
    <3>4. \A k \in {"from", "isa"} : AfterKeyword(w, k) = AfterKeyword(q, k)
      <4> SUFFICES ASSUME NEW k \in {"from", "isa"} PROVE AfterKeyword(w, k) = AfterKeyword(q, k)
        OBVIOUS
      <4>1. at + 1 # 1 /\ Tok(n) # Tok(k) /\ q[at + 1 - 1] # Tok(k)
        BY <1>3, <1>4, <2>1, <3>2
      <4>2. Aside(q, at + 1, Tok(n), k) /\ at + 1 \in Nat
        BY <1>1, <3>2, <4>1 DEF Aside
      <4> HIDE DEF w, at
      <4> QED
        BY <3>put, <4>2, InsertedKeeps
    <3>5. IsFirstOf(at, w, "within")
      <4> HIDE DEF w, at
      <4>1. \A j \in 1 .. Len(q) + 1 : j <= at => j \in DOMAIN q /\ w[j] = q[j]
        BY <1>1, <2>1, <3>3
      <4>2. DOMAIN w = 1 .. Len(q) + 1
        BY <1>1, <3>3, KeywordIs
      <4> QED
        BY <1>1, <2>1, <4>1, <4>2 DEF IsFirstOf
    <3>6. AfterKeyword(w, "within") = n
      <4>1. w[at + 1] = Tok(n) /\ at < Len(w)
        BY <1>1, <2>1, <3>2, <3>3
      <4> HIDE DEF w, at
      <4> QED
        BY <3>3, <3>5, <4>1, FoundBehind, TokensAre
    <3> HIDE DEF w
    <3> QED
      BY <3>3, <3>4, <3>6 DEF WithinOf, EventClassOf, WatchedClassOf
  <2> QED
    BY <2>2, <2>3
<1>7. ASSUME at = 0, AcceptsWithin(q)
      PROVE  from # 0 /\ from < Len(q) /\ q[from + 1].text \in Intrinsic
  <2>1. AfterKeyword(q, "within") = NoToken
    BY <1>7 DEF AfterKeyword
  <2>2. WithinOf(q) = NoToken
    BY <2>1 DEF WithinOf
  <2>3. EventClassOf(q) \in Intrinsic
    BY <1>7, <2>2 DEF AcceptsWithin
  <2> QED
    BY <1>4, <2>3, EventAssumption DEF EventClassOf, AfterKeyword
<1>8. ASSUME at = 0, AcceptsWithin(q), ClassIsQuoted(q) PROVE IsQuery(w)
  <2>1. w = [q EXCEPT ![from + 1] = Literal("literal and clause")]
    <3>1. from # 0 /\ ~(from >= Len(q))
      BY <1>1, <1>7, <1>8
    <3> QED
      BY <1>8, <3>1 DEF Injected
  <2>2. from + 1 \in DOMAIN q
    BY <1>1, <1>7, <1>8
  <2> HIDE DEF from, w
  <2> QED
    <3>1. IsOverwritten(w, q, from + 1, Literal("literal and clause"))
      BY <2>1, <2>2, OverwrittenIs, TokensAre
    <3> QED
      BY <3>1 DEF IsOverwritten
<1>9. ASSUME at = 0, AcceptsWithin(q), ~ClassIsQuoted(q) PROVE Good
  <2> DEFINE v == Inserted(q, from + 2, Tok("within"))
  <2>1. w = Inserted(v, from + 3, Tok(n))
    BY <1>1, <1>7, <1>9 DEF Injected
  <2>2. from \in 1 .. Len(q) /\ from + 1 \in DOMAIN q /\ from + 2 \in 2 .. Len(q) + 1
        /\ from + 2 \in 1 .. Len(q) + 1 /\ from + 2 - 1 = from + 1
    BY <1>1, <1>7, <1>9
  <2>3. \A i \in DOMAIN q : q[i] # Tok("within")
    BY <1>9, KeywordIs
  <2>4. q[from + 1].text \in Intrinsic
    BY <1>7, <1>9
  <2> HIDE DEF from
  <2>put. IsInserted(v, q, from + 2, Tok("within"))
    BY <2>2, InsertedIs, TokensAre
  <2>5. /\ IsQuery(v) /\ Len(v) = Len(q) + 1
        /\ \A j \in 1 .. Len(q) + 1 :
             v[j] = IF j < from + 2 THEN q[j] ELSE IF j = from + 2 THEN Tok("within") ELSE q[j - 1]
    BY <2>put DEF IsInserted
  <2> HIDE DEF v, w
  <2>6. from + 3 \in 2 .. Len(v) + 1 /\ from + 3 \in 1 .. Len(v) + 1 /\ from + 3 - 1 = from + 2
        /\ v[from + 2] = Tok("within")
    BY <1>1, <2>2, <2>5
  <2>then. IsInserted(w, v, from + 3, Tok(n))
    BY <2>1, <2>5, <2>6, InsertedIs, TokensAre
  <2>7. /\ IsQuery(w) /\ Len(w) = Len(v) + 1
        /\ \A j \in 1 .. Len(v) + 1 :
             w[j] = IF j < from + 3 THEN v[j] ELSE IF j = from + 3 THEN Tok(n) ELSE v[j - 1]
    BY <2>then DEF IsInserted
  <2>8. \A k \in {"from", "isa"} : AfterKeyword(w, k) = AfterKeyword(q, k)
    <3> SUFFICES ASSUME NEW k \in {"from", "isa"} PROVE AfterKeyword(w, k) = AfterKeyword(q, k)
      OBVIOUS
    <3>1. from + 2 # 1 /\ Tok("within") # Tok(k) /\ q[from + 2 - 1] # Tok(k)
      BY <1>3, <1>4, <2>2, <2>4
    <3>2. AfterKeyword(v, k) = AfterKeyword(q, k)
      <4>1. Aside(q, from + 2, Tok("within"), k) /\ from + 2 \in Nat
        BY <1>1, <2>2, <3>1 DEF Aside
      <4> QED
        BY <2>put, <4>1, InsertedKeeps
    <3>3. from + 3 # 1 /\ Tok(n) # Tok(k) /\ v[from + 3 - 1] # Tok(k)
      BY <1>3, <2>6
    <3>4. AfterKeyword(w, k) = AfterKeyword(v, k)
      <4>1. Aside(v, from + 3, Tok(n), k) /\ from + 3 \in Nat
        BY <1>1, <2>2, <3>3 DEF Aside
      <4> QED
        BY <2>then, <4>1, InsertedKeeps
    <3> QED
      BY <3>2, <3>4
  <2>9. IsFirstOf(from + 2, w, "within")
    <3>1. DOMAIN w = 1 .. Len(w) /\ Len(w) = Len(q) + 2
      BY <1>1, <2>5, <2>7, KeywordIs
    <3>2. from + 2 \in 1 .. Len(w) /\ w[from + 2] = Tok("within")
      BY <1>1, <2>2, <2>5, <2>6, <2>7, <3>1
    <3>3. ASSUME NEW j \in 1 .. Len(w), j < from + 2 PROVE w[j] # Tok("within")
      <4>1. j \in DOMAIN q /\ w[j] = v[j] /\ v[j] = q[j]
        BY <1>1, <2>2, <2>5, <2>7, <3>3
      <4> QED
        BY <2>3, <4>1
    <3> QED
      BY <3>1, <3>2, <3>3 DEF IsFirstOf
  <2>10. AfterKeyword(w, "within") = n
    <3>1. w[from + 2 + 1] = Tok(n) /\ from + 2 < Len(w)
      BY <1>1, <2>2, <2>5, <2>6, <2>7
    <3> QED
      BY <2>7, <2>9, <3>1, FoundBehind, TokensAre
  <2> QED
    BY <2>7, <2>8, <2>10 DEF WithinOf, EventClassOf, WatchedClassOf
<1>10. ClassIsQuoted(q) => at = 0
  BY DEF ClassIsQuoted
<1> HIDE DEF w
<1> QED
  BY <1>6, <1>8, <1>9, <1>10 DEF FieldIsWritten, w

(* summarize() gives each field a place of its own, and those that are     *)
(* named come before the others.                                           *)
LEMMA LeadingIs ==
  ASSUME NEW fields, NEW n \in Nat, DOMAIN fields = 1 .. n, NEW name
  PROVE  /\ \A i, j \in Leading(fields, name) : i = j
         /\ \A i \in DOMAIN fields : fields[i].name = name /\ ~fields[i].was =>
              \E j \in DOMAIN fields : j \in Leading(fields, name)
<1> DEFINE places == {i \in DOMAIN fields : fields[i].name = name /\ ~fields[i].was}
<1>1. ASSUME NEW i \in Leading(fields, name), NEW j \in Leading(fields, name) PROVE i = j
  <2>1. i \in 1 .. n /\ j \in 1 .. n /\ i \in places /\ j \in places
    BY <1>1 DEF Leading
  <2>2. ~(i < j) /\ ~(j < i)
    BY <1>1, <2>1 DEF Leading
  <2> QED
    BY <2>1, <2>2
<1>2. ASSUME NEW i \in places PROVE \E j \in DOMAIN fields : j \in Leading(fields, name)
  <2>1. places \in SUBSET (1 .. n) /\ places # {}
    BY <1>2
  <2>2. First(places) \in places /\ \A j \in places : First(places) <= j
    <3> HIDE DEF places
    <3> QED
      BY <2>1, FirstIs
  <2>3. PICK first \in places : \A j \in places : first <= j
    BY <2>2
  <2>4. \A j \in 1 .. (first - 1) : j \notin places /\ j \in DOMAIN fields
    BY <2>1, <2>3
  <2>5. first \in Leading(fields, name)
    BY <2>3, <2>4 DEF Leading
  <2> QED
    BY <2>3, <2>5
<1> QED
  BY <1>1, <1>2

NamesOf(fields, i) == {p \in DOMAIN Preferred : i \in Leading(fields, Preferred[p])}

LEMMA PlaceIs ==
  ASSUME NEW fields, NEW n \in Nat, DOMAIN fields = 1 .. n, NEW i \in 1 .. n
  PROVE  /\ Place(fields, i) \in Nat /\ Len(Preferred) \in Nat
         /\ NamesOf(fields, i) # {} =>
              Place(fields, i) \in NamesOf(fields, i) /\ Place(fields, i) <= Len(Preferred)
         /\ NamesOf(fields, i) = {} => Place(fields, i) = Len(Preferred) + i
         /\ IsNamed(fields[i]) => \E j \in 1 .. n : NamesOf(fields, j) # {}
         /\ NamesOf(fields, i) # {} => IsNamed(fields[i])
<1> DEFINE names == NamesOf(fields, i)
<1>1. Len(Preferred) \in Nat /\ DOMAIN Preferred = 1 .. Len(Preferred)
  BY EventAssumption
<1>2. Place(fields, i) = IF names # {} THEN First(names) ELSE Len(Preferred) + i
  BY DEF Place, NamesOf
<1>3. names \in SUBSET (1 .. Len(Preferred))
  BY <1>1 DEF NamesOf
<1>4. names # {} => First(names) \in names
  <2> HIDE DEF names
  <2> QED
    BY <1>1, <1>3, FirstIs
<1>5. ASSUME IsNamed(fields[i]) PROVE \E j \in 1 .. n : NamesOf(fields, j) # {}
  <2>1. PICK p \in DOMAIN Preferred : fields[i].name = Preferred[p] /\ ~fields[i].was
    BY <1>5 DEF IsNamed
  <2>2. PICK j \in DOMAIN fields : j \in Leading(fields, Preferred[p])
    BY <2>1, LeadingIs
  <2> QED
    BY <2>2 DEF NamesOf
<1>6. names # {} => IsNamed(fields[i])
  BY DEF NamesOf, Leading, IsNamed
<1>7. CASE names = {}
  BY <1>1, <1>2, <1>5, <1>7
<1>8. CASE names # {}
  <2> HIDE DEF names
  <2>1. Place(fields, i) \in names
    BY <1>2, <1>4, <1>8
  <2>2. Place(fields, i) \in 1 .. Len(Preferred)
    BY <1>3, <2>1
  <2> QED
    BY <1>1, <1>5, <1>6, <1>8, <2>1, <2>2 DEF names
<1> QED
  BY <1>7, <1>8

LEMMA PlacesDiffer ==
  ASSUME NEW fields, NEW n \in Nat, DOMAIN fields = 1 .. n, NEW i \in 1 .. n, NEW j \in 1 .. n,
         Place(fields, i) = Place(fields, j)
  PROVE  i = j
<1> DEFINE a == Place(fields, i)
           b == Place(fields, j)
<1>1. /\ NamesOf(fields, i) # {} => a \in NamesOf(fields, i) /\ a <= Len(Preferred)
      /\ NamesOf(fields, i) = {} => a = Len(Preferred) + i
  BY PlaceIs
<1>2. /\ NamesOf(fields, j) # {} => b \in NamesOf(fields, j) /\ b <= Len(Preferred)
      /\ NamesOf(fields, j) = {} => b = Len(Preferred) + j
  BY PlaceIs
<1>3. Len(Preferred) \in Nat /\ a \in Nat
  BY PlaceIs
<1>4. a = b
  OBVIOUS
<1> HIDE DEF a, b
<1>5. CASE NamesOf(fields, i) # {} /\ NamesOf(fields, j) # {}
  <2>1. a \in NamesOf(fields, i) /\ a \in NamesOf(fields, j)
    BY <1>1, <1>2, <1>4, <1>5
  <2>2. i \in Leading(fields, Preferred[a]) /\ j \in Leading(fields, Preferred[a])
    BY <2>1 DEF NamesOf
  <2> QED
    BY <2>2, LeadingIs
<1>6. CASE NamesOf(fields, i) = {} \/ NamesOf(fields, j) = {}
  BY <1>1, <1>2, <1>3, <1>4, <1>6
<1> QED
  BY <1>5, <1>6

(* The line leads with a field that is named, if there is one.             *)
LEMMA NamedLeads ==
  ASSUME NEW S, NEW fields \in Seq(S), NEW limit \in Nat \ {0},
         NEW i \in DOMAIN fields, IsNamed(fields[i])
  PROVE  Kept(fields, limit) # <<>> /\ IsNamed(Kept(fields, limit)[1])
<1> DEFINE n == Len(fields)
           upTo == [k \in DOMAIN fields |->
                      {j \in DOMAIN fields : Place(fields, j) <= Place(fields, k)}]
           sorted == Arranged(fields, upTo)
           most == IF n < limit THEN n ELSE limit
<1>1. n \in Nat /\ DOMAIN fields = 1 .. n /\ n >= 1
  OBVIOUS
<1>2. \A k \in 1 .. n : Place(fields, k) \in Nat
  BY <1>1, PlaceIs
<1>3. OrderOf(upTo, DOMAIN fields)
  <2>1. \A j, k \in DOMAIN fields : j \in upTo[k] <=> Place(fields, j) <= Place(fields, k)
    OBVIOUS
  <2>2. \A k \in DOMAIN fields : upTo[k] \subseteq DOMAIN fields
    OBVIOUS
  <2> HIDE DEF upTo
  <2>3. ASSUME NEW j \in DOMAIN fields, NEW k \in DOMAIN fields
        PROVE  /\ j \in upTo[k] \/ k \in upTo[j]
               /\ j \in upTo[k] /\ k \in upTo[j] => j = k
    <3>1. Place(fields, j) \in Nat /\ Place(fields, k) \in Nat
      BY <1>1, <1>2
    <3>2. Place(fields, j) = Place(fields, k) => j = k
      BY <1>1, PlacesDiffer
    <3> QED
      BY <2>1, <3>1, <3>2
  <2>4. ASSUME NEW j \in DOMAIN fields, NEW k \in DOMAIN fields, NEW m \in DOMAIN fields,
               j \in upTo[k], k \in upTo[m]
        PROVE  j \in upTo[m]
    BY <1>1, <1>2, <2>1, <2>4
  <2> QED
    BY <2>2, <2>3, <2>4 DEF OrderOf
<1> HIDE DEF upTo
<1>4. sorted \in Seq(S) /\ DOMAIN sorted = DOMAIN fields /\ \E at : Arranges(at, fields, upTo)
  BY <1>3, ArrangedIs
<1>5. PICK at : Arranges(at, fields, upTo)
  BY <1>4
<1>6. at[1] \in 1 .. n /\ sorted[1] = fields[at[1]]
  <2>1. \A m \in DOMAIN fields : at[m] \in DOMAIN fields /\ Arranged(fields, upTo)[m] = fields[at[m]]
    BY <1>5 DEF Arranges
  <2>2. 1 \in DOMAIN fields
    BY <1>1
  <2>3. at[1] \in DOMAIN fields /\ Arranged(fields, upTo)[1] = fields[at[1]]
    BY <2>1, <2>2
  <2> QED
    BY <1>1, <2>3
<1>7. \A k \in 1 .. n : Place(fields, at[1]) <= Place(fields, k)
  <2> SUFFICES ASSUME NEW k \in 1 .. n PROVE Place(fields, at[1]) <= Place(fields, k)
    OBVIOUS
  <2>1. PICK m \in 1 .. n : at[m] = k
    BY <1>1, <1>5 DEF Arranges
  <2>2. at[1] \in upTo[at[m]]
    <3>1. \A i1, i2 \in DOMAIN fields : i1 <= i2 => at[i1] \in upTo[at[i2]]
      BY <1>5 DEF Arranges
    <3>2. 1 \in DOMAIN fields /\ m \in DOMAIN fields /\ 1 <= m
      BY <1>1
    <3> QED
      BY <3>1, <3>2
  <2> QED
    BY <1>1, <2>1, <2>2 DEF upTo
<1>8. PICK k \in 1 .. n : NamesOf(fields, k) # {}
  BY <1>1, PlaceIs
<1>9. NamesOf(fields, at[1]) # {}
  <2>1. Place(fields, k) <= Len(Preferred) /\ Place(fields, k) \in Nat /\ Len(Preferred) \in Nat
    BY <1>1, <1>8, PlaceIs
  <2>2. Place(fields, at[1]) <= Place(fields, k) /\ Place(fields, at[1]) \in Nat
    BY <1>2, <1>6, <1>7
  <2>3. NamesOf(fields, at[1]) = {} => Place(fields, at[1]) = Len(Preferred) + at[1]
    BY <1>1, <1>6, PlaceIs
  <2> QED
    BY <1>6, <2>1, <2>2, <2>3
<1>10. IsNamed(fields[at[1]])
  BY <1>1, <1>6, <1>9, PlaceIs
<1>11. Kept(fields, limit) = SubSeq(sorted, 1, most)
  BY DEF Kept, upTo
<1>12. most \in 1 .. n /\ Len(sorted) = n
  <2>1. Len(sorted) \in Nat /\ DOMAIN sorted = 1 .. Len(sorted)
    BY <1>4
  <2> QED
    BY <1>1, <1>4, <2>1
<1> HIDE DEF sorted, most
<1>13. Len(SubSeq(sorted, 1, most)) = most /\ SubSeq(sorted, 1, most)[1] = sorted[1]
  BY <1>1, <1>4, <1>12
<1> QED
  BY <1>6, <1>10, <1>11, <1>12, <1>13

(* What is left of the pairs, as fields.                                   *)
LEMMA FieldsAre ==
  ASSUME NEW p, IsDelivery(p)
  PROVE  /\ SummaryFields(p) \in Seq({SummaryFields(p)[f] : f \in DOMAIN SummaryFields(p)})
         /\ \A f \in DOMAIN SummaryFields(p) :
              \E i \in DOMAIN p \ Folded(p) : SummaryFields(p)[f] = Field(p, p[i])
         /\ \A i \in DOMAIN p \ Folded(p) :
              \E f \in DOMAIN SummaryFields(p) : SummaryFields(p)[f] = Field(p, p[i])
<1> DEFINE S == {p[i] : i \in DOMAIN p}
           left == Without(p, Folded(p))
           fields == SummaryFields(p)
<1>1. p \in Seq(S) /\ Folded(p) \in SUBSET DOMAIN p
  BY DEF IsDelivery, Folded
<1>2. /\ left \in Seq(S)
      /\ \A i \in DOMAIN p \ Folded(p) : \E j \in DOMAIN left : left[j] = p[i]
      /\ \A j \in DOMAIN left : \E i \in DOMAIN p \ Folded(p) : left[j] = p[i]
  <2> HIDE DEF S
  <2> QED
    BY <1>1, WithoutKeeps
<1>3. DOMAIN left = 1 .. Len(left) /\ Len(left) \in Nat
  BY <1>2
<1>4. fields = [i \in DOMAIN left |-> Field(p, left[i])]
  BY DEF SummaryFields
<1> HIDE DEF left, fields, S
<1>5. fields \in Seq({fields[f] : f \in DOMAIN fields})
  <2>1. DOMAIN fields = 1 .. Len(left) /\ fields = [f \in 1 .. Len(left) |-> fields[f]]
    BY <1>3, <1>4
  <2> QED
    BY <1>3, <2>1
<1> QED
  BY <1>2, <1>4, <1>5 DEF fields

(* An event's line says what it is about.                                  *)
LEMMA LineIdentifies ==
  ASSUME NEW p, IsDelivery(p), NEW limit \in Nat \ {0}
  PROVE  SummaryIdentifies(p, limit)
<1> DEFINE fields == SummaryFields(p)
<1>1. /\ fields \in Seq({fields[f] : f \in DOMAIN fields})
      /\ \A f \in DOMAIN fields : \E i \in DOMAIN p \ Folded(p) : fields[f] = Field(p, p[i])
      /\ \A i \in DOMAIN p \ Folded(p) : \E f \in DOMAIN fields : fields[f] = Field(p, p[i])
  BY FieldsAre
<1> HIDE DEF fields
<1>2. ASSUME NEW i \in DOMAIN fields, IsNamed(fields[i])
      PROVE  Kept(fields, limit) # <<>> /\ IsNamed(Kept(fields, limit)[1])
  BY <1>1, <1>2, NamedLeads
<1>3. ASSUME NEW i \in DOMAIN p, NEW j \in DOMAIN p, p[i].half = "previous", p[j].half = "target",
             p[i].field = p[j].field
      PROVE  /\ \E f \in DOMAIN fields : fields[f].values = {p[i].value, p[j].value}
             /\ \A f \in DOMAIN fields : fields[f].name = p[i].field => ~fields[f].was
  <2>1. j \in DOMAIN p \ Folded(p)
    BY <1>3 DEF Folded
  <2>2. PICK f \in DOMAIN fields : fields[f] = Field(p, p[j])
    BY <1>1, <2>1
  <2>3. \A k \in DOMAIN p : p[k].half = "previous" /\ p[k].field = p[j].field => k = i
    BY <1>3 DEF IsDelivery
  <2>4. {p[k].value : k \in {k \in DOMAIN p : p[k].half = "previous" /\ p[k].field = p[j].field}}
          = {p[i].value}
    <3>1. {k \in DOMAIN p : p[k].half = "previous" /\ p[k].field = p[j].field} = {i}
      BY <1>3, <2>3
    <3> QED
      BY <3>1
  <2>5. fields[f].values = {p[j].value} \cup {p[i].value}
    <3>1. p[j].half # "previous"
      BY <1>3
    <3> QED
      BY <2>2, <2>4, <3>1 DEF Field
  <2>6. ASSUME NEW g \in DOMAIN fields, fields[g].name = p[i].field PROVE ~fields[g].was
    <3>1. PICK m \in DOMAIN p \ Folded(p) : fields[g] = Field(p, p[m])
      BY <1>1
    <3>2. fields[g].name = p[m].field /\ fields[g].was = (p[m].half = "previous")
      BY <3>1 DEF Field
    <3>3. p[m].half = "previous" => m \in Folded(p)
      BY <1>3, <2>6, <3>2 DEF Folded
    <3> QED
      BY <3>2, <3>3
  <2>7. fields[f].values = {p[i].value, p[j].value}
    BY <2>5
  <2> QED
    BY <2>6, <2>7
<1>4. ASSUME NEW i \in DOMAIN p PROVE \E f \in DOMAIN fields : p[i].value \in fields[f].values
  <2>1. CASE i \notin Folded(p)
    <3>1. PICK f \in DOMAIN fields : fields[f] = Field(p, p[i])
      BY <1>1, <2>1
    <3>2. p[i].value \in fields[f].values
      BY <3>1 DEF Field
    <3> QED
      BY <3>2
  <2>2. CASE i \in Folded(p)
    <3>1. PICK j \in DOMAIN p : p[j].half = "target" /\ p[j].field = p[i].field
      BY <2>2 DEF Folded
    <3>2. p[i].half = "previous"
      BY <2>2 DEF Folded
    <3>3. PICK f \in DOMAIN fields : fields[f].values = {p[i].value, p[j].value}
      BY <1>3, <3>1, <3>2
    <3> QED
      BY <3>3
  <2> QED
    BY <2>1, <2>2
<1> QED
  BY <1>2, <1>3, <1>4 DEF SummaryIdentifies, fields

(* The query stays one, however it is written into.                        *)
THEOREM TextsInvariant == TextsSpec => []TextsInv
<1>1. TextsInit => TextsInv
  BY TextsAssumption DEF TextsInit, TextsInv
<1>2. TextsInv /\ [SetInterval]_textVars => TextsInv'
  <2> SUFFICES ASSUME TextsInv, [SetInterval]_textVars PROVE TextsInv'
    OBVIOUS
  <2>1. CASE SetInterval
    <3>1. PICK n \in Numbers : query' = Injected(query, n)
      BY <2>1 DEF SetInterval
    <3>2. IsQuery(Injected(query, n))
      BY <2>1, FieldWrites DEF TextsInv, SetInterval
    <3> QED
      BY <2>1, <3>1, <3>2 DEF TextsInv, SetInterval
  <2>2. CASE UNCHANGED textVars
    BY <2>2 DEF TextsInv, textVars
  <2> QED
    BY <2>1, <2>2
<1> QED
  BY <1>1, <1>2, PTL DEF TextsSpec

(* Whatever query is in the editor and whatever event arrives, the field   *)
(* writes what it accepts and the line says what the event is about.       *)
THEOREM EventTextsTellTheTruth == TextsSpec => []EventTextsAreTrue
<1>1. TextsInv => EventTextsAreTrue
  <2> SUFFICES ASSUME TextsInv PROVE EventTextsAreTrue
    OBVIOUS
  <2>1. \A n \in Numbers : FieldIsWritten(query, n)
    BY FieldWrites DEF TextsInv
  <2>2. \A limit \in 1 .. Len(pairs) + 1 : limit \in Nat \ {0}
    BY DEF TextsInv, IsDelivery
  <2>3. \A limit \in 1 .. Len(pairs) + 1 : SummaryIdentifies(pairs, limit)
    BY <2>2, LineIdentifies DEF TextsInv
  <2> QED
    BY <2>1, <2>3 DEF EventTextsAreTrue
<1> QED
  BY <1>1, TextsInvariant, PTL

-----------------------------------------------------------------------------
(*                            The exported files                           *)

(* Pieces strung together, one by one.                                     *)
IsStrung(f, pieces, S) ==
  /\ f \in [0 .. Len(pieces) -> Seq(S)] /\ f[0] = <<>>
  /\ \A n \in 1 .. Len(pieces) : f[n] = f[n - 1] \o pieces[n]

LEMMA StrungIs ==
  ASSUME NEW S, NEW pieces \in Seq(Seq(S))
  PROVE  IsStrung(Strung(pieces), pieces, S)
<1> DEFINE m == Len(pieces)
           X == Seq(S)
           Turn(x, piece) == x \o piece
           g == [pair \in X \X (1 .. m) |-> Turn(pair[1], pieces[pair[2]])]
           f == CHOOSE f : f = [n \in 0 .. m |-> IF n = 0 THEN <<>> ELSE Turn(f[n - 1], pieces[n])]
<1>1. m \in Nat /\ \A n \in 1 .. m : pieces[n] \in X
  OBVIOUS
<1>2. <<>> \in X
  OBVIOUS
<1>3. f = Strung(pieces)
  BY DEF Strung
<1>4. \A x \in X, piece \in X : Turn(x, piece) \in X
  OBVIOUS
<1> HIDE DEF m, X, Turn
<1>5. g \in [X \X (1 .. m) -> X]
  BY <1>1, <1>4
<1>6. PICK h \in [0 .. m -> X] :
        h[0] = <<>> /\ \A n \in 1 .. m : h[n] = g[<<h[n - 1], n>>]
  <2> HIDE DEF g
  <2>1. \E h : StepsOf(h, m, X, <<>>, g)
    BY <1>1, <1>2, <1>5, StepsExist
  <2> QED
    BY <2>1 DEF StepsOf
<1>7. h = [n \in 0 .. m |-> IF n = 0 THEN <<>> ELSE Turn(h[n - 1], pieces[n])]
  <2>1. \A n \in 1 .. m : h[n] = Turn(h[n - 1], pieces[n])
    <3> SUFFICES ASSUME NEW n \in 1 .. m PROVE h[n] = Turn(h[n - 1], pieces[n])
      OBVIOUS
    <3>1. h[n - 1] \in X
      BY <1>1
    <3> QED
      BY <1>6, <3>1
  <2>2. \A n \in 0 .. m : n # 0 => n \in 1 .. m
    BY <1>1
  <2> QED
    BY <1>6, <2>1, <2>2
<1>8. f = [n \in 0 .. m |-> IF n = 0 THEN <<>> ELSE Turn(f[n - 1], pieces[n])]
  BY <1>7
<1> HIDE DEF f, g
<1>9. f[0] = <<>> /\ \A n \in 1 .. m : f[n] = Turn(f[n - 1], pieces[n])
  BY <1>1, <1>8
<1>10. \A n \in 0 .. m : f[n] \in X
  <2> DEFINE good == {n \in 0 .. m : f[n] \in X}
  <2>1. 0 \in good
    BY <1>1, <1>2, <1>9
  <2>2. ASSUME NEW n \in 0 .. m, n \in good, n < m PROVE n + 1 \in good
    <3>1. n + 1 \in 1 .. m /\ n + 1 \in 0 .. m /\ (n + 1) - 1 = n
      BY <1>1, <2>2
    <3>2. f[n + 1] = Turn(f[n], pieces[n + 1])
      BY <1>9, <3>1
    <3> QED
      BY <1>1, <1>4, <2>2, <3>1, <3>2
  <2>3. 0 .. m \subseteq good
    <3> HIDE DEF good
    <3> QED
      BY <1>1, <2>1, <2>2, UpTo
  <2> QED
    BY <2>3
<1>11. f \in [0 .. m -> X]
  BY <1>8, <1>10
<1> QED
  BY <1>3, <1>9, <1>11 DEF IsStrung, m, X, Turn

(* What a reader may be at: fields it has read, each with its mark, the    *)
(* field it is in, and where in it.                                        *)
Readers(S) ==
  [fields : Seq(Seq(S) \X S), field : Seq(S), mode : {"start", "quoted", "closing", "plain"}]

LEMMA ReadCharIn ==
  ASSUME NEW S, NEW r \in Readers(S), NEW c \in S
  PROVE  ReadChar(r, c) \in Readers(S)
<1>1. r.fields \in Seq(Seq(S) \X S) /\ r.field \in Seq(S)
      /\ r.mode \in {"start", "quoted", "closing", "plain"}
  BY DEF Readers
<1>2. Append(r.field, c) \in Seq(S) /\ <<>> \in Seq(S)
  BY <1>1
<1>3. <<r.field, c>> \in Seq(S) \X S
  BY <1>1
<1>4. Append(r.fields, <<r.field, c>>) \in Seq(Seq(S) \X S)
  BY <1>1, <1>3
<1> QED
  BY <1>1, <1>2, <1>4 DEF ReadChar, Readers

(* A reader's way through a text, character by character.                  *)
IsReading(f, r, s, S) ==
  /\ f \in [0 .. Len(s) -> Readers(S)] /\ f[0] = r
  /\ \A n \in 1 .. Len(s) : f[n] = ReadChar(f[n - 1], s[n])

LEMMA ReadingIs ==
  ASSUME NEW S, NEW r \in Readers(S), NEW s \in Seq(S)
  PROVE  IsReading(Reading(r, s), r, s, S)
<1> DEFINE m == Len(s)
           X == Readers(S)
           Turn(x, c) == ReadChar(x, c)
           g == [pair \in X \X (1 .. m) |-> Turn(pair[1], s[pair[2]])]
           f == CHOOSE f : f = [n \in 0 .. m |-> IF n = 0 THEN r ELSE Turn(f[n - 1], s[n])]
<1>1. m \in Nat /\ \A n \in 1 .. m : s[n] \in S
  OBVIOUS
<1>2. r \in X
  OBVIOUS
<1>3. f = Reading(r, s)
  BY DEF Reading
<1>4. \A x \in X, c \in S : Turn(x, c) \in X
  BY ReadCharIn
<1> HIDE DEF m, X, Turn
<1>5. g \in [X \X (1 .. m) -> X]
  BY <1>1, <1>4
<1>6. PICK h \in [0 .. m -> X] :
        h[0] = r /\ \A n \in 1 .. m : h[n] = g[<<h[n - 1], n>>]
  <2> HIDE DEF g
  <2>1. \E h : StepsOf(h, m, X, r, g)
    BY <1>1, <1>2, <1>5, StepsExist
  <2> QED
    BY <2>1 DEF StepsOf
<1>7. h = [n \in 0 .. m |-> IF n = 0 THEN r ELSE Turn(h[n - 1], s[n])]
  <2>1. \A n \in 1 .. m : h[n] = Turn(h[n - 1], s[n])
    <3> SUFFICES ASSUME NEW n \in 1 .. m PROVE h[n] = Turn(h[n - 1], s[n])
      OBVIOUS
    <3>1. h[n - 1] \in X
      BY <1>1
    <3> QED
      BY <1>6, <3>1
  <2>2. \A n \in 0 .. m : n # 0 => n \in 1 .. m
    BY <1>1
  <2> QED
    BY <1>6, <2>1, <2>2
<1>8. f = [n \in 0 .. m |-> IF n = 0 THEN r ELSE Turn(f[n - 1], s[n])]
  BY <1>7
<1> HIDE DEF f, g
<1>9. f[0] = r /\ \A n \in 1 .. m : f[n] = Turn(f[n - 1], s[n])
  BY <1>1, <1>8
<1>10. \A n \in 0 .. m : f[n] \in X
  <2> DEFINE good == {n \in 0 .. m : f[n] \in X}
  <2>1. 0 \in good
    BY <1>1, <1>2, <1>9
  <2>2. ASSUME NEW n \in 0 .. m, n \in good, n < m PROVE n + 1 \in good
    <3>1. n + 1 \in 1 .. m /\ n + 1 \in 0 .. m /\ (n + 1) - 1 = n
      BY <1>1, <2>2
    <3>2. f[n + 1] = Turn(f[n], s[n + 1])
      BY <1>9, <3>1
    <3> QED
      BY <1>1, <1>4, <2>2, <3>1, <3>2
  <2>3. 0 .. m \subseteq good
    <3> HIDE DEF good
    <3> QED
      BY <1>1, <2>1, <2>2, UpTo
  <2> QED
    BY <2>3
<1>11. f \in [0 .. m -> X]
  BY <1>8, <1>10
<1> QED
  BY <1>3, <1>9, <1>11 DEF IsReading, m, X, Turn

(* There is one way through a text.                                        *)
Reads(f, r, s) ==
  f[0] = r /\ \A n \in 1 .. Len(s) : f[n] = ReadChar(f[n - 1], s[n])

LEMMA ReadingEnds ==
  ASSUME NEW S, NEW r \in Readers(S), NEW s \in Seq(S), NEW f, Reads(f, r, s)
  PROVE  f[Len(s)] = After(r, s) /\ After(r, s) \in Readers(S)
<1> DEFINE m == Len(s)
           h == Reading(r, s)
           good == {n \in 0 .. m : f[n] = h[n]}
<1>1. IsReading(h, r, s, S)
  BY ReadingIs
<1>2. m \in Nat /\ m \in 0 .. m
  OBVIOUS
<1>3. 0 \in good
  BY <1>1 DEF IsReading, Reads
<1>4. ASSUME NEW n \in 0 .. m, n \in good, n < m PROVE n + 1 \in good
  <2>1. n + 1 \in 1 .. m /\ n + 1 \in 0 .. m /\ (n + 1) - 1 = n
    BY <1>4
  <2>2. f[n + 1] = ReadChar(f[n + 1 - 1], s[n + 1]) /\ h[n + 1] = ReadChar(h[n + 1 - 1], s[n + 1])
    BY <1>1, <2>1 DEF IsReading, Reads
  <2>3. f[n] = h[n]
    BY <1>4
  <2> QED
    BY <2>1, <2>2, <2>3
<1>5. 0 .. m \subseteq good
  <2> HIDE DEF good
  <2> QED
    BY <1>2, <1>3, <1>4, UpTo
<1>6. h[m] \in Readers(S)
  BY <1>1, <1>2 DEF IsReading
<1> QED
  BY <1>2, <1>5, <1>6 DEF After

LEMMA ReadingReads ==
  ASSUME NEW S, NEW r \in Readers(S), NEW s \in Seq(S)
  PROVE  Reads(Reading(r, s), r, s) /\ After(r, s) \in Readers(S)
<1>1. IsReading(Reading(r, s), r, s, S)
  BY ReadingIs
<1>2. Len(s) \in 0 .. Len(s)
  OBVIOUS
<1> QED
  BY <1>1, <1>2 DEF IsReading, Reads, After

(* A text behind another is read from where the first has led.             *)
LEMMA AfterBoth ==
  ASSUME NEW S, NEW r \in Readers(S), NEW s \in Seq(S), NEW t \in Seq(S)
  PROVE  After(r, s \o t) = After(After(r, s), t) /\ After(r, s \o t) \in Readers(S)
<1> DEFINE u == s \o t
           f == Reading(r, u)
           k == Len(s)
           g == [n \in 0 .. Len(t) |-> f[k + n]]
<1>1. u \in Seq(S) /\ k \in Nat /\ Len(t) \in Nat /\ Len(u) = k + Len(t)
  OBVIOUS
<1>2. \A n \in 1 .. k : u[n] = s[n]
  OBVIOUS
<1>3. \A n \in 1 .. Len(t) : u[k + n] = t[n]
  OBVIOUS
<1>4. Reads(f, r, u) /\ After(r, u) \in Readers(S) /\ After(r, u) = f[Len(u)]
  BY <1>1, ReadingReads DEF After
<1> HIDE DEF u, f, k
<1>5. Reads(f, r, s)
  <2>1. \A n \in 1 .. k : n \in 1 .. Len(u)
    BY <1>1
  <2> QED
    BY <1>2, <1>4, <2>1 DEF Reads, k
<1>6. f[k] = After(r, s) /\ After(r, s) \in Readers(S)
  BY <1>5, ReadingEnds DEF k
<1>7. g[0] = After(r, s)
  BY <1>1, <1>6
<1>8. ASSUME NEW n \in 1 .. Len(t) PROVE g[n] = ReadChar(g[n - 1], t[n])
  <2>1. k + n \in 1 .. Len(u) /\ k + n - 1 = k + (n - 1) /\ n - 1 \in 0 .. Len(t) /\ n \in 0 .. Len(t)
    BY <1>1
  <2>2. PICK i \in 1 .. Len(u) : i = k + n
    BY <2>1
  <2>3. f[i] = ReadChar(f[i - 1], u[i])
    BY <1>4 DEF Reads
  <2>4. g[n - 1] = f[i - 1] /\ g[n] = f[i]
    <3>1. \A j \in 0 .. Len(t) : g[j] = f[k + j]
      OBVIOUS
    <3>2. i - 1 = k + (n - 1)
      <4> HIDE DEF g
      <4> QED
        BY <1>1, <2>2
    <3> HIDE DEF g
    <3> QED
      BY <2>1, <2>2, <3>1, <3>2
  <2>5. u[i] = t[n]
    BY <1>3, <2>2
  <2> HIDE DEF g
  <2> QED
    BY <2>3, <2>4, <2>5
<1>9. g[Len(t)] = f[Len(u)]
  BY <1>1
<1>10. Reads(g, After(r, s), t)
  <2> HIDE DEF g
  <2> QED
    BY <1>7, <1>8 DEF Reads
<1> HIDE DEF g
<1>11. g[Len(t)] = After(After(r, s), t)
  BY <1>6, <1>10, ReadingEnds
<1> QED
  BY <1>4, <1>9, <1>11 DEF u

LEMMA AfterOne ==
  ASSUME NEW S, NEW r \in Readers(S), NEW c \in S
  PROVE  After(r, <<c>>) = ReadChar(r, c)
<1> DEFINE s == <<c>>
<1>1. s \in Seq(S) /\ Len(s) = 1 /\ s[1] = c
  OBVIOUS
<1> HIDE DEF s
<1>2. Reads(Reading(r, s), r, s)
  BY <1>1, ReadingReads
<1>3. 1 \in 1 .. Len(s) /\ 1 - 1 = 0
  BY <1>1
<1>4. Reading(r, s)[1] = ReadChar(Reading(r, s)[1 - 1], s[1])
  BY <1>2, <1>3 DEF Reads
<1>5. Reading(r, s)[0] = r
  BY <1>2 DEF Reads
<1>6. After(r, s) = ReadChar(r, c)
  BY <1>1, <1>3, <1>4, <1>5 DEF After
<1> QED
  BY <1>6 DEF s

LEMMA AfterNone ==
  ASSUME NEW S, NEW r \in Readers(S)
  PROVE  After(r, <<>>) = r
<1> DEFINE s == <<>>
<1>1. s \in Seq(S) /\ Len(s) = 0
  OBVIOUS
<1> HIDE DEF s
<1>2. Reads(Reading(r, s), r, s)
  BY <1>1, ReadingReads
<1>3. After(r, s) = r
  BY <1>1, <1>2 DEF Reads, After
<1> QED
  BY <1>3 DEF s

(* Pieces one behind the other are read one after the other.               *)
LeadsOn(g, pieces) ==
  \A n \in 1 .. Len(pieces) : After(g[n - 1], pieces[n]) = g[n]

LEMMA ConcatIn ==
  ASSUME NEW S, NEW pieces \in Seq(Seq(S))
  PROVE  Concat(pieces) \in Seq(S)
<1>1. IsStrung(Strung(pieces), pieces, S)
  BY StrungIs
<1>2. Len(pieces) \in 0 .. Len(pieces)
  OBVIOUS
<1> QED
  BY <1>1, <1>2 DEF IsStrung, Concat

LEMMA AfterConcat ==
  ASSUME NEW S, NEW pieces \in Seq(Seq(S)), NEW g, g[0] \in Readers(S), LeadsOn(g, pieces)
  PROVE  After(g[0], Concat(pieces)) = g[Len(pieces)]
<1> DEFINE m == Len(pieces)
           f == Strung(pieces)
           good == {n \in 0 .. m : After(g[0], f[n]) = g[n]}
<1>1. IsStrung(f, pieces, S)
  BY StrungIs
<1>2. m \in Nat /\ m \in 0 .. m /\ \A n \in 1 .. m : pieces[n] \in Seq(S)
  OBVIOUS
<1>3. \A n \in 0 .. m : f[n] \in Seq(S)
  BY <1>1 DEF IsStrung
<1>4. 0 \in good
  BY <1>1, <1>2, AfterNone DEF IsStrung
<1>5. ASSUME NEW n \in 0 .. m, n \in good, n < m PROVE n + 1 \in good
  <2>1. n + 1 \in 1 .. m /\ n + 1 \in 0 .. m /\ (n + 1) - 1 = n
    BY <1>5
  <2>2. PICK i \in 1 .. m : i = n + 1
    BY <2>1
  <2>3. i - 1 = n /\ i \in 0 .. m
    BY <2>1, <2>2
  <2>4. f[i] = f[n] \o pieces[i]
    BY <1>1, <2>3 DEF IsStrung
  <2>5. After(g[0], f[n] \o pieces[i]) = After(After(g[0], f[n]), pieces[i])
    BY <1>2, <1>3, AfterBoth
  <2>6. After(g[n], pieces[i]) = g[i]
    BY <2>3 DEF LeadsOn
  <2>7. After(g[0], f[n]) = g[n]
    BY <1>5
  <2>8. After(g[0], f[i]) = g[i]
    BY <2>4, <2>5, <2>6, <2>7
  <2> QED
    BY <2>2, <2>3, <2>8
<1>6. 0 .. m \subseteq good
  <2> HIDE DEF good, m
  <2> QED
    BY <1>2, <1>4, <1>5, UpTo
<1> QED
  BY <1>2, <1>6 DEF Concat

(* Where a reader is between two fields, and in a quoted one.              *)
Between(fields) == [fields |-> fields, field |-> <<>>, mode |-> "start"]
Inside(fields, field, mode) == [fields |-> fields, field |-> field, mode |-> mode]

LEMMA ReadersAre ==
  ASSUME NEW S, NEW F \in Seq(Seq(S) \X S), NEW w \in Seq(S),
         NEW m \in {"start", "quoted", "closing", "plain"}
  PROVE  Inside(F, w, m) \in Readers(S) /\ Between(F) \in Readers(S)
<1>1. <<>> \in Seq(S)
  OBVIOUS
<1> QED
  BY <1>1 DEF Readers, Between, Inside

(* What a reader does with a character, by where it is.                    *)
LEMMA ReadMark ==
  ASSUME NEW F, NEW w, NEW c \in {comma, newline}, NEW m \in {"start", "closing", "plain"}
  PROVE  ReadChar(Inside(F, w, m), c) = Between(Append(F, <<w, c>>))
BY ExportsAssumption DEF ReadChar, Inside, Between

LEMMA ReadQuote ==
  ASSUME NEW F, NEW w
  PROVE  /\ ReadChar(Between(F), quote) = Inside(F, <<>>, "quoted")
         /\ ReadChar(Inside(F, w, "quoted"), quote) = Inside(F, w, "closing")
         /\ ReadChar(Inside(F, w, "closing"), quote) = Inside(F, Append(w, quote), "quoted")
BY ExportsAssumption DEF ReadChar, Inside, Between

LEMMA ReadText ==
  ASSUME NEW F, NEW w, NEW c, c # quote
  PROVE  /\ ReadChar(Inside(F, w, "quoted"), c) = Inside(F, Append(w, c), "quoted")
         /\ c \notin {comma, newline} =>
              \A m \in {"start", "plain"} :
                ReadChar(Inside(F, w, m), c) = Inside(F, Append(w, c), "plain")
BY DEF ReadChar, Inside, Between

LEMMA Longer ==
  ASSUME NEW S, NEW s \in Seq(S), NEW n \in 1 .. Len(s)
  PROVE  SubSeq(s, 1, n) = Append(SubSeq(s, 1, n - 1), s[n])
<1>1. SubSeq(s, 1, n) \in Seq(S) /\ SubSeq(s, 1, n - 1) \in Seq(S)
  OBVIOUS
<1>2. Len(SubSeq(s, 1, n)) = n /\ Len(SubSeq(s, 1, n - 1)) = n - 1
  OBVIOUS
<1>3. \A i \in 1 .. n : SubSeq(s, 1, n)[i] = s[i]
  OBVIOUS
<1>4. \A i \in 1 .. n : Append(SubSeq(s, 1, n - 1), s[n])[i] = s[i]
  OBVIOUS
<1> QED
  BY <1>1, <1>2, <1>3, <1>4

(* A text that needs no quotes is read as it is.                           *)
LEMMA PlainIsRead ==
  ASSUME NEW S, NEW F \in Seq(Seq(S) \X S), NEW s \in Seq(S), Plain(s)
  PROVE  \E m \in {"start", "plain"} : After(Between(F), s) = Inside(F, s, m)
<1> DEFINE Mode(n) == IF n = 0 THEN "start" ELSE "plain"
           f == [n \in 0 .. Len(s) |-> Inside(F, SubSeq(s, 1, n), Mode(n))]
<1>1. f[0] = Between(F)
  BY DEF Inside, Between
<1>2. ASSUME NEW n \in 1 .. Len(s) PROVE f[n] = ReadChar(f[n - 1], s[n])
  <2>1. n \in 0 .. Len(s) /\ n - 1 \in 0 .. Len(s) /\ Mode(n) = "plain"
    OBVIOUS
  <2>2. Mode(n - 1) \in {"start", "plain"}
    OBVIOUS
  <2>3. s[n] \notin {comma, quote, newline}
    BY DEF Plain
  <2>4. f[n] = Inside(F, SubSeq(s, 1, n), "plain")
        /\ f[n - 1] = Inside(F, SubSeq(s, 1, n - 1), Mode(n - 1))
    BY <2>1
  <2> HIDE DEF f, Mode
  <2>5. ReadChar(f[n - 1], s[n]) = Inside(F, Append(SubSeq(s, 1, n - 1), s[n]), "plain")
    BY <2>2, <2>3, <2>4, ReadText
  <2> QED
    BY <2>4, <2>5, Longer
<1>3. Reads(f, Between(F), s)
  <2> HIDE DEF f
  <2> QED
    BY <1>1, <1>2 DEF Reads
<1>4. Between(F) \in Readers(S)
  <2>1. <<>> \in Seq(S)
    OBVIOUS
  <2> QED
    BY <2>1, ReadersAre
<1>5. f[Len(s)] = Inside(F, s, Mode(Len(s)))
  <2>1. SubSeq(s, 1, Len(s)) = s /\ Len(s) \in 0 .. Len(s)
    OBVIOUS
  <2> QED
    BY <2>1
<1>6. Mode(Len(s)) \in {"start", "plain"}
  OBVIOUS
<1>7. f[Len(s)] = After(Between(F), s)
  <2> HIDE DEF f
  <2> QED
    BY <1>3, <1>4, ReadingEnds
<1> HIDE DEF f, Mode
<1> QED
  BY <1>5, <1>6, <1>7

(* The doubled quotes of a quoted text are read as one each.               *)
LEMMA DoubledIsRead ==
  ASSUME NEW S, quote \in S, NEW F \in Seq(Seq(S) \X S), NEW s \in Seq(S)
  PROVE  /\ Doubled(s) \in Seq(Seq(S))
         /\ After(Inside(F, <<>>, "quoted"), Concat(Doubled(s))) = Inside(F, s, "quoted")
<1> DEFINE g == [n \in 0 .. Len(s) |-> Inside(F, SubSeq(s, 1, n), "quoted")]
           p == Doubled(s)
<1>1. Len(s) \in Nat /\ DOMAIN s = 1 .. Len(s) /\ \A n \in 1 .. Len(s) : s[n] \in S
  OBVIOUS
<1>2. \A n \in 1 .. Len(s) : <<quote, quote>> \in Seq(S) /\ <<s[n]>> \in Seq(S)
  BY <1>1
<1>3. p \in Seq(Seq(S)) /\ Len(p) = Len(s)
  <2>1. p \in [1 .. Len(s) -> Seq(S)]
    BY <1>1, <1>2 DEF Doubled
  <2> HIDE DEF p
  <2> QED
    BY <1>1, <2>1, SeqDef
<1>4. \A n \in 1 .. Len(s) : p[n] = IF s[n] = quote THEN <<quote, quote>> ELSE <<s[n]>>
  BY <1>1 DEF Doubled
<1> HIDE DEF p
<1>5. \A n \in 0 .. Len(s) : SubSeq(s, 1, n) \in Seq(S)
  OBVIOUS
<1>6. \A w \in Seq(S) : Inside(F, w, "quoted") \in Readers(S) /\ Inside(F, w, "closing") \in Readers(S)
  BY ReadersAre
<1>7. ASSUME NEW n \in 1 .. Len(s) PROVE After(g[n - 1], p[n]) = g[n]
  <2> DEFINE w == SubSeq(s, 1, n - 1)
  <2>1. n \in 0 .. Len(s) /\ n - 1 \in 0 .. Len(s)
    OBVIOUS
  <2>2. g[n - 1] = Inside(F, w, "quoted") /\ w \in Seq(S)
    BY <1>5, <2>1
  <2>3. g[n] = Inside(F, Append(w, s[n]), "quoted")
    BY <2>1, Longer
  <2> HIDE DEF g, w
  <2>4. CASE s[n] = quote
    <3> DEFINE q == <<quote>>
    <3>1. p[n] = q \o q
      <4>1. <<quote, quote>> = <<quote>> \o <<quote>>
        OBVIOUS
      <4>2. p[n] = <<quote, quote>>
        BY <1>4, <2>4
      <4> QED
        BY <4>1, <4>2
    <3>2. q \in Seq(S) /\ g[n - 1] \in Readers(S)
      BY <1>6, <2>2
    <3>3. After(g[n - 1], p[n]) = After(After(g[n - 1], <<quote>>), <<quote>>)
      <4> HIDE DEF q
      <4>1. After(g[n - 1], p[n]) = After(After(g[n - 1], q), q)
        BY <3>1, <3>2, AfterBoth
      <4> QED
        BY <4>1 DEF q
    <3>4. After(g[n - 1], <<quote>>) = Inside(F, w, "closing")
      BY <1>6, <2>2, AfterOne, ReadQuote
    <3>5. After(Inside(F, w, "closing"), <<quote>>) = Inside(F, Append(w, quote), "quoted")
      BY <1>6, <2>2, AfterOne, ReadQuote
    <3> QED
      BY <2>3, <2>4, <3>3, <3>4, <3>5
  <2>5. CASE s[n] # quote
    <3>1. p[n] = <<s[n]>>
      BY <1>4, <2>5
    <3>2. After(g[n - 1], <<s[n]>>) = ReadChar(g[n - 1], s[n])
      BY <1>1, <1>6, <2>2, AfterOne
    <3> QED
      BY <2>2, <2>3, <2>5, <3>1, <3>2, ReadText
  <2> QED
    BY <2>4, <2>5
<1>8. g[0] = Inside(F, <<>>, "quoted") /\ g[Len(s)] = Inside(F, s, "quoted")
  <2>1. SubSeq(s, 1, 0) = <<>> /\ SubSeq(s, 1, Len(s)) = s
    OBVIOUS
  <2>2. \A n \in 0 .. Len(s) : g[n] = Inside(F, SubSeq(s, 1, n), "quoted")
    OBVIOUS
  <2>3. 0 \in 0 .. Len(s) /\ Len(s) \in 0 .. Len(s)
    BY <1>1
  <2> HIDE DEF g
  <2> QED
    BY <2>1, <2>2, <2>3
<1>9. g[0] \in Readers(S)
  <2>1. <<>> \in Seq(S)
    OBVIOUS
  <2> QED
    BY <1>6, <1>8, <2>1
<1> HIDE DEF g
<1>10. LeadsOn(g, p)
  BY <1>3, <1>7 DEF LeadsOn
<1>11. After(g[0], Concat(p)) = g[Len(p)]
  BY <1>3, <1>9, <1>10, AfterConcat
<1> QED
  BY <1>3, <1>8, <1>11 DEF p

(* A field and the mark behind it are read as the text that was written.   *)
LEMMA FieldIsRead ==
  ASSUME NEW F \in Seq(Seq(Characters) \X Characters), NEW s \in Seq(Characters),
         NEW c \in {comma, newline}
  PROVE  /\ CsvField(s) \o <<c>> \in Seq(Characters)
         /\ After(Between(F), CsvField(s) \o <<c>>) = Between(Append(F, <<s, c>>))
<1> DEFINE C == Characters
           q == <<quote>>
           last == <<c>>
<1>1. c \in C /\ quote \in C
  BY ExportsAssumption
<1>2. q \in Seq(C) /\ last \in Seq(C) /\ <<>> \in Seq(C)
  BY <1>1
<1>3. Between(F) \in Readers(C) /\ Inside(F, <<>>, "quoted") \in Readers(C)
  BY <1>2, ReadersAre
<1>4. \A m \in {"start", "quoted", "closing", "plain"} : Inside(F, s, m) \in Readers(C)
  BY ReadersAre
<1>5. \A m \in {"start", "plain", "closing"} : After(Inside(F, s, m), last) = Between(Append(F, <<s, c>>))
  <2> SUFFICES ASSUME NEW m \in {"start", "plain", "closing"}
               PROVE  After(Inside(F, s, m), last) = Between(Append(F, <<s, c>>))
    OBVIOUS
  <2>1. Inside(F, s, m) \in Readers(C)
    BY <1>4
  <2>2. After(Inside(F, s, m), <<c>>) = ReadChar(Inside(F, s, m), c)
    BY <1>1, <2>1, AfterOne
  <2> QED
    BY <2>2, ReadMark
<1>6. CASE Plain(s)
  <2>1. CsvField(s) = s
    BY <1>6 DEF CsvField
  <2>2. PICK m \in {"start", "plain"} : After(Between(F), s) = Inside(F, s, m)
    BY <1>6, PlainIsRead
  <2> HIDE DEF last
  <2>3. After(Between(F), s \o last) = After(After(Between(F), s), last)
    BY <1>2, <1>3, AfterBoth
  <2>4. After(Between(F), CsvField(s) \o last) = Between(Append(F, <<s, c>>))
    BY <1>5, <2>1, <2>2, <2>3
  <2>5. CsvField(s) \o last \in Seq(C)
    BY <1>2, <2>1
  <2> QED
    BY <2>4, <2>5 DEF last
<1>7. CASE ~Plain(s)
  <2> DEFINE body == Concat(Doubled(s))
  <2>1. CsvField(s) = q \o body \o q
    BY <1>7 DEF CsvField
  <2>2. Doubled(s) \in Seq(Seq(C)) /\ After(Inside(F, <<>>, "quoted"), body) = Inside(F, s, "quoted")
    BY <1>1, DoubledIsRead
  <2>3. body \in Seq(C)
    BY <2>2, ConcatIn
  <2>4. After(Between(F), q) = Inside(F, <<>>, "quoted")
    BY <1>1, <1>3, AfterOne, ReadQuote
  <2>5. After(Inside(F, s, "quoted"), q) = Inside(F, s, "closing")
    BY <1>1, <1>4, AfterOne, ReadQuote
  <2> HIDE DEF last, q, body
  <2> DEFINE opened == q \o body
             closed == opened \o q
  <2>6. opened \in Seq(C) /\ closed \in Seq(C)
    BY <1>2, <2>3
  <2>7. After(Between(F), opened) = Inside(F, s, "quoted")
    BY <1>2, <1>3, <2>2, <2>3, <2>4, AfterBoth
  <2>8. closed = CsvField(s)
    BY <2>1
  <2> HIDE DEF opened
  <2>9. After(Between(F), closed) = Inside(F, s, "closing")
    BY <1>2, <1>3, <2>5, <2>6, <2>7, AfterBoth
  <2> HIDE DEF closed
  <2>10. After(Between(F), closed \o last) = Between(Append(F, <<s, c>>))
    BY <1>2, <1>3, <1>5, <2>6, <2>9, AfterBoth
  <2>11. closed \o last \in Seq(C)
    BY <1>2, <2>6
  <2> QED
    BY <2>8, <2>10, <2>11 DEF last
<1> QED
  BY <1>6, <1>7

LEMMA MarkIs ==
  ASSUME NEW cells, NEW i
  PROVE  Mark(cells, i) \in {comma, newline} /\ Mark(cells, i) \in Characters
BY ExportsAssumption DEF Mark

LEMMA SeparatedIn ==
  ASSUME NEW cells \in Seq(Seq(Characters))
  PROVE  /\ Separated(cells) \in Seq(Seq(Characters) \X Characters)
         /\ Len(Separated(cells)) = Len(cells)
         /\ \A i \in 1 .. Len(cells) : Separated(cells)[i] = <<cells[i], Mark(cells, i)>>
<1> DEFINE T == Separated(cells)
           P == Seq(Characters) \X Characters
           m == Len(cells)
<1>1. Len(cells) \in Nat /\ DOMAIN cells = 1 .. Len(cells)
      /\ \A i \in 1 .. Len(cells) : cells[i] \in Seq(Characters)
  OBVIOUS
<1>2. \A i \in 1 .. Len(cells) : T[i] = <<cells[i], Mark(cells, i)>>
  BY <1>1 DEF Separated
<1>3. m \in Nat /\ T \in [1 .. m -> P]
  BY <1>1, MarkIs DEF Separated
<1> HIDE DEF T, P, m
<1>4. T \in Seq(P) /\ Len(T) = m
  BY <1>3, SeqDef
<1> QED
  BY <1>2, <1>4 DEF T, P, m

LEMMA AppendBehind ==
  ASSUME NEW S, NEW s \in Seq(S), NEW t \in Seq(S), NEW x \in S
  PROVE  Append(s \o t, x) = s \o Append(t, x)
OBVIOUS

(* A row is read cell by cell.                                             *)
LEMMA RowIsRead ==
  ASSUME NEW F \in Seq(Seq(Characters) \X Characters),
         NEW cells \in Seq(Seq(Characters)), cells # <<>>
  PROVE  /\ CsvRow(cells) \in Seq(Characters)
         /\ After(Between(F), CsvRow(cells)) = Between(F \o Separated(cells))
<1> DEFINE C == Characters
           P == Seq(C) \X C
           m == Len(cells)
           T == Separated(cells)
           p == [i \in DOMAIN cells |-> CsvField(cells[i]) \o <<Mark(cells, i)>>]
           g == [n \in 0 .. m |-> Between(F \o SubSeq(T, 1, n))]
<1>1. m \in Nat /\ DOMAIN cells = 1 .. m /\ \A i \in 1 .. m : cells[i] \in Seq(C)
  OBVIOUS
<1>2. \A i \in 1 .. m : p[i] = CsvField(cells[i]) \o <<Mark(cells, i)>>
  BY <1>1
<1>3. \A i \in 1 .. m : CsvField(cells[i]) \o <<Mark(cells, i)>> \in Seq(C)
  <2>1. <<>> \in Seq(Seq(Characters) \X Characters)
    OBVIOUS
  <2> QED
    BY <1>1, <2>1, MarkIs, FieldIsRead
<1>4. p \in Seq(Seq(C)) /\ Len(p) = m
  <2>1. p \in [1 .. m -> Seq(C)]
    BY <1>1, <1>3
  <2> HIDE DEF p, m
  <2> QED
    BY <1>1, <2>1, SeqDef
<1>5. CsvRow(cells) = Concat(p)
  BY DEF CsvRow
<1>6. T \in Seq(P) /\ Len(T) = m /\ \A i \in 1 .. m : T[i] = <<cells[i], Mark(cells, i)>>
  BY SeparatedIn
<1>7. \A i \in 1 .. m : T[i] \in P
  BY <1>6
<1>15. F \in Seq(P)
  OBVIOUS
<1> HIDE DEF T, P, p, m
<1>8. \A n \in 0 .. m : SubSeq(T, 1, n) \in Seq(P) /\ F \o SubSeq(T, 1, n) \in Seq(P)
  BY <1>1, <1>6, <1>15
<1>9. ASSUME NEW n \in 1 .. m PROVE After(g[n - 1], p[n]) = g[n]
  <2> DEFINE t == SubSeq(T, 1, n - 1)
  <2>1. n - 1 \in 0 .. m /\ n \in 0 .. m
    BY <1>1
  <2>2. g[n - 1] = Between(F \o t) /\ t \in Seq(P) /\ F \o t \in Seq(P)
    BY <1>8, <2>1
  <2>3. SubSeq(T, 1, n) = Append(t, T[n])
    BY <1>6, Longer
  <2>4. g[n] = Between(F \o Append(t, T[n]))
    BY <2>1, <2>3
  <2> HIDE DEF g, t
  <2>5. F \o Append(t, T[n]) = Append(F \o t, T[n])
    BY <1>7, <1>15, <2>2, AppendBehind
  <2>6. PICK G \in Seq(Seq(Characters) \X Characters) : G = F \o t
    BY <2>2 DEF P
  <2>7. After(Between(G), p[n]) = Between(Append(G, <<cells[n], Mark(cells, n)>>))
    <3> DEFINE s == cells[n]
               c == Mark(cells, n)
    <3>1. s \in Seq(Characters) /\ c \in {comma, newline} /\ p[n] = CsvField(s) \o <<c>>
      BY <1>1, <1>2, MarkIs
    <3> HIDE DEF s, c
    <3>2. After(Between(G), CsvField(s) \o <<c>>) = Between(Append(G, <<s, c>>))
      BY <3>1, FieldIsRead
    <3> QED
      BY <3>1, <3>2 DEF s, c
  <2> QED
    BY <1>6, <2>2, <2>4, <2>5, <2>6, <2>7
<1>10. g[0] = Between(F) /\ g[m] = Between(F \o T)
  <2>1. \A n \in 0 .. m : g[n] = Between(F \o SubSeq(T, 1, n))
    OBVIOUS
  <2>2. 0 \in 0 .. m /\ m \in 0 .. m
    BY <1>1
  <2>3. SubSeq(T, 1, 0) = <<>> /\ F \o <<>> = F /\ SubSeq(T, 1, m) = T
    BY <1>6, <1>15
  <2> HIDE DEF g
  <2> QED
    BY <2>1, <2>2, <2>3
<1>11. Between(F) \in Readers(C)
  <2>1. <<>> \in Seq(C)
    OBVIOUS
  <2> QED
    BY <2>1, ReadersAre
<1> HIDE DEF g
<1>12. LeadsOn(g, p)
  BY <1>4, <1>9 DEF LeadsOn
<1>13. After(g[0], Concat(p)) = g[m]
  BY <1>4, <1>10, <1>11, <1>12, AfterConcat
<1>14. Concat(p) \in Seq(C)
  BY <1>4, ConcatIn
<1> QED
  BY <1>5, <1>10, <1>13, <1>14 DEF T

(* No row is wider than the table.                                         *)
LEMMA WidthIs ==
  ASSUME NEW t, IsTable(t)
  PROVE  /\ Width(t) \in Nat
         /\ Len(t.columns) <= Width(t)
         /\ \A i \in 1 .. Len(t.rows) : Len(t.rows[i]) <= Width(t)
<1> DEFINE n == Len(t.rows)
           f == [i \in 1 .. n |-> Len(t.rows[i])]
           lengths == {f[i] : i \in 1 .. n}
           all == {Len(t.columns)} \cup lengths
<1>1. n \in Nat /\ DOMAIN t.rows = 1 .. n /\ Len(t.columns) \in Nat
      /\ \A i \in 1 .. n : Len(t.rows[i]) \in Nat
  BY DEF IsTable
<1>2. Width(t) = Max(all)
  <2>1. {Len(t.rows[i]) : i \in DOMAIN t.rows} = lengths
    BY <1>1
  <2> QED
    BY <2>1 DEF Width
<1>4. \A x \in all : x \in Nat
  BY <1>1
<1>3. all \in SUBSET Int /\ all # {} /\ \A i \in 1 .. n : Len(t.rows[i]) \in all
  <2>1. \A i \in 1 .. n : f[i] = Len(t.rows[i]) /\ f[i] \in lengths
    OBVIOUS
  <2>2. Len(t.columns) \in all
    OBVIOUS
  <2>3. lengths \subseteq all
    OBVIOUS
  <2> HIDE DEF f, lengths, n, all
  <2> QED
    BY <1>4, <2>1, <2>2, <2>3
<1>5. IsFiniteSet(lengths)
  <2>1. 1 \in Int /\ n \in Int
    BY <1>1
  <2>2. IsFiniteSet(1 .. n)
    BY <2>1, FS_Interval, Zenon
  <2>3. f \in [1 .. n -> lengths] /\ \A x \in lengths : \E i \in 1 .. n : f[i] = x
    OBVIOUS
  <2> HIDE DEF f, lengths, n
  <2>4. f \in Surjection(1 .. n, lengths)
    BY <2>3 DEF Surjection
  <2> QED
    BY <2>2, <2>4, FS_Surjection
<1> HIDE DEF lengths
<1>6. IsFiniteSet(all)
  BY <1>5, FS_AddElement
<1> HIDE DEF all
<1>7. Max(all) \in all /\ \A x \in all : x <= Max(all)
  BY <1>3, <1>6, MaxIsTheLast
<1>8. Len(t.columns) \in all
  BY DEF all
<1> QED
  BY <1>2, <1>3, <1>4, <1>7, <1>8 DEF n

LEMMA CellsAre ==
  ASSUME NEW t, IsTable(t)
  PROVE  /\ Header(t) \in Seq(Seq(Characters)) /\ Len(Header(t)) = Width(t)
         /\ \A i \in 1 .. Len(t.rows) :
              /\ Cells(t, t.rows[i]) \in Seq(Seq(Characters))
              /\ Len(Cells(t, t.rows[i])) = Width(t)
              /\ \A j \in 1 .. Len(t.rows[i]) :
                   j \in 1 .. Width(t) /\ Cells(t, t.rows[i])[j] = t.rows[i][j]
<1> DEFINE w == Width(t)
           C == Characters
<1>1. w \in Nat /\ \A i \in 1 .. Len(t.rows) : Len(t.rows[i]) <= w
  BY WidthIs
<1>2. <<>> \in Seq(C) /\ <<other>> \in Seq(C)
  BY ExportsAssumption
<1>3. \A i \in 1 .. Len(t.columns) : t.columns[i] \in Seq(C)
  BY DEF IsTable
<1>4. \A i \in 1 .. Len(t.rows) : t.rows[i] \in Seq(Seq(C))
  BY DEF IsTable
<1>5. Len(t.columns) \in Nat
  BY DEF IsTable
<1>6. Header(t) \in [1 .. w -> Seq(C)]
  <2>1. \A i \in 1 .. w : i <= Len(t.columns) => i \in 1 .. Len(t.columns)
    BY <1>1, <1>5
  <2> QED
    BY <1>2, <1>3, <2>1 DEF Header
<1>7. \A i \in 1 .. Len(t.rows) : Cells(t, t.rows[i]) \in [1 .. w -> Seq(C)]
  <2> SUFFICES ASSUME NEW i \in 1 .. Len(t.rows) PROVE Cells(t, t.rows[i]) \in [1 .. w -> Seq(C)]
    OBVIOUS
  <2> DEFINE its == t.rows[i]
  <2>1. its \in Seq(Seq(C))
    BY <1>4
  <2> HIDE DEF its
  <2>2. \A j \in 1 .. w : j <= Len(its) => its[j] \in Seq(C)
    BY <2>1
  <2>3. Cells(t, its) \in [1 .. w -> Seq(C)]
    BY <1>2, <2>2 DEF Cells
  <2> QED
    BY <2>3 DEF its
<1>8. ASSUME NEW i \in 1 .. Len(t.rows), NEW j \in 1 .. Len(t.rows[i])
      PROVE  j \in 1 .. w /\ Cells(t, t.rows[i])[j] = t.rows[i][j]
  <2>1. Len(t.rows[i]) <= w /\ Len(t.rows[i]) \in Nat
    BY <1>1, <1>4
  <2>2. j \in 1 .. w /\ j <= Len(t.rows[i])
    BY <1>1, <2>1
  <2> QED
    BY <2>2 DEF Cells
<1> HIDE DEF w
<1>9. \A x \in [1 .. w -> Seq(C)] : x \in Seq(Seq(C)) /\ Len(x) = w
  BY <1>1, SeqDef
<1> QED
  BY <1>6, <1>7, <1>8, <1>9 DEF w

LEMMA Reassociated ==
  ASSUME NEW S, NEW a \in Seq(S), NEW b \in Seq(S), NEW c \in Seq(S)
  PROVE  (a \o b) \o c = a \o (b \o c)
OBVIOUS

(* The rows behind the header are read row by row.                         *)
LEMMA RowsAreRead ==
  ASSUME NEW t, IsTable(t), Width(t) > 0,
         NEW F \in Seq(Seq(Characters) \X Characters)
  PROVE  LET rows == [i \in DOMAIN t.rows |-> CsvRow(Cells(t, t.rows[i]))]
             read == [i \in DOMAIN t.rows |-> Separated(Cells(t, t.rows[i]))]
         IN  /\ rows \in Seq(Seq(Characters))
             /\ After(Between(F), Concat(rows)) = Between(F \o Concat(read))
<1> DEFINE C == Characters
           P == Seq(C) \X C
           m == Len(t.rows)
           Row(i) == Cells(t, t.rows[i])
           rows == [i \in DOMAIN t.rows |-> CsvRow(Row(i))]
           read == [i \in DOMAIN t.rows |-> Separated(Row(i))]
           h == Strung(read)
           g == [n \in 0 .. m |-> Between(F \o h[n])]
<1>1. m \in Nat /\ DOMAIN t.rows = 1 .. m
  BY DEF IsTable
<1>2. \A i \in 1 .. m : Row(i) \in Seq(Seq(C)) /\ Row(i) # <<>>
  <2> SUFFICES ASSUME NEW i \in 1 .. m PROVE Row(i) \in Seq(Seq(C)) /\ Row(i) # <<>>
    OBVIOUS
  <2>1. Row(i) \in Seq(Seq(C)) /\ Len(Row(i)) > 0
    BY CellsAre
  <2> HIDE DEF Row
  <2> QED
    BY <2>1
<1>3. \A i \in 1 .. m : rows[i] = CsvRow(Row(i)) /\ read[i] = Separated(Row(i))
  BY <1>1
<1>4. <<>> \in Seq(P) /\ <<>> \in Seq(C) /\ F \in Seq(P)
  OBVIOUS
<1> HIDE DEF Row, m
<1>5. \A i \in 1 .. m : CsvRow(Row(i)) \in Seq(C)
  BY <1>2, <1>4, RowIsRead DEF P, C
<1>6. \A i \in 1 .. m : Separated(Row(i)) \in Seq(P)
  BY <1>2, SeparatedIn DEF P, C
<1>7. rows \in [1 .. m -> Seq(C)] /\ read \in [1 .. m -> Seq(P)]
  BY <1>1, <1>5, <1>6
<1> HIDE DEF rows, read, P
<1>8. rows \in Seq(Seq(C)) /\ Len(rows) = m /\ read \in Seq(Seq(P)) /\ Len(read) = m
  <2>1. rows \in Seq(Seq(C)) /\ Len(rows) = m
    BY <1>1, <1>7, SeqDef
  <2>2. read \in Seq(Seq(P)) /\ Len(read) = m
    BY <1>1, <1>7, SeqDef
  <2> QED
    BY <2>1, <2>2
<1>9. IsStrung(h, read, P)
  BY <1>8, StrungIs
<1> HIDE DEF h
<1>10. \A n \in 0 .. m : h[n] \in Seq(P) /\ F \o h[n] \in Seq(P)
  <2>1. \A n \in 0 .. m : h[n] \in Seq(P)
    BY <1>8, <1>9 DEF IsStrung
  <2>2. \A x \in Seq(P) : F \o x \in Seq(P)
    BY <1>4
  <2> QED
    BY <2>1, <2>2
<1>11. ASSUME NEW n \in 1 .. m PROVE After(g[n - 1], rows[n]) = g[n]
  <2> DEFINE G == F \o h[n - 1]
  <2>1. n - 1 \in 0 .. m /\ n \in 0 .. m
    BY <1>1
  <2>2. g[n - 1] = Between(G) /\ g[n] = Between(F \o h[n])
    BY <2>1
  <2>3. G \in Seq(Seq(Characters) \X Characters)
    BY <1>10, <2>1 DEF P, C
  <2>4. h[n] = h[n - 1] \o read[n] /\ read[n] \in Seq(P) /\ h[n - 1] \in Seq(P)
    BY <1>3, <1>6, <1>8, <1>9, <1>10, <2>1 DEF IsStrung
  <2>5. F \o h[n] = G \o read[n]
    <3> DEFINE a == h[n - 1]
               b == read[n]
    <3>1. a \in Seq(P) /\ b \in Seq(P) /\ h[n] = a \o b /\ G = F \o a
      BY <2>4
    <3> HIDE DEF a, b, G
    <3>2. (F \o a) \o b = F \o (a \o b)
      BY SMTT(30), ZenonT(30), <1>4, <3>1, Reassociated
    <3>3. F \o h[n] = G \o b
      BY <3>1, <3>2
    <3> QED
      BY <3>3 DEF b
  <2> HIDE DEF G, g
  <2>6. After(Between(G), CsvRow(Row(n))) = Between(G \o Separated(Row(n)))
    BY <1>2, <2>3, RowIsRead DEF C
  <2> QED
    BY <1>3, <2>2, <2>5, <2>6
<1>12. g[0] = Between(F) /\ g[m] = Between(F \o h[m])
  <2>1. \A n \in 0 .. m : g[n] = Between(F \o h[n])
    OBVIOUS
  <2>2. 0 \in 0 .. m /\ m \in 0 .. m
    BY <1>1
  <2>3. h[0] = <<>> /\ F \o <<>> = F
    BY <1>4, <1>9 DEF IsStrung
  <2> HIDE DEF g
  <2> QED
    BY <2>1, <2>2, <2>3
<1> HIDE DEF g
<1>13. g[0] \in Readers(C)
  BY <1>4, <1>12, ReadersAre DEF P
<1>14. LeadsOn(g, rows)
  BY <1>8, <1>11 DEF LeadsOn
<1>15. After(g[0], Concat(rows)) = g[m]
  BY <1>8, <1>13, <1>14, AfterConcat
<1>16. h[m] = Concat(read)
  BY <1>8 DEF h, Concat
<1>17. rows \in Seq(Seq(C)) /\ After(Between(F), Concat(rows)) = Between(F \o Concat(read))
  BY <1>8, <1>12, <1>15, <1>16
<1> QED
  BY <1>17 DEF rows, read, Row

(* The whole file: the header, then the rows.                              *)
LEMMA TableIsRead ==
  ASSUME NEW t, IsTable(t), Width(t) > 0
  PROVE  CsvReadsBack(t)
<1> DEFINE C == Characters
           head == Header(t)
           H == Separated(head)
           rows == [i \in DOMAIN t.rows |-> CsvRow(Cells(t, t.rows[i]))]
           read == [i \in DOMAIN t.rows |-> Separated(Cells(t, t.rows[i]))]
<1>1. head \in Seq(Seq(C)) /\ head # <<>>
  <2>1. head \in Seq(Seq(C)) /\ Len(head) > 0
    BY CellsAre
  <2> HIDE DEF head
  <2> QED
    BY <2>1
<1>2. H \in Seq(Seq(C) \X C)
  BY <1>1, SeparatedIn
<1>3. CsvRow(head) \in Seq(C) /\ After(Between(<<>>), CsvRow(head)) = Between(H)
  <2>1. <<>> \in Seq(Seq(Characters) \X Characters)
    OBVIOUS
  <2> HIDE DEF head
  <2>2. CsvRow(head) \in Seq(C) /\ After(Between(<<>>), CsvRow(head)) = Between(<<>> \o H)
    BY <1>1, <2>1, RowIsRead
  <2>3. <<>> \o H = H
    BY <1>2
  <2> QED
    BY <2>2, <2>3
<1>4. rows \in Seq(Seq(C)) /\ After(Between(H), Concat(rows)) = Between(H \o Concat(read))
  BY <1>2, RowsAreRead
<1> HIDE DEF rows, read, head, H
<1>5. Concat(rows) \in Seq(C)
  BY <1>4, ConcatIn
<1>6. Between(<<>>) \in Readers(C)
  <2>1. <<>> \in Seq(Seq(C) \X C) /\ <<>> \in Seq(C)
    OBVIOUS
  <2> QED
    BY <2>1, ReadersAre
<1>7. After(Between(<<>>), CsvRow(head) \o Concat(rows)) = Between(H \o Concat(read))
  BY <1>3, <1>4, <1>5, <1>6, AfterBoth
<1>8. QueryToCsv(t) = CsvRow(head) \o Concat(rows)
  BY DEF QueryToCsv, rows, head
<1>9. NothingRead = Between(<<>>) /\ \A x : [NothingRead EXCEPT !.fields = x] = Between(x)
  BY DEF NothingRead, Between
<1>10. After(NothingRead, QueryToCsv(t)) = [NothingRead EXCEPT !.fields = H \o Concat(read)]
  BY <1>7, <1>8, <1>9
<1>11. ASSUME NEW i \in DOMAIN t.rows, NEW j \in DOMAIN t.rows[i]
       PROVE  QueryToJson(t)[i][j][2] = t.rows[i][j]
  <2>1. i \in 1 .. Len(t.rows) /\ j \in 1 .. Len(t.rows[i])
    BY DEF IsTable
  <2>2. j \in 1 .. Width(t) /\ Cells(t, t.rows[i])[j] = t.rows[i][j]
    BY <2>1, CellsAre
  <2>3. QueryToJson(t)[i][j] = <<Header(t)[j], Cells(t, t.rows[i])[j]>>
    BY <2>2 DEF QueryToJson
  <2> QED
    BY <2>2, <2>3
<1> QED
  BY <1>10, <1>11 DEF CsvReadsBack, H, head, read

(* csv_row() and csv_field(): whatever characters are in the cells, and    *)
(* however long the rows, a reader of the file gets every cell back.       *)
THEOREM FilesReadBack == FileInit => FileReadsBack
<1> SUFFICES ASSUME FileInit PROVE CsvReadsBack(table)
  BY DEF FileReadsBack
<1>1. IsTable(table)
  BY ExportsAssumption DEF FileInit
<1>2. CASE Width(table) > 0
  BY <1>1, <1>2, TableIsRead
<1>3. CASE ~(Width(table) > 0)
  BY <1>3 DEF CsvReadsBack
<1> QED
  BY <1>2, <1>3
=============================================================================
