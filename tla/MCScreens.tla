------------------------------- MODULE MCScreens -------------------------------
(***************************************************************************)
(* Small instances, for one run, of what a frame draws: the overlays and   *)
(* the palette, the class list, the panes of a class and the process       *)
(* table.  A behaviour is of one of them, its part; the others stay where  *)
(* they begin.                                                             *)
(***************************************************************************)
EXTENDS Overlays, ClassList, ExplorerPanes, ProcessTable

CONSTANT Checked

VARIABLE part

all == <<part, overlayVars, listVars, paneVars, tableVars>>

-----------------------------------------------------------------------------
(* A text too short to search by, and one that finds two classes and a     *)
(* method; commands that match neither, one or both.                       *)
MCFound == [t \in {"p", "pr"} |->
  IF t = "p" THEN <<>>
  ELSE <<[does |-> "hit", kind |-> "class", name |-> "c1"],
         [does |-> "hit", kind |-> "class", name |-> "c2"],
         [does |-> "hit", kind |-> "method", name |-> "m"]>>]
MCCommands == <<[does |-> "go", to |-> "network"], [does |-> "run_query", to |-> 0],
              [does |-> "toggle_live", to |-> 0], [does |-> "accent", to |-> 2]>>
MCScore == [t \in {"p", "pr"} |-> [c \in {MCCommands[i] : i \in DOMAIN MCCommands} |->
  IF c.does = "toggle_live" /\ t = "p" THEN 3 ELSE IF c.does = "accent" THEN 0 ELSE NoMatch]]
MCChords == {{k} : k \in {"Ctrl+K", "Ctrl+Enter", "F1", "Escape", "Enter"}}
          \cup {{}, {"Ctrl+K", "Escape"}, {"Down"}, {"Up", "Enter"}}

(* A class whose name is the system's, one with a kind, one that matches.  *)
Class(system, qualifiers, matches) ==
  [system |-> system, qualifiers |-> qualifiers, matches |-> matches]

MCAllClasses ==
  {Class(TRUE, {}, {}), Class(TRUE, {"event"}, {"t"}), Class(FALSE, {"event"}, {}),
   Class(FALSE, {}, {"t"}), Class(FALSE, {}, {})}

(* The panes of two classes with one key.                                  *)
MCClasses == {"c1", "c2"}
MCKeys == [c \in MCClasses |-> {"name"}]
MCColumns == [c \in MCClasses |-> {"name", "size"}]

(* Processes whose parents are in the list, in each other's or in none, a  *)
(* pid that is used twice, one without a number.  As texts 10 < 1a < 2.    *)
Arrival(p, parent, started, n, t) ==
  [pid |-> p, parent |-> parent, started |-> started, session |-> p,
   cell |-> [number |-> n, text |-> t]]

MCArrivals ==
  {Arrival(1, 2, 1, 2, 3), Arrival(1, 2, 2, 2, 3), Arrival(2, 1, 1, NoNumber, 2),
   Arrival(3, 2, 1, 10, 1)}

-----------------------------------------------------------------------------
SuiteInit ==
  /\ part \in Checked
  /\ IF part = "overlays" THEN TRUE ELSE view = "explorer" /\ text = "p"
  /\ OverlaysInit
  /\ IF part = "classes" THEN TRUE ELSE showSystem = FALSE
  /\ ListInit
  /\ PanesInit
  /\ TableInit

SuiteNext ==
  \/ /\ part = "overlays" /\ OverlaysNext
     /\ UNCHANGED <<part, listVars, paneVars, tableVars>>
  \/ /\ part = "classes" /\ ListNext
     /\ UNCHANGED <<part, overlayVars, paneVars, tableVars>>
  \/ /\ part = "panes" /\ PanesNext
     /\ UNCHANGED <<part, overlayVars, listVars, tableVars>>
  \/ /\ part = "processes" /\ TableNext
     /\ UNCHANGED <<part, overlayVars, listVars, paneVars>>

Suite == SuiteInit /\ [][SuiteNext]_all

=============================================================================
