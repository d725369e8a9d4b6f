------------------------------ MODULE MCProgress ------------------------------
(***************************************************************************)
(* Small instances, for one run, of what must keep moving: the drain loop, *)
(* the process monitor, the comparison, and the library with its file.  A  *)
(* behaviour is of one of them, its part; the others stay where they begin.*)
(***************************************************************************)
EXTENDS Drain, ProcessMonitor, Compare, Library

CONSTANTS Checked, here, h1, alt, q1, q2, blank, nobody, ps, none, cim, sub, nospace, srv

VARIABLE part

all == <<part, vars, monitorVars, compareVars, libraryVars>>

-----------------------------------------------------------------------------
(* Batches of two: fewer rows and more than every cap, caps below, at and  *)
(* above a batch.                                                          *)
MCSources == 0 .. 6
MCCaps == {none} \cup 0 .. 5

(* Two processes with one pid; an event may be delivered twice.            *)
MCPids == {4}
MCPidOf == <<4, 4>>
Once == [k \in 1 .. MaxProcs |-> {1}]
FirstTwice == [k \in 1 .. MaxProcs |-> IF k = 1 THEN {1, 2} ELSE {1}]

(* This machine, another one, and one that needs a password.               *)
MCTargets == {here, h1, alt}

Card(n, f, s) ==
  [name |-> n, wql |-> ps, ns |-> nospace, folder |-> f, fav |-> s, metrics |-> {}]

Fresh == [version |-> 2, history |-> <<>>, saved |-> <<>>, targets |-> <<>>, prefs |-> 0]

(* No file, one that is cut short, one of a session that saved, starred,   *)
(* ran and connected, and one of the first version.                        *)
Files ==
  {{}, {[Fresh EXCEPT !.version = 0]},
   {[Fresh EXCEPT !.saved = <<Card(2, 0, TRUE), Card(1, 1, FALSE)>>,
       !.history = <<[wql |-> ps, ns |-> cim, run |-> 0, metrics |-> {}]>>,
       !.targets = <<[key |-> srv, seen |-> TRUE]>>]},
   {[Fresh EXCEPT !.version = 1,
       !.history = <<[wql |-> ps, ns |-> nospace, run |-> 0, metrics |-> {}]>>]}}

(* A library with a blank name, a name twice, and both of the names.       *)
Import == <<Card(0, 0, FALSE), Card(2, 1, FALSE), Card(1, 0, FALSE), Card(2, 0, TRUE)>>

MCImports == {Import}

-----------------------------------------------------------------------------
SuiteInit ==
  /\ part \in Checked
  /\ Init /\ MonitorInit /\ CompareInit /\ LibraryInit
  /\ part # "drain" => source = 0 /\ cap = none /\ ~limited /\ ~cancel
  /\ part # "compare" => editor = q1
  /\ part # "library" => disk = {}

DrainStep ==
  /\ part = "drain" /\ Next
  /\ UNCHANGED <<part, monitorVars, compareVars, libraryVars>>

ProcessesStep ==
  /\ part = "processes" /\ MonitorNext
  /\ UNCHANGED <<part, vars, compareVars, libraryVars>>

CompareStep ==
  /\ part = "compare" /\ CompareNext
  /\ UNCHANGED <<part, vars, monitorVars, libraryVars>>

LibraryStep ==
  /\ part = "library" /\ LibraryNext
  /\ UNCHANGED <<part, vars, monitorVars, compareVars>>

SuiteNext == DrainStep \/ ProcessesStep \/ CompareStep \/ LibraryStep

Suite == SuiteInit /\ [][SuiteNext]_all

(* The schedulers of the four: threads run, workers answer, frames are    *)
(* drawn and time passes.                                                  *)
FairSuite ==
  /\ Suite
  /\ WF_vars(part = "drain" /\ Loop) /\ WF_vars(part = "drain" /\ DeadlinePasses)
  /\ WF_monitorVars(part = "processes" /\ Pump)
  /\ WF_monitorVars(part = "processes" /\ Details)
  /\ WF_monitorVars(part = "processes" /\ Poll)
  /\ WF_monitorVars(part = "processes" /\ Join)
  /\ WF_compareVars(part = "compare" /\ PollReplies)
  /\ \A t \in {here, h1} : WF_compareVars(part = "compare" /\ Serve(t))
  /\ WF_libraryVars(part = "library" /\ EndFrame)
  /\ WF_libraryVars(part = "library" /\ WakeUp)
  /\ WF_libraryVars(part = "library" /\ Tick)
=============================================================================
