------------------------------- MODULE MCAnswers -------------------------------
(***************************************************************************)
(* Small instances, for one run, of the views that ask machines and wait:  *)
(* the machine table, the event monitor, the live panels and the method    *)
(* calls.  A behaviour is of one of them, its part; the others stay where  *)
(* they begin.                                                             *)
(***************************************************************************)
EXTENDS Machines, EventMonitor, LivePanels, Invoke

CONSTANTS
  Checked,
  here, m1, m2,                          (* machines: this one and others   *)
  make, stop                             (* methods                         *)

VARIABLE part

all == <<part, machineVars, eventVars, panelVars, callVars>>

-----------------------------------------------------------------------------
MCKeys == {here, m1, m2}
MCHosts == {m1, m2}

(* An intrinsic query with an interval and an extrinsic one; a log of one. *)
Bare(t) == [text |-> t, quoted |-> FALSE]
Creation == <<Bare("select"), Bare("from"), Bare("creation"), Bare("within"), Bare("1")>>
Push == <<Bare("select"), Bare("from"), Bare("push")>>
MCBoxes == {Creation, Push}
MCPreferred == <<"Name">>

(* A static method of one class has the name of the other's instance       *)
(* method; one is static in truth and not in its schema.                   *)
MCDeclared ==
  [c \in {m1, m2} |->
    IF c = m1 THEN [m \in {make} |-> [shown |-> TRUE, static |-> TRUE]]
    ELSE [m \in {make, stop} |-> [shown |-> FALSE, static |-> m = make]]]

-----------------------------------------------------------------------------
SuiteInit ==
  /\ part \in Checked
  /\ IF part = "machines" THEN TRUE ELSE saved = [k \in {} |-> FALSE]
  /\ MachinesInit
  /\ IF part = "events" THEN TRUE ELSE box = Push
  /\ EventsInit
  /\ IF part = "panels" THEN TRUE ELSE polling = FALSE /\ bound = m1
  /\ PanelsInit
  /\ CallsInit

SuiteNext ==
  \/ /\ part = "machines" /\ MachinesNext
     /\ UNCHANGED <<part, eventVars, panelVars, callVars>>
  \/ /\ part = "events" /\ EventsNext
     /\ UNCHANGED <<part, machineVars, panelVars, callVars>>
  \/ /\ part = "panels" /\ PanelsNext
     /\ UNCHANGED <<part, machineVars, eventVars, callVars>>
  \/ /\ part = "calls" /\ CallsNext
     /\ UNCHANGED <<part, machineVars, eventVars, panelVars>>

Suite == SuiteInit /\ [][SuiteNext]_all
=============================================================================
