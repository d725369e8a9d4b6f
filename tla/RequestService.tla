--------------------------- MODULE RequestService ---------------------------
(***************************************************************************)
(* What the owner of a WmiWorker handle relies on, without channel, flags  *)
(* or thread.  Requests are numbered in the order they are submitted and   *)
(* are answered in that order, one answer each.  Closing drops whatever is *)
(* still waiting: at most the request that was already being served is     *)
(* answered after it.                                                      *)
(***************************************************************************)
EXTENDS Naturals

CONSTANT MaxRequests   (* bound: how many requests are submitted *)

VARIABLES
  submitted,   (* requests 1 .. submitted have been submitted              *)
  served,      (* requests 1 .. served have been answered                  *)
  phase        (* "open"; "closing": one answer may follow; "stopped"      *)

serviceVars == <<submitted, served, phase>>

Init == submitted = 0 /\ served = 0 /\ phase = "open"

Submit ==
  /\ submitted < MaxRequests
  /\ submitted' = submitted + 1
  /\ UNCHANGED <<served, phase>>

Answer ==
  /\ served < submitted /\ phase # "stopped"
  /\ served' = served + 1
  /\ phase' = IF phase = "closing" THEN "stopped" ELSE phase
  /\ UNCHANGED submitted

Close ==
  /\ phase = "open"
  /\ phase' \in {"closing", "stopped"}
  /\ UNCHANGED <<submitted, served>>

Next == Submit \/ Answer \/ Close

Spec == Init /\ [][Next]_serviceVars
=============================================================================
