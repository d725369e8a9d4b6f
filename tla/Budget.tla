------------------------------- MODULE Budget --------------------------------
(***************************************************************************)
(* What the enumerations of one request share (enumerate.rs): the          *)
(* CancelToken, whose flag another thread may raise at any moment, and the *)
(* deadline, which passes on its own.                                      *)
(***************************************************************************)

VARIABLES
  cancel,      (* is the token raised?                                     *)
  late         (* is the time spent?                                       *)

flags == <<cancel, late>>

FlagsDown == cancel = FALSE /\ late = FALSE

FlagsOK == cancel \in BOOLEAN /\ late \in BOOLEAN

Completions == {"complete", "cancelled", "timedout"}

RaiseFlag == ~cancel /\ cancel' = TRUE /\ UNCHANGED late

BudgetSpent == ~late /\ late' = TRUE /\ UNCHANGED cancel

(* How a drain() may end short of an error.                                *)
MayEnd(how) ==
  \/ how = "complete"
  \/ how = "cancelled" /\ cancel
  \/ how = "timedout" /\ late
=============================================================================
