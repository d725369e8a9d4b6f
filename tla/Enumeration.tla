---------------------------- MODULE Enumeration ----------------------------
(***************************************************************************)
(* What a bounded, cancellable enumeration promises the code that asked    *)
(* for it, without batches: one answer, whose Completion tells the truth   *)
(* about the rows that come with it.                                       *)
(***************************************************************************)
EXTENDS Naturals

CONSTANTS
  Sources,   (* how many rows a provider may have                          *)
  Caps,      (* the row caps a caller may give: numbers, or NoCap          *)
  NoCap

VARIABLES
  source,    (* the rows this provider has                                 *)
  cap,       (* the caller's row cap                                       *)
  limited,   (* has the caller given a deadline?                           *)
  cancel,    (* is a cancellation flag up?                                 *)
  late,      (* has the deadline passed?                                   *)
  answer     (* none yet, or a number of rows and a Completion             *)

asked == <<source, cap, limited>>
enumVars == <<source, cap, limited, cancel, late, answer>>

NoAnswer == [rows |-> 0, completion |-> "none"]

Exceeds(n, c) == c # NoCap /\ n > c

Init ==
  /\ source \in Sources /\ cap \in Caps /\ limited \in BOOLEAN
  /\ cancel \in BOOLEAN /\ late = FALSE
  /\ answer = NoAnswer

Cancel == cancel' = TRUE /\ UNCHANGED <<asked, late, answer>>

Expire == limited /\ late' = TRUE /\ UNCHANGED <<asked, cancel, answer>>

(* A complete answer is every row the provider has; a truncated one is the *)
(* cap, with more to be had; a cancelled or timed-out one has some of the  *)
(* rows, within the cap, and the reason it gives is real.  An error can    *)
(* come at any time and brings no rows.                                    *)
Truthful(a) ==
  \/ a.completion = "complete"  /\ a.rows = source /\ ~Exceeds(source, cap)
  \/ a.completion = "truncated" /\ a.rows = cap /\ Exceeds(source, cap)
  \/ a.completion = "cancelled" /\ cancel /\ a.rows <= source /\ ~Exceeds(a.rows, cap)
  \/ a.completion = "timedout" /\ late /\ a.rows <= source /\ ~Exceeds(a.rows, cap)
  \/ a.completion = "error" /\ a.rows = 0

Answer ==
  /\ answer = NoAnswer
  /\ Truthful(answer')
  /\ UNCHANGED <<asked, cancel, late>>

Next == Cancel \/ Expire \/ Answer

Spec == Init /\ [][Next]_enumVars
=============================================================================
