------------------------------ MODULE SavedFile ------------------------------
(***************************************************************************)
(* What saving promises the user, without a clock, frames or a thread: a   *)
(* change of what is shown is put in line or owed, what is in line reaches *)
(* the file in that order and whole, and a new session shows what the file *)
(* keeps.                                                                  *)
(***************************************************************************)
EXTENDS Sequences

CONSTANT Empty   (* what a file that cannot be read gives                  *)

VARIABLES
  open,    (* a window is open                                             *)
  shown,   (* what it shows                                                *)
  owed,    (* what it shows has still to be put in line                    *)
  line,    (* what was asked of the disk, in order: {c} is to save c, and  *)
           (* {} a question to the user, which saves nothing               *)
  kept     (* what a new session would read from the file                  *)

fileVars == <<open, shown, owed, line, kept>>

Init == ~open /\ ~owed /\ line = <<>>

(* The user, or an answer, changes what is shown; or what is owed comes in *)
(* line.                                                                   *)
Change ==
  /\ open
  /\ \/ ~owed' /\ line' = Append(line, {shown'})
     \/ owed' /\ line' = line
  /\ UNCHANGED <<open, kept>>

Ask == open /\ line' = Append(line, {}) /\ UNCHANGED <<open, shown, owed, kept>>

(* A save empties the file first, and may leave it so.                     *)
Begin ==
  /\ open /\ line # <<>> /\ Head(line) # {}
  /\ kept' = Empty
  /\ UNCHANGED <<open, shown, owed, line>>

Done ==
  /\ open /\ line # <<>> /\ line' = Tail(line)
  /\ kept' = kept \/ Head(line) = {kept'}
  /\ UNCHANGED <<open, shown, owed>>

(* What is in line goes with the window.                                   *)
Die == open /\ ~open' /\ line' = <<>> /\ UNCHANGED <<shown, owed, kept>>

Start ==
  /\ ~open /\ open' /\ ~owed'
  /\ shown' = kept /\ line' \in {<<>>, <<{shown'}>>}
  /\ UNCHANGED kept

Next == Change \/ Ask \/ Begin \/ Done \/ Die \/ Start

Spec == Init /\ [][Next]_fileVars
=============================================================================
