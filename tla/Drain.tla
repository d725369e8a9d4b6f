-------------------------------- MODULE Drain --------------------------------
(***************************************************************************)
(* One call of drain() (enumerate.rs): the loop every query, class list    *)
(* and count of the tool runs through.  It pulls rows from a provider in   *)
(* batches until the provider is dry, the row cap is exceeded, a flag is   *)
(* up or the deadline has passed, and then says which of these it was.     *)
(*                                                                         *)
(* Rows have no identity here: the provider hands out `source` of them, in *)
(* order, and the loop holds the first `taken`.                            *)
(***************************************************************************)
EXTENDS Integers

CONSTANTS
  Sources,     (* how many rows a provider may have                        *)
  Caps,        (* the row caps a caller may give: numbers, or NoCap        *)
  NoCap,
  BatchSize    (* BATCH_SIZE, the most rows one Next() call asks for       *)

ASSUME DrainAssumption ==
  /\ Sources \subseteq Nat
  /\ NoCap \notin Nat /\ Caps \subseteq Nat \cup {NoCap}
  /\ BatchSize \in Nat \ {0}

VARIABLES
  (* -- the call, and what surrounds it ---------------------------------- *)
  source,    (* the rows this provider has                                 *)
  cap,       (* max_rows                                                   *)
  limited,   (* is there a deadline?                                       *)
  cancel,    (* is one of the token's two flags up?                        *)
  late,      (* has the deadline passed?                                   *)
  (* -- its locals ------------------------------------------------------- *)
  pc,        (* "turn": the top of the loop; "next": in Next(); "settle";  *)
             (* "done"                                                     *)
  taken,     (* rows.len()                                                 *)
  want,      (* the size of the batch asked for                            *)
  why,       (* cancelled and timed_out: what stopped the loop, or "none"  *)
  answer     (* what drain() returned                                      *)

asked == <<source, cap, limited>>
world == <<source, cap, limited, cancel, late>>
vars  == <<source, cap, limited, cancel, late, pc, taken, want, why, answer>>

Completions == {"none", "complete", "truncated", "cancelled", "timedout", "error"}
NoAnswer == [rows |-> 0, completion |-> "none"]

Least(a, b) == IF a <= b THEN a ELSE b

Exceeds(n, c) == c # NoCap /\ n > c

-----------------------------------------------------------------------------
(* A token may be up before the loop starts: the cancel was quicker.       *)
Init ==
  /\ source \in Sources /\ cap \in Caps /\ limited \in BOOLEAN
  /\ cancel \in BOOLEAN /\ late = FALSE
  /\ pc = "turn" /\ taken = 0 /\ want = 0 /\ why = "none" /\ answer = NoAnswer

(* The flags and the clock belong to others.                               *)
RaiseFlag ==
  /\ ~cancel /\ cancel' = TRUE
  /\ UNCHANGED <<asked, late, pc, taken, want, why, answer>>

DeadlinePasses ==
  /\ limited /\ ~late /\ late' = TRUE
  /\ UNCHANGED <<asked, cancel, pc, taken, want, why, answer>>

-----------------------------------------------------------------------------
(* Mutants of Satisfied, BatchWanted and StopReason: satisfied without the  *)
(* probe row, or only after a look at the flag; a cap that does not bound  *)
(* the batch, or bounds it one row short; no clock.                        *)
SatisfiedAtCap(n) == cap # NoCap /\ n >= cap
SatisfiedUnlessCancelled(n) == ~cancel /\ Exceeds(n, cap)
BatchUncapped(n) == BatchSize
BatchUnprobed(n) == IF cap = NoCap THEN BatchSize ELSE Least(cap - n, BatchSize)
StopOnFlagOnly == IF cancel THEN "cancelled" ELSE "none"

(* next_batch(): the loop is satisfied by one row more than the cap, and   *)
(* asks for that row to know whether there is one.                         *)
Satisfied(n) == Exceeds(n, cap)
BatchWanted(n) == IF cap = NoCap THEN BatchSize ELSE Least(cap - n + 1, BatchSize)

(* The flags come before the deadline.                                     *)
StopReason == CASE cancel -> "cancelled"
                [] ~cancel /\ limited /\ late -> "timedout"
                [] OTHER -> "none"

(* The top of the loop, and the cap comes before both.                     *)
Turn ==
  /\ pc = "turn"
  /\ \/ Satisfied(taken) /\ pc' = "settle" /\ UNCHANGED <<want, why>>
     \/ /\ ~Satisfied(taken) /\ StopReason # "none"
        /\ pc' = "settle" /\ why' = StopReason /\ UNCHANGED want
     \/ /\ ~Satisfied(taken) /\ StopReason = "none"
        /\ pc' = "next" /\ want' = BatchWanted(taken) /\ UNCHANGED why
  /\ UNCHANGED <<world, taken, answer>>

(* IEnumWbemClassObject::Next: up to `want` rows.  S_FALSE (dry) is said   *)
(* with a short batch and nothing left behind it; a full batch, or one     *)
(* that is short because 200 ms have passed, may or may not be the last.   *)
ProviderNext(n, dry) ==
  /\ n <= want /\ taken + n <= source
  /\ dry => n < want /\ taken + n = source

(* Mutant of IsLast: a short batch is taken for the last one.              *)
ShortIsLast(n, dry) == n < want

IsLast(n, dry) == dry

Fetch ==
  /\ pc = "next"
  /\ \E n \in 0 .. want, dry \in BOOLEAN :
       /\ ProviderNext(n, dry)
       /\ taken' = taken + n
       /\ pc' = IF IsLast(n, dry) THEN "settle" ELSE "turn"
  /\ UNCHANGED <<world, want, why, answer>>

(* Next() or the conversion of a row fails: the rows read are given up.    *)
Fail ==
  /\ pc = "next"
  /\ pc' = "done" /\ answer' = [rows |-> 0, completion |-> "error"]
  /\ UNCHANGED <<world, taken, want, why>>

(* settle(): drop the probe row and name the outcome.                      *)
Settle ==
  /\ pc = "settle"
  /\ pc' = "done"
  /\ answer' =
       [rows |-> IF Exceeds(taken, cap) THEN cap ELSE taken,
        completion |-> IF why # "none" THEN why
                       ELSE IF Exceeds(taken, cap) THEN "truncated" ELSE "complete"]
  /\ UNCHANGED <<world, taken, want, why>>

Loop == Turn \/ Fetch \/ Fail \/ Settle

Next == RaiseFlag \/ DeadlinePasses \/ Loop

Spec == Init /\ [][Next]_vars

(* Next() comes back within its 200 ms, whatever the provider does, and    *)
(* the loop goes on; time passes.                                          *)
FairSpec == Spec /\ WF_vars(Loop) /\ WF_vars(DeadlinePasses)

-----------------------------------------------------------------------------
TypeOK ==
  /\ source \in Sources /\ cap \in Caps
  /\ limited \in BOOLEAN /\ cancel \in BOOLEAN /\ late \in BOOLEAN
  /\ pc \in {"turn", "next", "settle", "done"}
  /\ taken \in Nat /\ want \in Nat /\ why \in {"none", "cancelled", "timedout"}
  /\ answer \in [rows : Nat, completion : Completions]

(* Every Next() asks for at least one row and at most a batch -- asking    *)
(* for none would never be answered "dry" and the loop would spin -- and   *)
(* the rows asked for never go past one probe row beyond the cap: on some  *)
(* providers each row is expensive.                                        *)
BatchInBounds ==
  pc = "next" =>
    /\ want \in 1 .. BatchSize
    /\ cap # NoCap => taken + want <= cap + 1

(* What the comment on drain() says of its order of checks: a query whose  *)
(* cap is known to be exceeded is reported truncated even when the flag is *)
(* up or the deadline has passed by then.                                  *)
CapBeatsCancel ==
  pc = "done" /\ Exceeds(taken, cap) /\ answer.completion # "error"
  => answer.completion = "truncated"

(* The loop ends: a deadline or a cancel ends it however slowly the        *)
(* provider yields.                                                        *)
DrainEnds == (limited \/ cancel) ~> pc = "done"

(* The batches implement one truthful answer (Enumeration): "complete" is  *)
(* never said of a short result, however batches, caps, flags and deadline *)
(* interleave.                                                             *)
Promise == INSTANCE Enumeration
EnumerationSpec == Promise!Spec

-----------------------------------------------------------------------------
(* What the locals mean, which makes the promise inductive.                *)
LoopInv ==
  /\ pc # "done" => taken <= source /\ answer = NoAnswer
  /\ pc = "next" => BatchInBounds /\ ~Exceeds(taken, cap)
  /\ cap # NoCap => taken <= cap + 1
  /\ pc \in {"turn", "next"} => why = "none"
  /\ pc \in {"settle", "done"} /\ why = "none" /\ answer.completion # "error" =>
       Exceeds(taken, cap) \/ taken = source
  /\ why # "none" => ~Exceeds(taken, cap)
  /\ why = "cancelled" => cancel
  /\ why = "timedout" => late
  /\ late => limited

DrainInv == TypeOK /\ LoopInv /\ CapBeatsCancel
=============================================================================
