---------------------------- MODULE ThreadsProofs ----------------------------
(***************************************************************************)
(* Two loops of the core crate that feed the window.                       *)
(*                                                                         *)
(* The drain of an enumeration, for any provider, cap and batch size: the  *)
(* loop invariant, and that the batches implement one truthful answer.     *)
(*                                                                         *)
(* The process trace, for any processes, pids, deliveries, caps and        *)
(* numbers of monitors: the history is accounted for, the index finds each *)
(* row, the details are of their process, no live row is dropped.          *)
(***************************************************************************)
EXTENDS Drain, ProcessMonitor, RetainProofs

-----------------------------------------------------------------------------
(*                       The drain of an enumeration                       *)

(* What Caps and NoCap give a proof: a cap that is not NoCap is a number.  *)
LEMMA CapIsNumber ==
  ASSUME cap \in Caps, cap # NoCap
  PROVE  cap \in Nat
BY DrainAssumption

(* A batch is at least one row, at most BatchSize, and never reaches past  *)
(* the probe row, as long as the loop is not satisfied.                    *)
LEMMA BatchIsInBounds ==
  ASSUME cap \in Caps, taken \in Nat, ~Satisfied(taken)
  PROVE  /\ BatchWanted(taken) \in 1 .. BatchSize
         /\ cap # NoCap => taken + BatchWanted(taken) <= cap + 1
<1>1. CASE cap = NoCap
  BY <1>1, DrainAssumption DEF BatchWanted
<1>2. CASE cap # NoCap
  <2>1. cap \in Nat /\ taken <= cap /\ BatchSize \in Nat \ {0}
    BY <1>2, CapIsNumber, DrainAssumption DEF Satisfied, Exceeds
  <2>2. BatchWanted(taken) = Least(cap - taken + 1, BatchSize)
    BY <1>2 DEF BatchWanted
  <2> QED
    BY <2>1, <2>2 DEF Least
<1> QED
  BY <1>1, <1>2

(* The invariant holds before the loop starts.                             *)
LEMMA InitInvariant == Init => DrainInv
<1> SUFFICES ASSUME Init PROVE DrainInv
    OBVIOUS
<1>1. TypeOK
  BY DEF Init, TypeOK, NoAnswer, Completions
<1>2. cap # NoCap => cap \in Nat
  BY CapIsNumber DEF Init
<1>3. source \in Nat /\ taken = 0
  BY DrainAssumption DEF Init
<1> QED
  BY <1>1, <1>2, <1>3 DEF Init, DrainInv, LoopInv, CapBeatsCancel, Exceeds

(* Each step keeps the invariant.                                          *)
LEMMA NextInvariant == DrainInv /\ [Next]_vars => DrainInv'
<1> SUFFICES ASSUME DrainInv, [Next]_vars PROVE DrainInv'
    OBVIOUS
<1> USE DEF DrainInv, TypeOK, LoopInv, BatchInBounds, CapBeatsCancel, Completions, world, asked
<1>n. cap # NoCap => cap \in Nat
  BY CapIsNumber
<1>1. CASE RaiseFlag
  BY <1>1 DEF RaiseFlag, Exceeds
<1>2. CASE DeadlinePasses
  BY <1>2 DEF DeadlinePasses, Exceeds
<1>3. CASE Turn
  <2>1. CASE Satisfied(taken)
    BY <1>3, <2>1, <1>n DEF Turn, Satisfied, Exceeds, NoAnswer
  <2>2. CASE ~Satisfied(taken) /\ StopReason # "none"
    <3>1. /\ pc' = "settle" /\ why' = StopReason /\ pc = "turn"
          /\ UNCHANGED <<source, cap, limited, cancel, late, want, taken, answer>>
      BY <1>3, <2>2 DEF Turn
    <3>2. \/ StopReason = "cancelled" /\ cancel
          \/ StopReason = "timedout" /\ late
      BY <2>2 DEF StopReason
    <3> QED
      BY <3>1, <3>2, <2>2, <1>n DEF Satisfied, Exceeds, NoAnswer
  <2>3. CASE ~Satisfied(taken) /\ StopReason = "none"
    <3>1. /\ pc' = "next" /\ want' = BatchWanted(taken) /\ pc = "turn"
          /\ UNCHANGED <<source, cap, limited, cancel, late, why, taken, answer>>
      BY <1>3, <2>3 DEF Turn
    <3>2. /\ want' \in 1 .. BatchSize
          /\ cap # NoCap => taken + want' <= cap + 1
      BY <3>1, <2>3, BatchIsInBounds
    <3> QED
      BY <3>1, <3>2, <2>3, <1>n, DrainAssumption DEF Satisfied, Exceeds, NoAnswer
  <2> QED
    BY <2>1, <2>2, <2>3
<1>4. CASE Fetch
  <2>1. PICK n \in 0 .. want, dry \in BOOLEAN :
          /\ n <= want /\ taken + n <= source
          /\ dry => n < want /\ taken + n = source
          /\ taken' = taken + n
          /\ pc' = IF dry THEN "settle" ELSE "turn"
    BY <1>4 DEF Fetch, ProviderNext, IsLast
  <2>2. pc = "next" /\ UNCHANGED <<source, cap, limited, cancel, late, want, why, answer>>
    BY <1>4 DEF Fetch
  <2> QED
    BY <2>1, <2>2, <1>n, DrainAssumption DEF Exceeds, NoAnswer
<1>5. CASE Fail
  BY <1>5, <1>n DEF Fail, Exceeds
<1>6. CASE Settle
  BY <1>6, <1>n, DrainAssumption DEF Settle, Exceeds, NoAnswer
<1>7. CASE UNCHANGED vars
  BY <1>7 DEF vars, Exceeds
<1> QED
  BY <1>1, <1>2, <1>3, <1>4, <1>5, <1>6, <1>7 DEF Next, Loop

(* The loop invariant holds in every reachable state.                      *)
THEOREM LoopInvariant == Spec => []DrainInv
<1>1. Init => DrainInv
  BY InitInvariant
<1>2. DrainInv /\ [Next]_vars => DrainInv'
  BY NextInvariant
<1> QED
  BY <1>1, <1>2, PTL DEF Spec

(* Every batch asks for at least one row and for at most one past the cap. *)
THEOREM BatchesInBounds == Spec => []BatchInBounds
<1>1. DrainInv => BatchInBounds
  BY DEF DrainInv, LoopInv, BatchInBounds
<1> QED
  BY <1>1, LoopInvariant, PTL

(* A query known to exceed its cap is reported truncated, whatever flag    *)
(* is up by then.                                                          *)
THEOREM CapComesFirst == Spec => []CapBeatsCancel
<1>1. DrainInv => CapBeatsCancel
  BY DEF DrainInv
<1> QED
  BY <1>1, LoopInvariant, PTL

-----------------------------------------------------------------------------
(* Settling gives a truthful answer.                                       *)
LEMMA SettleIsTruthful ==
  ASSUME DrainInv, Settle
  PROVE  Promise!Answer
<1>n. cap # NoCap => cap \in Nat
  BY CapIsNumber DEF DrainInv, TypeOK
<1>1. /\ answer = NoAnswer
      /\ UNCHANGED <<source, cap, limited, cancel, late>>
      /\ answer' = [rows |-> IF Exceeds(taken, cap) THEN cap ELSE taken,
                    completion |-> IF why # "none" THEN why
                                   ELSE IF Exceeds(taken, cap) THEN "truncated" ELSE "complete"]
  BY DEF Settle, DrainInv, LoopInv, world
<1>2. /\ taken <= source /\ taken \in Nat /\ source \in Nat
      /\ why = "none" => Exceeds(taken, cap) \/ taken = source
      /\ why # "none" => ~Exceeds(taken, cap)
      /\ why = "cancelled" => cancel
      /\ why = "timedout" => late
      /\ why \in {"none", "cancelled", "timedout"}
  BY DrainAssumption DEF Settle, DrainInv, TypeOK, LoopInv, NoAnswer
<1>3. Promise!Truthful(answer')
  <2>1. CASE why = "none" /\ Exceeds(taken, cap)
    BY <2>1, <1>1, <1>2, <1>n DEF Promise!Truthful, Promise!Exceeds, Exceeds
  <2>2. CASE why = "none" /\ ~Exceeds(taken, cap)
    BY <2>2, <1>1, <1>2 DEF Promise!Truthful, Promise!Exceeds, Exceeds
  <2>3. CASE why = "cancelled"
    BY <2>3, <1>1, <1>2 DEF Promise!Truthful, Promise!Exceeds, Exceeds
  <2>4. CASE why = "timedout"
    BY <2>4, <1>1, <1>2 DEF Promise!Truthful, Promise!Exceeds, Exceeds
  <2> QED
    BY <1>2, <2>1, <2>2, <2>3, <2>4
<1>4. answer = Promise!NoAnswer
  BY <1>1 DEF NoAnswer, Promise!NoAnswer
<1> QED
  BY <1>1, <1>3, <1>4 DEF Promise!Answer, Promise!asked

(* Every step is one of the promise's, or none.                            *)
LEMMA StepImplements == DrainInv /\ [Next]_vars => [Promise!Next]_(Promise!enumVars)
<1> SUFFICES ASSUME DrainInv, [Next]_vars
             PROVE  Promise!Next \/ UNCHANGED <<asked, cancel, late, answer>>
    BY DEF Promise!enumVars, Promise!asked, asked
<1>1. CASE RaiseFlag
  BY <1>1 DEF RaiseFlag, asked, Promise!Next, Promise!Cancel, Promise!asked
<1>2. CASE DeadlinePasses
  BY <1>2 DEF DeadlinePasses, asked, Promise!Next, Promise!Expire, Promise!asked
<1>3. CASE Turn \/ Fetch
  BY <1>3 DEF Turn, Fetch, world, asked
<1>4. CASE Fail
  BY <1>4 DEF Fail, world, DrainInv, LoopInv, NoAnswer, Promise!Next, Promise!Answer,
              Promise!asked, Promise!NoAnswer, Promise!Truthful
<1>5. CASE Settle
  BY <1>5, SettleIsTruthful DEF Promise!Next
<1>6. CASE UNCHANGED vars
  BY <1>6 DEF vars, asked
<1> QED
  BY <1>1, <1>2, <1>3, <1>4, <1>5, <1>6 DEF Next, Loop

(* drain() implements Enumeration: "complete" is said only of every row,   *)
(* "truncated" only when there is more, and the other reasons are real.    *)
THEOREM ImplementsEnumeration == Spec => EnumerationSpec
<1>1. Init => Promise!Init
  BY DEF Init, Promise!Init, NoAnswer, Promise!NoAnswer
<1>2. DrainInv /\ [Next]_vars => [Promise!Next]_(Promise!enumVars)
  BY StepImplements
<1> QED
  BY <1>1, <1>2, LoopInvariant, PTL DEF Spec, EnumerationSpec, Promise!Spec

-----------------------------------------------------------------------------
(*                          The log, as a value                            *)

(* A log with rows of a set, and one whose seq index is right.             *)
IsLog(h, R) ==
  /\ h = [rows |-> h.rows, index |-> h.index, bySeq |-> h.bySeq, dropped |-> h.dropped]
  /\ h.rows \in Seq(R) /\ h.dropped \in Nat

Indexed(h) ==
  /\ DOMAIN h.bySeq = Seqs(h.rows)
  /\ \A s \in DOMAIN h.bySeq : h.bySeq[s] = LastOf(h.rows, s)

(* g has rows of h, and all that are alive.                                *)
Follows(g, h) ==
  /\ \A i \in DOMAIN h.rows : Alive(h.rows[i]) => \E j \in DOMAIN g.rows : g.rows[j] = h.rows[i]
  /\ \A j \in DOMAIN g.rows : \E i \in DOMAIN h.rows : g.rows[j] = h.rows[i]

LEMMA EndedArePositions ==
  ASSUME NEW rows, NEW n
  PROVE  /\ Ended(rows) \in SUBSET DOMAIN rows /\ Oldest(Evictable(rows), n) \in SUBSET DOMAIN rows
         /\ \A i \in DOMAIN rows : Alive(rows[i]) => i \notin Ended(rows) /\ i \notin Oldest(Evictable(rows), n)
BY DEF Ended, Evictable, Oldest

(* What is left when rows have gone, and the log is indexed anew.          *)
Left(h, gone, d) == [Reindexed(h, Without(h.rows, gone)) EXCEPT !.dropped = d]

NoneAlive(h, gone) ==
  /\ gone \in SUBSET DOMAIN h.rows
  /\ \A i \in DOMAIN h.rows : Alive(h.rows[i]) => i \notin gone

Leaves(h, gone, d, R, g) ==
  /\ IsLog(g, R) /\ Indexed(g) /\ Follows(g, h)
  /\ g.index = {} /\ g.dropped = d
  /\ Cardinality(gone) \in Nat /\ Len(g.rows) = Len(h.rows) - Cardinality(gone)

LEMMA ReindexedIs ==
  ASSUME NEW R, NEW h, NEW gone, NEW d \in Nat, IsLog(h, R), NoneAlive(h, gone)
  PROVE  Leaves(h, gone, d, R, Left(h, gone, d))
<1> DEFINE left == Without(h.rows, gone)
           seqs == [s \in Seqs(left) |-> LastOf(left, s)]
           g == Left(h, gone, d)
<1>1. /\ left \in Seq(R) /\ Cardinality(gone) \in Nat
      /\ Len(left) = Len(h.rows) - Cardinality(gone)
      /\ \A i \in DOMAIN h.rows \ gone : \E j \in DOMAIN left : left[j] = h.rows[i]
      /\ \A j \in DOMAIN left : \E i \in DOMAIN h.rows \ gone : left[j] = h.rows[i]
  BY WithoutKeeps DEF IsLog, NoneAlive
<1> HIDE DEF left
<1>2. g = [rows |-> left, index |-> {}, bySeq |-> seqs, dropped |-> d]
  <2>1. g = [[rows |-> left, index |-> {}, bySeq |-> seqs, dropped |-> h.dropped]
             EXCEPT !.dropped = d]
    BY DEF Left, Reindexed, left
  <2> HIDE DEF seqs, g
  <2> QED
    BY <2>1
<1> HIDE DEF g
<1>3. g.rows = left /\ g.index = {} /\ g.bySeq = seqs /\ g.dropped = d
  BY <1>2
<1>4. IsLog(g, R)
  BY <1>1, <1>2, <1>3 DEF IsLog
<1>5. Indexed(g)
  BY <1>3 DEF Indexed
<1>6. Follows(g, h)
  BY <1>1, <1>3 DEF Follows, NoneAlive
<1>7. IsLog(g, R) /\ Indexed(g) /\ Follows(g, h)
      /\ g.index = {} /\ g.dropped = d
      /\ Cardinality(gone) \in Nat /\ Len(g.rows) = Len(h.rows) - Cardinality(gone)
  BY <1>1, <1>3, <1>4, <1>5, <1>6
<1> QED
  BY <1>7 DEF g, Leaves

(* evict() takes no live row, and counts what it takes.                    *)
LEMMA EvictKeeps ==
  ASSUME NEW R, NEW h, IsLog(h, R), Indexed(h)
  PROVE  /\ IsLog(Evict(h), R) /\ Indexed(Evict(h)) /\ Follows(Evict(h), h)
         /\ Evict(h).index \subseteq h.index
         /\ Len(Evict(h).rows) + Evict(h).dropped = Len(h.rows) + h.dropped
<1> DEFINE gone == Oldest(Evictable(h.rows), Len(h.rows) - MaxRows)
           d == h.dropped + Cardinality(gone)
           g == Left(h, gone, d)
<1>1. NoneAlive(h, gone)
  BY EndedArePositions, Zenon DEF NoneAlive
<1>2. CASE gone = {}
  <2>1. Evict(h) = h
    BY <1>2 DEF Evict
  <2>2. Follows(h, h)
    BY DEF Follows
  <2> QED
    BY <2>1, <2>2
<1>3. CASE gone # {}
  <2>1. Evict(h) = g
    <3>1. Reindexed(h, Without(h.rows, gone)).dropped = h.dropped
      BY DEF Reindexed, IsLog
    <3> QED
      BY <1>3, <3>1 DEF Evict, Left
  <2> HIDE DEF gone
  <2>2. Cardinality(gone) \in Nat /\ h.rows \in Seq(R) /\ h.dropped \in Nat
    BY <1>1, WithoutKeeps DEF IsLog, NoneAlive
  <2>3. d \in Nat
    BY <2>2
  <2> HIDE DEF d
  <2>4. Leaves(h, gone, d, R, g)
    BY <1>1, <2>3, ReindexedIs, Zenon
  <2>5. Len(h.rows) \in Nat
    BY <2>2
  <2> HIDE DEF g
  <2>6. Len(g.rows) + g.dropped = Len(h.rows) + h.dropped
    BY <2>2, <2>4, <2>5 DEF d, Leaves
  <2> QED
    BY <2>1, <2>4, <2>6 DEF Leaves
<1> QED
  BY <1>2, <1>3

(* The rows of a log when the processes of P have been started.            *)
RowsOf(P) ==
  [proc : P, pid : Pids, seq : Nat, ended : P \cup {NoProc},
   detail : [arrived : BOOLEAN, of : P \cup {NoProc}, cmd : P \cup {NoProc}]]

LEMMA AppendIndexes ==
  ASSUME NEW R, NEW h, IsLog(h, R), Indexed(h), NEW row \in R, NEW g,
         g.rows = Append(h.rows, row),
         g.bySeq = [s \in DOMAIN h.bySeq \cup {row.seq} |->
                      IF s = row.seq THEN Len(h.rows) + 1 ELSE h.bySeq[s]]
  PROVE  Indexed(g)
<1> DEFINE n == Len(h.rows)
           all(s) == {i \in DOMAIN g.rows : g.rows[i].seq = s}
           old(s) == {i \in DOMAIN h.rows : h.rows[i].seq = s}
<1>1. /\ n \in Nat /\ DOMAIN h.rows = 1 .. n /\ DOMAIN g.rows = 1 .. (n + 1)
      /\ \A i \in 1 .. n : g.rows[i] = h.rows[i]
      /\ g.rows[n + 1] = row
  BY DEF IsLog
<1>2. DOMAIN g.bySeq = Seqs(g.rows)
  <2>1. \A s : s \in Seqs(g.rows) <=> s \in Seqs(h.rows) \/ s = row.seq
    BY <1>1 DEF Seqs
  <2> QED
    BY <2>1 DEF Indexed
<1>3. ASSUME NEW s \in DOMAIN g.bySeq PROVE g.bySeq[s] = LastOf(g.rows, s)
  <2>1. CASE s = row.seq
    <3>1. n + 1 \in all(s) /\ \A i \in all(s) : i <= n + 1
      BY <1>1, <2>1
    <3>2. all(s) \in SUBSET Int
      BY <1>1
    <3> HIDE DEF all
    <3>3. Max(all(s)) = n + 1
      BY <3>1, <3>2, MaxIs
    <3> QED
      BY <2>1, <3>3 DEF LastOf, all
  <2>2. CASE s # row.seq
    <3>1. all(s) = old(s)
      BY <1>1, <2>2
    <3>2. s \in DOMAIN h.bySeq /\ g.bySeq[s] = h.bySeq[s]
      BY <2>2
    <3>3. h.bySeq[s] = LastOf(h.rows, s)
      BY <3>2 DEF Indexed
    <3> QED
      BY <3>1, <3>2, <3>3 DEF LastOf
  <2> QED
    BY <2>1, <2>2
<1> QED
  BY <1>2, <1>3 DEF Indexed

(* start() of a process that has no row gives it one, or evicts it.        *)
LEMMA StartKeeps ==
  ASSUME NEW R, NEW h, IsLog(h, R), Indexed(h), NEW s, NEW pid, NEW proc,
         NewRow(s, pid, proc) \in R, proc \notin h.index
  PROVE  /\ IsLog(Start(h, s, pid, proc), R) /\ Indexed(Start(h, s, pid, proc))
         /\ Start(h, s, pid, proc).index \subseteq h.index \cup {proc}
         /\ Len(Start(h, s, pid, proc).rows) + Start(h, s, pid, proc).dropped
              = Len(h.rows) + h.dropped + 1
         /\ \A i \in DOMAIN h.rows : Alive(h.rows[i]) =>
              \E j \in DOMAIN Start(h, s, pid, proc).rows :
                Start(h, s, pid, proc).rows[j] = h.rows[i]
         /\ \A j \in DOMAIN Start(h, s, pid, proc).rows :
              \/ Start(h, s, pid, proc).rows[j] = NewRow(s, pid, proc)
              \/ \E i \in DOMAIN h.rows : Start(h, s, pid, proc).rows[j] = h.rows[i]
<1> DEFINE row == NewRow(s, pid, proc)
           rows == Append(h.rows, row)
           bySeq == [t \in DOMAIN h.bySeq \cup {s} |->
                       IF t = s THEN Len(h.rows) + 1 ELSE h.bySeq[t]]
           mid == [rows |-> rows, index |-> h.index \cup {proc}, bySeq |-> bySeq,
                   dropped |-> h.dropped]
           g == Start(h, s, pid, proc)
<1>1. g = Evict(mid)
  BY DEF Start
<1>2. row \in R /\ row.seq = s
  BY DEF NewRow
<1> HIDE DEF row
<1>3. /\ rows \in Seq(R) /\ Len(rows) = Len(h.rows) + 1 /\ Len(h.rows) \in Nat
      /\ \A i \in DOMAIN h.rows : i \in DOMAIN rows /\ rows[i] = h.rows[i]
      /\ \A j \in DOMAIN rows : rows[j] = row \/ (j \in DOMAIN h.rows /\ rows[j] = h.rows[j])
  BY <1>2 DEF IsLog
<1>4. mid.rows = rows /\ mid.index = h.index \cup {proc} /\ mid.dropped = h.dropped
      /\ mid.bySeq = bySeq
      /\ mid = [rows |-> mid.rows, index |-> mid.index, bySeq |-> mid.bySeq, dropped |-> mid.dropped]
  OBVIOUS
<1>5. Indexed(mid)
  <2>1. mid.bySeq = [t \in DOMAIN h.bySeq \cup {row.seq} |->
                       IF t = row.seq THEN Len(h.rows) + 1 ELSE h.bySeq[t]]
    BY <1>2, <1>4
  <2>2. mid.rows = Append(h.rows, row)
    BY <1>4
  <2> HIDE DEF mid, rows, bySeq
  <2> QED
    BY <1>2, <2>1, <2>2, AppendIndexes
<1> HIDE DEF mid, rows, g
<1>6. IsLog(mid, R)
  BY <1>3, <1>4 DEF IsLog
<1>7. /\ IsLog(g, R) /\ Indexed(g) /\ Follows(g, mid) /\ g.index \subseteq mid.index
      /\ Len(g.rows) + g.dropped = Len(mid.rows) + mid.dropped
  BY <1>1, <1>5, <1>6, EvictKeeps, Zenon
<1>8. Len(g.rows) + g.dropped = Len(h.rows) + h.dropped + 1
  <2>1. Len(mid.rows) = Len(h.rows) + 1 /\ mid.dropped = h.dropped
    BY <1>3, <1>4, Zenon
  <2>2. h.dropped \in Nat /\ Len(h.rows) \in Nat
    BY <1>3 DEF IsLog
  <2>3. Len(g.rows) + g.dropped = Len(mid.rows) + mid.dropped
    BY <1>7
  <2> QED
    BY <2>1, <2>2, <2>3
<1>9. ASSUME NEW i \in DOMAIN h.rows, Alive(h.rows[i])
      PROVE  \E j \in DOMAIN g.rows : g.rows[j] = h.rows[i]
  <2>1. i \in DOMAIN mid.rows /\ mid.rows[i] = h.rows[i]
    BY <1>3, <1>4
  <2> QED
    BY <1>7, <1>9, <2>1 DEF Follows
<1>10. ASSUME NEW j \in DOMAIN g.rows
       PROVE  g.rows[j] = row \/ \E i \in DOMAIN h.rows : g.rows[j] = h.rows[i]
  <2>1. PICK i \in DOMAIN rows : g.rows[j] = rows[i]
    BY <1>4, <1>7 DEF Follows
  <2>2. rows[i] = row \/ (i \in DOMAIN h.rows /\ rows[i] = h.rows[i])
    BY <1>3, Zenon
  <2> QED
    BY <2>1, <2>2, Zenon
<1> QED
  BY <1>4, <1>7, <1>8, <1>9, <1>10 DEF g, row

(* g is h with another row in one place, of the same process and number.   *)
Retouched(g, h, k, row) ==
  g = [rows |-> [h.rows EXCEPT ![k] = row], index |-> h.index, bySeq |-> h.bySeq,
       dropped |-> h.dropped]

OneRowDiffers(g, h, k, row, R) ==
  /\ IsLog(g, R) /\ Indexed(g)
  /\ g.index = h.index /\ g.dropped = h.dropped /\ Len(g.rows) = Len(h.rows)
  /\ DOMAIN g.rows = DOMAIN h.rows /\ g.rows[k] = row
  /\ \A i \in DOMAIN h.rows : i # k => g.rows[i] = h.rows[i]

LEMMA RetouchKeeps ==
  ASSUME NEW R, NEW h, NEW g, IsLog(h, R), Indexed(h), NEW k \in DOMAIN h.rows, NEW row \in R,
         row.seq = h.rows[k].seq, Retouched(g, h, k, row)
  PROVE  OneRowDiffers(g, h, k, row, R)
<1> DEFINE rows == [h.rows EXCEPT ![k] = row]
<1>1. /\ rows \in Seq(R) /\ Len(rows) = Len(h.rows) /\ DOMAIN rows = DOMAIN h.rows
      /\ rows[k] = row
      /\ \A i \in DOMAIN h.rows : i # k => rows[i] = h.rows[i]
  BY DEF IsLog
<1> HIDE DEF rows
<1>2. g = [rows |-> rows, index |-> h.index, bySeq |-> h.bySeq, dropped |-> h.dropped]
  BY DEF Retouched, rows
<1>3. g.rows = rows /\ g.index = h.index /\ g.bySeq = h.bySeq /\ g.dropped = h.dropped
  BY <1>2
<1>4. IsLog(g, R)
  BY <1>1, <1>2, <1>3 DEF IsLog
<1>5. \A i \in DOMAIN h.rows : rows[i].seq = h.rows[i].seq
  BY <1>1
<1>6. Seqs(rows) = Seqs(h.rows) /\ \A s : LastOf(rows, s) = LastOf(h.rows, s)
  <2>1. ASSUME NEW s PROVE {i \in DOMAIN rows : rows[i].seq = s} = {i \in DOMAIN h.rows : h.rows[i].seq = s}
    BY <1>1, <1>5
  <2>2. ASSUME NEW s PROVE LastOf(rows, s) = LastOf(h.rows, s)
    BY <2>1 DEF LastOf
  <2>3. \A s : s \in Seqs(rows) <=> s \in Seqs(h.rows)
    BY <1>1, <1>5 DEF Seqs
  <2> QED
    BY <2>2, <2>3
<1>7. Indexed(g)
  BY <1>3, <1>6 DEF Indexed
<1> QED
  BY <1>1, <1>3, <1>4, <1>7 DEF OneRowDiffers

(* g is h with one row closed at most.                                     *)
Closes(g, h, P) ==
  /\ IsLog(g, RowsOf(P)) /\ Indexed(g)
  /\ g.index = h.index /\ g.dropped = h.dropped
  /\ Len(g.rows) = Len(h.rows) /\ DOMAIN g.rows = DOMAIN h.rows
  /\ \A i \in DOMAIN h.rows :
       /\ g.rows[i].proc = h.rows[i].proc /\ g.rows[i].seq = h.rows[i].seq
       /\ g.rows[i].detail = h.rows[i].detail

(* stop() closes one row at most, and changes nothing else of it.          *)
LEMMA StopKeeps ==
  ASSUME NEW P \in SUBSET Nat, NEW h, IsLog(h, RowsOf(P)), Indexed(h), NEW pid, NEW proc \in P
  PROVE  Closes(Stop(h, pid, proc), h, P)
<1> DEFINE live == {i \in DOMAIN h.rows : h.rows[i].pid = pid /\ Alive(h.rows[i])}
           k == Max(live)
           row == [h.rows[k] EXCEPT !.ended = proc]
           g == Stop(h, pid, proc)
<1>1. CASE live = {}
  <2>1. g = h
    BY <1>1 DEF Stop
  <2> QED
    BY <2>1 DEF Closes
<1>2. CASE live # {}
  <2>1. k \in DOMAIN h.rows
    <3>1. h.rows \in Seq(RowsOf(P))
      BY DEF IsLog
    <3>2. IsFiniteSet(DOMAIN h.rows) /\ DOMAIN h.rows \in SUBSET Int
      BY <3>1, PositionsAreFinite
    <3>3. live \in SUBSET DOMAIN h.rows
      OBVIOUS
    <3>4. live \in SUBSET Int /\ IsFiniteSet(live)
      BY <3>2, <3>3, FS_Subset
    <3> HIDE DEF live
    <3>5. Max(live) \in live
      BY <1>2, <3>4, MaxIsTheLast
    <3> QED
      BY <3>3, <3>5
  <2>2. g = [h EXCEPT !.rows[k].ended = proc]
    BY <1>2 DEF Stop
  <2> HIDE DEF k
  <2>3. h.rows[k] \in RowsOf(P)
    BY <2>1 DEF IsLog
  <2>4. row \in RowsOf(P) /\ row.seq = h.rows[k].seq /\ row.proc = h.rows[k].proc
        /\ row.detail = h.rows[k].detail
    BY <2>3 DEF RowsOf
  <2>5. Retouched(g, h, k, row)
    <3>1. PICK a, b, c, d : h = [rows |-> a, index |-> b, bySeq |-> c, dropped |-> d]
      BY DEF IsLog
    <3>2. g = [rows |-> [a EXCEPT ![k].ended = proc], index |-> b, bySeq |-> c, dropped |-> d]
      BY <2>2, <3>1
    <3> QED
      BY <3>1, <3>2 DEF Retouched
  <2> HIDE DEF row, g
  <2>6. OneRowDiffers(g, h, k, row, RowsOf(P))
    BY <2>1, <2>4, <2>5, RetouchKeeps, Zenon
  <2> QED
    BY <2>4, <2>6 DEF g, OneRowDiffers, Closes
<1> QED
  BY <1>1, <1>2

(* g is h with these details on one row at most, which has that number.    *)
Attaches(g, h, P, s, of, cmd) ==
  /\ IsLog(g, RowsOf(P)) /\ Indexed(g)
  /\ g.index = h.index /\ g.dropped = h.dropped
  /\ Len(g.rows) = Len(h.rows) /\ DOMAIN g.rows = DOMAIN h.rows
  /\ \A i \in DOMAIN h.rows :
       /\ g.rows[i].proc = h.rows[i].proc /\ g.rows[i].seq = h.rows[i].seq
       /\ \/ g.rows[i].detail = h.rows[i].detail
          \/ /\ h.rows[i].seq = s
             /\ g.rows[i].detail = [arrived |-> TRUE, of |-> of, cmd |-> cmd]

(* attach() gives details to one row at most, and to one of their number.  *)
LEMMA AttachKeeps ==
  ASSUME NEW P \in SUBSET Nat, NEW h, IsLog(h, RowsOf(P)), Indexed(h), NEW s,
         NEW of \in P \cup {NoProc}, NEW cmd \in P \cup {NoProc}
  PROVE  Attaches(Attach(h, s, of, cmd), h, P, s, of, cmd)
<1> DEFINE k == h.bySeq[s]
           detail == [arrived |-> TRUE, of |-> of, cmd |-> cmd]
           row == [h.rows[k] EXCEPT !.detail = detail]
           g == Attach(h, s, of, cmd)
<1>1. CASE s \notin DOMAIN h.bySeq
  <2>1. g = h
    BY <1>1 DEF Attach
  <2> QED
    BY <2>1 DEF Attaches
<1>2. CASE s \in DOMAIN h.bySeq
  <2>1. k \in DOMAIN h.rows /\ h.rows[k].seq = s
    <3> DEFINE of_ == {i \in DOMAIN h.rows : h.rows[i].seq = s}
    <3>1. h.rows \in Seq(RowsOf(P))
      BY DEF IsLog
    <3>2. IsFiniteSet(DOMAIN h.rows) /\ DOMAIN h.rows \in SUBSET Int
      BY <3>1, PositionsAreFinite
    <3>3. of_ \in SUBSET DOMAIN h.rows
      OBVIOUS
    <3>4. of_ \in SUBSET Int /\ IsFiniteSet(of_)
      BY <3>2, <3>3, FS_Subset
    <3>5. of_ # {} /\ k = Max(of_)
      BY <1>2 DEF Indexed, Seqs, LastOf
    <3>6. Max(of_) \in of_
      <4> HIDE DEF of_
      <4> QED
        BY <3>4, <3>5, MaxIsTheLast
    <3> QED
      BY <3>5, <3>6
  <2>2. g = [h EXCEPT !.rows[k].detail = detail]
    BY <1>2 DEF Attach
  <2>3. detail \in [arrived : BOOLEAN, of : P \cup {NoProc}, cmd : P \cup {NoProc}]
    OBVIOUS
  <2> HIDE DEF k, detail
  <2>4. h.rows[k] \in RowsOf(P)
    BY <2>1 DEF IsLog
  <2>5. row \in RowsOf(P) /\ row.seq = h.rows[k].seq /\ row.proc = h.rows[k].proc
        /\ row.detail = detail
    BY <2>3, <2>4 DEF RowsOf
  <2>6. Retouched(g, h, k, row)
    <3>1. PICK a, b, c, d : h = [rows |-> a, index |-> b, bySeq |-> c, dropped |-> d]
      BY DEF IsLog
    <3>2. g = [rows |-> [a EXCEPT ![k].detail = detail], index |-> b, bySeq |-> c, dropped |-> d]
      BY <2>2, <3>1
    <3> QED
      BY <3>1, <3>2 DEF Retouched
  <2> HIDE DEF row, g
  <2>7. OneRowDiffers(g, h, k, row, RowsOf(P))
    BY <2>1, <2>5, <2>6, RetouchKeeps, Zenon
  <2> QED
    BY <2>1, <2>5, <2>7 DEF g, detail, OneRowDiffers, Attaches
<1> QED
  BY <1>1, <1>2

(* clear_ended() starts the count of what was dropped anew.                *)
LEMMA ClearKeeps ==
  ASSUME NEW R, NEW h, IsLog(h, R), Indexed(h)
  PROVE  /\ IsLog(ClearEnded(h), R) /\ Indexed(ClearEnded(h)) /\ Follows(ClearEnded(h), h)
         /\ ClearEnded(h).index = {} /\ ClearEnded(h).dropped = 0
<1> DEFINE gone == Ended(h.rows)
<1>1. NoneAlive(h, gone)
  BY EndedArePositions, Zenon DEF NoneAlive
<1>2. ClearEnded(h) = Left(h, gone, 0)
  BY DEF ClearEnded, Left
<1>3. 0 \in Nat
  OBVIOUS
<1> HIDE DEF gone
<1>4. Leaves(h, gone, 0, R, Left(h, gone, 0))
  BY <1>1, <1>3, ReindexedIs, Zenon
<1> QED
  BY <1>2, <1>4 DEF Leaves

-----------------------------------------------------------------------------
(*                   Queues, and the types of what they hold               *)

Job(n) == [seq : 1 .. n, kind : {"start", "stop"}, proc : Processes]
Message(n) ==
  [what : {"start", "stop", "details"}, seq : 1 .. n, of : Processes,
   cmd : Processes \cup {NoProc}]

LEMMA SeqOfMore ==
  ASSUME NEW S, NEW T, S \subseteq T, NEW s \in Seq(S)
  PROVE  s \in Seq(T)
OBVIOUS

(* u is s with t behind it.                                                *)
Joins(u, s, t) ==
  /\ \A i \in DOMAIN s : i \in DOMAIN u /\ u[i] = s[i]
  /\ \A i \in DOMAIN t : Len(s) + i \in DOMAIN u /\ u[Len(s) + i] = t[i]
  /\ \A k \in DOMAIN u :
       \/ k \in DOMAIN s /\ u[k] = s[k]
       \/ k - Len(s) \in DOMAIN t /\ u[k] = t[k - Len(s)]

LEMMA Joined ==
  ASSUME NEW S, NEW s \in Seq(S), NEW t \in Seq(S)
  PROVE  s \o t \in Seq(S) /\ Joins(s \o t, s, t)
BY DEF Joins

LEMMA TailOf ==
  ASSUME NEW S, NEW q \in Seq(S), q # <<>>
  PROVE  /\ Head(q) \in S /\ Tail(q) \in Seq(S) /\ 1 \in DOMAIN q /\ Head(q) = q[1]
         /\ \A k \in DOMAIN Tail(q) : k + 1 \in DOMAIN q /\ Tail(q)[k] = q[k + 1]
         /\ \A k \in DOMAIN q : k = 1 \/ (k - 1 \in DOMAIN Tail(q) /\ Tail(q)[k - 1] = q[k])
OBVIOUS

(* Later numbers are numbers.                                              *)
LEMMA LaterNumbers ==
  ASSUME NEW n \in Nat, NEW m \in Nat, n <= m
  PROVE  Job(n) \subseteq Job(m) /\ Message(n) \subseteq Message(m)
BY DEF Job, Message

(* Nothing is claimed that was not: the numbers stay those of one process. *)
LEMMA NoNewClaims ==
  ASSUME OneProcessPerNumber, monitors' = monitors, seq' = seq,
         \A c \in Claims' : c \in Claims
  PROVE  OneProcessPerNumber'
BY DEF OneProcessPerNumber

(* What a step adds to the claims, queue by queue.                         *)
LEMMA ClaimIs ==
  ASSUME NEW c
  PROVE  c \in Claims <=>
           \/ \E i \in DOMAIN jobs : c = [seq |-> jobs[i].seq, of |-> jobs[i].proc]
           \/ \E i \in DOMAIN chan : c = [seq |-> chan[i].seq, of |-> chan[i].of]
           \/ \E i \in DOMAIN log.rows : c = [seq |-> log.rows[i].seq, of |-> log.rows[i].proc]
BY DEF Claims

(* The events of a batch are numbered, sent and queued; each number is of  *)
(* one event.                                                              *)
LEMMA SendAllKeeps ==
  ASSUME MonitorInv, NEW kind \in {"start", "stop"}, NEW q \in Seq(Processes), SendAll(kind, q),
         UNCHANGED <<log, monitors, started>>
  PROVE  /\ seq' \in Nat /\ jobs' \in Seq(Job(seq')) /\ chan' \in Seq(Message(seq'))
         /\ \A i \in DOMAIN chan : i \in DOMAIN chan' /\ chan'[i] = chan[i]
         /\ \A i \in DOMAIN q : \E j \in DOMAIN chan' : chan'[j].what = kind /\ chan'[j].of = q[i]
         /\ OneProcessPerNumber' /\ CommandsAreTheirOwn'
<1> DEFINE n == Len(q)
           sends == [i \in DOMAIN q |-> [what |-> kind, seq |-> seq + i, of |-> q[i], cmd |-> NoProc]]
           takes == [i \in DOMAIN q |-> [seq |-> seq + i, kind |-> kind, proc |-> q[i]]]
<1>1. seq' = seq + n /\ chan' = chan \o sends /\ jobs' = jobs \o takes
  BY DEF SendAll, NumberOf
<1>2. seq \in Nat /\ jobs \in Seq(Job(seq)) /\ chan \in Seq(Message(seq)) /\ n \in Nat
      /\ DOMAIN q = 1 .. n
  BY DEF MonitorInv, TraceIsTrue, MonitorTypeOK, Job, Message
<1>3. seq' \in Nat /\ seq <= seq' /\ seq + n = seq'
  BY <1>1, <1>2
<1>4. \A i \in DOMAIN q : /\ sends[i] \in Message(seq') /\ takes[i] \in Job(seq')
                          /\ sends[i].what = kind /\ sends[i].of = q[i] /\ sends[i].seq = seq + i
                          /\ takes[i].proc = q[i] /\ takes[i].seq = seq + i
                          /\ seq + i > seq
  <2> SUFFICES ASSUME NEW i \in DOMAIN q
               PROVE  /\ sends[i] \in Message(seq') /\ takes[i] \in Job(seq')
                      /\ sends[i].what = kind /\ sends[i].of = q[i] /\ sends[i].seq = seq + i
                      /\ takes[i].proc = q[i] /\ takes[i].seq = seq + i
                      /\ seq + i > seq
    OBVIOUS
  <2>1. seq + i \in 1 .. seq' /\ seq + i > seq /\ q[i] \in Processes
    BY <1>2, <1>3
  <2> QED
    BY <2>1 DEF Message, Job
<1>5. /\ sends \in Seq(Message(seq')) /\ takes \in Seq(Job(seq'))
      /\ DOMAIN sends = DOMAIN q /\ DOMAIN takes = DOMAIN q
  <2>1. /\ sends = [i \in 1 .. n |-> sends[i]] /\ takes = [i \in 1 .. n |-> takes[i]]
        /\ DOMAIN sends = DOMAIN q /\ DOMAIN takes = DOMAIN q
    BY <1>2
  <2> DEFINE M == Message(seq')
             J == Job(seq')
  <2>2. \A i \in 1 .. n : sends[i] \in M /\ takes[i] \in J
    BY <1>2, <1>4
  <2> HIDE DEF sends, takes, M, J
  <2>3. sends \in Seq(M) /\ takes \in Seq(J)
    BY <1>2, <2>1, <2>2
  <2> QED
    BY <2>1, <2>3 DEF M, J
<1>6. jobs \in Seq(Job(seq')) /\ chan \in Seq(Message(seq'))
  <2>1. Job(seq) \subseteq Job(seq') /\ Message(seq) \subseteq Message(seq')
    BY <1>2, <1>3, LaterNumbers
  <2> QED
    BY <1>2, <2>1, SeqOfMore
<1> HIDE DEF sends, takes
<1>7. chan' \in Seq(Message(seq')) /\ Joins(chan', chan, sends)
  BY <1>1, <1>5, <1>6, Joined, Zenon
<1>8. jobs' \in Seq(Job(seq')) /\ Joins(jobs', jobs, takes)
  BY <1>1, <1>5, <1>6, Joined, Zenon
<1>9. ASSUME NEW i \in DOMAIN q
      PROVE  \E j \in DOMAIN chan' : chan'[j].what = kind /\ chan'[j].of = q[i]
  <2>1. Len(chan) + i \in DOMAIN chan' /\ chan'[Len(chan) + i] = sends[i]
    BY <1>5, <1>7 DEF Joins
  <2> QED
    BY <1>4, <2>1
<1>10. \A c \in Claims' :
         c \in Claims \/ \E i \in DOMAIN q : c = [seq |-> seq + i, of |-> q[i]]
  <2> SUFFICES ASSUME NEW c \in Claims', \A i \in DOMAIN q : c # [seq |-> seq + i, of |-> q[i]]
               PROVE  c \in Claims
    OBVIOUS
  <2>1. \/ \E i \in DOMAIN jobs' : c = [seq |-> jobs'[i].seq, of |-> jobs'[i].proc]
        \/ \E i \in DOMAIN chan' : c = [seq |-> chan'[i].seq, of |-> chan'[i].of]
        \/ \E i \in DOMAIN log.rows : c = [seq |-> log.rows[i].seq, of |-> log.rows[i].proc]
    BY DEF Claims
  <2>2. CASE \E i \in DOMAIN jobs' : c = [seq |-> jobs'[i].seq, of |-> jobs'[i].proc]
    <3>1. PICK i \in DOMAIN jobs' : c = [seq |-> jobs'[i].seq, of |-> jobs'[i].proc]
      BY <2>2
    <3>2. i \in DOMAIN jobs /\ jobs'[i] = jobs[i]
      <4>1. i - Len(jobs) \in DOMAIN takes => jobs'[i] # takes[i - Len(jobs)]
        BY <1>4, <1>5, <3>1
      <4> QED
        BY <1>8, <4>1 DEF Joins
    <3> QED
      BY <3>1, <3>2, ClaimIs
  <2>3. CASE \E i \in DOMAIN chan' : c = [seq |-> chan'[i].seq, of |-> chan'[i].of]
    <3>1. PICK i \in DOMAIN chan' : c = [seq |-> chan'[i].seq, of |-> chan'[i].of]
      BY <2>3
    <3>2. i \in DOMAIN chan /\ chan'[i] = chan[i]
      <4>1. i - Len(chan) \in DOMAIN sends => chan'[i] # sends[i - Len(chan)]
        BY <1>4, <1>5, <3>1
      <4> QED
        BY <1>7, <4>1 DEF Joins
    <3> QED
      BY <3>1, <3>2, ClaimIs
  <2> QED
    BY <2>1, <2>2, <2>3, ClaimIs
<1>11. OneProcessPerNumber'
  <2> SUFFICES ASSUME monitors <= 1
               PROVE  /\ \A c \in Claims' : c.seq <= seq'
                      /\ \A c, d \in Claims' : c.seq = d.seq => c.of = d.of
    BY DEF OneProcessPerNumber
  <2>1. /\ \A c \in Claims : c.seq <= seq /\ c.seq \in Int
        /\ \A c, d \in Claims : c.seq = d.seq => c.of = d.of
    <3>1. /\ \A i \in DOMAIN jobs : jobs[i] \in Job(seq)
          /\ \A i \in DOMAIN chan : chan[i] \in Message(seq)
          /\ \A i \in DOMAIN log.rows : log.rows[i] \in Row
      BY <1>2 DEF MonitorInv, TraceIsTrue, MonitorTypeOK
    <3>2. /\ \A i \in DOMAIN jobs : jobs[i].seq \in Int
          /\ \A i \in DOMAIN chan : chan[i].seq \in Int
          /\ \A i \in DOMAIN log.rows : log.rows[i].seq \in Int
      BY <3>1, <1>2 DEF Job, Message, Row
    <3>3. \A c \in Claims : c.seq \in Int
      BY <3>2 DEF Claims
    <3> QED
      BY <3>3 DEF MonitorInv, OneProcessPerNumber
  <2>2. \A c \in Claims' : c \in Claims \/ \E i \in 1 .. n : c = [seq |-> seq + i, of |-> q[i]]
    BY <1>2, <1>10
  <2>3. ASSUME NEW c \in Claims' PROVE c.seq <= seq'
    BY <1>2, <1>3, <2>1, <2>2
  <2>4. ASSUME NEW c \in Claims', NEW d \in Claims', c.seq = d.seq PROVE c.of = d.of
    <3>1. CASE c \in Claims /\ d \in Claims
      BY <2>1, <2>4, <3>1
    <3>2. CASE c \in Claims /\ d \notin Claims
      <4>1. PICK i \in 1 .. n : d = [seq |-> seq + i, of |-> q[i]]
        BY <2>2, <3>2
      <4>2. c.seq <= seq /\ c.seq = seq + i /\ c.seq \in Int
        BY <2>1, <2>4, <3>2, <4>1
      <4> QED
        BY <1>2, <4>2
    <3>3. CASE d \in Claims /\ c \notin Claims
      <4>1. PICK i \in 1 .. n : c = [seq |-> seq + i, of |-> q[i]]
        BY <2>2, <3>3
      <4>2. d.seq <= seq /\ d.seq = seq + i /\ d.seq \in Int
        BY <2>1, <2>4, <3>3, <4>1
      <4> QED
        BY <1>2, <4>2
    <3>4. CASE c \notin Claims /\ d \notin Claims
      <4>1. PICK i \in 1 .. n : c = [seq |-> seq + i, of |-> q[i]]
        BY <2>2, <3>4
      <4>2. PICK j \in 1 .. n : d = [seq |-> seq + j, of |-> q[j]]
        BY <2>2, <3>4
      <4>3. seq + i = seq + j
        BY <2>4, <4>1, <4>2
      <4>4. i = j
        BY <1>2, <4>3
      <4> QED
        BY <4>1, <4>2, <4>4
    <3> QED
      BY <3>1, <3>2, <3>3, <3>4
  <2> QED
    BY <2>3, <2>4
<1>12. CommandsAreTheirOwn'
  <2> SUFFICES ASSUME NEW k \in DOMAIN chan', chan'[k].what = "details"
               PROVE  chan'[k].cmd \in {NoProc, chan'[k].of}
    BY DEF CommandsAreTheirOwn
  <2>1. k \in DOMAIN chan /\ chan'[k] = chan[k]
    BY <1>4, <1>5, <1>7 DEF Joins
  <2> QED
    BY <2>1 DEF MonitorInv, CommandsAreTheirOwn
<1>13. \A i \in DOMAIN chan : i \in DOMAIN chan' /\ chan'[i] = chan[i]
  BY <1>7 DEF Joins
<1> QED
  BY <1>3, <1>7, <1>8, <1>9, <1>11, <1>12, <1>13

-----------------------------------------------------------------------------
(*                        The machine and the pump                         *)

LEMMA InvSays ==
  ASSUME MonitorInv
  PROVE  /\ started \in 0 .. MaxProcs /\ running \subseteq Processes
         /\ startQ \in Seq(Processes) /\ stopQ \in Seq(Processes)
         /\ pump \in {"none", "open", "half", "starts", "stops", "over"}
         /\ seq \in Nat /\ jobs \in Seq(Job(seq)) /\ chan \in Seq(Message(seq))
         /\ ui \in {"idle", "joining"} /\ monitors \in Nat
         /\ IsLog(log, RowsOf(Processes)) /\ Indexed(log)
         /\ log.index \subseteq Processes /\ log.index \subseteq logged
         /\ due \subseteq Processes /\ logged \subseteq Processes /\ pushed \in Nat
BY DEF MonitorInv, TraceIsTrue, MonitorTypeOK, IndexFindsRows, Indexed, IsLog, RowsOf, Row,
       Job, Message

(* The parts of the invariant that a step leaves to others.                *)
LEMMA LogUntouched ==
  ASSUME MonitorInv, UNCHANGED <<log, monitors, pushed, logged>>
  PROVE  /\ IndexFindsRows' /\ HistoryIsAccounted' /\ DetailsOfOwnProcess'
         /\ log'.index \subseteq logged'
BY DEF MonitorInv, TraceIsTrue, IndexFindsRows, HistoryIsAccounted, DetailsOfOwnProcess, DetailsMatch

(* u is q with e somewhere behind it.                                      *)
Queues(u, q, e, S) ==
  /\ u \in Seq(S)
  /\ \A i \in DOMAIN q : i \in DOMAIN u /\ u[i] = q[i]
  /\ \E i \in DOMAIN u : u[i] = e

LEMMA CopiesQueued ==
  ASSUME NEW S, NEW q \in Seq(S), NEW e \in S, NEW n \in Nat \ {0}
  PROVE  Queues(q \o Copies(n, e), q, e, S)
<1> DEFINE more == Copies(n, e)
           all == q \o more
<1>1. more \in Seq(S) /\ 1 \in DOMAIN more /\ more[1] = e
  <2>1. more = [i \in 1 .. n |-> e]
    BY DEF Copies
  <2> QED
    BY <2>1
<1> HIDE DEF more
<1>2. all \in Seq(S) /\ Joins(all, q, more)
  BY <1>1, Joined, Zenon
<1> HIDE DEF all
<1>3. Len(q) + 1 \in DOMAIN all /\ all[Len(q) + 1] = e
  BY <1>1, <1>2 DEF Joins
<1>4. \A i \in DOMAIN q : i \in DOMAIN all /\ all[i] = q[i]
  BY <1>2 DEF Joins
<1>5. Queues(all, q, e, S)
  BY <1>2, <1>3, <1>4 DEF Queues
<1> QED
  BY <1>5 DEF all, more

LEMMA StartProcessKeeps == MonitorInv /\ StartProcess => MonitorInv'
<1> SUFFICES ASSUME MonitorInv, StartProcess PROVE MonitorInv'
  OBVIOUS
<1> DEFINE k == started + 1
           P == Processes
<1>1. /\ started < MaxProcs /\ started' = k /\ running' = running \cup {k}
      /\ IF Listening("start")
         THEN /\ \E n \in Deliveries[k] : startQ' = startQ \o Copies(n, k)
              /\ due' = due \cup {k}
         ELSE startQ' = startQ /\ due' = due
      /\ UNCHANGED <<stopQ, pump, seq, jobs, chan, ui, log, monitors, logged, pushed>>
  BY DEF StartProcess, thread, gui
<1>2. /\ started \in 0 .. MaxProcs /\ running \subseteq P
      /\ startQ \in Seq(P) /\ stopQ \in Seq(P)
      /\ seq \in Nat /\ jobs \in Seq(Job(seq)) /\ chan \in Seq(Message(seq))
      /\ IsLog(log, RowsOf(P)) /\ log.index \subseteq P
      /\ due \subseteq P /\ logged \subseteq P
  BY InvSays
<1>3. k \in 1 .. MaxProcs /\ P' = P \cup {k} /\ P \subseteq P' /\ k \in P'
  BY <1>1, <1>2, MonitorAssumption DEF Processes
<1> HIDE DEF k, P
<1>4. Deliveries[k] \subseteq Nat \ {0}
  BY <1>3, MonitorAssumption
<1>5. startQ \in Seq(P') /\ stopQ \in Seq(P')
  BY <1>2, <1>3, SeqOfMore
<1>6. /\ startQ' \in Seq(P') /\ due' \subseteq P'
      /\ \A i \in DOMAIN startQ : i \in DOMAIN startQ' /\ startQ'[i] = startQ[i]
      /\ \A j \in due' : j \in due \/ \E i \in DOMAIN startQ' : startQ'[i] = j
      /\ ~Listening("start") => startQ' = startQ /\ due' = due
  <2>1. CASE Listening("start")
    <3>1. PICK n \in Deliveries[k] : startQ' = startQ \o Copies(n, k)
      BY <1>1, <2>1
    <3>2. n \in Nat \ {0}
      BY <1>4
    <3>3. Queues(startQ', startQ, k, P')
      BY <1>3, <1>5, <3>1, <3>2, CopiesQueued, Zenon
    <3>4. due' = due \cup {k}
      BY <1>1, <2>1
    <3> QED
      BY <1>2, <1>3, <2>1, <3>3, <3>4 DEF Queues
  <2>2. CASE ~Listening("start")
    BY <1>1, <1>2, <1>3, <1>5, <2>2
  <2> QED
    BY <2>1, <2>2
<1>7. Job(seq) \subseteq Job(seq)' /\ Message(seq) \subseteq Message(seq)'
      /\ RowsOf(P) \subseteq RowsOf(P')
  BY <1>1, <1>3 DEF Job, Message, RowsOf, P
<1>8. jobs' \in Seq(Job(seq)') /\ chan' \in Seq(Message(seq)') /\ log'.rows \in Seq(RowsOf(P'))
  <2>1. log.rows \in Seq(RowsOf(P))
    BY <1>2 DEF IsLog
  <2> QED
    BY <1>1, <1>2, <1>7, <2>1, SeqOfMore
<1>9. MonitorTypeOK'
  <2>1. started' \in 0 .. MaxProcs /\ running' \subseteq P'
    BY <1>1, <1>2, <1>3 DEF k
  <2>2. Row' = RowsOf(P') /\ P' = Processes'
    BY DEF Row, RowsOf, P
  <2>3. /\ jobs' \in Seq([seq : 1 .. seq', kind : {"start", "stop"}, proc : Processes'])
        /\ chan' \in Seq([what : {"start", "stop", "details"}, seq : 1 .. seq', of : Processes',
                          cmd : Processes' \cup {NoProc}])
    BY <1>1, <1>8 DEF Job, Message
  <2>4. log'.index \subseteq P' /\ logged' \subseteq P'
    BY <1>1, <1>2, <1>3
  <2> QED
    BY <1>1, <1>5, <1>6, <1>8, <2>1, <2>2, <2>3, <2>4
       DEF MonitorInv, TraceIsTrue, MonitorTypeOK
<1>10. NoStartLost'
  BY <1>1, <1>6 DEF MonitorInv, TraceIsTrue, NoStartLost
<1>11. NothingLeftOver'
  BY <1>1, <1>6 DEF MonitorInv, NothingLeftOver, Listening
<1>12. OneProcessPerNumber' /\ CommandsAreTheirOwn'
  BY <1>1 DEF MonitorInv, OneProcessPerNumber, CommandsAreTheirOwn, Claims
<1> QED
  BY <1>1, <1>9, <1>10, <1>11, <1>12, LogUntouched DEF MonitorInv, TraceIsTrue

LEMMA EndProcessKeeps ==
  ASSUME MonitorInv, NEW k \in running, EndProcess(k)
  PROVE  MonitorInv'
<1>1. /\ running' = running \ {k}
      /\ stopQ' = stopQ \/ (Listening("stop") /\ \E n \in Deliveries[k] : stopQ' = stopQ \o Copies(n, k))
      /\ UNCHANGED <<started, startQ, pump, seq, jobs, chan, ui, log, monitors, logged, pushed, due>>
  BY DEF EndProcess, thread, gui
<1>2. k \in Processes /\ k \in 1 .. MaxProcs /\ stopQ \in Seq(Processes)
  BY InvSays, MonitorAssumption DEF Processes
<1>3. Deliveries[k] \subseteq Nat \ {0}
  BY <1>2, MonitorAssumption
<1>4. stopQ' \in Seq(Processes)
  <2>1. ASSUME NEW n \in Deliveries[k], stopQ' = stopQ \o Copies(n, k) PROVE stopQ' \in Seq(Processes)
    <3>1. n \in Nat \ {0}
      BY <1>3
    <3> QED
      BY <1>2, <2>1, <3>1, CopiesQueued, Zenon DEF Queues
  <2> QED
    BY <1>1, <1>2, <2>1
<1>5. MonitorTypeOK'
  BY <1>1, <1>4 DEF MonitorInv, TraceIsTrue, MonitorTypeOK, Processes, Row
<1>6. NoStartLost'
  BY <1>1 DEF MonitorInv, TraceIsTrue, NoStartLost
<1>7. NothingLeftOver'
  BY <1>1 DEF MonitorInv, NothingLeftOver, Listening
<1>8. OneProcessPerNumber' /\ CommandsAreTheirOwn'
  BY <1>1 DEF MonitorInv, OneProcessPerNumber, CommandsAreTheirOwn, Claims
<1> QED
  BY <1>1, <1>5, <1>6, <1>7, <1>8, LogUntouched DEF MonitorInv, TraceIsTrue

(* Subscribing and failing move the pump, and nothing else.                *)
LEMMA PumpMovesKeeps == MonitorInv /\ (Subscribe \/ PumpFails) => MonitorInv'
<1> SUFFICES ASSUME MonitorInv, Subscribe \/ PumpFails PROVE MonitorInv'
  OBVIOUS
<1>1. /\ pump \in {"open", "half", "starts", "stops"}
      /\ pump' \in {"half", "starts", "over"}
      /\ UNCHANGED <<started, running, startQ, stopQ, seq, jobs, chan, ui, log, monitors, due,
                     logged, pushed>>
  BY DEF Subscribe, PumpFails, pumpFrame, machine, gui, subs
<1>2. MonitorTypeOK'
  BY <1>1 DEF MonitorInv, TraceIsTrue, MonitorTypeOK, Processes, Row
<1>3. NoStartLost'
  BY <1>1 DEF MonitorInv, TraceIsTrue, NoStartLost
<1>4. NothingLeftOver'
  BY <1>1 DEF MonitorInv, NothingLeftOver
<1>5. OneProcessPerNumber' /\ CommandsAreTheirOwn'
  BY <1>1 DEF MonitorInv, OneProcessPerNumber, CommandsAreTheirOwn, Claims
<1> QED
  BY <1>1, <1>2, <1>3, <1>4, <1>5, LogUntouched DEF MonitorInv, TraceIsTrue

(* All that is taken off a subscription is in the channel.                 *)
LEMMA TakeStartsKeeps == MonitorInv /\ TakeStarts => MonitorInv'
<1> SUFFICES ASSUME MonitorInv, TakeStarts PROVE MonitorInv'
  OBVIOUS
<1>1. CASE StopAsked
  <2>1. /\ pump = "starts" /\ pump' = "over"
        /\ UNCHANGED <<started, running, startQ, stopQ, seq, jobs, chan, ui, log, monitors, due,
                       logged, pushed>>
    BY <1>1 DEF TakeStarts, pumpFrame, machine, gui
  <2>2. PumpFails
    BY <2>1 DEF PumpFails, pumpFrame, machine, gui, subs
  <2> QED
    BY <2>2, PumpMovesKeeps
<1>2. CASE ~StopAsked
  <2>1. /\ pump = "starts" /\ pump' = "stops" /\ startQ' = <<>> /\ SendAll("start", startQ)
        /\ UNCHANGED <<started, running, stopQ, ui, log, monitors, due, logged, pushed>>
    BY <1>2 DEF TakeStarts, Taken, pumpFrame, machine, gui
  <2>2. startQ \in Seq(Processes)
    BY InvSays
  <2>3. /\ seq' \in Nat /\ jobs' \in Seq(Job(seq')) /\ chan' \in Seq(Message(seq'))
        /\ \A i \in DOMAIN chan : i \in DOMAIN chan' /\ chan'[i] = chan[i]
        /\ \A i \in DOMAIN startQ :
             \E j \in DOMAIN chan' : chan'[j].what = "start" /\ chan'[j].of = startQ[i]
        /\ OneProcessPerNumber' /\ CommandsAreTheirOwn'
    BY <2>1, <2>2, SendAllKeeps
  <2>4. MonitorTypeOK'
    BY <2>1, <2>3 DEF MonitorInv, TraceIsTrue, MonitorTypeOK, Processes, Row, Job, Message
  <2>5. NoStartLost'
    BY <2>1, <2>3 DEF MonitorInv, TraceIsTrue, NoStartLost
  <2>6. NothingLeftOver'
    BY <2>1 DEF MonitorInv, NothingLeftOver
  <2> QED
    BY <2>1, <2>3, <2>4, <2>5, <2>6, LogUntouched DEF MonitorInv, TraceIsTrue
<1> QED
  BY <1>1, <1>2

LEMMA TakeStopsKeeps == MonitorInv /\ TakeStops => MonitorInv'
<1> SUFFICES ASSUME MonitorInv, TakeStops PROVE MonitorInv'
  OBVIOUS
<1>1. /\ pump = "stops" /\ pump' = "starts" /\ stopQ' = <<>> /\ SendAll("stop", stopQ)
      /\ UNCHANGED <<started, running, startQ, ui, log, monitors, due, logged, pushed>>
  BY DEF TakeStops, Taken, pumpFrame, machine, gui
<1>2. stopQ \in Seq(Processes)
  BY InvSays
<1>3. /\ seq' \in Nat /\ jobs' \in Seq(Job(seq')) /\ chan' \in Seq(Message(seq'))
      /\ \A i \in DOMAIN chan : i \in DOMAIN chan' /\ chan'[i] = chan[i]
      /\ OneProcessPerNumber' /\ CommandsAreTheirOwn'
  BY <1>1, <1>2, SendAllKeeps
<1>4. MonitorTypeOK'
  BY <1>1, <1>3 DEF MonitorInv, TraceIsTrue, MonitorTypeOK, Processes, Row, Job, Message
<1>5. NoStartLost'
  BY <1>1, <1>3 DEF MonitorInv, TraceIsTrue, NoStartLost
<1>6. NothingLeftOver'
  BY <1>1 DEF MonitorInv, NothingLeftOver
<1> QED
  BY <1>1, <1>3, <1>4, <1>5, <1>6, LogUntouched DEF MonitorInv, TraceIsTrue

(* The answer says of its number what the job said.                        *)
LEMMA DetailsKeeps == MonitorInv /\ Details => MonitorInv'
<1> SUFFICES ASSUME MonitorInv, Details PROVE MonitorInv'
  OBVIOUS
<1> DEFINE job == Head(jobs)
<1>1. PICK cmd :
        /\ jobs # <<>> /\ jobs' = Tail(jobs)
        /\ cmd \in {NoProc, job.proc}
        /\ chan' = chan \o <<[what |-> "details", seq |-> job.seq, of |-> job.proc, cmd |-> cmd]>>
        /\ UNCHANGED <<started, running, startQ, stopQ, pump, seq, ui, log, monitors, due,
                       logged, pushed>>
  BY DEF Details, Answer, IdentityMatches, machine, subs, thread, gui
<1> DEFINE m == [what |-> "details", seq |-> job.seq, of |-> job.proc, cmd |-> cmd]
<1>2. /\ jobs \in Seq(Job(seq)) /\ chan \in Seq(Message(seq)) /\ seq \in Nat
  BY InvSays
<1>3. /\ job \in Job(seq) /\ jobs' \in Seq(Job(seq)) /\ 1 \in DOMAIN jobs /\ job = jobs[1]
      /\ \A i \in DOMAIN jobs' : i + 1 \in DOMAIN jobs /\ jobs'[i] = jobs[i + 1]
  BY <1>1, <1>2, TailOf
<1> HIDE DEF job
<1>4. m \in Message(seq) /\ m.what = "details" /\ m.of = job.proc /\ m.seq = job.seq /\ m.cmd = cmd
  BY <1>1, <1>3 DEF Message, Job
<1>5. chan' = chan \o <<m>>
  BY <1>1
<1> HIDE DEF m
<1>6. <<m>> \in Seq(Message(seq)) /\ DOMAIN <<m>> = {1} /\ <<m>>[1] = m
  BY <1>4
<1>7. chan' \in Seq(Message(seq)) /\ Joins(chan', chan, <<m>>)
  BY <1>2, <1>5, <1>6, Joined, Zenon
<1>8. /\ \A i \in DOMAIN chan : i \in DOMAIN chan' /\ chan'[i] = chan[i]
      /\ \A i \in DOMAIN chan' : (i \in DOMAIN chan /\ chan'[i] = chan[i]) \/ chan'[i] = m
  BY <1>6, <1>7 DEF Joins
<1>9. MonitorTypeOK'
  BY <1>1, <1>3, <1>7 DEF MonitorInv, TraceIsTrue, MonitorTypeOK, Processes, Row, Job, Message
<1>10. NoStartLost'
  BY <1>1, <1>8 DEF MonitorInv, TraceIsTrue, NoStartLost
<1>11. NothingLeftOver'
  BY <1>1 DEF MonitorInv, NothingLeftOver
<1>12. CommandsAreTheirOwn'
  BY <1>1, <1>4, <1>8 DEF MonitorInv, CommandsAreTheirOwn
<1>13. OneProcessPerNumber'
  <2>1. ASSUME NEW c \in Claims' PROVE c \in Claims
    <3>1. \/ \E i \in DOMAIN jobs' : c = [seq |-> jobs'[i].seq, of |-> jobs'[i].proc]
          \/ \E i \in DOMAIN chan' : c = [seq |-> chan'[i].seq, of |-> chan'[i].of]
          \/ \E i \in DOMAIN log.rows : c = [seq |-> log.rows[i].seq, of |-> log.rows[i].proc]
      BY <1>1, <2>1 DEF Claims
    <3>2. CASE \E i \in DOMAIN jobs' : c = [seq |-> jobs'[i].seq, of |-> jobs'[i].proc]
      BY <1>3, <3>2, ClaimIs
    <3>3. CASE \E i \in DOMAIN chan' : c = [seq |-> chan'[i].seq, of |-> chan'[i].of]
      <4>1. PICK i \in DOMAIN chan' : c = [seq |-> chan'[i].seq, of |-> chan'[i].of]
        BY <3>3
      <4>2. CASE i \in DOMAIN chan /\ chan'[i] = chan[i]
        BY <4>1, <4>2, ClaimIs
      <4>3. CASE chan'[i] = m
        <5>1. c = [seq |-> jobs[1].seq, of |-> jobs[1].proc]
          BY <1>3, <1>4, <4>1, <4>3
        <5> QED
          BY <1>3, <5>1, ClaimIs
      <4> QED
        BY <1>8, <4>2, <4>3
    <3> QED
      BY <3>1, <3>2, <3>3, ClaimIs
  <2> QED
    BY <1>1, <2>1, NoNewClaims DEF MonitorInv
<1> QED
  BY <1>1, <1>9, <1>10, <1>11, <1>12, <1>13, LogUntouched DEF MonitorInv, TraceIsTrue

-----------------------------------------------------------------------------
(*                                The view                                 *)

(* What drain_processes() makes of a message: rows of the same processes   *)
(* and numbers as before, or the one the message is of.                    *)
Drained(m) ==
  /\ IsLog(log', RowsOf(Processes)) /\ Indexed(log')
  /\ log'.index \subseteq log.index \cup {m.of} /\ log'.index \subseteq logged'
  /\ Len(log'.rows) + log'.dropped = pushed' /\ pushed' \in Nat
  /\ logged \subseteq logged' /\ logged' \subseteq logged \cup {m.of}
  /\ m.what = "start" => m.of \in logged'
  /\ \A j \in DOMAIN log'.rows :
       \/ /\ log'.rows[j].proc = m.of /\ log'.rows[j].seq = m.seq
          /\ ~log'.rows[j].detail.arrived
       \/ \E i \in DOMAIN log.rows :
            /\ log'.rows[j].proc = log.rows[i].proc /\ log'.rows[j].seq = log.rows[i].seq
            /\ \/ log'.rows[j].detail = log.rows[i].detail
               \/ /\ m.what = "details" /\ log.rows[i].seq = m.seq
                  /\ log'.rows[j].detail = [arrived |-> TRUE, of |-> m.of, cmd |-> m.cmd]
  /\ \A i \in DOMAIN log.rows : Alive(log.rows[i]) =>
       \E j \in DOMAIN log'.rows : log'.rows[j].proc = log.rows[i].proc

LEMMA PollDrains ==
  ASSUME MonitorInv, Poll
  PROVE  Drained(Head(chan))
<1> DEFINE m == Head(chan)
           P == Processes
<1>1. /\ chan # <<>>
      /\ log' = CASE m.what = "start" -> Start(log, m.seq, PidOf[m.of], m.of)
                  [] m.what = "stop" -> Stop(log, PidOf[m.of], m.of)
                  [] m.what = "details" -> Attach(log, m.seq, m.of, m.cmd)
      /\ IF m.what = "start" /\ m.of \notin log.index
         THEN pushed' = pushed + 1 /\ logged' = logged \cup {m.of}
         ELSE pushed' = pushed /\ logged' = logged
  BY DEF Poll
<1>2. /\ started \in 0 .. MaxProcs /\ chan \in Seq(Message(seq)) /\ seq \in Nat
      /\ IsLog(log, RowsOf(P)) /\ Indexed(log)
      /\ log.index \subseteq logged /\ pushed \in Nat
  BY InvSays
<1>3. m \in Message(seq)
  BY <1>1, <1>2, TailOf
<1> HIDE DEF m
<1>4. m.of \in P /\ m.seq \in Nat /\ m.cmd \in P \cup {NoProc}
      /\ m.what \in {"start", "stop", "details"}
  BY <1>2, <1>3 DEF Message
<1>5. P \in SUBSET Nat /\ PidOf[m.of] \in Pids
  BY <1>2, <1>4, MonitorAssumption DEF Processes
<1>6. Len(log.rows) + log.dropped = pushed
  BY DEF MonitorInv, TraceIsTrue, HistoryIsAccounted
<1> HIDE DEF P
<1>7. CASE m.what = "start" /\ m.of \in log.index
  <2>1. log' = log /\ pushed' = pushed /\ logged' = logged
    BY <1>1, <1>7 DEF Start
  <2> QED
    BY <1>2, <1>6, <1>7, <2>1 DEF Drained, m, P
<1>8. CASE m.what = "start" /\ m.of \notin log.index
  <2> DEFINE row == NewRow(m.seq, PidOf[m.of], m.of)
  <2>1. log' = Start(log, m.seq, PidOf[m.of], m.of)
        /\ pushed' = pushed + 1 /\ logged' = logged \cup {m.of}
    BY <1>1, <1>8
  <2>2. row \in RowsOf(P) /\ row.proc = m.of /\ row.seq = m.seq /\ ~row.detail.arrived
    BY <1>4, <1>5 DEF NewRow, RowsOf, Pending
  <2>3. /\ IsLog(log', RowsOf(P)) /\ Indexed(log') /\ log'.index \subseteq log.index \cup {m.of}
        /\ Len(log'.rows) + log'.dropped = Len(log.rows) + log.dropped + 1
        /\ \A i \in DOMAIN log.rows : Alive(log.rows[i]) =>
             \E j \in DOMAIN log'.rows : log'.rows[j] = log.rows[i]
        /\ \A j \in DOMAIN log'.rows :
             \/ log'.rows[j] = row
             \/ \E i \in DOMAIN log.rows : log'.rows[j] = log.rows[i]
    BY <1>2, <1>8, <2>1, <2>2, StartKeeps
  <2> HIDE DEF row
  <2>4. Len(log'.rows) + log'.dropped = pushed' /\ pushed' \in Nat
    BY <1>2, <1>6, <2>1, <2>3
  <2> QED
    BY <1>2, <1>8, <2>1, <2>2, <2>3, <2>4 DEF Drained, m, P
<1>9. CASE m.what = "stop"
  <2>1. log' = Stop(log, PidOf[m.of], m.of) /\ pushed' = pushed /\ logged' = logged
    BY <1>1, <1>9
  <2>2. Closes(log', log, P)
    BY <1>2, <1>4, <1>5, <2>1, StopKeeps, Zenon
  <2>3. Len(log'.rows) + log'.dropped = pushed' /\ pushed' \in Nat
    BY <1>2, <1>6, <2>1, <2>2 DEF Closes
  <2> QED
    BY <1>2, <1>9, <2>1, <2>2, <2>3 DEF Drained, Closes, m, P
<1>10. CASE m.what = "details"
  <2>1. log' = Attach(log, m.seq, m.of, m.cmd) /\ pushed' = pushed /\ logged' = logged
    BY <1>1, <1>10
  <2>2. Attaches(log', log, P, m.seq, m.of, m.cmd)
    BY <1>2, <1>4, <1>5, <2>1, AttachKeeps, Zenon
  <2>3. Len(log'.rows) + log'.dropped = pushed' /\ pushed' \in Nat
    BY <1>2, <1>6, <2>1, <2>2 DEF Attaches
  <2> QED
    BY <1>2, <1>10, <2>1, <2>2, <2>3 DEF Drained, Attaches, m, P
<1> QED
  BY <1>4, <1>7, <1>8, <1>9, <1>10 DEF m

LEMMA PollKeeps == MonitorInv /\ Poll => MonitorInv'
<1> SUFFICES ASSUME MonitorInv, Poll PROVE MonitorInv'
  OBVIOUS
<1> DEFINE m == Head(chan)
<1>1. /\ chan # <<>> /\ chan' = Tail(chan)
      /\ UNCHANGED <<started, running, startQ, stopQ, pump, seq, jobs, ui, monitors, due>>
  BY DEF Poll, machine, subs, thread
<1>2. Drained(m)
  BY PollDrains
<1>3. started \in 0 .. MaxProcs /\ chan \in Seq(Message(seq)) /\ seq \in Nat /\ logged \subseteq Processes
      /\ jobs \in Seq(Job(seq)) /\ log.index \subseteq Processes
  BY InvSays
<1>4. /\ m \in Message(seq) /\ chan' \in Seq(Message(seq)) /\ 1 \in DOMAIN chan /\ m = chan[1]
      /\ \A k \in DOMAIN chan' : k + 1 \in DOMAIN chan /\ chan'[k] = chan[k + 1]
      /\ \A k \in DOMAIN chan : k = 1 \/ (k - 1 \in DOMAIN chan' /\ chan'[k - 1] = chan[k])
  BY <1>1, <1>3, TailOf
<1> HIDE DEF m
<1>5. m.of \in Processes /\ m.seq \in Nat
  BY <1>3, <1>4 DEF Message
<1>6. MonitorTypeOK'
  <2>1. Row' = RowsOf(Processes) /\ Processes' = Processes
    BY <1>1 DEF Row, RowsOf, Processes
  <2>2. chan' \in Seq([what : {"start", "stop", "details"}, seq : 1 .. seq', of : Processes',
                       cmd : Processes' \cup {NoProc}])
    BY <1>1, <1>4, <2>1 DEF Message
  <2>3. /\ log' = [rows |-> log'.rows, index |-> log'.index, bySeq |-> log'.bySeq,
                   dropped |-> log'.dropped]
        /\ log'.rows \in Seq(Row') /\ log'.dropped \in Nat
    BY <1>2, <2>1 DEF Drained, IsLog
  <2>4. log'.index \subseteq Processes' /\ logged' \subseteq Processes' /\ pushed' \in Nat
    BY <1>2, <1>3, <1>5, <2>1 DEF Drained
  <2> QED
    BY <1>1, <2>1, <2>2, <2>3, <2>4 DEF MonitorInv, TraceIsTrue, MonitorTypeOK
<1>7. IndexFindsRows' /\ HistoryIsAccounted' /\ log'.index \subseteq logged'
  BY <1>2 DEF Drained, Indexed, IndexFindsRows, HistoryIsAccounted
<1>8. NoStartLost'
  <2> SUFFICES ASSUME pump \notin {"none", "over"}, NEW k \in due
               PROVE  \/ \E i \in DOMAIN startQ : startQ[i] = k
                      \/ \E i \in DOMAIN chan' : chan'[i].what = "start" /\ chan'[i].of = k
                      \/ k \in logged'
    BY <1>1 DEF NoStartLost
  <2>1. \/ \E i \in DOMAIN startQ : startQ[i] = k
        \/ \E i \in DOMAIN chan : chan[i].what = "start" /\ chan[i].of = k
        \/ k \in logged
    BY DEF MonitorInv, TraceIsTrue, NoStartLost
  <2>2. logged \subseteq logged' /\ (m.what = "start" => m.of \in logged')
    BY <1>2 DEF Drained
  <2>3. CASE \E i \in DOMAIN chan : chan[i].what = "start" /\ chan[i].of = k
    BY <1>4, <2>2, <2>3
  <2> QED
    BY <2>1, <2>2, <2>3
<1>9. ASSUME NEW c \in Claims' PROVE c \in Claims
  <2>1. \/ \E i \in DOMAIN jobs : c = [seq |-> jobs[i].seq, of |-> jobs[i].proc]
        \/ \E i \in DOMAIN chan' : c = [seq |-> chan'[i].seq, of |-> chan'[i].of]
        \/ \E i \in DOMAIN log'.rows : c = [seq |-> log'.rows[i].seq, of |-> log'.rows[i].proc]
    BY <1>1, <1>9 DEF Claims
  <2>2. CASE \E i \in DOMAIN chan' : c = [seq |-> chan'[i].seq, of |-> chan'[i].of]
    BY <1>4, <2>2, ClaimIs
  <2>3. CASE \E i \in DOMAIN log'.rows : c = [seq |-> log'.rows[i].seq, of |-> log'.rows[i].proc]
    <3>1. PICK j \in DOMAIN log'.rows : c = [seq |-> log'.rows[j].seq, of |-> log'.rows[j].proc]
      BY <2>3
    <3>2. \/ log'.rows[j].proc = m.of /\ log'.rows[j].seq = m.seq
          \/ \E i \in DOMAIN log.rows :
               log'.rows[j].proc = log.rows[i].proc /\ log'.rows[j].seq = log.rows[i].seq
      BY <1>2 DEF Drained
    <3>3. CASE log'.rows[j].proc = m.of /\ log'.rows[j].seq = m.seq
      BY <1>4, <3>1, <3>3, ClaimIs
    <3>4. CASE \E i \in DOMAIN log.rows :
               log'.rows[j].proc = log.rows[i].proc /\ log'.rows[j].seq = log.rows[i].seq
      BY <3>1, <3>4, ClaimIs
    <3> QED
      BY <3>2, <3>3, <3>4
  <2> QED
    BY <2>1, <2>2, <2>3, ClaimIs
<1>10. OneProcessPerNumber'
  BY <1>1, <1>9, NoNewClaims DEF MonitorInv
<1>11. CommandsAreTheirOwn'
  BY <1>4 DEF MonitorInv, CommandsAreTheirOwn
<1>12. DetailsOfOwnProcess'
  <2> SUFFICES ASSUME monitors = 1, NEW j \in DOMAIN log'.rows PROVE DetailsMatch(log'.rows[j])
    BY <1>1 DEF DetailsOfOwnProcess, DetailsMatch
  <2>1. \/ ~log'.rows[j].detail.arrived
        \/ \E i \in DOMAIN log.rows :
             /\ log'.rows[j].proc = log.rows[i].proc
             /\ \/ log'.rows[j].detail = log.rows[i].detail
                \/ /\ m.what = "details" /\ log.rows[i].seq = m.seq
                   /\ log'.rows[j].detail = [arrived |-> TRUE, of |-> m.of, cmd |-> m.cmd]
    BY <1>2 DEF Drained
  <2>2. CASE ~log'.rows[j].detail.arrived
    BY <2>2 DEF DetailsMatch
  <2>3. ASSUME NEW i \in DOMAIN log.rows, log'.rows[j].proc = log.rows[i].proc,
               log'.rows[j].detail = log.rows[i].detail
        PROVE  DetailsMatch(log'.rows[j])
    <3>1. DetailsMatch(log.rows[i])
      BY DEF MonitorInv, TraceIsTrue, DetailsOfOwnProcess
    <3> QED
      BY <2>3, <3>1 DEF DetailsMatch
  <2>4. ASSUME NEW i \in DOMAIN log.rows, log'.rows[j].proc = log.rows[i].proc,
               m.what = "details", log.rows[i].seq = m.seq,
               log'.rows[j].detail = [arrived |-> TRUE, of |-> m.of, cmd |-> m.cmd]
        PROVE  DetailsMatch(log'.rows[j])
    <3>1. m.cmd \in {NoProc, m.of}
      BY <1>4, <2>4 DEF MonitorInv, CommandsAreTheirOwn
    <3> DEFINE c == [seq |-> m.seq, of |-> m.of]
               d == [seq |-> log.rows[i].seq, of |-> log.rows[i].proc]
    <3>2. c \in Claims /\ d \in Claims
      BY <1>4, ClaimIs
    <3>3. c.seq = d.seq => c.of = d.of
      BY <3>2 DEF MonitorInv, OneProcessPerNumber
    <3>4. m.of = log.rows[i].proc
      BY <2>4, <3>3
    <3> QED
      BY <2>4, <3>1, <3>4 DEF DetailsMatch
  <2> QED
    BY <2>1, <2>2, <2>3, <2>4
<1>13. NothingLeftOver'
  <2>1. pump # "none"
    BY <1>1 DEF MonitorInv, NothingLeftOver
  <2> QED
    BY <1>1, <2>1 DEF MonitorInv, NothingLeftOver
<1> QED
  BY <1>6, <1>7, <1>8, <1>10, <1>11, <1>12, <1>13 DEF MonitorInv, TraceIsTrue

-----------------------------------------------------------------------------
(*                       Starting and stopping it                          *)

(* Numbers start again with each monitor: of the rows of one before, only  *)
(* those of the first are certain, and it had none.                        *)
LEMMA StartMonitorKeeps == MonitorInv /\ StartMonitor => MonitorInv'
<1> SUFFICES ASSUME MonitorInv, StartMonitor PROVE MonitorInv'
  OBVIOUS
<1>1. /\ pump = "none" /\ monitors' = monitors + 1 /\ pump' = "open" /\ seq' = 0
      /\ UNCHANGED <<started, running, startQ, stopQ, jobs, chan, ui, log, logged, pushed, due>>
  BY DEF StartMonitor, machine, subs
<1>2. /\ due = {} /\ startQ = <<>> /\ stopQ = <<>> /\ jobs = <<>> /\ chan = <<>>
      /\ monitors = 0 => log.rows = <<>>
  BY <1>1 DEF MonitorInv, NothingLeftOver
<1>3. monitors \in Nat
  BY InvSays
<1>4. MonitorTypeOK'
  <2>1. jobs' \in Seq([seq : 1 .. seq', kind : {"start", "stop"}, proc : Processes'])
        /\ chan' \in Seq([what : {"start", "stop", "details"}, seq : 1 .. seq', of : Processes',
                          cmd : Processes' \cup {NoProc}])
    BY <1>1, <1>2
  <2> QED
    BY SMTT(30), ZenonT(30), <1>1, <1>3, <2>1 DEF MonitorInv, TraceIsTrue, MonitorTypeOK, Processes, Row
<1>5. NoStartLost'
  BY <1>1, <1>2 DEF NoStartLost
<1>6. NothingLeftOver'
  BY <1>1, <1>3 DEF NothingLeftOver
<1>7. OneProcessPerNumber' /\ DetailsOfOwnProcess'
  <2>1. CASE monitors = 0
    <3>1. Claims' = {}
      BY <1>1, <1>2, <2>1 DEF Claims
    <3> QED
      BY <1>1, <1>2, <2>1, <3>1 DEF OneProcessPerNumber, DetailsOfOwnProcess
  <2>2. CASE monitors # 0
    BY <1>1, <1>3, <2>2 DEF OneProcessPerNumber, DetailsOfOwnProcess
  <2> QED
    BY <2>1, <2>2
<1>8. IndexFindsRows' /\ HistoryIsAccounted' /\ log'.index \subseteq logged'
  BY <1>1 DEF MonitorInv, TraceIsTrue, IndexFindsRows, HistoryIsAccounted
<1>9. CommandsAreTheirOwn'
  BY <1>1 DEF MonitorInv, CommandsAreTheirOwn
<1> QED
  BY <1>4, <1>5, <1>6, <1>7, <1>8, <1>9 DEF MonitorInv, TraceIsTrue

LEMMA StopMonitorKeeps == MonitorInv /\ StopMonitor => MonitorInv'
<1> SUFFICES ASSUME MonitorInv, StopMonitor PROVE MonitorInv'
  OBVIOUS
<1>1. /\ pump # "none" /\ ui' = "joining"
      /\ UNCHANGED <<started, running, startQ, stopQ, pump, seq, jobs, chan, log, monitors, due,
                     logged, pushed>>
  BY DEF StopMonitor, machine, subs, thread
<1>2. MonitorTypeOK'
  BY <1>1 DEF MonitorInv, TraceIsTrue, MonitorTypeOK, Processes, Row
<1>3. NoStartLost' /\ NothingLeftOver'
  BY <1>1 DEF MonitorInv, TraceIsTrue, NoStartLost, NothingLeftOver
<1>4. OneProcessPerNumber' /\ CommandsAreTheirOwn'
  BY <1>1 DEF MonitorInv, OneProcessPerNumber, CommandsAreTheirOwn, Claims
<1> QED
  BY <1>1, <1>2, <1>3, <1>4, LogUntouched DEF MonitorInv, TraceIsTrue

LEMMA JoinKeeps == MonitorInv /\ Join => MonitorInv'
<1> SUFFICES ASSUME MonitorInv, Join PROVE MonitorInv'
  OBVIOUS
<1>1. /\ pump = "over" /\ ui' = "idle" /\ pump' = "none" /\ due' = {}
      /\ startQ' = <<>> /\ stopQ' = <<>> /\ jobs' = <<>> /\ chan' = <<>>
      /\ UNCHANGED <<started, running, seq, log, monitors, logged, pushed>>
  BY DEF Join, machine
<1>2. MonitorTypeOK'
  <2>1. jobs' \in Seq([seq : 1 .. seq', kind : {"start", "stop"}, proc : Processes'])
        /\ chan' \in Seq([what : {"start", "stop", "details"}, seq : 1 .. seq', of : Processes',
                          cmd : Processes' \cup {NoProc}])
        /\ startQ' \in Seq(Processes') /\ stopQ' \in Seq(Processes') /\ due' \subseteq Processes'
    BY <1>1
  <2> QED
    BY <1>1, <2>1 DEF MonitorInv, TraceIsTrue, MonitorTypeOK, Processes, Row
<1>3. NoStartLost' /\ NothingLeftOver'
  BY <1>1 DEF MonitorInv, NoStartLost, NothingLeftOver
<1>4. OneProcessPerNumber'
  <2>1. \A c \in Claims' : c \in Claims
    BY <1>1 DEF Claims
  <2> QED
    BY <1>1, <2>1, NoNewClaims DEF MonitorInv
<1>5. CommandsAreTheirOwn'
  BY <1>1 DEF CommandsAreTheirOwn
<1> QED
  BY <1>1, <1>2, <1>3, <1>4, <1>5, LogUntouched DEF MonitorInv, TraceIsTrue

(* Clearing drops rows, and no claim is made for those that are left.      *)
LEMMA ClearEndedRowsKeeps == MonitorInv /\ ClearEndedRows => MonitorInv'
<1> SUFFICES ASSUME MonitorInv, ClearEndedRows PROVE MonitorInv'
  OBVIOUS
<1>1. /\ log' = ClearEnded(log) /\ pushed' = Len(log'.rows)
      /\ UNCHANGED <<started, running, startQ, stopQ, pump, seq, jobs, chan, ui, monitors, due,
                     logged>>
  BY DEF ClearEndedRows, machine, subs, thread
<1>2. IsLog(log, RowsOf(Processes)) /\ Indexed(log)
  BY InvSays
<1>3. /\ IsLog(log', RowsOf(Processes)) /\ Indexed(log') /\ Follows(log', log)
      /\ log'.index = {} /\ log'.dropped = 0
  BY <1>1, <1>2, ClearKeeps
<1>4. log'.rows \in Seq(RowsOf(Processes)) /\ pushed' \in Nat
  BY <1>1, <1>3 DEF IsLog
<1>5. MonitorTypeOK'
  <2>1. Row' = RowsOf(Processes) /\ Processes' = Processes
    BY <1>1 DEF Row, RowsOf, Processes
  <2>2. log' = [rows |-> log'.rows, index |-> log'.index, bySeq |-> log'.bySeq,
                dropped |-> log'.dropped]
        /\ log'.rows \in Seq(Row') /\ log'.dropped \in Nat
        /\ log'.index \subseteq Processes'
    BY <1>3, <2>1 DEF IsLog
  <2> QED
    BY <1>1, <1>4, <2>1, <2>2 DEF MonitorInv, TraceIsTrue, MonitorTypeOK
<1>6. IndexFindsRows' /\ HistoryIsAccounted' /\ log'.index \subseteq logged'
  BY <1>1, <1>3, <1>4 DEF Indexed, IndexFindsRows, HistoryIsAccounted
<1>7. NoStartLost' /\ CommandsAreTheirOwn'
  BY <1>1 DEF MonitorInv, TraceIsTrue, NoStartLost, CommandsAreTheirOwn
<1>8. \A j \in DOMAIN log'.rows : \E i \in DOMAIN log.rows : log'.rows[j] = log.rows[i]
  BY <1>3 DEF Follows
<1>9. OneProcessPerNumber'
  <2>1. \A c \in Claims' : c \in Claims
    <3> SUFFICES ASSUME NEW c \in Claims' PROVE c \in Claims
      OBVIOUS
    <3>1. \/ \E i \in DOMAIN jobs : c = [seq |-> jobs[i].seq, of |-> jobs[i].proc]
          \/ \E i \in DOMAIN chan : c = [seq |-> chan[i].seq, of |-> chan[i].of]
          \/ \E i \in DOMAIN log'.rows : c = [seq |-> log'.rows[i].seq, of |-> log'.rows[i].proc]
      BY <1>1 DEF Claims
    <3> QED
      BY <1>8, <3>1, ClaimIs
  <2> QED
    BY <1>1, <2>1, NoNewClaims DEF MonitorInv
<1>10. DetailsOfOwnProcess'
  BY <1>1, <1>8 DEF MonitorInv, TraceIsTrue, DetailsOfOwnProcess, DetailsMatch
<1>11. NothingLeftOver'
  <2>1. ASSUME log.rows = <<>> PROVE log'.rows = <<>>
    <3>1. DOMAIN log'.rows = {}
      BY <1>8, <2>1
    <3>2. DOMAIN log'.rows = 1 .. Len(log'.rows) /\ Len(log'.rows) \in Nat
      BY <1>4
    <3>3. Len(log'.rows) = 0
      <4> DEFINE n == Len(log'.rows)
      <4>1. 1 .. n = {} /\ n \in Nat
        BY <3>1, <3>2
      <4> HIDE DEF n
      <4>2. 1 \notin 1 .. n
        BY <4>1
      <4>3. n = 0
        BY <4>1, <4>2
      <4> QED
        BY <4>3 DEF n
    <3> QED
      BY <1>4, <3>3
  <2> QED
    BY <1>1, <2>1 DEF MonitorInv, NothingLeftOver
<1> QED
  BY <1>5, <1>6, <1>7, <1>9, <1>10, <1>11 DEF MonitorInv, TraceIsTrue

-----------------------------------------------------------------------------
LEMMA MonitorInitHolds == MonitorInit => MonitorInv
<1> SUFFICES ASSUME MonitorInit PROVE MonitorInv
  OBVIOUS
<1>1. /\ started = 0 /\ running = {} /\ startQ = <<>> /\ stopQ = <<>> /\ pump = "none" /\ seq = 0
      /\ jobs = <<>> /\ chan = <<>> /\ ui = "idle" /\ monitors = 0 /\ due = {} /\ logged = {}
      /\ pushed = 0
      /\ log = [rows |-> <<>>, index |-> {}, bySeq |-> <<>>, dropped |-> 0]
  BY DEF MonitorInit, EmptyLog
<1>2. MonitorTypeOK
  BY <1>1, MonitorAssumption DEF MonitorTypeOK
<1>3. IndexFindsRows /\ HistoryIsAccounted
  BY <1>1 DEF IndexFindsRows, Seqs, HistoryIsAccounted
<1>4. NoStartLost /\ DetailsOfOwnProcess /\ NothingLeftOver /\ CommandsAreTheirOwn
  BY <1>1 DEF NoStartLost, DetailsOfOwnProcess, NothingLeftOver, CommandsAreTheirOwn
<1>5. OneProcessPerNumber
  <2>1. Claims = {}
    BY <1>1 DEF Claims
  <2> QED
    BY <2>1 DEF OneProcessPerNumber
<1> QED
  BY <1>1, <1>2, <1>3, <1>4, <1>5 DEF MonitorInv, TraceIsTrue

LEMMA MonitorStutterKeeps == MonitorInv /\ UNCHANGED monitorVars => MonitorInv'
<1> SUFFICES ASSUME MonitorInv, UNCHANGED monitorVars PROVE MonitorInv'
  OBVIOUS
<1>1. UNCHANGED <<started, running, startQ, stopQ, pump, seq, jobs, chan, ui, log, monitors, due,
                  logged, pushed>>
  BY DEF monitorVars
<1>2. MonitorTypeOK'
  BY <1>1 DEF MonitorInv, TraceIsTrue, MonitorTypeOK, Processes, Row
<1>3. NoStartLost' /\ NothingLeftOver' /\ OneProcessPerNumber' /\ CommandsAreTheirOwn'
  BY <1>1 DEF MonitorInv, TraceIsTrue, NoStartLost, NothingLeftOver, OneProcessPerNumber,
              CommandsAreTheirOwn, Claims
<1> QED
  BY <1>1, <1>2, <1>3, LogUntouched DEF MonitorInv, TraceIsTrue

(* The inductive invariant of the trace mode: queues, channel, rows and    *)
(* counters agree, whatever the threads, the provider and the user do.     *)
THEOREM MonitorInvariant == MonitorSpec => []MonitorInv
<1>1. MonitorInv /\ [MonitorNext]_monitorVars => MonitorInv'
  <2> SUFFICES ASSUME MonitorInv, [MonitorNext]_monitorVars PROVE MonitorInv'
    OBVIOUS
  <2>1. CASE StartProcess
    BY <2>1, StartProcessKeeps
  <2>2. ASSUME NEW k \in running, EndProcess(k) PROVE MonitorInv'
    BY <2>2, EndProcessKeeps
  <2>3. CASE Pump
    BY <2>3, PumpMovesKeeps, TakeStartsKeeps, TakeStopsKeeps DEF Pump
  <2>4. CASE PumpFails
    BY <2>4, PumpMovesKeeps
  <2>5. CASE Details
    BY <2>5, DetailsKeeps
  <2>6. CASE Poll
    BY <2>6, PollKeeps
  <2>7. CASE StartMonitor
    BY <2>7, StartMonitorKeeps
  <2>8. CASE StopMonitor
    BY <2>8, StopMonitorKeeps
  <2>9. CASE Join
    BY <2>9, JoinKeeps
  <2>10. CASE ClearEndedRows
    BY <2>10, ClearEndedRowsKeeps
  <2>11. CASE UNCHANGED monitorVars
    BY <2>11, MonitorStutterKeeps
  <2> QED
    BY <2>1, <2>2, <2>3, <2>4, <2>5, <2>6, <2>7, <2>8, <2>9, <2>10, <2>11 DEF MonitorNext
<1> QED
  BY MonitorInitHolds, <1>1, PTL DEF MonitorSpec

(* The trace of processes lacks only what it says it lacks, its index finds*)
(* each row, no start delivered is lost, and the details on a row are of   *)
(* its process.                                                            *)
THEOREM TraceTellsTheTruth == MonitorSpec => []TraceIsTrue
<1>1. MonitorInv => TraceIsTrue
  BY DEF MonitorInv
<1> QED
  BY <1>1, MonitorInvariant, PTL

(* No step drops a row whose process is not known to have ended, however   *)
(* full the history is.                                                    *)
THEOREM NoLiveRowIsDropped == MonitorSpec => LiveRowsStay
<1> DEFINE Stay == \A i \in DOMAIN log.rows :
                     Alive(log.rows[i]) => \E j \in DOMAIN log'.rows :
                                             log'.rows[j].proc = log.rows[i].proc
<1>1. MonitorInv /\ [MonitorNext]_monitorVars => [Stay]_log
  <2> SUFFICES ASSUME MonitorInv, [MonitorNext]_monitorVars, log' # log PROVE Stay
    BY Zenon
  <2>1. CASE Poll
    <3>1. Drained(Head(chan))
      BY <2>1, PollDrains
    <3> QED
      BY <3>1 DEF Drained
  <2>2. CASE ClearEndedRows
    <3>1. Follows(ClearEnded(log), log) /\ log' = ClearEnded(log)
      BY <2>2, InvSays, ClearKeeps DEF ClearEndedRows
    <3> QED
      BY <3>1 DEF Follows
  <2>3. Poll \/ ClearEndedRows
    BY DEF MonitorNext, StartProcess, EndProcess, Pump, Subscribe, TakeStarts, TakeStops, PumpFails,
           Details, StartMonitor, StopMonitor, Join, pumpFrame, gui, monitorVars
  <2> QED
    BY <2>1, <2>2, <2>3
<1> QED
  BY <1>1, MonitorInvariant, PTL DEF MonitorSpec, LiveRowsStay
=============================================================================
