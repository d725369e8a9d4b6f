----------------------------- MODULE ProcessLog -----------------------------
(***************************************************************************)
(* ProcessLog (state/processes.rs): the rows of the Process view and the   *)
(* two indexes over them, as a value.  A process is a number, given in the *)
(* order of starts; pid and creation time identify it, as they do a row's  *)
(* key.                                                                    *)
(***************************************************************************)
EXTENDS Retain, FiniteSetsExt

CONSTANT MaxRows   (* max_rows                                             *)

ASSUME LogAssumption == MaxRows \in Nat

(* A row: the process it is of, its pid, the seq of its start event, the   *)
(* process whose stop event closed it, and its details once they are here. *)
NoProc == 0
Pending == [arrived |-> FALSE, of |-> NoProc, cmd |-> NoProc]
NewRow(seq, pid, proc) ==
  [proc |-> proc, pid |-> pid, seq |-> seq, ended |-> NoProc, detail |-> Pending]

Alive(row) == row.ended = NoProc
Ended(rows) == {i \in DOMAIN rows : ~Alive(rows[i])}

EmptyLog == [rows |-> <<>>, index |-> {}, bySeq |-> <<>>, dropped |-> 0]

-----------------------------------------------------------------------------
Seqs(rows) == {rows[i].seq : i \in DOMAIN rows}

(* The row that a seq is left pointing at when rows are indexed in order.  *)
LastOf(rows, seq) == Max({i \in DOMAIN rows : rows[i].seq = seq})

(* Mutant of Reindexed: the positions of before.                           *)
NotReindexed(log, rows) == [log EXCEPT !.rows = rows]

(* reindex(), for rows that have moved; the duplicates are forgotten.      *)
Reindexed(log, rows) ==
  [rows |-> rows, index |-> {}, bySeq |-> [s \in Seqs(rows) |-> LastOf(rows, s)],
   dropped |-> log.dropped]

(* The first of a set of positions.                                        *)
Oldest(set, n) == {i \in set : Rank(set, i) <= n}

(* Mutants of Evictable and Evict: any row may go; the count is of what    *)
(* should have gone.                                                       *)
AnyEvictable(rows) == DOMAIN rows
EvictCountsExcess(log) ==
  LET excess == Len(log.rows) - MaxRows
      gone == Oldest(Ended(log.rows), excess) IN
  IF excess <= 0 THEN log
  ELSE [Reindexed(log, Without(log.rows, gone)) EXCEPT !.dropped = @ + excess]

Evictable(rows) == Ended(rows)

(* evict(): the oldest ended rows, until the cap is met or none is left.   *)
Evict(log) ==
  LET gone == Oldest(Evictable(log.rows), Len(log.rows) - MaxRows) IN
  IF gone = {} THEN log
  ELSE [Reindexed(log, Without(log.rows, gone)) EXCEPT !.dropped = @ + Cardinality(gone)]

(* start(): a duplicate delivery is not a second process.                  *)
Start(log, seq, pid, proc) ==
  IF proc \in log.index THEN log
  ELSE Evict([rows |-> Append(log.rows, NewRow(seq, pid, proc)),
              index |-> log.index \cup {proc},
              bySeq |-> [s \in DOMAIN log.bySeq \cup {seq} |->
                           IF s = seq THEN Len(log.rows) + 1 ELSE log.bySeq[s]],
              dropped |-> log.dropped])

(* stop(): the newest live row of the pid is closed.                       *)
Stop(log, pid, proc) ==
  LET live == {i \in DOMAIN log.rows : log.rows[i].pid = pid /\ Alive(log.rows[i])} IN
  IF live = {} THEN log ELSE [log EXCEPT !.rows[Max(live)].ended = proc]

(* attach(): details go to the row their seq points at, dead or alive.     *)
Attach(log, seq, of, cmd) ==
  IF seq \notin DOMAIN log.bySeq THEN log
  ELSE [log EXCEPT !.rows[log.bySeq[seq]].detail = [arrived |-> TRUE, of |-> of, cmd |-> cmd]]

(* clear_ended().                                                          *)
ClearEnded(log) ==
  [Reindexed(log, Without(log.rows, Ended(log.rows))) EXCEPT !.dropped = 0]
=============================================================================
