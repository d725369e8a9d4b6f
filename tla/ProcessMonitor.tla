--------------------------- MODULE ProcessMonitor ---------------------------
(***************************************************************************)
(* From a process that starts or ends to a row on screen, in trace mode:   *)
(* the two subscriptions the kernel trace provider fills, the pump and the *)
(* details thread (procmon.rs), the channel to the GUI, and the view that  *)
(* folds it into a ProcessLog and starts and stops the monitor             *)
(* (views/process.rs).                                                     *)
(***************************************************************************)
EXTENDS ProcessLog

CONSTANTS
  Pids,
  PidOf,          (* the pid of each process, in the order of their starts *)
  Deliveries,     (* how often the events of each may be delivered         *)
  BacklogMax,     (* ENRICH_BACKLOG_MAX                                    *)
  MaxProcs,       (* bound: processes started                              *)
  MaxMonitors     (* bound: monitors started                               *)

ASSUME MonitorAssumption ==
  /\ Deliveries \in [1 .. MaxProcs -> SUBSET (Nat \ {0})]
  /\ PidOf \in [1 .. MaxProcs -> Pids]
  /\ BacklogMax \in Nat /\ MaxProcs \in Nat /\ MaxMonitors \in Nat

VARIABLES
  (* -- the machine -------------------------------------------------------*)
  started,     (* how many processes have been started                     *)
  running,     (* those that have not ended                                *)
  (* -- the subscriptions ------------------------------------------------ *)
  startQ, stopQ,   (* events the provider has queued on each               *)
  (* -- the monitor ------------------------------------------------------ *)
  pump,        (* "none"; connecting: "open", "half"; the two halves of a  *)
               (* turn: "starts", "stops"; "over": the thread has returned *)
  seq,         (* the last event number given                              *)
  jobs,        (* the queue to the details thread                          *)
  chan,        (* the channel to the GUI                                   *)
  (* -- the GUI ---------------------------------------------------------- *)
  ui,          (* "idle", or "joining" in drop()                           *)
  log,
  (* -- history ---------------------------------------------------------- *)
  monitors,    (* how many monitors have been started                      *)
  due,         (* processes whose start was delivered to this monitor      *)
  logged,      (* processes that have been given a row                     *)
  pushed       (* rows pushed since the last clear, and those it left      *)

machine == <<started, running>>
subs    == <<startQ, stopQ>>
thread  == <<pump, seq>>
gui     == <<ui, log, monitors, logged, pushed>>
monitorVars == <<started, running, startQ, stopQ, pump, seq, jobs, chan,
          ui, log, monitors, due, logged, pushed>>

-----------------------------------------------------------------------------
MonitorInit ==
  /\ started = 0 /\ running = {}
  /\ startQ = <<>> /\ stopQ = <<>>
  /\ pump = "none" /\ seq = 0 /\ jobs = <<>> /\ chan = <<>>
  /\ ui = "idle" /\ log = EmptyLog
  /\ monitors = 0 /\ due = {} /\ logged = {} /\ pushed = 0

(* The provider serves a subscription from the call that made it until the *)
(* thread returns.                                                         *)
Listening(kind) ==
  pump \in (IF kind = "start" THEN {"half", "starts", "stops"} ELSE {"starts", "stops"})

Copies(n, e) == [i \in 1 .. n |-> e]

(* A process starts, with a pid that is free; pids are used again.         *)
StartProcess ==
  LET k == started + 1 IN
  /\ started < MaxProcs /\ \A q \in running : PidOf[q] # PidOf[k]
  /\ started' = k /\ running' = running \cup {k}
  /\ IF Listening("start")
     THEN /\ \E n \in Deliveries[k] : startQ' = startQ \o Copies(n, k)
          /\ due' = due \cup {k}
     ELSE UNCHANGED <<startQ, due>>
  /\ UNCHANGED <<stopQ, thread, jobs, chan, gui>>

EndProcess(k) ==
  /\ running' = running \ {k}
  /\ IF Listening("stop")
     THEN \E n \in Deliveries[k] : stopQ' = stopQ \o Copies(n, k)
     ELSE UNCHANGED stopQ
  /\ UNCHANGED <<started, startQ, thread, jobs, chan, gui, due>>

-----------------------------------------------------------------------------
(* The pump thread, run().                                                 *)

pumpFrame == <<machine, gui, due>>

(* subscribe(): starts first, then stops.                                  *)
Subscribe ==
  /\ \/ pump = "open" /\ pump' = "half"
     \/ pump = "half" /\ pump' = "starts"
  /\ UNCHANGED <<pumpFrame, subs, seq, jobs, chan>>

(* Connecting, subscribing or taking fails: a message (left out), and the  *)
(* thread returns.                                                         *)
PumpFails ==
  /\ pump \in {"open", "half", "starts", "stops"}
  /\ pump' = "over"
  /\ UNCHANGED <<pumpFrame, subs, seq, jobs, chan>>

(* Mutant of StopAsked: the flag is not looked at.                         *)
NeverAsked == FALSE

StopAsked == ui = "joining"

(* Mutant of Taken: one batch only, here of one event.                     *)
TakenOnce(q) == IF q = <<>> THEN q ELSE <<q[1]>>

(* take_available(): batches until one is short, which is all there is.    *)
Taken(q) == q

(* Mutant of NumberOf: the stops are not numbered.                         *)
NumberOfStarts(kind, i) == IF kind = "start" THEN seq + i ELSE seq

NumberOf(kind, i) == seq + i

(* Each event taken is numbered, sent, and queued for its details.  The    *)
(* sends are one step: what others do between two of them, they can as     *)
(* well do after the last, since details find their row by seq.            *)
SendAll(kind, q) ==
  /\ seq' = NumberOf(kind, Len(q))
  /\ chan' = chan \o [i \in DOMAIN q |->
       [what |-> kind, seq |-> NumberOf(kind, i), of |-> q[i], cmd |-> NoProc]]
  /\ jobs' = jobs \o [i \in DOMAIN q |-> [seq |-> NumberOf(kind, i), kind |-> kind, proc |-> q[i]]]

(* The top of the loop looks at the stop flag and takes all the starts.    *)
TakeStarts ==
  /\ pump = "starts"
  /\ IF StopAsked
     THEN pump' = "over" /\ UNCHANGED <<startQ, seq, jobs, chan>>
     ELSE pump' = "stops" /\ startQ' = <<>> /\ SendAll("start", Taken(startQ))
  /\ UNCHANGED <<pumpFrame, stopQ>>

(* When those are sent, all the stops.                                     *)
TakeStops ==
  /\ pump = "stops"
  /\ pump' = "starts" /\ stopQ' = <<>> /\ SendAll("stop", Taken(stopQ))
  /\ UNCHANGED <<pumpFrame, startQ>>

Pump == Subscribe \/ TakeStarts \/ TakeStops

(* Mutant of IdentityMatches: whoever has the pid now.                     *)
SamePid(k, q) == PidOf[k] = PidOf[q]

(* identity_matches(): parent, name and creation time.                     *)
IdentityMatches(k, q) == k = q

(* The depth that is left when a job is taken.                             *)
Affordable == Len(jobs) - 1 <= BacklogMax

(* Mutant of Answer: a shed job is not answered.                           *)
AnswerIfAffordable(m) == IF Affordable THEN <<m>> ELSE <<>>

Answer(m) == <<m>>

(* run_details(): every job is answered, but those of stop events, and     *)
(* those with too many others behind them, without a query.  The query     *)
(* asks for the pid and may fail.                                          *)
Details ==
  /\ jobs # <<>>
  /\ LET job == Head(jobs)
         found == {q \in running : /\ job.kind = "start" /\ Affordable
                                   /\ PidOf[q] = PidOf[job.proc]
                                   /\ IdentityMatches(job.proc, q)} IN
     \E cmd \in found \cup {NoProc} :
       chan' = chan \o Answer([what |-> "details", seq |-> job.seq,
                               of |-> job.proc, cmd |-> cmd])
  /\ jobs' = Tail(jobs)
  /\ UNCHANGED <<machine, subs, thread, gui, due>>

-----------------------------------------------------------------------------
(* The view.                                                               *)

(* drain_processes(), a message at a time.                                 *)
Poll ==
  /\ ui = "idle" /\ chan # <<>>
  /\ LET m == Head(chan) IN
     /\ log' = CASE m.what = "start" -> Start(log, m.seq, PidOf[m.of], m.of)
                 [] m.what = "stop" -> Stop(log, PidOf[m.of], m.of)
                 [] m.what = "details" -> Attach(log, m.seq, m.of, m.cmd)
     /\ IF m.what = "start" /\ m.of \notin log.index
        THEN pushed' = pushed + 1 /\ logged' = logged \cup {m.of}
        ELSE UNCHANGED <<pushed, logged>>
  /\ chan' = Tail(chan)
  /\ UNCHANGED <<machine, subs, thread, jobs, ui, monitors, due>>

StartMonitor ==
  /\ ui = "idle" /\ pump = "none" /\ monitors < MaxMonitors
  /\ monitors' = monitors + 1
  /\ pump' = "open" /\ seq' = 0
  /\ UNCHANGED <<machine, subs, jobs, chan, ui, log, logged, pushed, due>>

(* The Stop button drops the monitor: the flag, then join().               *)
StopMonitor ==
  /\ ui = "idle" /\ pump # "none"
  /\ ui' = "joining"
  /\ UNCHANGED <<machine, subs, thread, jobs, chan, log, monitors, due, logged, pushed>>

(* ... and its channel with it; what the details thread still finds out    *)
(* goes nowhere.                                                           *)
Join ==
  /\ ui = "joining" /\ pump = "over"
  /\ ui' = "idle" /\ pump' = "none"
  /\ startQ' = <<>> /\ stopQ' = <<>> /\ jobs' = <<>> /\ chan' = <<>>
  /\ due' = {}
  /\ UNCHANGED <<machine, seq, log, monitors, logged, pushed>>

ClearEndedRows ==
  /\ ui = "idle" /\ Ended(log.rows) # {}
  /\ log' = ClearEnded(log)
  /\ pushed' = Len(log'.rows)
  /\ UNCHANGED <<machine, subs, thread, jobs, chan, ui, monitors, due, logged>>

-----------------------------------------------------------------------------
MonitorNext ==
  \/ StartProcess \/ \E k \in running : EndProcess(k)
  \/ Pump \/ PumpFails \/ Details
  \/ Poll \/ StartMonitor \/ StopMonitor \/ Join \/ ClearEndedRows

MonitorSpec == MonitorInit /\ [][MonitorNext]_monitorVars

(* The two threads run, frames are drawn, and a join that can return does. *)
MonitorFairSpec ==
  /\ MonitorSpec
  /\ WF_monitorVars(Pump) /\ WF_monitorVars(Details)
  /\ WF_monitorVars(Poll) /\ WF_monitorVars(Join)

-----------------------------------------------------------------------------
Processes == 1 .. started
Row == [proc : Processes, pid : Pids, seq : Nat, ended : Processes \cup {NoProc},
        detail : [arrived : BOOLEAN, of : Processes \cup {NoProc},
                  cmd : Processes \cup {NoProc}]]

(* Every variable has its type.                                            *)
MonitorTypeOK ==
  /\ started \in 0 .. MaxProcs /\ running \subseteq Processes
  /\ startQ \in Seq(Processes) /\ stopQ \in Seq(Processes)
  /\ pump \in {"none", "open", "half", "starts", "stops", "over"}
  /\ seq \in Nat
  /\ jobs \in Seq([seq : 1 .. seq, kind : {"start", "stop"}, proc : Processes])
  /\ chan \in Seq([what : {"start", "stop", "details"}, seq : 1 .. seq, of : Processes,
                   cmd : Processes \cup {NoProc}])
  /\ ui \in {"idle", "joining"}
  /\ log = [rows |-> log.rows, index |-> log.index, bySeq |-> log.bySeq, dropped |-> log.dropped]
  /\ log.rows \in Seq(Row) /\ log.index \subseteq Processes /\ log.dropped \in Nat
  /\ monitors \in Nat
  /\ due \subseteq Processes /\ logged \subseteq Processes /\ pushed \in Nat

(* The seq index points at the newest row of each seq, whatever evictions  *)
(* and clears have moved: no details are attached to a row by position.    *)
IndexFindsRows ==
  /\ DOMAIN log.bySeq = Seqs(log.rows)
  /\ \A s \in DOMAIN log.bySeq : log.bySeq[s] = LastOf(log.rows, s)

(* The history states what it lacks: the rows and the number dropped add   *)
(* up to all that came since the last clear.                               *)
HistoryIsAccounted == Len(log.rows) + log.dropped = pushed

(* No step drops a row whose process is not known to have ended.           *)
LiveRowsStay == [][\A i \in DOMAIN log.rows :
                     Alive(log.rows[i]) => \E j \in DOMAIN log'.rows :
                                             log'.rows[j].proc = log.rows[i].proc]_log

(* The details on a row are of its process: owner from its own event, and  *)
(* the command line never that of another process that has the pid by now. *)
DetailsMatch(row) ==
  row.detail.arrived => row.detail.of = row.proc /\ row.detail.cmd \in {NoProc, row.proc}

(* ... for all the rows of the first monitor.                              *)
DetailsOfOwnProcess ==
  monitors = 1 => \A i \in DOMAIN log.rows : DetailsMatch(log.rows[i])

(* The trace has no gap: a start delivered to the running monitor is       *)
(* queued, in the channel or in the log.                                   *)
NoStartLost ==
  pump \notin {"none", "over"} =>
    \A k \in due :
      \/ \E i \in DOMAIN startQ : startQ[i] = k
      \/ \E i \in DOMAIN chan : chan[i].what = "start" /\ chan[i].of = k
      \/ k \in logged

(* The trace of processes lacks only what it says it lacks, its index finds*)
(* each row, and the details on a row are of its process.                  *)
TraceIsTrue ==
  /\ MonitorTypeOK
  /\ IndexFindsRows /\ HistoryIsAccounted /\ NoStartLost /\ DetailsOfOwnProcess

(* The inductive invariant behind it.  What is not running holds nothing;  *)
(* a duplicate is of a process that has had its row; and within the first  *)
(* monitor a number stands for one process, wherever it is found: in the   *)
(* queue to the details thread, in the channel or in a row.                *)
NothingLeftOver ==
  /\ pump = "none" =>
       /\ ui = "idle" /\ due = {}
       /\ startQ = <<>> /\ stopQ = <<>> /\ jobs = <<>> /\ chan = <<>>
  /\ monitors = 0 => pump = "none" /\ log.rows = <<>>

Claims ==
  {[seq |-> jobs[i].seq, of |-> jobs[i].proc] : i \in DOMAIN jobs}
  \cup {[seq |-> chan[i].seq, of |-> chan[i].of] : i \in DOMAIN chan}
  \cup {[seq |-> log.rows[i].seq, of |-> log.rows[i].proc] : i \in DOMAIN log.rows}

OneProcessPerNumber ==
  monitors <= 1 =>
    /\ \A c \in Claims : c.seq <= seq
    /\ \A c, d \in Claims : c.seq = d.seq => c.of = d.of

CommandsAreTheirOwn ==
  \A i \in DOMAIN chan :
    chan[i].what = "details" => chan[i].cmd \in {NoProc, chan[i].of}

MonitorInv ==
  /\ TraceIsTrue
  /\ log.index \subseteq logged
  /\ NothingLeftOver /\ OneProcessPerNumber /\ CommandsAreTheirOwn

(* A row is not left pending: its details come, however deep the backlog,  *)
(* while its monitor lives; a monitor that has failed still finishes them. *)
PendingEnds ==
  \A k \in 1 .. MaxProcs :
    LET waits == \E i \in DOMAIN log.rows :
                   log.rows[i].proc = k /\ ~log.rows[i].detail.arrived
    IN (k \in due /\ waits) ~> (k \notin due \/ ui = "joining" \/ ~waits)

(* Stopping the monitor does not hang the window, once it has connected.   *)
JoinReturns == (ui = "joining") ~> (ui = "idle")

(* What attach() says: the seq index has starts only, so the details of a  *)
(* stop event match nothing.                                               *)
DetailsNeverCross == \A i \in DOMAIN log.rows : DetailsMatch(log.rows[i])

(* What stop() says: the newest live row with the pid is the right one.    *)
StopClosesItsProcess ==
  \A i \in DOMAIN log.rows : log.rows[i].ended \in {NoProc, log.rows[i].proc}
=============================================================================
