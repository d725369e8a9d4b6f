------------------------------ MODULE EventMonitor ------------------------------
(***************************************************************************)
(* The Events view: the threads of EventMonitor (core monitor.rs), the     *)
(* channel each writes to, and the log, the rate and the detail panel the  *)
(* view keeps of what arrived (views/events.rs).                           *)
(*                                                                         *)
(* Subscriptions are numbered as they are started; an event is the pair of *)
(* the subscription that delivered it and its number there.                *)
(***************************************************************************)
EXTENDS EventQuery

CONSTANTS
  Boxes,       (* what the query box may hold                              *)
  LogCap,      (* LOG_CAP                                                  *)
  Window,      (* RATE_WINDOW, in clock ticks                              *)
  MaxStarts, MaxEvents, MaxClock   (* bounds: subscriptions, events, clock *)

ASSUME EventsAssumption ==
  LogCap \in Nat /\ Window \in Nat /\ MaxStarts \in Nat /\ MaxEvents \in Nat /\ MaxClock \in Nat

VARIABLES
  box,         (* monitor_wql                                              *)
  clock,       (* the clock of the frames                                  *)
  monitor,     (* the running subscription, 0 for none                     *)
  threads,     (* for each subscription: how far its thread is             *)
  stopped,     (* the stop flags that are set                              *)
  asked,       (* for each subscription: the query it was handed           *)
  chan,        (* the channel of the running subscription                  *)
  log,         (* events_log.rows, newest first                            *)
  received, dropped, nextSeq,
  openSeq,     (* the seq of the open row, -1 for none                     *)
  opened,      (* the event of the row that was clicked                    *)
  arrivals,    (* rate.arrivals                                            *)
  since,       (* rate.since; -1 for none                                  *)
  peak,        (* queued_peak                                              *)
  startedAs,   (* event_class, subject and interval at Start               *)
  error,       (* monitor_error is shown                                   *)
  sinceStart   (* the events received since the last Start                 *)

eventsView == <<log, received, dropped, nextSeq, openSeq, opened>>
eventVars == <<box, clock, monitor, threads, stopped, asked, chan, eventsView,
          arrivals, since, peak, startedAs, error, sinceStart>>

Failure == 0   (* MonitorMsg::Error; an event is its subscription's number *)

Facts(q) == [class |-> EventClassOf(q), subject |-> SubjectOf(q), within |-> WithinOf(q)]

EventsInit ==
  /\ box \in Boxes /\ clock = 0
  /\ monitor = 0 /\ threads = <<>> /\ stopped = {} /\ asked = <<>> /\ chan = <<>>
  /\ log = <<>> /\ received = 0 /\ dropped = 0 /\ nextSeq = 0
  /\ openSeq = -1 /\ opened = <<>>
  /\ arrivals = <<>> /\ since = -1 /\ peak = 0
  /\ startedAs = [class |-> NoToken, subject |-> NoToken, within |-> NoToken]
  /\ error = FALSE /\ sinceStart = 0

-----------------------------------------------------------------------------
(* The thread of one subscription.                                         *)

threadRest == <<box, clock, monitor, stopped, asked, eventsView, arrivals, since,
                peak, startedAs, error, sinceStart>>

(* tx.send(): fails once the receiver is gone.                             *)
Sent(s, m) == IF monitor = s THEN chan' = Append(chan, m) ELSE UNCHANGED chan

(* Connect and subscribe; a failure of either ends the thread.             *)
Subscribe(s) ==
  /\ threads[s] = "starting"
  /\ \/ threads' = [threads EXCEPT ![s] = "waiting"] /\ UNCHANGED chan
     \/ threads' = [threads EXCEPT ![s] = "ended"] /\ Sent(s, Failure)
  /\ UNCHANGED threadRest

(* Next() returns an event or an error; only now is the flag looked at.    *)
Deliver(s) ==
  /\ threads[s] = "waiting" /\ nextSeq + Len(chan) < MaxEvents
  /\ \E what \in {"event", "failure"} :
       threads' = [threads EXCEPT ![s] = IF s \in stopped THEN "ended" ELSE what]
  /\ UNCHANGED <<chan, threadRest>>

Hand(s) ==
  /\ threads[s] \in {"event", "failure"}
  /\ Sent(s, IF threads[s] = "event" THEN s ELSE Failure)
  /\ threads' = [threads EXCEPT ![s] = IF monitor = s THEN "waiting" ELSE "ended"]
  /\ UNCHANGED threadRest

-----------------------------------------------------------------------------
(* The view.                                                               *)

(* Mutant of SeqOf: the row's place in its batch.                          *)
SeqAsIndex(k) == k

SeqOf(k) == nextSeq + k

(* Mutant of LabelOf: what the query box says now.                         *)
LabelFromBox == Facts(box)

LabelOf == startedAs

(* The rows the k-th event of a frame's drain makes.                       *)
Row(s, k) == [seq |-> SeqOf(k), event |-> <<s, nextSeq + k>>, label |-> LabelOf, at |-> clock]

Smaller(a, b) == IF a < b THEN a ELSE b

(* drain_events(), EventLog::push() for each event and prune(): what a     *)
(* frame does first.                                                       *)
Drain ==
  LET events == Without(chan, {i \in DOMAIN chan : chan[i] = Failure})
      n == Len(events)
      rows == [k \in 1..n |-> Row(events[n - k + 1], n - k)] \o log
  IN /\ log' = SubSeq(rows, 1, Smaller(LogCap, Len(rows)))
     /\ dropped' = dropped + (Len(rows) - Len(log'))
     /\ received' = received + n /\ nextSeq' = nextSeq + n /\ sinceStart' = sinceStart + n
     /\ arrivals' = Without(arrivals, {i \in DOMAIN arrivals : arrivals[i] < clock - Window})
                    \o [k \in 1..n |-> clock]
     /\ error' = (error \/ n < Len(chan))
     /\ peak' = IF peak < Len(chan) THEN Len(chan) ELSE peak
     /\ chan' = <<>>

(* A frame; ui_event_detail() closes a panel whose row the log has lost.   *)
EventsFrame ==
  /\ IF monitor = 0
     THEN UNCHANGED <<log, received, dropped, nextSeq, arrivals, chan, error, peak, sinceStart>>
     ELSE Drain
  /\ clock' \in {clock, clock + 1} /\ clock' <= MaxClock
  /\ IF openSeq # -1 /\ \A i \in DOMAIN log' : log'[i].seq # openSeq
     THEN openSeq' = -1 /\ opened' = <<>> ELSE UNCHANGED <<openSeq, opened>>
  /\ UNCHANGED <<box, monitor, threads, stopped, asked, since, startedAs>>

(* start_monitor().                                                        *)
Start ==
  /\ monitor = 0 /\ Len(threads) < MaxStarts
  /\ monitor' = Len(threads) + 1
  /\ threads' = Append(threads, "starting") /\ asked' = Append(asked, box)
  /\ chan' = <<>> /\ error' = FALSE
  /\ arrivals' = <<>> /\ since' = clock /\ peak' = 0
  /\ startedAs' = Facts(box) /\ sinceStart' = 0
  /\ UNCHANGED <<box, clock, stopped, eventsView>>

(* stop_monitor(), and Drop: the flag is set and the receiver is gone; the *)
(* thread is not joined.                                                   *)
Stop ==
  /\ monitor # 0 /\ monitor' = 0
  /\ stopped' = stopped \cup {monitor} /\ chan' = <<>>
  /\ error' = FALSE /\ arrivals' = <<>> /\ since' = -1
  /\ UNCHANGED <<box, clock, threads, asked, eventsView, peak, startedAs, sinceStart>>

(* Mutant of RateAfterClear: the rate goes on counting what was cleared.   *)
RateUncleared == UNCHANGED <<arrivals, since, peak>>

RateAfterClear ==
  IF monitor # 0 THEN arrivals' = <<>> /\ since' = clock /\ peak' = 0
  ELSE UNCHANGED <<arrivals, since, peak>>

(* Clear: the log and the selection; the numbering goes on.                *)
Clear ==
  /\ log # <<>>
  /\ log' = <<>> /\ received' = 0 /\ dropped' = 0
  /\ openSeq' = -1 /\ opened' = <<>>
  /\ RateAfterClear
  /\ UNCHANGED <<box, clock, monitor, threads, stopped, asked, chan, nextSeq,
                 startedAs, error, sinceStart>>

(* A click on a row; on the open one, it closes.                           *)
Click(i) ==
  /\ i \in DOMAIN log
  /\ IF openSeq = log[i].seq THEN openSeq' = -1 /\ opened' = <<>>
     ELSE openSeq' = log[i].seq /\ opened' = log[i].event
  /\ UNCHANGED <<box, clock, monitor, threads, stopped, asked, chan, log, received,
                 dropped, nextSeq, arrivals, since, peak, startedAs, error, sinceStart>>

(* Editing the query; the interval field then reads it back.               *)
Edit(q) ==
  /\ box # q /\ box' = q
  /\ UNCHANGED <<clock, monitor, threads, stopped, asked, chan, eventsView, arrivals, since, peak,
                 startedAs, error, sinceStart>>

(* Typing into the field, which is open only where it applies.             *)
TypeInterval(n) ==
  /\ AcceptsWithin(box) /\ WithinOf(box) # n
  /\ box' = Injected(box, n)
  /\ UNCHANGED <<clock, monitor, threads, stopped, asked, chan, eventsView, arrivals, since, peak,
                 startedAs, error, sinceStart>>

EventsNext ==
  \/ EventsFrame \/ Start \/ Stop \/ Clear
  \/ \E i \in 1..LogCap : Click(i)
  \/ \E q \in Boxes : Edit(q)
  \/ \E n \in Numbers : TypeInterval(n)
  \/ \E s \in DOMAIN threads : Subscribe(s) \/ Deliver(s) \/ Hand(s)

EventsSpec == EventsInit /\ [][EventsNext]_eventVars

-----------------------------------------------------------------------------
(* Each row is labelled with the class and the interval of the             *)
(* subscription that delivered it, whatever is typed into the box, stopped *)
(* or started meanwhile.                                                   *)
RowsAreOfTheirSubscription ==
  \A i \in DOMAIN log : log[i].label = Facts(asked[log[i].event[1]])

(* The open panel shows the event that was clicked, or nothing: evictions  *)
(* and clears never turn it into another one.                              *)
OpenEventIsTheOneClicked ==
  \A i \in DOMAIN log : openSeq # -1 /\ log[i].seq = openSeq => log[i].event = opened

(* The rate counts nothing but events the log counts, and the log knows    *)
(* how many it has lost.                                                   *)
CountsAgree == Len(arrivals) <= received /\ received = Len(log) + dropped

(* A row of the event log keeps its subscription's label, the open panel   *)
(* its event, and the counts agree with the log.                           *)
EventLogIsTrue == RowsAreOfTheirSubscription /\ OpenEventIsTheOneClicked /\ CountsAgree

(* The inductive invariant behind it: the numbers of rows are unique and   *)
(* below the next, the channel has messages of the running subscription,   *)
(* and what was noted at Start is what it was handed.                      *)
Listed(seq) == {seq[i] : i \in DOMAIN seq}

EventsTypeOK ==
  /\ clock \in Nat /\ monitor \in 0..Len(threads)
  /\ threads \in Seq({"starting", "waiting", "event", "failure", "ended"})
  /\ asked \in Seq(Listed(asked)) /\ Len(asked) = Len(threads)
  /\ chan \in Seq({Failure, monitor})
  /\ log \in Seq(Listed(log)) /\ received \in Nat /\ dropped \in Nat /\ nextSeq \in Nat
  /\ \A i \in DOMAIN log : log[i].event[1] \in DOMAIN asked /\ log[i].seq \in Nat
  /\ openSeq \in Nat \cup {-1} /\ arrivals \in Seq(Nat)

EventsInv ==
  /\ EventsTypeOK /\ EventLogIsTrue
  /\ monitor = 0 => chan = <<>> /\ arrivals = <<>>
  /\ monitor # 0 => startedAs = Facts(asked[monitor])
  /\ openSeq < nextSeq
  /\ \A i \in DOMAIN log : log[i].seq < nextSeq
  /\ \A i, j \in DOMAIN log : log[i].seq = log[j].seq => i = j

(* The note over the stream: so many events since the last Start.          *)
NoteCountsSinceStart == monitor # 0 => received = sinceStart
=============================================================================
