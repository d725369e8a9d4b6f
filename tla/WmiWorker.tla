------------------------------ MODULE WmiWorker ------------------------------
(***************************************************************************)
(* The WMI worker of vmiscope-core (worker.rs) with its out-of-band        *)
(* control plane (WorkerControl in enumerate.rs).                          *)
(*                                                                         *)
(* Two threads share four things.  The owner of the WmiWorker handle (the  *)
(* UI thread) appends messages to an mpsc channel, raises flags, and polls *)
(* the replies; the worker thread takes the messages in order, works, and  *)
(* replies.  The flags -- one per request id, and one for shutdown -- are  *)
(* the only way to reach a request that is already running, because the    *)
(* channel is a FIFO behind that very request.                             *)
(*                                                                         *)
(* A request is identified by the number alloc_id() gave it, which is also *)
(* its position in reqs: ids are handed out and sent by one thread.        *)
(* What a request computes is abstracted to how it ends (Outcomes) and to  *)
(* the host whose data the reply carries.                                  *)
(***************************************************************************)
EXTENDS Integers, Sequences, FiniteSets

CONSTANTS
  Hosts,        (* the machines a worker can be pointed at                 *)
  Local,        (* "no host": this machine, the target of a fresh worker   *)
  Namespaces,   (* the namespaces requests name                            *)
  Cimv2,        (* the namespace a connect is probed in                    *)
  Menu,         (* the requests callers may send                           *)
  MaxRequests,  (* bound: how many requests are sent                       *)
  MaxCancels    (* bound: how many cancels are sent                        *)

ASSUME WorkerAssumption ==
  /\ Local \in Hosts
  /\ Cimv2 \in Namespaces
  /\ MaxRequests \in Nat
  /\ MaxCancels \in Nat

VARIABLES
  (* -- the handle's side ------------------------------------------------ *)
  ui,         (* where the owner of the handle is: see UiPlaces            *)
  cancelId,   (* the id whose cancel is between its flag and its message   *)
  reqs,       (* every request sent so far; reqs[id] is request id         *)
  chan,       (* every message put in the request channel, oldest first    *)
  replies,    (* every reply put in the reply channel, oldest first        *)
  (* -- WorkerControl, shared -------------------------------------------- *)
  shutdown,   (* the priority stop flag                                    *)
  live,       (* the ids that have an entry in the flag map                *)
  raised,     (* those whose flag is raised                                *)
  (* -- the worker thread ------------------------------------------------ *)
  wpc,        (* where the thread is: see WorkerPlaces                     *)
  read,       (* how many messages it has received                         *)
  job,        (* the locals of one turn of its loop: see Job               *)
  (* -- the thread-locals of the worker thread --------------------------- *)
  target,     (* HOST and CRED                                             *)
  conns,      (* REMOTE: the cached alternate-credential connections       *)
  kinds       (* KIND_CACHE: the namespaces whose class kinds are cached   *)

handleVars  == <<ui, cancelId, reqs, chan>>
controlVars == <<shutdown, live, raised>>
targetVars  == <<target, conns, kinds>>
vars == <<ui, cancelId, reqs, chan, replies, shutdown, live, raised,
          wpc, read, job, target, conns, kinds>>

-----------------------------------------------------------------------------
(* Requests, messages and replies.                                         *)

Targets == [host : Hosts, alt : BOOLEAN]
LocalTarget == [host |-> Local, alt |-> FALSE]

(* "Call" stands for the requests that make one uninterruptible call       *)
(* (ClassSchema, ClassMof, InvokeMethod and the fixed-query snapshots);    *)
(* "Query" for every other cancellable enumeration.                        *)
Scans == {"ListClasses", "InstanceCount", "Query"}
Ops   == Scans \cup {"Call", "SetHost"}

Request == [op : Ops, ns : Namespaces, limited : BOOLEAN, target : Targets]

(* The shapes a request can have: only Query has an optional deadline,     *)
(* every other scan carries a budget of its own.                           *)
Submittable ==
  {r \in Request :
     /\ r.op # "Query" => r.limited
     /\ r.op # "SetHost" => r.target = LocalTarget
     /\ r.op = "SetHost" => r.ns = Cimv2}

ASSUME MenuAssumption == Menu \subseteq Submittable

Message  == [tag : {"request", "cancel", "shutdown"}, id : Nat]
RequestMsg(id) == [tag |-> "request", id |-> id]
CancelMsg(id)  == [tag |-> "cancel", id |-> id]
ShutdownMsg    == [tag |-> "shutdown", id |-> 0]

Partial  == {"truncated", "cancelled", "timedout"}
Outcomes == {"complete", "skipped", "error"} \cup Partial
Reply == [id : Nat, host : Hosts, from : Hosts, outcome : Outcomes]

(* One turn of the loop: the id it received, the host read at the top of   *)
(* the loop for the reply, the host of the connection in use, how the work *)
(* ended, and the batches fetched after its cancel was asked for, counted  *)
(* up to two.                                                              *)
Job == [id : Nat, stamp : Hosts, via : Hosts, outcome : Outcomes, overshoot : Nat]
NoJob == [id |-> 0, stamp |-> Local, via |-> Local,
          outcome |-> "complete", overshoot |-> 0]

UiPlaces == {"open", "cancel", "stop", "drop", "join", "closed"}
WorkerPlaces == {"recv", "dispatch", "check", "fetch", "end", "reply", "exited"}

(* A cancel of id has been asked for: its flag has been raised by send().  *)
CancelAsked(id) ==
  \/ ui = "cancel" /\ cancelId = id
  \/ \E p \in DOMAIN chan : chan[p] = CancelMsg(id)

Running(id) == wpc \in {"dispatch", "check", "fetch", "end", "reply"} /\ job.id = id

-----------------------------------------------------------------------------
Init ==
  /\ ui = "open" /\ cancelId = 0
  /\ reqs = <<>> /\ chan = <<>> /\ replies = <<>>
  /\ shutdown = FALSE /\ live = {} /\ raised = {}
  /\ wpc = "recv" /\ read = 0 /\ job = NoJob
  /\ target = LocalTarget /\ conns = {} /\ kinds = {}

-----------------------------------------------------------------------------
(* WorkerControl: one entry of the flag map per id that needs one.         *)

(* Mutants of Adopt and Forget, to show what the properties catch: a fresh *)
(* flag in place of the one that waits; an entry forgotten while its flag  *)
(* stays up; nothing forgotten.                                            *)
AdoptFresh(id)      == live' = live \cup {id} /\ raised' = raised \ {id}
ForgetEntryOnly(id) == live' = live \ {id} /\ raised' = raised
ForgetNothing(id)   == live' = live /\ raised' = raised

(* begin(): take over the flag that is there, or make one.                 *)
Adopt(id) == live' = live \cup {id} /\ raised' = raised

(* end().                                                                  *)
Forget(id) == live' = live \ {id} /\ raised' = raised \ {id}

-----------------------------------------------------------------------------
(* The handle.                                                             *)

workerSide == <<replies, wpc, read, job, targetVars>>

(* send() of an ordinary request: queue it, touch no flag.                 *)
Submit(r) ==
  /\ ui = "open" /\ Len(reqs) < MaxRequests
  /\ reqs' = Append(reqs, r)
  /\ chan' = Append(chan, RequestMsg(Len(reqs) + 1))
  /\ UNCHANGED <<ui, cancelId, controlVars, workerSide>>

(* send() of a Cancel raises the flag first.  WorkerControl::cancel        *)
(* creates the entry when there is none, so a cancel that overtakes a      *)
(* queued request waits for it in the map.                                 *)
RaiseCancel(id) ==
  /\ ui = "open" /\ id \in DOMAIN reqs
  /\ Cardinality({p \in DOMAIN chan : chan[p].tag = "cancel"}) < MaxCancels
  /\ ui' = "cancel" /\ cancelId' = id
  /\ live' = live \cup {id} /\ raised' = raised \cup {id}
  /\ UNCHANGED <<reqs, chan, shutdown, workerSide>>

(* ... and queues the message second.                                      *)
QueueCancel ==
  /\ ui = "cancel"
  /\ ui' = "open" /\ cancelId' = 0
  /\ chan' = Append(chan, CancelMsg(cancelId))
  /\ UNCHANGED <<reqs, controlVars, workerSide>>

(* send() of a Shutdown, and Drop: raise the stop flag first ...           *)
RaiseShutdown ==
  /\ ui = "open"
  /\ \/ ~shutdown /\ ui' = "stop"
     \/ ui' = "drop"
  /\ shutdown' = TRUE
  /\ UNCHANGED <<cancelId, reqs, chan, live, raised, workerSide>>

(* ... and queue the message second.  After Drop the thread is joined.     *)
QueueShutdown ==
  /\ \/ ui = "stop" /\ ui' = "open"
     \/ ui = "drop" /\ ui' = "join"
  /\ chan' = Append(chan, ShutdownMsg)
  /\ UNCHANGED <<cancelId, reqs, controlVars, workerSide>>

Join ==
  /\ ui = "join" /\ wpc = "exited"
  /\ ui' = "closed"
  /\ UNCHANGED <<cancelId, reqs, chan, controlVars, workerSide>>

-----------------------------------------------------------------------------
(* The worker thread: the loop of run().                                   *)

(* Mutant of Receive: the stop flag is not looked at.                      *)
ReceiveAnyway ==
  /\ wpc = "recv" /\ read < Len(chan)
  /\ read' = read + 1 /\ wpc' = "dispatch"
  /\ job' = [NoJob EXCEPT !.id = chan[read + 1].id, !.stamp = target.host]
  /\ UNCHANGED <<handleVars, replies, controlVars, targetVars>>

(* Take the next message.  The stop flag is looked at here and only here:  *)
(* once it is up, the message and everything behind it are dropped.  The   *)
(* arm for Request::Shutdown itself is never reached, the flag being up by *)
(* the time the message is in the channel.                                 *)
Receive ==
  /\ wpc = "recv" /\ read < Len(chan)
  /\ read' = read + 1
  /\ IF shutdown
     THEN wpc' = "exited" /\ UNCHANGED job
     ELSE /\ wpc' = "dispatch"
          /\ job' = [NoJob EXCEPT !.id = chan[read + 1].id, !.stamp = target.host]
  /\ UNCHANGED <<handleVars, replies, controlVars, targetVars>>

Handling(tag) == wpc = "dispatch" /\ chan[read].tag = tag

(* A Cancel that surfaces has done its work already: forget the flag.      *)
ForgetFlag ==
  /\ Handling("cancel")
  /\ Forget(job.id)
  /\ wpc' = "recv" /\ job' = NoJob
  /\ UNCHANGED <<handleVars, replies, shutdown, read, targetVars>>

(* bind(): under alternate credentials a cached connection is reused and a *)
(* new one is cached, and there has to be a host; otherwise a connection   *)
(* is opened for the request alone.  Either connect may fail.              *)
Bind(t, cache, ns, ok, host, cacheAfter) ==
  \/ /\ t.alt /\ \E c \in cache : c.ns = ns /\ host = c.host
     /\ ok /\ cacheAfter = cache
  \/ /\ t.alt /\ \A c \in cache : c.ns # ns
     /\ host = t.host
     /\ \/ ok /\ t.host # Local /\ cacheAfter = cache \cup {[ns |-> ns, host |-> host]}
        \/ ~ok /\ cacheAfter = cache
  \/ /\ ~t.alt /\ host = t.host /\ cacheAfter = cache

(* class_kind() of instance_count(): from the cache when the class is in   *)
(* it, or fetched (which may fail) and cached.  The kind then decides      *)
(* whether the instances are worth counting.                               *)
LookUpKind(ns, host) ==
  \/ /\ \/ (\E k \in kinds : k.ns = ns) /\ UNCHANGED kinds
        \/ kinds' = kinds \cup {[ns |-> ns, host |-> host]}
     /\ \/ wpc' = "check" /\ job' = [job EXCEPT !.via = host]
        \/ wpc' = "end" /\ job' = [job EXCEPT !.via = host, !.outcome = "skipped"]
  \/ /\ wpc' = "end" /\ job' = [job EXCEPT !.via = host, !.outcome = "error"]
     /\ UNCHANGED kinds

(* begin() adopts a flag that is already there, then the namespace is      *)
(* bound and the enumeration opened, which may fail too.                   *)
BeginScan ==
  /\ Handling("request") /\ reqs[job.id].op \in Scans
  /\ Adopt(job.id)
  /\ \E ok \in BOOLEAN, host \in Hosts :
       /\ Bind(target, conns, reqs[job.id].ns, ok, host, conns')
       /\ \/ /\ wpc' = "end" /\ job' = [job EXCEPT !.via = host, !.outcome = "error"]
             /\ UNCHANGED kinds
          \/ /\ ok /\ reqs[job.id].op # "InstanceCount"
             /\ wpc' = "check" /\ job' = [job EXCEPT !.via = host]
             /\ UNCHANGED kinds
          \/ ok /\ reqs[job.id].op = "InstanceCount" /\ LookUpKind(reqs[job.id].ns, host)
  /\ UNCHANGED <<handleVars, replies, shutdown, read, target>>

scanFrame == <<handleVars, replies, controlVars, read, targetVars>>

(* Mutants of Interrupted: a scan that looks at anyone's flag, at its own  *)
(* only, or at the stop flag only.                                         *)
InterruptedByAny == raised # {} \/ shutdown
InterruptedByOwn == job.id \in raised
InterruptedByStop == shutdown

(* The top of drain()'s loop: the flags, then the deadline, then a batch.  *)
Interrupted == job.id \in raised \/ shutdown

(* A drain() that stops short says why.  The helpers that cannot use a     *)
(* partial answer (q_maps_within) make an error of it.                     *)
StopScan(why) ==
  /\ wpc' = "end"
  /\ \E how \in {why} \cup (IF reqs[job.id].op = "Query" THEN {"error"} ELSE {}) :
       job' = [job EXCEPT !.outcome = how]

CheckFlags ==
  /\ wpc = "check"
  /\ IF Interrupted
     THEN StopScan("cancelled")
     ELSE wpc' = "fetch" /\ UNCHANGED job
  /\ UNCHANGED scanFrame

(* Mutant of CheckDeadline: no clock.                                      *)
NeverTimesOut == FALSE

CheckDeadline ==
  /\ wpc = "check" /\ ~Interrupted /\ reqs[job.id].limited
  /\ StopScan("timedout")
  /\ UNCHANGED scanFrame

(* One Next() call, of at most 200 ms.  It brings a batch, or nothing yet  *)
(* (back to the top); the row that proves the cap was exceeded; the last   *)
(* rows; or an error.                                                      *)
FetchBatch ==
  /\ wpc = "fetch"
  /\ LET over == IF CancelAsked(job.id) /\ job.overshoot <= 1
                 THEN job.overshoot + 1 ELSE job.overshoot IN
       \/ wpc' = "check" /\ job' = [job EXCEPT !.overshoot = over]
       \/ \E how \in {"complete", "truncated", "error"} :
            wpc' = "end" /\ job' = [job EXCEPT !.overshoot = over, !.outcome = how]
  /\ UNCHANGED scanFrame

EndScan ==
  /\ wpc = "end"
  /\ Forget(job.id)
  /\ wpc' = "reply"
  /\ UNCHANGED <<handleVars, replies, shutdown, read, job, targetVars>>

(* Mutants of SendReplyWith: the turn goes on after the reply; the stamp   *)
(* is read before the switch.                                              *)
SendReplyAndStay(host, from, how) ==
  /\ replies' = Append(replies, [id |-> job.id, host |-> host, from |-> from, outcome |-> how])
  /\ UNCHANGED <<wpc, job, handleVars, controlVars, read>>
SendReplyStampedBefore(host, from, how) ==
  /\ replies' = Append(replies, [id |-> job.id, host |-> target.host, from |-> from, outcome |-> how])
  /\ wpc' = "recv" /\ job' = NoJob
  /\ UNCHANGED <<handleVars, controlVars, read>>

(* A reply ends the turn.                                                  *)
SendReplyWith(host, from, how) ==
  /\ replies' = Append(replies, [id |-> job.id, host |-> host, from |-> from, outcome |-> how])
  /\ wpc' = "recv" /\ job' = NoJob
  /\ UNCHANGED <<handleVars, controlVars, read>>

(* The reply to a scan; a class list that was read, partial or not, fills  *)
(* the kind cache just before.                                             *)
ReplyToScan ==
  /\ wpc = "reply"
  /\ kinds' = IF reqs[job.id].op = "ListClasses" /\ job.outcome # "error"
              THEN kinds \cup {[ns |-> reqs[job.id].ns, host |-> job.via]}
              ELSE kinds
  /\ SendReplyWith(job.stamp, job.via, job.outcome)
  /\ UNCHANGED <<target, conns>>

(* A request that makes one call: bind, run to its end, reply.             *)
RunCall ==
  /\ Handling("request") /\ reqs[job.id].op = "Call"
  /\ \E ok \in BOOLEAN, host \in Hosts, how \in {"complete", "error"} :
       /\ Bind(target, conns, reqs[job.id].ns, ok, host, conns')
       /\ ~ok => how = "error"
       /\ SendReplyWith(job.stamp, host, how)
  /\ UNCHANGED <<target, kinds>>

(* Mutants of what set_target() leaves behind.                             *)
ConnsKept == conns
KindsKept == kinds

(* What set_target() leaves of the caches.                                 *)
ConnsAfterSwitch == {}
KindsAfterSwitch == {}

(* connect_and_probe(): bind Cimv2 on the new target and ask it who it is. *)
ConnectAndProbe(t, ok, host, how, after) ==
  /\ Bind(t, ConnsAfterSwitch, Cimv2, ok, host, after)
  /\ ~ok => how = "error"

(* SetHost: point the thread-locals at the new target and drop what was    *)
(* cached about the old one, then connect and probe.  The reply carries    *)
(* the new host and a failure leaves the target where it is.               *)
SetHost ==
  /\ Handling("request") /\ reqs[job.id].op = "SetHost"
  /\ target' = reqs[job.id].target
  /\ kinds' = KindsAfterSwitch
  /\ \E ok \in BOOLEAN, host \in Hosts, how \in {"complete", "error"} :
       /\ ConnectAndProbe(target', ok, host, how, conns')
       /\ SendReplyWith(target'.host, host, how)

-----------------------------------------------------------------------------
Handle ==
  \/ \E r \in Menu : Submit(r)
  \/ \E id \in DOMAIN reqs : RaiseCancel(id)
  \/ QueueCancel \/ RaiseShutdown \/ QueueShutdown \/ Join

Work ==
  \/ BeginScan \/ CheckFlags \/ CheckDeadline \/ FetchBatch \/ EndScan
  \/ ReplyToScan \/ RunCall \/ SetHost

Worker == Receive \/ ForgetFlag \/ Work

Next == Handle \/ Worker

Spec == Init /\ [][Next]_vars

(* The worker thread runs whenever it can: each Next() call returns within *)
(* its 200 ms timeout and each connect within its own.  Time passes, so a  *)
(* scan with a deadline that keeps looping sees it pass.  A send() or a    *)
(* Drop that has begun goes on to its end.  Nothing makes a caller send,   *)
(* cancel or close.                                                        *)
Fairness ==
  /\ WF_vars(Worker)
  /\ SF_vars(CheckDeadline)
  /\ WF_vars(QueueCancel) /\ WF_vars(QueueShutdown) /\ WF_vars(Join)

FairSpec == Spec /\ Fairness

-----------------------------------------------------------------------------
(* What the worker promises.                                               *)

(* Every variable has its type.  The flag map holds request ids only, the  *)
(* raised flags are among its entries.                                     *)
TypeOK ==
  /\ ui \in UiPlaces /\ cancelId \in Nat
  /\ reqs \in Seq(Request) /\ chan \in Seq(Message) /\ replies \in Seq(Reply)
  /\ shutdown \in BOOLEAN /\ live \subseteq DOMAIN reqs /\ raised \subseteq live
  /\ wpc \in WorkerPlaces /\ read \in 0 .. Len(chan) /\ job \in Job
  /\ target \in Targets
  /\ conns \subseteq [ns : Namespaces, host : Hosts]
  /\ kinds \subseteq [ns : Namespaces, host : Hosts]

(* A request that was started is answered exactly once, and the answers    *)
(* come in the order the requests were sent: no error path of the loop     *)
(* leaves a request without a reply or sends two, and a Cancel between two *)
(* requests neither answers nor displaces one.                             *)
OneReplyEachInOrder == \A k \in DOMAIN replies : replies[k].id = k

(* The host selected when request k runs is that of the last SetHost at or *)
(* before it in the order of sending -- reached or not -- and this machine *)
(* when there is none.                                                     *)
SelectedAt(k, host) ==
  \/ host = Local /\ \A j \in 1 .. k : reqs[j].op # "SetHost"
  \/ \E j \in 1 .. k :
       /\ reqs[j].op = "SetHost" /\ host = reqs[j].target.host
       /\ \A i \in (j + 1) .. k : reqs[i].op # "SetHost"

(* The host stamp of a reply names the machine that was selected for its   *)
(* request, however many SetHost requests were sent before the reply was   *)
(* read: it is taken when the request runs, not when it is sent or polled. *)
StampIsSelectedHost ==
  \A k \in DOMAIN replies : SelectedAt(replies[k].id, replies[k].host)

(* An answer that is not an error came over a connection to the machine it *)
(* is stamped with: no connection cached for an earlier target survives    *)
(* the switch to answer for the new one.                                   *)
AnsweredByStampedHost ==
  \A k \in DOMAIN replies :
    replies[k].outcome # "error" => replies[k].from = replies[k].host

(* Everything the thread caches about a machine is about the target.       *)
CachesAreTheTargets == \A c \in conns \cup kinds : c.host = target.host

(* Once its cancel has been asked for, a scan fetches at most one more     *)
(* batch, whether the cancel came before, while or after it was queued:    *)
(* a cancel that overtakes its request is not lost.                        *)
CancelTakesEffect == job.overshoot <= 1

(* A reply says "cancelled" only when its own cancel was asked for or the  *)
(* worker was told to stop: a cancel never hits another request.           *)
CancelledOnlyIfAsked ==
  \A k \in DOMAIN replies :
    replies[k].outcome = "cancelled" => CancelAsked(replies[k].id) \/ shutdown

(* An entry of the flag map belongs to a request that is running or to a   *)
(* cancel whose message is still to come through the channel: cancelling a *)
(* request that is already answered leaves nothing behind while the thread *)
(* lives.                                                                  *)
NoFlagLeak ==
  wpc # "exited" => \A id \in live :
    \/ Running(id)
    \/ ui = "cancel" /\ cancelId = id
    \/ \E p \in (read + 1) .. Len(chan) : chan[p] = CancelMsg(id)

(* Dropping the handle returns: the thread leaves its work within a batch  *)
(* even when the provider never yields and the queue behind it is full.    *)
DropReturns == ui = "drop" ~> ui = "closed"

(* A running scan whose flag is up is answered, however slow its provider, *)
(* so that the caller's spinner ends.                                      *)
CancelIsAnswered ==
  \A id \in 1 .. MaxRequests :
    (Running(id) /\ id \in raised) ~> id \in DOMAIN replies

(* A request is answered unless the worker is told to stop first, or a     *)
(* scan without a deadline is sent before it or is that request itself.    *)
EveryRequestAnswered ==
  \A id \in 1 .. MaxRequests :
    id \in DOMAIN reqs ~>
      \/ id \in DOMAIN replies \/ shutdown
      \/ \E j \in DOMAIN reqs : j <= id /\ ~reqs[j].limited

(* What a caller relies on, in the terms of RequestService: strictly FIFO  *)
(* service, and at most one answer after the stop flag is raised.          *)
Service == INSTANCE RequestService WITH
  submitted <- Len(reqs),
  served    <- Len(replies),
  phase     <- IF ~shutdown THEN "open"
               ELSE IF \E id \in DOMAIN reqs : Running(id) /\ chan[read].tag = "request"
                    THEN "closing" ELSE "stopped"
ServiceSpec == Service!Spec

-----------------------------------------------------------------------------
(* The inductive invariant behind the safety properties above.             *)

IsRequest(p) == chan[p].tag = "request"

Busy == wpc \in {"check", "fetch", "end", "reply"} \/ Handling("request")

(* The channel holds every request once, in order, and a cancel only       *)
(* behind the request it is for.                                           *)
ChannelInv ==
  /\ \A p \in DOMAIN chan : chan[p].tag \in {"request", "cancel"} => chan[p].id \in DOMAIN reqs
  /\ \A p, q \in DOMAIN chan : p < q /\ IsRequest(p) /\ IsRequest(q) => chan[p].id < chan[q].id
  /\ \A i \in DOMAIN reqs : \E p \in DOMAIN chan : chan[p] = RequestMsg(i)
  /\ \A p \in DOMAIN chan : chan[p].tag = "cancel" =>
       \E q \in 1 .. (p - 1) : chan[q] = RequestMsg(chan[p].id)
  /\ ui = "cancel" => cancelId \in DOMAIN reqs

(* What has been received is what has been answered, plus the request in   *)
(* hand.                                                                   *)
ProgressInv ==
  /\ wpc = "dispatch" => read > 0 /\ chan[read].id = job.id
  /\ Busy => /\ read > 0 /\ chan[read] = RequestMsg(job.id)
             /\ job.id = Len(replies) + 1 /\ job.id \in DOMAIN reqs
  /\ wpc \in {"check", "fetch", "end", "reply"} => reqs[job.id].op \in Scans
  /\ Len(replies) <= Len(reqs)
  /\ wpc # "exited" => \A p \in DOMAIN chan : IsRequest(p) =>
       (p <= read <=> chan[p].id <= Len(replies) + (IF Busy THEN 1 ELSE 0))
  /\ wpc = "exited" => shutdown

(* The thread is pointed at what the answered requests selected, and       *)
(* everything it holds is about that machine.                              *)
HostInv ==
  /\ SelectedAt(Len(replies), target.host)
  /\ CachesAreTheTargets
  /\ Busy => job.stamp = target.host
  /\ wpc \in {"check", "fetch", "end", "reply"} => job.via = target.host

(* A flag is up exactly while its cancel can still matter.                 *)
FlagInv ==
  /\ \A id \in raised : CancelAsked(id)
  /\ \A id \in live \ raised : wpc \in {"check", "fetch", "end"} /\ id = job.id
  /\ wpc # "exited" => \A id \in DOMAIN reqs :
       id > Len(replies) /\ CancelAsked(id) /\ ~(wpc = "reply" /\ id = job.id)
       => id \in raised
  /\ wpc \in {"dispatch", "fetch"} => job.overshoot = 0
  /\ job.overshoot > 0 => job.overshoot = 1 /\ CancelAsked(job.id)
  /\ wpc \in {"end", "reply"} /\ job.outcome = "cancelled" => CancelAsked(job.id) \/ shutdown

WorkerInv ==
  /\ TypeOK /\ ChannelInv /\ ProgressInv /\ HostInv /\ FlagInv /\ NoFlagLeak
  /\ OneReplyEachInOrder /\ StampIsSelectedHost /\ AnsweredByStampedHost
  /\ CancelledOnlyIfAsked
=============================================================================
