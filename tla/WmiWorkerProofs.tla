--------------------------- MODULE WmiWorkerProofs ---------------------------
(***************************************************************************)
(* Proofs about WmiWorker, for every set of hosts, namespaces and requests *)
(* and every bound.                                                        *)
(***************************************************************************)
EXTENDS WmiWorker, SequenceTheorems, TLAPS

(* The constants of the module denote values of the types they appear in.  *)
LEMMA Constants ==
  /\ LocalTarget \in Targets /\ NoJob \in Job
  /\ \A id \in Nat : RequestMsg(id) \in Message /\ CancelMsg(id) \in Message
  /\ ShutdownMsg \in Message
  /\ Menu \subseteq Request
BY WorkerAssumption, MenuAssumption
   DEF LocalTarget, Targets, NoJob, Job, Outcomes, Partial, RequestMsg, CancelMsg,
       ShutdownMsg, Message, Submittable

(* Appending to a sequence keeps what is there and adds one element.       *)
LEMMA Appended ==
  ASSUME NEW S, NEW s \in Seq(S), NEW e \in S
  PROVE  /\ Append(s, e) \in Seq(S)
         /\ Len(s) \in Nat /\ Len(Append(s, e)) = Len(s) + 1
         /\ DOMAIN s = 1 .. Len(s) /\ DOMAIN Append(s, e) = 1 .. (Len(s) + 1)
         /\ \A i \in 1 .. Len(s) : Append(s, e)[i] = s[i] /\ s[i] \in S
         /\ Append(s, e)[Len(s) + 1] = e
OBVIOUS

(* A fresh worker satisfies the invariant.                                 *)
LEMMA InitInv == Init => WorkerInv
<1> SUFFICES ASSUME Init PROVE WorkerInv
  OBVIOUS
<1> USE Constants, WorkerAssumption DEF Init
<1>1. TypeOK
  <2>1. <<>> \in Seq(Request) /\ <<>> \in Seq(Message) /\ <<>> \in Seq(Reply)
        /\ Len(<<>>) = 0 /\ DOMAIN <<>> = {}
    BY EmptySeq
  <2> QED
    <3>1. ui \in UiPlaces /\ wpc \in WorkerPlaces /\ cancelId \in Nat /\ shutdown \in BOOLEAN
      BY DEF UiPlaces, WorkerPlaces
    <3>2. reqs \in Seq(Request) /\ chan \in Seq(Message) /\ replies \in Seq(Reply)
      BY <2>1
    <3>3. live \subseteq DOMAIN reqs /\ raised \subseteq live /\ read \in 0 .. Len(chan)
      BY <2>1
    <3>4. job \in Job /\ target \in Targets
      OBVIOUS
    <3>5. conns \subseteq [ns : Namespaces, host : Hosts] /\ kinds \subseteq [ns : Namespaces, host : Hosts]
      OBVIOUS
    <3> QED
      BY <3>1, <3>2, <3>3, <3>4, <3>5 DEF TypeOK
<1>2. ChannelInv
  BY DEF ChannelInv
<1>3. ProgressInv
  BY DEF ProgressInv, Busy, Handling
<1>4. HostInv
  BY DEF HostInv, SelectedAt, CachesAreTheTargets, LocalTarget, Busy, Handling
<1>5. FlagInv
  BY DEF FlagInv, NoJob
<1>6. NoFlagLeak /\ OneReplyEachInOrder /\ StampIsSelectedHost
      /\ AnsweredByStampedHost /\ CancelledOnlyIfAsked
  BY DEF NoFlagLeak, OneReplyEachInOrder, StampIsSelectedHost, AnsweredByStampedHost,
         CancelledOnlyIfAsked
<1> QED
  BY <1>1, <1>2, <1>3, <1>4, <1>5, <1>6 DEF WorkerInv

-----------------------------------------------------------------------------
(* The handle's steps.                                                     *)

(* A request sent goes behind everything sent before it, and no cancel for *)
(* it exists yet.                                                          *)
LEMMA SubmitInv ==
  ASSUME WorkerInv, NEW r \in Menu, Submit(r)
  PROVE  WorkerInv'
<1> DEFINE n == Len(reqs) + 1
           m == RequestMsg(n)
<1>1. TypeOK /\ ChannelInv /\ ProgressInv /\ HostInv /\ FlagInv /\ NoFlagLeak
      /\ OneReplyEachInOrder /\ StampIsSelectedHost /\ AnsweredByStampedHost
      /\ CancelledOnlyIfAsked
  BY DEF WorkerInv
<1>2. /\ reqs' = Append(reqs, r) /\ chan' = Append(chan, m)
      /\ UNCHANGED <<ui, cancelId, replies, wpc, read, job, target, conns, kinds,
                     shutdown, live, raised>>
  BY DEF Submit, controlVars, workerSide, targetVars
<1>3. /\ reqs \in Seq(Request) /\ r \in Request
      /\ chan \in Seq(Message) /\ m \in Message /\ n \in Nat
  BY <1>1, Constants DEF TypeOK
<1>4. /\ reqs' \in Seq(Request) /\ DOMAIN reqs = 1 .. Len(reqs) /\ DOMAIN reqs' = 1 .. n
      /\ Len(reqs) \in Nat /\ Len(reqs') = n
      /\ \A i \in 1 .. Len(reqs) : reqs'[i] = reqs[i]
  BY <1>2, <1>3, Appended
<1>5. /\ chan' \in Seq(Message) /\ DOMAIN chan = 1 .. Len(chan)
      /\ DOMAIN chan' = 1 .. (Len(chan) + 1) /\ Len(chan) \in Nat
      /\ Len(chan') = Len(chan) + 1
      /\ \A p \in 1 .. Len(chan) : chan'[p] = chan[p] /\ chan[p] \in Message
      /\ chan'[Len(chan) + 1] = m
  BY <1>2, <1>3, Appended
<1>6. m = RequestMsg(n) /\ m.tag = "request" /\ m.id = n /\ n = Len(reqs) + 1
  BY DEF RequestMsg
<1> HIDE DEF m, n
<1>7. TypeOK'
  BY <1>1, <1>2, <1>4, <1>5 DEF TypeOK
<1>8. /\ 0 <= read /\ read <= Len(chan) /\ read \in Nat
      /\ \A p \in 1 .. Len(chan) : chan'[p].tag = chan[p].tag /\ chan'[p].id = chan[p].id
      /\ \A p \in 1 .. Len(chan) : chan[p].id \in Nat
      /\ job.id \in Nat /\ cancelId \in Nat
      /\ Len(replies) \in Nat /\ DOMAIN replies = 1 .. Len(replies)
  BY SMTT(30), ZenonT(30), <1>1, <1>5 DEF TypeOK, Message, Job
<1>9. (wpc = "dispatch" => read > 0) /\ (Busy => read > 0)
  BY <1>1 DEF ProgressInv
<1>10. /\ \A t : Handling(t)' = Handling(t)
       /\ Busy' = Busy
  BY <1>1, <1>2, <1>5, <1>8 DEF Handling, Busy, ProgressInv
<1>11. ChannelInv'
  <2>1. (\A p \in DOMAIN chan : chan[p].tag \in {"request", "cancel"} => chan[p].id \in DOMAIN reqs)'
    <3> SUFFICES ASSUME NEW p \in 1 .. (Len(chan) + 1), chan'[p].tag \in {"request", "cancel"}
                 PROVE  chan'[p].id \in 1 .. n
      BY <1>4, <1>5
    <3>1. CASE p \in 1 .. Len(chan)
      <4>1. chan[p].id \in 1 .. Len(reqs)
        BY <1>1, <1>4, <1>5, <3>1 DEF ChannelInv
      <4> QED
        BY <1>4, <1>5, <1>6, <3>1, <4>1
    <3>2. CASE p = Len(chan) + 1
      BY <1>4, <1>5, <1>6, <3>2
    <3> QED
      BY <1>5, <3>1, <3>2
  <2>2. (\A p, q \in DOMAIN chan : p < q /\ IsRequest(p) /\ IsRequest(q) => chan[p].id < chan[q].id)'
    <3> SUFFICES ASSUME NEW p \in 1 .. (Len(chan) + 1), NEW q \in 1 .. (Len(chan) + 1), p < q,
                        chan'[p].tag = "request", chan'[q].tag = "request"
                 PROVE  chan'[p].id < chan'[q].id
      BY <1>5 DEF IsRequest
    <3>1. p \in 1 .. Len(chan) /\ chan[p].tag = "request" /\ chan[p].id \in 1 .. Len(reqs)
      BY <1>1, <1>4, <1>5 DEF ChannelInv
    <3>2. CASE q \in 1 .. Len(chan)
      BY <1>1, <1>5, <3>1, <3>2 DEF ChannelInv, IsRequest
    <3>3. CASE q = Len(chan) + 1
      BY <1>4, <1>5, <1>6, <3>1, <3>3
    <3> QED
      BY <1>5, <3>2, <3>3
  <2>3. (\A i \in DOMAIN reqs : \E p \in DOMAIN chan : chan[p] = RequestMsg(i))'
    BY <1>1, <1>4, <1>5, <1>6 DEF ChannelInv
  <2>4. (\A p \in DOMAIN chan : chan[p].tag = "cancel" =>
           \E q \in 1 .. (p - 1) : chan[q] = RequestMsg(chan[p].id))'
    <3> SUFFICES ASSUME NEW p \in 1 .. (Len(chan) + 1), chan'[p].tag = "cancel"
                 PROVE  \E q \in 1 .. (p - 1) : chan'[q] = RequestMsg(chan'[p].id)
      BY <1>5
    <3>1. p \in 1 .. Len(chan) /\ chan[p].tag = "cancel"
      BY <1>5, <1>6
    <3>2. PICK q \in 1 .. (p - 1) : chan[q] = RequestMsg(chan[p].id)
      BY <1>1, <1>5, <3>1 DEF ChannelInv
    <3> QED
      BY <1>5, <3>1, <3>2
  <2>5. (ui = "cancel" => cancelId \in DOMAIN reqs)'
    BY <1>1, <1>2, <1>4 DEF ChannelInv
  <2> QED
    BY <2>1, <2>2, <2>3, <2>4, <2>5 DEF ChannelInv
<1>12. ProgressInv'
  <2>1. (wpc = "dispatch" => read > 0 /\ chan[read].id = job.id)'
    BY <1>1, <1>2, <1>5, <1>8 DEF ProgressInv
  <2>2. (Busy => /\ read > 0 /\ chan[read] = RequestMsg(job.id)
                 /\ job.id = Len(replies) + 1 /\ job.id \in DOMAIN reqs)'
    BY <1>1, <1>2, <1>4, <1>5, <1>8, <1>10 DEF ProgressInv
  <2>3. (wpc \in {"check", "fetch", "end", "reply"} => reqs[job.id].op \in Scans)'
    BY <1>1, <1>2, <1>4 DEF ProgressInv, Busy
  <2>4. (wpc # "exited" => \A p \in DOMAIN chan : IsRequest(p) =>
           (p <= read <=> chan[p].id <= Len(replies) + (IF Busy THEN 1 ELSE 0)))'
    <3>1. Len(replies) + (IF Busy THEN 1 ELSE 0) <= Len(reqs)
      BY <1>1, <1>4, <1>8 DEF ProgressInv
    <3> QED
      BY <1>1, <1>2, <1>3, <1>4, <1>5, <1>6, <1>8, <1>10, <3>1 DEF ProgressInv, IsRequest
  <2> QED
    <3>1. (Len(replies) <= Len(reqs))' /\ (wpc = "exited" => shutdown)'
      BY <1>1, <1>2, <1>4, <1>6, <1>8 DEF ProgressInv
    <3> QED
      BY <2>1, <2>2, <2>3, <2>4, <3>1 DEF ProgressInv
<1>13. \A k \in 0 .. Len(reqs) : \A h : SelectedAt(k, h)' = SelectedAt(k, h)
  <2> SUFFICES ASSUME NEW k \in 0 .. Len(reqs), NEW h
               PROVE  SelectedAt(k, h)' = SelectedAt(k, h)
    OBVIOUS
  <2>1. \A j \in 1 .. k : reqs'[j] = reqs[j] /\ \A i \in (j + 1) .. k : reqs'[i] = reqs[i]
    BY <1>4
  <2>2. (\A j \in 1 .. k : reqs'[j].op # "SetHost") <=> (\A j \in 1 .. k : reqs[j].op # "SetHost")
    BY <2>1
  <2>3. \A j \in 1 .. k : (\A i \in (j + 1) .. k : reqs'[i].op # "SetHost")
                         <=> (\A i \in (j + 1) .. k : reqs[i].op # "SetHost")
    BY <2>1
  <2> QED
    BY SMTT(30), ZenonT(30), <2>1, <2>2, <2>3 DEF SelectedAt
<1>14. HostInv'
  BY <1>1, <1>2, <1>8, <1>10, <1>13 DEF HostInv, ProgressInv, CachesAreTheTargets
<1>15. \A id : CancelAsked(id)' = CancelAsked(id)
  BY <1>2, <1>5, <1>6 DEF CancelAsked, CancelMsg
<1>16. FlagInv'
  <2>1. ~CancelAsked(n)
    BY <1>1, <1>4, <1>5 DEF ChannelInv, CancelAsked, CancelMsg, n
  <2> QED
    BY <1>1, <1>2, <1>4, <1>8, <1>15, <2>1 DEF FlagInv
<1>17. NoFlagLeak'
  <2> SUFFICES ASSUME wpc # "exited", NEW id \in live, ~Running(id), ~(ui = "cancel" /\ cancelId = id)
               PROVE  \E p \in (read + 1) .. Len(chan') : chan'[p] = CancelMsg(id)
    BY <1>2 DEF NoFlagLeak, Running
  <2>1. PICK p \in (read + 1) .. Len(chan) : chan[p] = CancelMsg(id)
    BY <1>1 DEF NoFlagLeak
  <2> QED
    BY <1>5, <1>8, <2>1
<1>18. OneReplyEachInOrder' /\ StampIsSelectedHost' /\ AnsweredByStampedHost'
  BY <1>1, <1>2, <1>8, <1>13 DEF OneReplyEachInOrder, StampIsSelectedHost, AnsweredByStampedHost, ProgressInv
<1>19. CancelledOnlyIfAsked'
  BY <1>1, <1>2, <1>15 DEF CancelledOnlyIfAsked
<1> QED
  BY <1>7, <1>11, <1>12, <1>14, <1>16, <1>17, <1>18, <1>19 DEF WorkerInv

(* The parts of WorkerInv, and the bounds that follow from the types.      *)
LEMMA Parts ==
  ASSUME WorkerInv
  PROVE  /\ TypeOK /\ ChannelInv /\ ProgressInv /\ HostInv /\ FlagInv /\ NoFlagLeak
         /\ OneReplyEachInOrder /\ StampIsSelectedHost /\ AnsweredByStampedHost
         /\ CancelledOnlyIfAsked
         /\ read \in Nat /\ read <= Len(chan) /\ job.id \in Nat /\ cancelId \in Nat
         /\ Len(chan) \in Nat /\ Len(reqs) \in Nat /\ Len(replies) \in Nat
         /\ DOMAIN chan = 1 .. Len(chan) /\ DOMAIN reqs = 1 .. Len(reqs)
         /\ DOMAIN replies = 1 .. Len(replies)
         /\ \A p \in 1 .. Len(chan) : chan[p] \in Message /\ chan[p].id \in Nat
<1>1. TypeOK
  BY DEF WorkerInv
<1>2. /\ Len(chan) \in Nat /\ DOMAIN chan = 1 .. Len(chan)
      /\ Len(reqs) \in Nat /\ DOMAIN reqs = 1 .. Len(reqs)
      /\ Len(replies) \in Nat /\ DOMAIN replies = 1 .. Len(replies)
      /\ \A p \in 1 .. Len(chan) : chan[p] \in Message
  BY <1>1 DEF TypeOK
<1>3. read \in Nat /\ read <= Len(chan) /\ job.id \in Nat /\ cancelId \in Nat
  BY <1>1, <1>2 DEF TypeOK, Job
<1>4. \A p \in 1 .. Len(chan) : chan[p].id \in Nat
  BY <1>2 DEF Message
<1> QED
  BY <1>1, <1>2, <1>3, <1>4 DEF WorkerInv

(* A step that leaves the channel, the requests, the replies and the       *)
(* thread alone keeps what is said of them.                                *)
LEMMA HandleFrame ==
  ASSUME WorkerInv,
         UNCHANGED <<reqs, chan, replies, wpc, read, job, target, conns, kinds>>,
         ui' = "cancel" => cancelId' \in DOMAIN reqs,
         shutdown => shutdown'
  PROVE  /\ ChannelInv' /\ ProgressInv' /\ HostInv'
         /\ OneReplyEachInOrder' /\ StampIsSelectedHost' /\ AnsweredByStampedHost'
         /\ \A id : Running(id)' = Running(id)
<1> USE Parts
<1>1. ChannelInv'
  BY DEF ChannelInv, IsRequest
<1>2. Busy' = Busy /\ \A id : Running(id)' = Running(id)
  BY DEF Busy, Handling, Running
<1>3. ProgressInv'
  BY <1>2 DEF ProgressInv, IsRequest
<1>4. \A k, h : SelectedAt(k, h)' = SelectedAt(k, h)
  BY DEF SelectedAt
<1>5. HostInv'
  BY <1>2, <1>4 DEF HostInv, CachesAreTheTargets
<1>6. OneReplyEachInOrder' /\ StampIsSelectedHost' /\ AnsweredByStampedHost'
  BY <1>4 DEF OneReplyEachInOrder, StampIsSelectedHost, AnsweredByStampedHost
<1> QED
  BY <1>1, <1>2, <1>3, <1>5, <1>6

(* The flag is raised with the cancel asked for in the same step.          *)
LEMMA RaiseCancelInv ==
  ASSUME WorkerInv, NEW id \in DOMAIN reqs, RaiseCancel(id)
  PROVE  WorkerInv'
<1> USE Parts
<1>1. /\ ui = "open" /\ ui' = "cancel" /\ cancelId' = id
      /\ live' = live \cup {id} /\ raised' = raised \cup {id}
      /\ UNCHANGED <<reqs, chan, replies, shutdown, wpc, read, job, target, conns, kinds>>
  BY DEF RaiseCancel, workerSide, targetVars
<1>2. /\ ChannelInv' /\ ProgressInv' /\ HostInv'
      /\ OneReplyEachInOrder' /\ StampIsSelectedHost' /\ AnsweredByStampedHost'
      /\ \A i : Running(i)' = Running(i)
  BY <1>1, HandleFrame
<1>3. \A i : CancelAsked(i)' <=> (CancelAsked(i) \/ i = id)
  BY <1>1 DEF CancelAsked
<1>4. TypeOK'
  BY <1>1 DEF TypeOK, UiPlaces
<1>5. FlagInv'
  BY <1>1, <1>3 DEF FlagInv
<1>6. NoFlagLeak'
  BY <1>1, <1>2 DEF NoFlagLeak
<1>7. CancelledOnlyIfAsked'
  BY <1>1, <1>3 DEF CancelledOnlyIfAsked
<1> QED
  BY <1>2, <1>4, <1>5, <1>6, <1>7 DEF WorkerInv

(* The stop flag only ever excuses more.                                   *)
LEMMA RaiseShutdownInv ==
  ASSUME WorkerInv, RaiseShutdown
  PROVE  WorkerInv'
<1> USE Parts
<1>1. /\ ui = "open" /\ ui' \in {"stop", "drop"} /\ shutdown'
      /\ UNCHANGED <<cancelId, live, raised,
                     reqs, chan, replies, wpc, read, job, target, conns, kinds>>
  BY DEF RaiseShutdown, workerSide, targetVars
<1>2. /\ ChannelInv' /\ ProgressInv' /\ HostInv'
      /\ OneReplyEachInOrder' /\ StampIsSelectedHost' /\ AnsweredByStampedHost'
      /\ \A i : Running(i)' = Running(i)
  BY <1>1, HandleFrame
<1>3. \A i : CancelAsked(i)' <=> CancelAsked(i)
  BY <1>1 DEF CancelAsked
<1>4. TypeOK'
  BY <1>1 DEF TypeOK, UiPlaces, RaiseShutdown
<1>5. FlagInv'
  BY <1>1, <1>3 DEF FlagInv
<1>6. NoFlagLeak'
  BY <1>1, <1>2 DEF NoFlagLeak
<1>7. CancelledOnlyIfAsked'
  BY <1>1, <1>3 DEF CancelledOnlyIfAsked
<1> QED
  BY <1>2, <1>4, <1>5, <1>6, <1>7 DEF WorkerInv

(* Joining the thread changes nothing but the handle.                      *)
LEMMA JoinInv ==
  ASSUME WorkerInv, Join
  PROVE  WorkerInv'
<1> USE Parts
<1>1. /\ ui = "join" /\ ui' = "closed"
      /\ UNCHANGED <<cancelId, shutdown, live, raised,
                     reqs, chan, replies, wpc, read, job, target, conns, kinds>>
  BY DEF Join, workerSide, controlVars, targetVars
<1>2. /\ ChannelInv' /\ ProgressInv' /\ HostInv'
      /\ OneReplyEachInOrder' /\ StampIsSelectedHost' /\ AnsweredByStampedHost'
      /\ \A i : Running(i)' = Running(i)
  BY <1>1, HandleFrame
<1>3. \A i : CancelAsked(i)' <=> CancelAsked(i)
  BY <1>1 DEF CancelAsked
<1>4. TypeOK'
  BY <1>1 DEF TypeOK, UiPlaces
<1>5. FlagInv'
  BY <1>1, <1>3 DEF FlagInv
<1>6. NoFlagLeak'
  BY <1>1, <1>2 DEF NoFlagLeak
<1>7. CancelledOnlyIfAsked'
  BY <1>1, <1>3 DEF CancelledOnlyIfAsked
<1> QED
  BY <1>2, <1>4, <1>5, <1>6, <1>7 DEF WorkerInv

(* Queueing a Cancel or a Shutdown: the message goes behind everything     *)
(* already sent and is no request.                                         *)
LEMMA QueueFlagMessage ==
  ASSUME WorkerInv, NEW m \in Message,
         \/ m.tag = "cancel" /\ m.id \in DOMAIN reqs
         \/ m.tag = "shutdown",
         chan' = Append(chan, m), ui' # "cancel",
         UNCHANGED <<reqs, replies, shutdown, wpc, read, job, target, conns, kinds>>
  PROVE  /\ chan' \in Seq(Message) /\ Len(chan') = Len(chan) + 1
         /\ \A p \in 1 .. Len(chan) : chan'[p] = chan[p]
         /\ chan'[Len(chan) + 1] = m
         /\ DOMAIN chan' = 1 .. (Len(chan) + 1)
         /\ ChannelInv' /\ ProgressInv' /\ HostInv'
         /\ OneReplyEachInOrder' /\ StampIsSelectedHost' /\ AnsweredByStampedHost'
         /\ \A id : Running(id)' = Running(id)
<1> USE Parts
<1>1. /\ chan' \in Seq(Message) /\ Len(chan') = Len(chan) + 1
      /\ DOMAIN chan' = 1 .. (Len(chan) + 1)
      /\ \A p \in 1 .. Len(chan) : chan'[p] = chan[p]
      /\ chan'[Len(chan) + 1] = m
  BY Appended DEF TypeOK
<1>2. m.tag # "request"
  OBVIOUS
<1>3. ChannelInv'
  <2>1. ASSUME NEW p \in 1 .. (Len(chan) + 1), chan'[p].tag \in {"request", "cancel"}
        PROVE  chan'[p].id \in DOMAIN reqs
    BY <1>1, <2>1 DEF ChannelInv
  <2>2. ASSUME NEW p \in 1 .. (Len(chan) + 1), chan'[p].tag = "request"
        PROVE  p \in 1 .. Len(chan) /\ chan[p].tag = "request" /\ chan[p] = chan'[p]
    BY <1>1, <1>2, <2>2
  <2>3. \A i \in DOMAIN reqs : \E p \in 1 .. (Len(chan) + 1) : chan'[p] = RequestMsg(i)
    BY <1>1 DEF ChannelInv
  <2>4. ASSUME NEW p \in 1 .. (Len(chan) + 1), chan'[p].tag = "cancel"
        PROVE  \E q \in 1 .. (p - 1) : chan'[q] = RequestMsg(chan'[p].id)
    <3>1. CASE p \in 1 .. Len(chan)
      <4>1. PICK q \in 1 .. (p - 1) : chan[q] = RequestMsg(chan[p].id)
        BY <1>1, <2>4, <3>1 DEF ChannelInv
      <4> QED
        BY <1>1, <3>1, <4>1
    <3>2. CASE p = Len(chan) + 1
      <4>1. PICK q \in 1 .. Len(chan) : chan[q] = RequestMsg(m.id)
        BY <1>1, <2>4, <3>2 DEF ChannelInv
      <4> QED
        BY <1>1, <3>2, <4>1
    <3> QED
      BY <3>1, <3>2
  <2> QED
    BY SMTT(30), ZenonT(30), <1>1, <2>1, <2>2, <2>3, <2>4 DEF ChannelInv, IsRequest
<1>4. read > 0 => chan'[read] = chan[read]
  BY <1>1
<1>5. Busy' = Busy /\ \A id : Running(id)' = Running(id)
  BY <1>4 DEF Busy, Handling, Running, ProgressInv
<1>6. ProgressInv'
  <2>1. (wpc # "exited" => \A p \in DOMAIN chan : IsRequest(p) =>
           (p <= read <=> chan[p].id <= Len(replies) + (IF Busy THEN 1 ELSE 0)))'
    BY <1>1, <1>2, <1>5 DEF ProgressInv, IsRequest
  <2> QED
    BY <1>4, <1>5, <2>1 DEF ProgressInv
<1>7. \A k, h : SelectedAt(k, h)' = SelectedAt(k, h)
  BY DEF SelectedAt
<1>8. HostInv'
  BY <1>5, <1>7 DEF HostInv, CachesAreTheTargets
<1>9. OneReplyEachInOrder' /\ StampIsSelectedHost' /\ AnsweredByStampedHost'
  BY <1>7 DEF OneReplyEachInOrder, StampIsSelectedHost, AnsweredByStampedHost
<1> QED
  BY <1>1, <1>3, <1>5, <1>6, <1>8, <1>9

(* The flag that waited for the message now has it in the channel.         *)
LEMMA QueueCancelInv ==
  ASSUME WorkerInv, QueueCancel
  PROVE  WorkerInv'
<1> DEFINE m == CancelMsg(cancelId)
<1> USE Parts
<1>1. /\ ui = "cancel" /\ ui' = "open" /\ cancelId' = 0 /\ chan' = Append(chan, m)
      /\ UNCHANGED <<shutdown, live, raised,
                     reqs, replies, wpc, read, job, target, conns, kinds>>
  BY DEF QueueCancel, workerSide, controlVars, targetVars
<1>2. m \in Message /\ m.tag = "cancel" /\ m.id = cancelId /\ cancelId \in DOMAIN reqs
  BY <1>1, Constants DEF CancelMsg, ChannelInv
<1>3. /\ chan' \in Seq(Message) /\ Len(chan') = Len(chan) + 1
      /\ \A p \in 1 .. Len(chan) : chan'[p] = chan[p]
      /\ chan'[Len(chan) + 1] = m
      /\ DOMAIN chan' = 1 .. (Len(chan) + 1)
      /\ ChannelInv' /\ ProgressInv' /\ HostInv'
      /\ OneReplyEachInOrder' /\ StampIsSelectedHost' /\ AnsweredByStampedHost'
      /\ \A id : Running(id)' = Running(id)
  BY <1>1, <1>2, QueueFlagMessage
<1>4. \A i : CancelAsked(i)' <=> CancelAsked(i)
  <2> SUFFICES ASSUME NEW i
               PROVE  (\E p \in 1 .. (Len(chan) + 1) : chan'[p] = CancelMsg(i))
                      <=> (cancelId = i \/ \E p \in 1 .. Len(chan) : chan[p] = CancelMsg(i))
    BY <1>1, <1>3 DEF CancelAsked
  <2>1. m = CancelMsg(i) <=> cancelId = i
    BY DEF CancelMsg
  <2>2. \A p \in 1 .. (Len(chan) + 1) : p \in 1 .. Len(chan) \/ p = Len(chan) + 1
    OBVIOUS
  <2>3. Len(chan) + 1 \in 1 .. (Len(chan) + 1) /\ 1 .. Len(chan) \subseteq 1 .. (Len(chan) + 1)
    OBVIOUS
  <2> HIDE DEF m
  <2> QED
    BY <1>3, <2>1, <2>2, <2>3
<1>5. TypeOK'
  BY <1>1, <1>3 DEF TypeOK, UiPlaces
<1>6. FlagInv'
  BY <1>1, <1>4 DEF FlagInv
<1>7. NoFlagLeak'
  <2> SUFFICES ASSUME wpc # "exited", NEW id \in live, ~Running(id)
               PROVE  \E p \in (read + 1) .. (Len(chan) + 1) : chan'[p] = CancelMsg(id)
    BY <1>1, <1>3 DEF NoFlagLeak
  <2>1. CASE cancelId = id
    BY <1>3, <2>1
  <2>2. CASE cancelId # id
    <3>1. PICK p \in (read + 1) .. Len(chan) : chan[p] = CancelMsg(id)
      BY <2>2 DEF NoFlagLeak
    <3> QED
      BY <1>3, <3>1
  <2> QED
    BY <2>1, <2>2
<1>8. CancelledOnlyIfAsked'
  BY <1>1, <1>4 DEF CancelledOnlyIfAsked
<1> QED
  BY <1>3, <1>5, <1>6, <1>7, <1>8 DEF WorkerInv

(* The stop message is neither a request nor a cancel.                     *)
LEMMA QueueShutdownInv ==
  ASSUME WorkerInv, QueueShutdown
  PROVE  WorkerInv'
<1> DEFINE m == ShutdownMsg
<1> USE Parts
<1>1. /\ ui \in {"stop", "drop"} /\ ui' \in {"open", "join"} /\ chan' = Append(chan, m)
      /\ UNCHANGED <<cancelId, shutdown, live, raised,
                     reqs, replies, wpc, read, job, target, conns, kinds>>
  BY DEF QueueShutdown, workerSide, controlVars, targetVars
<1>2. m \in Message /\ m.tag = "shutdown"
  BY Constants DEF ShutdownMsg
<1>3. /\ chan' \in Seq(Message) /\ Len(chan') = Len(chan) + 1
      /\ \A p \in 1 .. Len(chan) : chan'[p] = chan[p]
      /\ chan'[Len(chan) + 1] = m
      /\ DOMAIN chan' = 1 .. (Len(chan) + 1)
      /\ ChannelInv' /\ ProgressInv' /\ HostInv'
      /\ OneReplyEachInOrder' /\ StampIsSelectedHost' /\ AnsweredByStampedHost'
      /\ \A id : Running(id)' = Running(id)
  BY <1>1, <1>2, QueueFlagMessage
<1>4. \A i : CancelAsked(i)' <=> CancelAsked(i)
  <2> SUFFICES ASSUME NEW i
               PROVE  (\E p \in 1 .. (Len(chan) + 1) : chan'[p] = CancelMsg(i))
                      <=> (\E p \in 1 .. Len(chan) : chan[p] = CancelMsg(i))
    BY <1>1, <1>3 DEF CancelAsked
  <2>1. m # CancelMsg(i)
    BY <1>2 DEF CancelMsg
  <2>2. \A p \in 1 .. (Len(chan) + 1) : p \in 1 .. Len(chan) \/ p = Len(chan) + 1
    OBVIOUS
  <2>3. 1 .. Len(chan) \subseteq 1 .. (Len(chan) + 1)
    OBVIOUS
  <2> HIDE DEF m
  <2> QED
    BY <1>3, <2>1, <2>2, <2>3
<1>5. TypeOK'
  BY <1>1, <1>3 DEF TypeOK, UiPlaces
<1>6. FlagInv'
  BY <1>1, <1>4 DEF FlagInv
<1>7. NoFlagLeak'
  <2> SUFFICES ASSUME wpc # "exited", NEW id \in live, ~Running(id)
               PROVE  \E p \in (read + 1) .. (Len(chan) + 1) : chan'[p] = CancelMsg(id)
    BY <1>1, <1>3 DEF NoFlagLeak
  <2>1. PICK p \in (read + 1) .. Len(chan) : chan[p] = CancelMsg(id)
    BY <1>1 DEF NoFlagLeak
  <2> QED
    BY <1>3, <2>1
<1>8. CancelledOnlyIfAsked'
  BY <1>1, <1>4 DEF CancelledOnlyIfAsked
<1> QED
  BY <1>3, <1>5, <1>6, <1>7, <1>8 DEF WorkerInv

-----------------------------------------------------------------------------
(* The worker's steps.                                                     *)

(* A step of the thread that does not reply leaves alone what is said of   *)
(* the channel and of the replies.                                         *)
LEMMA WorkerFrame ==
  ASSUME WorkerInv, UNCHANGED <<handleVars, replies, shutdown>>
  PROVE  /\ ChannelInv'
         /\ OneReplyEachInOrder' /\ StampIsSelectedHost' /\ AnsweredByStampedHost'
         /\ CancelledOnlyIfAsked'
         /\ UNCHANGED <<ui, cancelId, reqs, chan>>
         /\ \A id : CancelAsked(id)' = CancelAsked(id)
         /\ \A k, h : SelectedAt(k, h)' = SelectedAt(k, h)
<1> USE Parts
<1>1. UNCHANGED <<ui, cancelId, reqs, chan>>
  BY DEF handleVars
<1>2. ChannelInv'
  BY <1>1 DEF ChannelInv, IsRequest
<1>3. /\ \A id : CancelAsked(id)' = CancelAsked(id)
      /\ \A k, h : SelectedAt(k, h)' = SelectedAt(k, h)
  BY <1>1 DEF CancelAsked, SelectedAt
<1>4. /\ OneReplyEachInOrder' /\ StampIsSelectedHost' /\ AnsweredByStampedHost'
      /\ CancelledOnlyIfAsked'
  BY <1>3 DEF OneReplyEachInOrder, StampIsSelectedHost, AnsweredByStampedHost,
             CancelledOnlyIfAsked
<1> QED
  BY <1>1, <1>2, <1>3, <1>4

(* The thread takes over the next message: a request becomes the one in    *)
(* hand, a cancel is about one already answered.                           *)
LEMMA ReceiveInv ==
  ASSUME WorkerInv, Receive
  PROVE  WorkerInv'
<1> USE Parts
<1>1. /\ wpc = "recv" /\ read < Len(chan) /\ read' = read + 1
      /\ UNCHANGED <<handleVars, replies, shutdown, live, raised, target, conns, kinds>>
      /\ \/ shutdown /\ wpc' = "exited" /\ job' = job
         \/ /\ ~shutdown /\ wpc' = "dispatch"
            /\ job' = [NoJob EXCEPT !.id = chan[read + 1].id, !.stamp = target.host]
  BY DEF Receive, controlVars, targetVars
<1>2. /\ ChannelInv'
      /\ OneReplyEachInOrder' /\ StampIsSelectedHost' /\ AnsweredByStampedHost'
      /\ CancelledOnlyIfAsked'
      /\ UNCHANGED <<ui, cancelId, reqs, chan>>
      /\ \A id : CancelAsked(id)' = CancelAsked(id)
      /\ \A k, h : SelectedAt(k, h)' = SelectedAt(k, h)
  BY <1>1, WorkerFrame
<1>3. wpc' = "dispatch" =>
      /\ job' \in Job /\ job'.id = chan[read + 1].id /\ job'.stamp = target.host
      /\ job'.overshoot = 0
  <2>1. chan[read + 1].id \in Nat /\ target.host \in Hosts
    BY <1>1 DEF TypeOK, Targets
  <2> QED
    BY <1>1, <2>1, Constants DEF NoJob, Job
<1>4. TypeOK'
  BY <1>1, <1>2, <1>3 DEF TypeOK, WorkerPlaces
<1>5. ~Busy /\ (wpc' = "dispatch" => (Busy' <=> chan[read + 1].tag = "request"))
      /\ (wpc' = "exited" => ~Busy')
  BY <1>1, <1>2 DEF Busy, Handling
(* A request that is next in the channel is the first that is unanswered.  *)
<1>6. chan[read + 1].tag = "request" =>
        /\ chan[read + 1].id = Len(replies) + 1
        /\ chan[read + 1].id \in DOMAIN reqs
        /\ chan[read + 1] = RequestMsg(chan[read + 1].id)
  <2> SUFFICES ASSUME chan[read + 1].tag = "request"
               PROVE  /\ chan[read + 1].id = Len(replies) + 1
                      /\ chan[read + 1].id \in DOMAIN reqs
                      /\ chan[read + 1] = RequestMsg(chan[read + 1].id)
    OBVIOUS
  <2>1. chan[read + 1].id \in DOMAIN reqs /\ chan[read + 1].id > Len(replies)
    BY <1>1, <1>5 DEF ChannelInv, ProgressInv, IsRequest
  <2>2. Len(replies) + 1 \in DOMAIN reqs
    BY <2>1
  <2>3. PICK p \in DOMAIN chan : chan[p] = RequestMsg(Len(replies) + 1)
    BY <2>2 DEF ChannelInv
  <2>4. chan[p].tag = "request" /\ chan[p].id = Len(replies) + 1
    BY <2>3 DEF RequestMsg
  <2>5. p > read
    BY <1>1, <1>5, <2>4 DEF ProgressInv, IsRequest
  <2>6. p = read + 1
    <3>1. CASE p > read + 1
      BY <1>1, <2>1, <2>4, <3>1 DEF ChannelInv, IsRequest
    <3> QED
      BY <2>5, <3>1
  <2> QED
    BY <2>1, <2>3, <2>4, <2>6
<1>7. ProgressInv'
  <2>1. CASE wpc' = "exited"
    BY <1>1, <1>2, <1>5, <2>1 DEF ProgressInv
  <2>2. CASE wpc' = "dispatch"
    <3>1. (wpc = "dispatch" => read > 0 /\ chan[read].id = job.id)'
      BY <1>1, <1>2, <1>3, <2>2
    <3>2. (Busy => /\ read > 0 /\ chan[read] = RequestMsg(job.id)
                   /\ job.id = Len(replies) + 1 /\ job.id \in DOMAIN reqs)'
      BY <1>1, <1>2, <1>3, <1>5, <1>6, <2>2
    <3>3. (\A p \in DOMAIN chan : IsRequest(p) =>
             (p <= read <=> chan[p].id <= Len(replies) + (IF Busy THEN 1 ELSE 0)))'
      <4> SUFFICES ASSUME NEW p \in 1 .. Len(chan), chan[p].tag = "request"
                   PROVE  p <= read + 1 <=> chan[p].id <= Len(replies) + (IF Busy' THEN 1 ELSE 0)
        BY <1>1, <1>2 DEF IsRequest
      <4>1. p <= read <=> chan[p].id <= Len(replies)
        BY <1>1, <1>5 DEF ProgressInv, IsRequest
      <4>2. CASE Busy'
        <5>1. chan[read + 1].tag = "request" /\ chan[read + 1].id = Len(replies) + 1
          BY <1>5, <1>6, <2>2, <4>2
        <5>2. p > read + 1 => chan[p].id > Len(replies) + 1
          BY <1>1, <5>1 DEF ChannelInv, IsRequest
        <5> QED
          BY <4>1, <4>2, <5>1, <5>2
      <4>3. CASE ~Busy'
        <5>1. p # read + 1
          BY <1>5, <2>2, <4>3
        <5> QED
          BY <4>1, <4>3, <5>1
      <4> QED
        BY <4>2, <4>3
    <3> QED
      BY <1>1, <1>2, <2>2, <3>1, <3>2, <3>3 DEF ProgressInv
  <2> QED
    BY <1>1, <2>1, <2>2
<1>8. HostInv'
  BY <1>1, <1>2, <1>3, <1>5 DEF HostInv, CachesAreTheTargets
<1>9. FlagInv'
  BY <1>1, <1>2, <1>3 DEF FlagInv
<1>10. NoFlagLeak'
  <2> SUFFICES ASSUME wpc' = "dispatch", NEW id \in live,
                      ~(ui = "cancel" /\ cancelId = id), job'.id # id
               PROVE  \E p \in (read + 2) .. Len(chan) : chan[p] = CancelMsg(id)
    BY <1>1, <1>2 DEF NoFlagLeak, Running
  <2>1. PICK p \in (read + 1) .. Len(chan) : chan[p] = CancelMsg(id)
    BY <1>1 DEF NoFlagLeak, Running
  <2>2. p # read + 1
    BY <1>3, <2>1 DEF CancelMsg
  <2> QED
    BY <2>1, <2>2
<1> QED
  BY <1>2, <1>4, <1>7, <1>8, <1>9, <1>10 DEF WorkerInv

(* A cancel that surfaces is about a request that is answered, so its flag *)
(* can go.                                                                 *)
LEMMA ForgetFlagInv ==
  ASSUME WorkerInv, ForgetFlag
  PROVE  WorkerInv'
<1> USE Parts
<1>1. /\ wpc = "dispatch" /\ chan[read].tag = "cancel"
      /\ live' = live \ {job.id} /\ raised' = raised \ {job.id}
      /\ wpc' = "recv" /\ job' = NoJob
      /\ UNCHANGED <<handleVars, replies, shutdown, read, target, conns, kinds>>
  BY DEF ForgetFlag, Forget, Handling, targetVars
<1>2. /\ ChannelInv'
      /\ OneReplyEachInOrder' /\ StampIsSelectedHost' /\ AnsweredByStampedHost'
      /\ CancelledOnlyIfAsked'
      /\ UNCHANGED <<ui, cancelId, reqs, chan>>
      /\ \A id : CancelAsked(id)' = CancelAsked(id)
      /\ \A k, h : SelectedAt(k, h)' = SelectedAt(k, h)
  BY <1>1, WorkerFrame
<1>3. TypeOK'
  BY <1>1, <1>2, Constants DEF TypeOK, WorkerPlaces
<1>4. ~Busy /\ ~Busy' /\ read > 0 /\ chan[read].id = job.id
  BY <1>1, <1>2 DEF Busy, Handling, ProgressInv
<1>5. ProgressInv'
  BY <1>1, <1>2, <1>4 DEF ProgressInv, IsRequest
<1>6. HostInv'
  BY <1>1, <1>2, <1>4 DEF HostInv, CachesAreTheTargets
(* The request the cancel is for came before it, so it is answered.        *)
<1>7. job.id <= Len(replies)
  <2>1. read \in DOMAIN chan
    BY <1>4
  <2>2. \E q \in 1 .. (read - 1) : chan[q] = RequestMsg(chan[read].id)
    BY <1>1, <2>1 DEF ChannelInv
  <2>3. PICK q \in 1 .. (read - 1) : chan[q] = RequestMsg(job.id)
    BY <1>4, <2>2
  <2>4. q \in 1 .. Len(chan) /\ q <= read
    BY <2>1
  <2>5. IsRequest(q) /\ chan[q].id = job.id
    BY <2>3 DEF IsRequest, RequestMsg
  <2>6. chan[q].id <= Len(replies) + (IF Busy THEN 1 ELSE 0)
    BY <1>1, <2>4, <2>5 DEF ProgressInv
  <2> QED
    BY <1>4, <2>5, <2>6
<1>8. FlagInv'
  BY <1>1, <1>2, <1>7 DEF FlagInv, NoJob
<1>9. NoFlagLeak'
  <2> SUFFICES ASSUME NEW id \in live, id # job.id, ~(ui = "cancel" /\ cancelId = id)
               PROVE  \E p \in (read + 1) .. Len(chan) : chan[p] = CancelMsg(id)
    BY <1>1, <1>2 DEF NoFlagLeak
  <2> QED
    BY <1>1 DEF NoFlagLeak, Running
<1> QED
  BY <1>2, <1>3, <1>5, <1>6, <1>8, <1>9 DEF WorkerInv

(* What bind() hands out is a connection to the target, and what it caches *)
(* is about the target, as long as the cache was.                          *)
LEMMA BindIsToTarget ==
  ASSUME NEW t \in Targets, NEW cache \in SUBSET [ns : Namespaces, host : Hosts],
         NEW ns \in Namespaces, NEW ok \in BOOLEAN, NEW host \in Hosts, NEW after,
         \A c \in cache : c.host = t.host,
         Bind(t, cache, ns, ok, host, after)
  PROVE  /\ host = t.host
         /\ after \subseteq [ns : Namespaces, host : Hosts]
         /\ \A c \in after : c.host = t.host
BY DEF Bind

(* A scan in hand keeps everything but the flags' own invariant.           *)
LEMMA ScanFrame ==
  ASSUME WorkerInv,
         UNCHANGED <<handleVars, replies, shutdown, read, target>>,
         Busy, Busy', wpc # "exited", wpc' # "exited", wpc' # "dispatch",
         reqs[job.id].op \in Scans,
         job'.id = job.id, job'.stamp = job.stamp, job'.via = target.host,
         \A c \in conns' \cup kinds' : c.host = target.host
  PROVE  ProgressInv' /\ HostInv'
<1> USE Parts
<1>1. UNCHANGED <<ui, cancelId, reqs, chan>>
  BY DEF handleVars
<1>2. ProgressInv'
  <2>1. (Busy => /\ read > 0 /\ chan[read] = RequestMsg(job.id)
                 /\ job.id = Len(replies) + 1 /\ job.id \in DOMAIN reqs)'
    BY <1>1 DEF ProgressInv
  <2>2. (wpc # "exited" => \A p \in DOMAIN chan : IsRequest(p) =>
           (p <= read <=> chan[p].id <= Len(replies) + (IF Busy THEN 1 ELSE 0)))'
    BY <1>1 DEF ProgressInv, IsRequest
  <2> QED
    BY <1>1, <2>1, <2>2 DEF ProgressInv
<1>3. \A k, h : SelectedAt(k, h)' = SelectedAt(k, h)
  BY <1>1 DEF SelectedAt
<1>4. HostInv'
  BY <1>3 DEF HostInv, CachesAreTheTargets
<1> QED
  BY <1>2, <1>4

(* A scan starts with whatever flag is waiting for it, on the target.      *)
LEMMA BeginScanInv ==
  ASSUME WorkerInv, BeginScan
  PROVE  WorkerInv'
<1> USE Parts
<1>1. PICK ok \in BOOLEAN, host \in Hosts :
        /\ Bind(target, conns, reqs[job.id].ns, ok, host, conns')
        /\ \/ /\ wpc' = "end" /\ job' = [job EXCEPT !.via = host, !.outcome = "error"]
              /\ UNCHANGED kinds
           \/ /\ ok /\ reqs[job.id].op # "InstanceCount"
              /\ wpc' = "check" /\ job' = [job EXCEPT !.via = host]
              /\ UNCHANGED kinds
           \/ ok /\ reqs[job.id].op = "InstanceCount" /\ LookUpKind(reqs[job.id].ns, host)
  BY DEF BeginScan
<1>2. /\ wpc = "dispatch" /\ chan[read].tag = "request" /\ reqs[job.id].op \in Scans
      /\ live' = live \cup {job.id}
      /\ UNCHANGED <<handleVars, replies, shutdown, raised, read, target>>
  BY DEF BeginScan, Adopt, Handling
<1>3. /\ Busy /\ read > 0 /\ chan[read] = RequestMsg(job.id)
      /\ job.id = Len(replies) + 1 /\ job.id \in DOMAIN reqs /\ reqs[job.id] \in Request
  <2>1. Busy
    BY <1>2 DEF Busy, Handling
  <2>2. job.id \in DOMAIN reqs
    BY <2>1 DEF ProgressInv
  <2> QED
    BY <2>1, <2>2 DEF ProgressInv, TypeOK
<1>4. /\ target \in Targets /\ job \in Job /\ reqs[job.id].ns \in Namespaces
      /\ conns \subseteq [ns : Namespaces, host : Hosts]
      /\ kinds \subseteq [ns : Namespaces, host : Hosts]
      /\ \A c \in conns \cup kinds : c.host = target.host
  BY <1>3 DEF TypeOK, Request, HostInv, CachesAreTheTargets
<1>5. /\ host = target.host
      /\ conns' \subseteq [ns : Namespaces, host : Hosts]
      /\ \A c \in conns' : c.host = target.host
  BY SMTT(30), ZenonT(30), <1>1, <1>4, BindIsToTarget
<1>6. /\ kinds' \subseteq [ns : Namespaces, host : Hosts]
      /\ \A c \in kinds' : c.host = target.host
  BY <1>1, <1>4, <1>5 DEF LookUpKind
<1>7. /\ wpc' \in {"check", "end"} /\ job' \in Job
      /\ job'.id = job.id /\ job'.stamp = job.stamp /\ job'.via = host
      /\ job'.overshoot = job.overshoot /\ (wpc' = "end" => job'.outcome # "cancelled")
  BY <1>1, <1>4 DEF LookUpKind, Job, Outcomes, Partial
<1>8. /\ ChannelInv'
      /\ OneReplyEachInOrder' /\ StampIsSelectedHost' /\ AnsweredByStampedHost'
      /\ CancelledOnlyIfAsked'
      /\ UNCHANGED <<ui, cancelId, reqs, chan>>
      /\ \A id : CancelAsked(id)' = CancelAsked(id)
      /\ \A k, h : SelectedAt(k, h)' = SelectedAt(k, h)
  BY <1>2, WorkerFrame
<1>9. TypeOK'
  BY <1>2, <1>3, <1>5, <1>6, <1>7, <1>8 DEF TypeOK, WorkerPlaces
<1>10. Busy'
  BY <1>7 DEF Busy
<1>11. ProgressInv' /\ HostInv'
  BY <1>2, <1>3, <1>5, <1>6, <1>7, <1>10, ScanFrame
<1>12. FlagInv'
  BY <1>2, <1>7, <1>8 DEF FlagInv
<1>13. NoFlagLeak'
  BY <1>2, <1>7, <1>8 DEF NoFlagLeak, Running
<1> QED
  BY <1>8, <1>9, <1>11, <1>12, <1>13 DEF WorkerInv

(* The turns of drain()'s loop.                                            *)
LEMMA ScanLoopInv ==
  ASSUME WorkerInv, CheckFlags \/ CheckDeadline \/ FetchBatch
  PROVE  WorkerInv'
<1> USE Parts
<1>1. /\ wpc \in {"check", "fetch"} /\ wpc' \in {"check", "fetch", "end"}
      /\ UNCHANGED <<handleVars, replies, shutdown, live, raised, read, target, conns, kinds>>
  BY DEF CheckFlags, CheckDeadline, StopScan, FetchBatch, scanFrame, controlVars, targetVars
<1>2. /\ Busy /\ Busy' /\ job \in Job /\ reqs[job.id].op \in Scans
      /\ job.via = target.host
      /\ \A c \in conns \cup kinds : c.host = target.host
      /\ job.overshoot \in Nat
  BY <1>1 DEF Busy, TypeOK, ProgressInv, HostInv, CachesAreTheTargets, Job
<1>3. /\ job' \in Job /\ job'.id = job.id /\ job'.stamp = job.stamp /\ job'.via = job.via
      /\ \/ wpc' = "check" /\ wpc = "fetch"
         \/ wpc' = "fetch" /\ wpc = "check" /\ job' = job /\ ~Interrupted
         \/ /\ wpc' = "end" /\ wpc = "check" /\ job'.overshoot = job.overshoot
            /\ job'.outcome = "cancelled" => Interrupted
         \/ wpc' = "end" /\ wpc = "fetch" /\ job'.outcome # "cancelled"
      /\ wpc = "fetch" =>
           job'.overshoot = (IF CancelAsked(job.id) /\ job.overshoot <= 1
                             THEN job.overshoot + 1 ELSE job.overshoot)
  <2>1. CASE CheckFlags
    BY <1>2, <2>1 DEF CheckFlags, StopScan, Job, Outcomes, Partial
  <2>2. CASE CheckDeadline
    BY <1>2, <2>2 DEF CheckDeadline, StopScan, Job, Outcomes, Partial
  <2>3. CASE FetchBatch
    <3> DEFINE over == IF CancelAsked(job.id) /\ job.overshoot <= 1
                      THEN job.overshoot + 1 ELSE job.overshoot
    <3>1. over \in Nat
      BY <1>2
    <3>2. /\ wpc = "fetch"
          /\ \/ wpc' = "check" /\ job' = [job EXCEPT !.overshoot = over]
             \/ \E how \in {"complete", "truncated", "error"} :
                  wpc' = "end" /\ job' = [job EXCEPT !.overshoot = over, !.outcome = how]
      BY <2>3 DEF FetchBatch
    <3>3. wpc' \in {"check", "end"} /\ job' \in Job /\ job'.overshoot = over
          /\ job'.id = job.id /\ job'.stamp = job.stamp /\ job'.via = job.via
          /\ (wpc' = "end" => job'.outcome # "cancelled")
      BY <1>2, <3>1, <3>2 DEF Job, Outcomes, Partial
    <3> QED
      BY <3>2, <3>3
  <2> QED
    BY <2>1, <2>2, <2>3
<1>4. /\ ChannelInv'
      /\ OneReplyEachInOrder' /\ StampIsSelectedHost' /\ AnsweredByStampedHost'
      /\ CancelledOnlyIfAsked'
      /\ UNCHANGED <<ui, cancelId, reqs, chan>>
      /\ \A id : CancelAsked(id)' = CancelAsked(id)
      /\ \A k, h : SelectedAt(k, h)' = SelectedAt(k, h)
  BY <1>1, WorkerFrame
<1>5. TypeOK'
  BY <1>1, <1>3, <1>4 DEF TypeOK, WorkerPlaces
<1>6. ProgressInv' /\ HostInv'
  BY <1>1, <1>2, <1>3, ScanFrame
(* A batch is fetched after the cancel only by the turn that had already   *)
(* looked at the flags.                                                    *)
<1>7. FlagInv'
  <2>1. job.id \in DOMAIN reqs /\ job.id > Len(replies)
    BY <1>2 DEF ProgressInv
  <2>2. CancelAsked(job.id) => job.id \in raised
    BY <1>1, <2>1 DEF FlagInv
  <2>3. (wpc \in {"dispatch", "fetch"} => job.overshoot = 0)'
    BY <1>1, <1>2, <1>3, <1>4, <2>2 DEF FlagInv, Interrupted
  <2>4. (job.overshoot > 0 => job.overshoot = 1 /\ CancelAsked(job.id))'
    BY <1>1, <1>2, <1>3, <1>4 DEF FlagInv
  <2>5. (wpc \in {"end", "reply"} /\ job.outcome = "cancelled" => CancelAsked(job.id) \/ shutdown)'
    BY <1>1, <1>2, <1>3, <1>4 DEF FlagInv, Interrupted
  <2> QED
    BY <1>1, <1>3, <1>4, <2>3, <2>4, <2>5 DEF FlagInv
<1>8. NoFlagLeak'
  BY <1>1, <1>3, <1>4 DEF NoFlagLeak, Running
<1> QED
  BY <1>4, <1>5, <1>6, <1>7, <1>8 DEF WorkerInv

(* A scan that ended takes its flag with it.                               *)
LEMMA EndScanInv ==
  ASSUME WorkerInv, EndScan
  PROVE  WorkerInv'
<1> USE Parts
<1>1. /\ wpc = "end" /\ wpc' = "reply"
      /\ live' = live \ {job.id} /\ raised' = raised \ {job.id}
      /\ UNCHANGED <<handleVars, replies, shutdown, read, job, target, conns, kinds>>
  BY DEF EndScan, Forget, targetVars
<1>2. /\ Busy /\ Busy' /\ reqs[job.id].op \in Scans /\ job.via = target.host
      /\ \A c \in conns \cup kinds : c.host = target.host
  BY <1>1 DEF Busy, ProgressInv, HostInv, CachesAreTheTargets
<1>3. /\ ChannelInv'
      /\ OneReplyEachInOrder' /\ StampIsSelectedHost' /\ AnsweredByStampedHost'
      /\ CancelledOnlyIfAsked'
      /\ UNCHANGED <<ui, cancelId, reqs, chan>>
      /\ \A id : CancelAsked(id)' = CancelAsked(id)
      /\ \A k, h : SelectedAt(k, h)' = SelectedAt(k, h)
  BY <1>1, WorkerFrame
<1>4. TypeOK'
  BY <1>1, <1>3 DEF TypeOK, WorkerPlaces
<1>5. ProgressInv' /\ HostInv'
  BY <1>1, <1>2, ScanFrame
<1>6. FlagInv'
  BY <1>1, <1>3 DEF FlagInv
<1>7. NoFlagLeak'
  BY <1>1, <1>3 DEF NoFlagLeak, Running
<1> QED
  BY <1>3, <1>4, <1>5, <1>6, <1>7 DEF WorkerInv

(* A request that turns up does so in the target's turn: SetHost changes   *)
(* what is selected and nothing else does.                                 *)
LEMMA SelectedAtNext ==
  ASSUME NEW k \in Nat, NEW host, SelectedAt(k, host), NEW r, r = reqs[k + 1]
  PROVE  IF r.op = "SetHost" THEN SelectedAt(k + 1, r.target.host)
                             ELSE SelectedAt(k + 1, host)
<1>1. CASE r.op = "SetHost"
  <2>1. k + 1 \in 1 .. (k + 1) /\ \A i \in (k + 2) .. (k + 1) : FALSE
    OBVIOUS
  <2> QED
    BY <1>1, <2>1 DEF SelectedAt
<1>2. CASE r.op # "SetHost"
  <2>1. CASE host = Local /\ \A j \in 1 .. k : reqs[j].op # "SetHost"
    <3>1. \A j \in 1 .. (k + 1) : j \in 1 .. k \/ j = k + 1
      OBVIOUS
    <3> QED
      BY <1>2, <2>1, <3>1 DEF SelectedAt
  <2>2. CASE \E j \in 1 .. k : /\ reqs[j].op = "SetHost" /\ host = reqs[j].target.host
                             /\ \A i \in (j + 1) .. k : reqs[i].op # "SetHost"
    <3>1. PICK j \in 1 .. k : /\ reqs[j].op = "SetHost" /\ host = reqs[j].target.host
                              /\ \A i \in (j + 1) .. k : reqs[i].op # "SetHost"
      BY <2>2
    <3>2. j \in 1 .. (k + 1) /\ \A i \in (j + 1) .. (k + 1) : i \in (j + 1) .. k \/ i = k + 1
      OBVIOUS
    <3> QED
      BY <1>2, <3>1, <3>2 DEF SelectedAt
  <2> QED
    BY <1>2, <2>1, <2>2 DEF SelectedAt
<1> QED
  BY <1>1, <1>2

(* The reply that ends a turn, whoever sends it: it answers the request in *)
(* hand, for the machine that request selects.                             *)
LEMMA ReplyStep ==
  ASSUME WorkerInv, Busy,
         NEW host \in Hosts, NEW from \in Hosts, NEW how \in Outcomes,
         SendReplyWith(host, from, how),
         how # "error" => from = host,
         how = "cancelled" => CancelAsked(job.id) \/ shutdown,
         SelectedAt(job.id, host),
         wpc \notin {"check", "fetch", "end"},
         target' \in Targets, target'.host = host,
         conns' \subseteq [ns : Namespaces, host : Hosts],
         kinds' \subseteq [ns : Namespaces, host : Hosts],
         \A c \in conns' \cup kinds' : c.host = host
  PROVE  WorkerInv'
<1> USE Parts
<1> DEFINE r == [id |-> job.id, host |-> host, from |-> from, outcome |-> how]
           n == Len(replies) + 1
<1>1. /\ UNCHANGED <<ui, cancelId, reqs, chan, shutdown, live, raised, read>>
      /\ replies' = Append(replies, r) /\ wpc' = "recv" /\ job' = NoJob
  BY DEF SendReplyWith, handleVars, controlVars
<1>2. r \in Reply /\ r.id = job.id /\ r.host = host /\ r.from = from /\ r.outcome = how
  BY DEF Reply
<1>3. /\ replies' \in Seq(Reply) /\ Len(replies') = n /\ DOMAIN replies' = 1 .. n
      /\ \A k \in 1 .. Len(replies) : replies'[k] = replies[k]
      /\ replies'[n] = r
  BY <1>1, <1>2, Appended DEF TypeOK
<1>4. /\ read > 0 /\ chan[read] = RequestMsg(job.id) /\ job.id = n /\ job.id \in DOMAIN reqs
      /\ wpc \in {"dispatch", "reply"}
  BY DEF ProgressInv, Busy, Handling
<1> HIDE DEF r, n
<1>5. /\ \A k, h : SelectedAt(k, h)' = SelectedAt(k, h)
      /\ \A id : CancelAsked(id)' = CancelAsked(id)
      /\ ~Busy'
  BY <1>1 DEF SelectedAt, CancelAsked, Busy, Handling
<1>6. n \in Nat /\ n = Len(replies) + 1
  BY DEF n
<1>7. \A k \in 1 .. n : k \in 1 .. Len(replies) \/ k = n
  BY <1>6
<1>8. TypeOK'
  BY <1>1, <1>3, Constants DEF TypeOK, WorkerPlaces
<1>9. ChannelInv'
  BY <1>1 DEF ChannelInv, IsRequest
<1>10. ProgressInv'
  <2>1. \A p \in DOMAIN chan : IsRequest(p) => (p <= read <=> chan[p].id <= n)
    BY <1>4, <1>6 DEF ProgressInv
  <2>2. n <= Len(reqs)
    BY <1>4, <1>6
  <2> QED
    BY <1>1, <1>3, <1>5, <1>6, <2>1, <2>2 DEF ProgressInv, IsRequest
<1>11. HostInv'
  BY <1>1, <1>3, <1>4, <1>5 DEF HostInv, CachesAreTheTargets
<1>12. FlagInv'
  <2>1. live = raised
    BY <1>4 DEF FlagInv, TypeOK
  <2> QED
    BY <1>1, <1>3, <1>4, <1>5, <1>6, <2>1, Constants DEF FlagInv, NoJob
(* A cancel raised for this request is behind it in the channel.           *)
<1>13. NoFlagLeak'
  <2> SUFFICES ASSUME NEW id \in live, ~(ui = "cancel" /\ cancelId = id)
               PROVE  \E p \in (read + 1) .. Len(chan) : chan[p] = CancelMsg(id)
    BY <1>1 DEF NoFlagLeak
  <2>1. CASE id # job.id
    BY <1>4, <2>1 DEF NoFlagLeak, Running
  <2>2. CASE id = job.id
    <3>1. CancelAsked(id)
      BY <1>4 DEF FlagInv
    <3>2. PICK p \in 1 .. Len(chan) : chan[p] = CancelMsg(id)
      BY <3>1 DEF CancelAsked
    <3>3. chan[p].tag = "cancel" /\ chan[p].id = id
      BY <3>2 DEF CancelMsg
    <3>4. PICK q \in 1 .. (p - 1) : chan[q] = RequestMsg(id)
      BY <3>3 DEF ChannelInv
    <3>5. q \in DOMAIN chan /\ IsRequest(q) /\ chan[q].id = job.id
      BY <2>2, <3>4 DEF IsRequest, RequestMsg
    <3>6. read \in DOMAIN chan /\ IsRequest(read) /\ chan[read].id = job.id
      BY <1>4 DEF IsRequest, RequestMsg
    <3>7. ~(q < read) /\ ~(read < q)
      <4>1. q < read => chan[q].id < chan[read].id
        BY <3>5, <3>6 DEF ChannelInv
      <4>2. read < q => chan[read].id < chan[q].id
        BY <3>5, <3>6 DEF ChannelInv
      <4> QED
        BY <3>5, <3>6, <4>1, <4>2
    <3> QED
      BY <3>2, <3>4, <3>7
  <2> QED
    BY <2>1, <2>2
<1>14. OneReplyEachInOrder'
  BY <1>2, <1>3, <1>4, <1>6, <1>7 DEF OneReplyEachInOrder
<1>15. StampIsSelectedHost' /\ AnsweredByStampedHost'
  BY <1>2, <1>3, <1>5, <1>7 DEF StampIsSelectedHost, AnsweredByStampedHost
<1>16. CancelledOnlyIfAsked'
  BY <1>1, <1>2, <1>3, <1>5, <1>7 DEF CancelledOnlyIfAsked
<1> QED
  BY <1>8, <1>9, <1>10, <1>11, <1>12, <1>13, <1>14, <1>15, <1>16 DEF WorkerInv

(* A request in hand that is no SetHost is answered for the current target.*)
LEMMA InHand ==
  ASSUME WorkerInv, Busy
  PROVE  /\ job \in Job /\ job.stamp = target.host /\ target \in Targets /\ target.host \in Hosts
         /\ job.id \in DOMAIN reqs /\ reqs[job.id] \in Request
         /\ IF reqs[job.id].op = "SetHost" THEN SelectedAt(job.id, reqs[job.id].target.host)
                                           ELSE SelectedAt(job.id, target.host)
         /\ conns \subseteq [ns : Namespaces, host : Hosts]
         /\ kinds \subseteq [ns : Namespaces, host : Hosts]
         /\ \A c \in conns \cup kinds : c.host = target.host
<1> USE Parts
<1>1. job.id = Len(replies) + 1 /\ job.id \in DOMAIN reqs
  BY DEF ProgressInv
<1>2. SelectedAt(Len(replies), target.host) /\ job.stamp = target.host
      /\ \A c \in conns \cup kinds : c.host = target.host
  BY DEF HostInv, CachesAreTheTargets
<1>3. IF reqs[job.id].op = "SetHost" THEN SelectedAt(job.id, reqs[job.id].target.host)
                                     ELSE SelectedAt(job.id, target.host)
  BY <1>1, <1>2, SelectedAtNext
<1> QED
  BY <1>1, <1>2, <1>3 DEF TypeOK, Targets

(* The reply to a scan is stamped and comes from the target.               *)
LEMMA ReplyToScanInv ==
  ASSUME WorkerInv, ReplyToScan
  PROVE  WorkerInv'
<1> USE Parts
<1>1. /\ wpc = "reply" /\ Busy /\ reqs[job.id].op \in Scans
      /\ SendReplyWith(job.stamp, job.via, job.outcome)
      /\ UNCHANGED <<target, conns>>
  BY DEF ReplyToScan, Busy, ProgressInv
<1>2. /\ job \in Job /\ job.stamp = target.host /\ target \in Targets /\ target.host \in Hosts
      /\ reqs[job.id] \in Request /\ SelectedAt(job.id, target.host)
      /\ conns \subseteq [ns : Namespaces, host : Hosts]
      /\ kinds \subseteq [ns : Namespaces, host : Hosts]
      /\ \A c \in conns \cup kinds : c.host = target.host
  BY <1>1, InHand DEF Scans
<1>3. job.via = target.host /\ job.outcome \in Outcomes
  BY <1>1, <1>2 DEF HostInv, Job
<1>4. reqs[job.id].ns \in Namespaces
  BY <1>2 DEF Request
<1>5. kinds' \subseteq kinds \cup {[ns |-> reqs[job.id].ns, host |-> job.via]}
  BY DEF ReplyToScan
<1>6. kinds' \subseteq [ns : Namespaces, host : Hosts] /\ \A c \in kinds' : c.host = target.host
  BY <1>2, <1>3, <1>4, <1>5
<1>7. job.outcome = "cancelled" => CancelAsked(job.id) \/ shutdown
  BY <1>1 DEF FlagInv
<1> QED
  BY <1>1, <1>2, <1>3, <1>6, <1>7, ReplyStep

(* A call is answered for the target, over a connection to it.             *)
LEMMA RunCallInv ==
  ASSUME WorkerInv, RunCall
  PROVE  WorkerInv'
<1> USE Parts
<1>1. /\ wpc = "dispatch" /\ Busy /\ reqs[job.id].op = "Call" /\ UNCHANGED <<target, kinds>>
  BY DEF RunCall, Busy, Handling
<1>2. PICK ok \in BOOLEAN, host \in Hosts, how \in {"complete", "error"} :
        /\ Bind(target, conns, reqs[job.id].ns, ok, host, conns')
        /\ SendReplyWith(job.stamp, host, how)
  BY DEF RunCall
<1>3. /\ job \in Job /\ job.stamp = target.host /\ target \in Targets /\ target.host \in Hosts
      /\ reqs[job.id] \in Request /\ SelectedAt(job.id, target.host)
      /\ conns \subseteq [ns : Namespaces, host : Hosts]
      /\ kinds \subseteq [ns : Namespaces, host : Hosts]
      /\ \A c \in conns \cup kinds : c.host = target.host
  BY <1>1, InHand
<1>4. /\ host = target.host /\ conns' \subseteq [ns : Namespaces, host : Hosts]
      /\ \A c \in conns' : c.host = target.host
  BY <1>2, <1>3, BindIsToTarget DEF Request
<1>5. how \in Outcomes /\ how # "cancelled"
  BY DEF Outcomes
<1> QED
  BY <1>1, <1>2, <1>3, <1>4, <1>5, ReplyStep

(* A SetHost is answered for the host it selects, its caches being empty.  *)
LEMMA SetHostInv ==
  ASSUME WorkerInv, SetHost
  PROVE  WorkerInv'
<1> USE Parts
<1>1. /\ wpc = "dispatch" /\ Busy /\ reqs[job.id].op = "SetHost"
      /\ target' = reqs[job.id].target /\ kinds' = {}
  BY DEF SetHost, Busy, Handling, KindsAfterSwitch
<1>2. PICK ok \in BOOLEAN, host \in Hosts, how \in {"complete", "error"} :
        /\ Bind(target', ConnsAfterSwitch, Cimv2, ok, host, conns')
        /\ SendReplyWith(target'.host, host, how)
  BY DEF SetHost, ConnectAndProbe
<1>3. reqs[job.id] \in Request /\ SelectedAt(job.id, target'.host)
  BY <1>1, InHand
<1>4. target' \in Targets /\ target'.host \in Hosts
  BY <1>1, <1>3 DEF Request, Targets
<1>5. /\ host = target'.host /\ conns' \subseteq [ns : Namespaces, host : Hosts]
      /\ \A c \in conns' : c.host = target'.host
  BY <1>2, <1>4, WorkerAssumption DEF Bind, ConnsAfterSwitch
<1>6. how \in Outcomes /\ how # "cancelled"
  BY DEF Outcomes
<1> QED
  BY <1>1, <1>2, <1>3, <1>4, <1>5, <1>6, ReplyStep

-----------------------------------------------------------------------------
(* The invariant is inductive.                                             *)
LEMMA NextInv == WorkerInv /\ [Next]_vars => WorkerInv'
<1> SUFFICES ASSUME WorkerInv, [Next]_vars PROVE WorkerInv'
  OBVIOUS
<1>1. ASSUME NEW r \in Menu, Submit(r) PROVE WorkerInv'
  BY <1>1, SubmitInv
<1>2. ASSUME NEW id \in DOMAIN reqs, RaiseCancel(id) PROVE WorkerInv'
  BY <1>2, RaiseCancelInv
<1>3. CASE QueueCancel
  BY <1>3, QueueCancelInv
<1>4. CASE RaiseShutdown
  BY <1>4, RaiseShutdownInv
<1>5. CASE QueueShutdown
  BY <1>5, QueueShutdownInv
<1>6. CASE Join
  BY <1>6, JoinInv
<1>7. CASE Receive
  BY <1>7, ReceiveInv
<1>8. CASE ForgetFlag
  BY <1>8, ForgetFlagInv
<1>9. CASE BeginScan
  BY <1>9, BeginScanInv
<1>10. CASE CheckFlags \/ CheckDeadline \/ FetchBatch
  BY <1>10, ScanLoopInv
<1>11. CASE EndScan
  BY <1>11, EndScanInv
<1>12. CASE ReplyToScan
  BY <1>12, ReplyToScanInv
<1>13. CASE RunCall
  BY <1>13, RunCallInv
<1>14. CASE SetHost
  BY <1>14, SetHostInv
<1>15. CASE UNCHANGED vars
  <2>1. UNCHANGED <<ui, cancelId, reqs, chan, replies, shutdown, live, raised,
                    wpc, read, job, target, conns, kinds>>
    BY <1>15 DEF vars
  <2>2. /\ ChannelInv' /\ ProgressInv' /\ HostInv'
        /\ OneReplyEachInOrder' /\ StampIsSelectedHost' /\ AnsweredByStampedHost'
        /\ \A i : Running(i)' = Running(i)
    BY <2>1, Parts, HandleFrame DEF ChannelInv
  <2>3. \A i : CancelAsked(i)' = CancelAsked(i)
    BY <2>1 DEF CancelAsked
  <2>4. TypeOK' /\ FlagInv' /\ NoFlagLeak' /\ CancelledOnlyIfAsked'
    BY <2>1, <2>2, <2>3, Parts DEF TypeOK, FlagInv, NoFlagLeak, CancelledOnlyIfAsked
  <2> QED
    BY <2>2, <2>4 DEF WorkerInv
<1> QED
  BY <1>1, <1>2, <1>3, <1>4, <1>5, <1>6, <1>7, <1>8, <1>9, <1>10, <1>11, <1>12,
     <1>13, <1>14, <1>15 DEF Next, Handle, Worker, Work

-----------------------------------------------------------------------------
(* The theorems.                                                           *)

(* WorkerInv holds in every reachable state, for every set of hosts,       *)
(* namespaces and requests and however many are sent and cancelled.        *)
THEOREM InvariantHolds == Spec => []WorkerInv
  BY InitInv, NextInv, PTL DEF Spec

(* Every variable of the worker keeps its type.                            *)
THEOREM TypeCorrect == Spec => []TypeOK
<1>1. WorkerInv => TypeOK
  BY DEF WorkerInv
<1> QED
  BY <1>1, InvariantHolds, PTL

(* run() answers every request it starts once, in the order of sending.    *)
THEOREM AnswersInOrder == Spec => []OneReplyEachInOrder
<1>1. WorkerInv => OneReplyEachInOrder
  BY DEF WorkerInv
<1> QED
  BY <1>1, InvariantHolds, PTL

(* The stamp run() puts on a reply is the machine selected for its request.*)
THEOREM StampsAreSelectedHosts == Spec => []StampIsSelectedHost
<1>1. WorkerInv => StampIsSelectedHost
  BY DEF WorkerInv
<1> QED
  BY <1>1, InvariantHolds, PTL

(* Data never comes from another machine than its stamp names: bind() and  *)
(* its connection cache never serve an earlier target.                     *)
THEOREM AnswersComeFromStampedHosts == Spec => []AnsweredByStampedHost
<1>1. WorkerInv => AnsweredByStampedHost
  BY DEF WorkerInv
<1> QED
  BY <1>1, InvariantHolds, PTL

(* set_target() leaves nothing in the caches about an earlier target.      *)
THEOREM CachesFollowTarget == Spec => []CachesAreTheTargets
<1>1. WorkerInv => CachesAreTheTargets
  BY DEF WorkerInv, HostInv
<1> QED
  BY <1>1, InvariantHolds, PTL

(* A cancel stops a scan within one batch of drain(), also when it was     *)
(* raised before the request was started.                                  *)
THEOREM CancelsTakeEffect == Spec => []CancelTakesEffect
<1>1. WorkerInv => CancelTakesEffect
  BY DEF WorkerInv, FlagInv, TypeOK, Job, CancelTakesEffect
<1> QED
  BY <1>1, InvariantHolds, PTL

(* A cancel never ends another request than its own.                       *)
THEOREM CancelsHitTheirRequest == Spec => []CancelledOnlyIfAsked
<1>1. WorkerInv => CancelledOnlyIfAsked
  BY DEF WorkerInv
<1> QED
  BY <1>1, InvariantHolds, PTL

(* The flag map of WorkerControl does not grow with late cancels.          *)
THEOREM FlagsDoNotLeak == Spec => []NoFlagLeak
<1>1. WorkerInv => NoFlagLeak
  BY DEF WorkerInv
<1> QED
  BY <1>1, InvariantHolds, PTL

-----------------------------------------------------------------------------
(* The worker implements RequestService.                                   *)

Phase == IF ~shutdown THEN "open"
         ELSE IF \E id \in DOMAIN reqs : Running(id) /\ chan[read].tag = "request"
              THEN "closing" ELSE "stopped"

(* Seen from RequestService, the phase is decided by the stop flag and by  *)
(* whether a request is in hand.                                           *)
LEMMA PhaseIs ==
  WorkerInv => Phase = IF ~shutdown THEN "open" ELSE IF Busy THEN "closing" ELSE "stopped"
<1> SUFFICES ASSUME WorkerInv
             PROVE  Phase = IF ~shutdown THEN "open" ELSE IF Busy THEN "closing" ELSE "stopped"
  OBVIOUS
<1> USE Parts
<1>1. Busy => job.id \in DOMAIN reqs /\ Running(job.id) /\ chan[read].tag = "request"
  BY DEF ProgressInv, Busy, Handling, Running, RequestMsg
<1>2. ASSUME NEW id \in DOMAIN reqs, Running(id), chan[read].tag = "request"
      PROVE  Busy
  BY <1>2 DEF Busy, Handling, Running
<1> QED
  BY <1>1, <1>2 DEF Phase

(* The same of the state a step ends in.                                   *)
LEMMA PhaseWillBe ==
  WorkerInv' => Phase' = IF ~shutdown' THEN "open" ELSE IF Busy' THEN "closing" ELSE "stopped"
<1>1. (WorkerInv => Phase = IF ~shutdown THEN "open" ELSE IF Busy THEN "closing" ELSE "stopped")'
  BY PhaseIs, PTL
<1> QED
  BY <1>1

(* A step that neither sends a request nor answers one nor raises the stop *)
(* flag changes nothing RequestService knows of.                           *)
LEMMA SilentSteps ==
  ASSUME WorkerInv, WorkerInv',
         \/ \E id \in DOMAIN reqs : RaiseCancel(id)
         \/ QueueCancel \/ QueueShutdown \/ Join \/ Receive \/ ForgetFlag
         \/ BeginScan \/ CheckFlags \/ CheckDeadline \/ FetchBatch \/ EndScan
         \/ UNCHANGED vars
  PROVE  UNCHANGED <<reqs, replies, shutdown>> /\ (Busy' = Busy \/ ~shutdown)
<1> USE Parts
<1>1. CASE \E id \in DOMAIN reqs : RaiseCancel(id)
  BY <1>1 DEF RaiseCancel, workerSide, Busy, Handling
<1>2. ASSUME NEW m, chan' = Append(chan, m), UNCHANGED <<wpc, read>>
      PROVE  Busy' = Busy
  <2>1. read > 0 => chan'[read] = chan[read]
    BY <1>2 DEF TypeOK
  <2>2. wpc = "dispatch" => read > 0
    BY DEF ProgressInv
  <2> QED
    BY <1>2, <2>1, <2>2 DEF Busy, Handling
<1>3. CASE QueueCancel \/ QueueShutdown
  BY <1>2, <1>3 DEF QueueCancel, QueueShutdown, workerSide, controlVars
<1>4. CASE Join
  BY <1>4 DEF Join, workerSide, controlVars, Busy, Handling
<1>5. CASE Receive
  BY <1>5 DEF Receive, handleVars, controlVars, Busy, Handling
<1>6. CASE ForgetFlag
  BY <1>6 DEF ForgetFlag, handleVars, Busy, Handling
<1>7. CASE BeginScan
  <2>1. Busy /\ UNCHANGED <<reqs, replies, shutdown>>
    BY <1>7 DEF BeginScan, handleVars, Busy, Handling
  <2>2. wpc' \in {"check", "end"}
    BY <1>7 DEF BeginScan, LookUpKind
  <2> QED
    BY <2>1, <2>2 DEF Busy
<1>8. CASE CheckFlags \/ CheckDeadline \/ FetchBatch
  <2>1. wpc \in {"check", "fetch"} /\ wpc' \in {"check", "fetch", "end"}
    BY <1>8 DEF CheckFlags, CheckDeadline, StopScan, FetchBatch
  <2>2. UNCHANGED <<reqs, replies, shutdown>>
    BY <1>8 DEF CheckFlags, CheckDeadline, FetchBatch, scanFrame, handleVars, controlVars
  <2> QED
    BY <2>1, <2>2 DEF Busy
<1>9. CASE EndScan
  BY <1>9 DEF EndScan, handleVars, Busy
<1>10. CASE UNCHANGED vars
  BY <1>10 DEF vars, Busy, Handling
<1> QED
  BY <1>1, <1>3, <1>4, <1>5, <1>6, <1>7, <1>8, <1>9, <1>10

(* Every step of the worker is a step of RequestService or a stutter.      *)
LEMMA ServiceStep ==
  ASSUME WorkerInv, WorkerInv', [Next]_vars
  PROVE  [Service!Next]_<<Len(reqs), Len(replies), Phase>>
<1> USE Parts
<1>1. ASSUME NEW r \in Menu, Submit(r) PROVE Service!Submit
  <2>1. /\ Len(reqs) < MaxRequests /\ reqs' = Append(reqs, r)
        /\ chan' = Append(chan, RequestMsg(Len(reqs) + 1))
        /\ UNCHANGED <<replies, shutdown, wpc, read, job>>
    BY <1>1 DEF Submit, workerSide, controlVars
  <2>2. Len(reqs') = Len(reqs) + 1
    BY <2>1, Constants DEF TypeOK
  <2>3. wpc = "dispatch" => read > 0 /\ chan'[read] = chan[read]
    BY <2>1, Constants DEF ProgressInv, TypeOK
  <2>4. Busy' = Busy
    BY <2>1, <2>3 DEF Busy, Handling
  <2>5. Phase' = Phase
    BY <2>1, <2>4, PhaseIs, PhaseWillBe
  <2> QED
    BY <2>1, <2>2, <2>5 DEF Service!Submit, Phase
<1>2. CASE RaiseShutdown
  <2>1. shutdown' /\ UNCHANGED <<reqs, replies, chan, wpc, read, job>>
    BY <1>2 DEF RaiseShutdown, workerSide
  <2>2. Busy' = Busy
    BY <2>1 DEF Busy, Handling
  <2>3. IF shutdown THEN Phase' = Phase ELSE Phase = "open" /\ Phase' \in {"closing", "stopped"}
    BY <2>1, <2>2, PhaseIs, PhaseWillBe
  <2> QED
    BY <2>1, <2>3 DEF Service!Next, Service!Close, Phase
<1>3. CASE ReplyToScan \/ RunCall \/ SetHost
  <2>1. PICK r : replies' = Append(replies, r)
    BY <1>3 DEF ReplyToScan, RunCall, SetHost, SendReplyWith
  <2>2. wpc' = "recv" /\ UNCHANGED <<reqs, chan, shutdown, read>>
    BY <1>3 DEF ReplyToScan, RunCall, SetHost, SendReplyWith, handleVars, controlVars
  <2>3. Busy /\ ~Busy'
    BY <1>3, <2>2 DEF ReplyToScan, RunCall, SetHost, Busy, Handling
  <2>4. Len(replies') = Len(replies) + 1 /\ Len(replies) < Len(reqs)
    BY <2>1, <2>3 DEF ProgressInv, TypeOK
  <2>5. Phase # "stopped" /\ Phase' = IF Phase = "closing" THEN "stopped" ELSE Phase
    BY <2>2, <2>3, PhaseIs, PhaseWillBe
  <2> QED
    BY <2>2, <2>4, <2>5 DEF Service!Next, Service!Answer, Phase
<1>4. CASE \/ \E id \in DOMAIN reqs : RaiseCancel(id)
           \/ QueueCancel \/ QueueShutdown \/ Join \/ Receive \/ ForgetFlag
           \/ BeginScan \/ CheckFlags \/ CheckDeadline \/ FetchBatch \/ EndScan
           \/ UNCHANGED vars
  <2>1. UNCHANGED <<reqs, replies, shutdown>> /\ (Busy' = Busy \/ ~shutdown)
    BY <1>4, SilentSteps
  <2>2. Phase' = Phase
    BY <2>1, PhaseIs, PhaseWillBe
  <2> QED
    BY <2>1, <2>2
<1> QED
  BY <1>1, <1>2, <1>3, <1>4 DEF Next, Handle, Worker, Work, Service!Next

(* The handle, the channel, the flags and the thread together implement    *)
(* the FIFO service RequestService describes.                              *)
THEOREM ImplementsService == Spec => ServiceSpec
<1>1. Init => Service!Init
  BY EmptySeq DEF Init, Service!Init
<1>2. WorkerInv /\ WorkerInv' /\ [Next]_vars => [Service!Next]_(Service!serviceVars)
  BY ServiceStep DEF Phase, Service!serviceVars
<1> QED
  BY <1>1, <1>2, InvariantHolds, PTL DEF Spec, ServiceSpec, Service!Spec
=============================================================================
