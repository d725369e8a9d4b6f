----------------------------- MODULE AnswersProofs -----------------------------
(***************************************************************************)
(* The views that ask machines and wait for the answers, for any machines, *)
(* queries, sockets, classes, methods and bounds: each answer is shown     *)
(* where it belongs, and one call is made at a time.                       *)
(***************************************************************************)
EXTENDS Machines, EventMonitor, LivePanels, Invoke, RetainProofs

-----------------------------------------------------------------------------
(*                                Machines                                 *)

LEMMA ProbeIs ==
  ASSUME NEW p \in Probe
  PROVE  /\ p.is \in {"none", "connecting", "online", "failed"}
         /\ p.is \in {"online", "failed"} => p.by \in Keys
BY DEF Probe

(* The machine asked last is the one the slot names, unless two were asked *)
(* at once.                                                                *)
LEMMA MachinesConnectKeeps == MachinesInv /\ MachinesConnect => MachinesInv'
<1> SUFFICES ASSUME MachinesInv, MachinesConnect PROVE MachinesInv'
  OBVIOUS
<1>1. /\ form' = form /\ boundTo' = boundTo /\ sent' = sent + 1 /\ status' = "connecting"
      /\ saved' = Upserted(form) /\ connecting' = {form}
      /\ probes' = [probes EXCEPT ![form] = [is |-> "connecting"]]
      /\ connects' = Append(connects, form)
      /\ overlapped' = (overlapped \/ connects # <<>>)
  BY DEF MachinesConnect
<1>2. /\ form \in Keys /\ probes \in [Keys -> Probe] /\ connects \in Seq(Keys) /\ sent \in Nat
      /\ overlapped \in BOOLEAN /\ boundTo \in Keys
      /\ saved \in [DOMAIN saved -> BOOLEAN] /\ DOMAIN saved \subseteq Keys
  BY DEF MachinesInv, MachinesTypeOK
<1>3. saved' \in [DOMAIN saved' -> BOOLEAN] /\ DOMAIN saved' \subseteq Keys
  BY <1>1, <1>2 DEF Upserted
<1>4. [is |-> "connecting"] \in Probe
  BY DEF Probe
<1>5. MachinesTypeOK'
  BY <1>1, <1>2, <1>3, <1>4 DEF MachinesTypeOK
<1>6. ASSUME ~overlapped'
      PROVE  /\ SingleConnectsAreTold'
             /\ Len(connects') <= 1 /\ connects' # <<>> /\ connecting' = {connects'[1]}
  <2>1. ~overlapped /\ connects = <<>>
    BY <1>1, <1>6, Zenon
  <2>2. connects' = <<form>>
    BY <1>1, <1>2, <2>1
  <2>3. \A k \in Keys : probes[k].is # "connecting"
                        /\ (probes[k].is \in {"online", "failed"} => probes[k].by = k)
    BY <2>1 DEF MachinesInv, SingleConnectsAreTold
  <2>4. \A k \in Keys : probes'[k] = IF k = form THEN [is |-> "connecting"] ELSE probes[k]
    BY <1>1, <1>2
  <2> QED
    BY <1>1, <1>2, <2>1, <2>3, <2>4, <2>2 DEF SingleConnectsAreTold
<1>7. SingleConnectsAreTold'
  BY <1>6 DEF SingleConnectsAreTold
<1> QED
  BY <1>5, <1>6, <1>7 DEF MachinesInv

LEMMA ForgetKeeps == MachinesInv /\ Forget => MachinesInv'
<1> SUFFICES ASSUME MachinesInv, Forget PROVE MachinesInv'
  OBVIOUS
<1>1. /\ saved' = [x \in DOMAIN saved \ {form} |-> saved[x]]
      /\ probes' = [probes EXCEPT ![form] = [is |-> "none"]]
      /\ UNCHANGED <<form, status, connecting, connects, boundTo, sent, overlapped>>
  BY DEF Forget
<1>2. probes \in [Keys -> Probe] /\ saved \in [DOMAIN saved -> BOOLEAN] /\ DOMAIN saved \subseteq Keys
  BY DEF MachinesInv, MachinesTypeOK
<1>3. saved' \in [DOMAIN saved' -> BOOLEAN] /\ DOMAIN saved' \subseteq Keys
  BY <1>1, <1>2
<1>4. [is |-> "none"] \in Probe
  BY DEF Probe
<1>5. MachinesTypeOK'
  BY <1>1, <1>2, <1>3, <1>4 DEF MachinesInv, MachinesTypeOK
<1>6. \A k \in Keys : probes'[k] = IF k = form THEN [is |-> "none"] ELSE probes[k]
  BY <1>1, <1>2
<1> QED
  BY <1>1, <1>5, <1>6 DEF MachinesInv, SingleConnectsAreTold

(* The answer, whatever it is, goes to the row it is of.                   *)
LEMMA AnsweredKeeps ==
  ASSUME MachinesInv, Answered, NEW is \in {"online", "failed"},
         probes' = [k \in Keys |-> IF k \in connecting
                      THEN [is |-> is, by |-> Head(connects)] ELSE probes[k]],
         connecting' = {}, form' = form, sent' = sent, overlapped' = overlapped,
         status' \in {"local", "remote", "failed"},
         saved' \in [DOMAIN saved' -> BOOLEAN], DOMAIN saved' \subseteq Keys
  PROVE  MachinesInv'
<1>1. connects # <<>> /\ connects' = Tail(connects) /\ boundTo' = Head(connects)
  BY DEF Answered
<1>2. probes \in [Keys -> Probe] /\ connects \in Seq(Keys)
  BY DEF MachinesInv, MachinesTypeOK
<1>3. Head(connects) \in Keys /\ connects' \in Seq(Keys) /\ Head(connects) = connects[1]
      /\ Len(connects') = Len(connects) - 1 /\ Len(connects) \in Nat
  BY <1>1, <1>2
<1>4. [is |-> is, by |-> Head(connects)] \in Probe
  BY <1>3 DEF Probe
<1>5. MachinesTypeOK'
  BY <1>1, <1>2, <1>3, <1>4 DEF MachinesInv, MachinesTypeOK
<1>6. ASSUME ~overlapped PROVE connects' = <<>> /\ connecting = {Head(connects)}
                               /\ SingleConnectsAreTold
  BY <1>1, <1>2, <1>3, <1>6 DEF MachinesInv
<1>7. \A k \in Keys : probes'[k] = IF k \in connecting THEN [is |-> is, by |-> Head(connects)]
                                   ELSE probes[k]
  OBVIOUS
<1>8. SingleConnectsAreTold'
  <2> SUFFICES ASSUME ~overlapped
               PROVE  /\ \A k \in Keys : probes'[k].is \in {"online", "failed"} => probes'[k].by = k
                      /\ \A k \in Keys : probes'[k].is # "connecting"
    BY <1>6 DEF SingleConnectsAreTold
  <2>1. ASSUME NEW k \in Keys, k \in connecting
        PROVE  probes'[k].is # "connecting" /\ probes'[k].by = k
    BY <1>6, <1>7, <2>1
  <2>2. ASSUME NEW k \in Keys, k \notin connecting
        PROVE  /\ probes'[k].is \in {"online", "failed"} => probes'[k].by = k
               /\ probes'[k].is # "connecting"
    BY <1>3, <1>6, <1>7, <2>2 DEF SingleConnectsAreTold
  <2> QED
    BY <2>1, <2>2
<1> QED
  BY <1>5, <1>6, <1>8 DEF MachinesInv

LEMMA NoteConnectedKeeps == MachinesInv /\ NoteConnected => MachinesInv'
<1> SUFFICES ASSUME MachinesInv, NoteConnected PROVE MachinesInv'
  OBVIOUS
<1>1. saved \in [DOMAIN saved -> BOOLEAN] /\ DOMAIN saved \subseteq Keys
  BY DEF MachinesInv, MachinesTypeOK
<1>2. saved' \in [DOMAIN saved' -> BOOLEAN] /\ DOMAIN saved' \subseteq Keys
  BY <1>1 DEF NoteConnected
<1> QED
  BY <1>2, AnsweredKeeps DEF NoteConnected

LEMMA NoteConnectFailedKeeps == MachinesInv /\ NoteConnectFailed => MachinesInv'
<1> SUFFICES ASSUME MachinesInv, NoteConnectFailed PROVE MachinesInv'
  OBVIOUS
<1>1. saved' \in [DOMAIN saved' -> BOOLEAN] /\ DOMAIN saved' \subseteq Keys
  BY DEF NoteConnectFailed, MachinesInv, MachinesTypeOK
<1>2. /\ Answered /\ status' = "failed" /\ form' = form /\ sent' = sent
      /\ overlapped' = overlapped /\ connecting' = {}
      /\ probes' = [k \in Keys |-> IF k \in connecting
                      THEN [is |-> "failed", by |-> Head(connects)] ELSE probes[k]]
  BY DEF NoteConnectFailed, SlotAfterFailure
<1>3. "failed" \in {"online", "failed"} /\ status' \in {"local", "remote", "failed"}
  BY <1>2
<1> QED
  BY <1>1, <1>2, <1>3, AnsweredKeeps

(* The inductive invariant of the machine list.                            *)
THEOREM MachinesInvariant == MachinesSpec => []MachinesInv
<1>1. MachinesInit => MachinesInv
  <2> SUFFICES ASSUME MachinesInit PROVE MachinesInv
    OBVIOUS
  <2>1. Local \in Keys
    BY MachinesAssumption
  <2>2. [is |-> "none"] \in Probe
    BY DEF Probe
  <2>3. saved \in [DOMAIN saved -> BOOLEAN] /\ DOMAIN saved \subseteq Keys
    BY DEF MachinesInit
  <2>4. probes \in [Keys -> Probe] /\ \A k \in Keys : probes[k].is = "none"
    BY <2>2 DEF MachinesInit
  <2>5. connects = <<>> /\ connecting = {} /\ Len(connects) = 0
    BY DEF MachinesInit
  <2>6. /\ form = Local /\ status = "local" /\ boundTo = Local /\ sent = 0
        /\ overlapped = FALSE
    BY DEF MachinesInit
  <2>7. connects \in Seq(Keys) /\ connecting \subseteq Keys
    BY <2>5
  <2>8. overlapped \in BOOLEAN
    BY <2>6, Zenon
  <2>9. form \in Keys /\ boundTo \in Keys /\ sent \in Nat
    BY <2>1, <2>6
  <2>10. status \in {"local", "connecting", "remote", "failed"}
    BY <2>6
  <2>11. MachinesTypeOK
    BY <2>3, <2>4, <2>7, <2>9, <2>10, <2>8, Zenon DEF MachinesTypeOK
  <2>12. SingleConnectsAreTold
    BY <2>4, <2>5 DEF SingleConnectsAreTold
  <2> QED
    BY <2>11, <2>5, <2>12 DEF MachinesInv
<1>2. MachinesInv /\ [MachinesNext]_machineVars => MachinesInv'
  <2> SUFFICES ASSUME MachinesInv, [MachinesNext]_machineVars PROVE MachinesInv'
    OBVIOUS
  <2>1. CASE MachinesConnect
    BY <2>1, MachinesConnectKeeps
  <2>2. CASE Forget
    BY <2>2, ForgetKeeps
  <2>3. CASE NoteConnected
    BY <2>3, NoteConnectedKeeps
  <2>4. CASE NoteConnectFailed
    BY <2>4, NoteConnectFailedKeeps
  <2>5. ASSUME NEW k \in Keys, Fill(k) PROVE MachinesInv'
    BY <2>5 DEF Fill, MachinesInv, MachinesTypeOK, SingleConnectsAreTold
  <2>6. CASE UNCHANGED machineVars
    BY <2>6 DEF machineVars, MachinesInv, MachinesTypeOK, SingleConnectsAreTold
  <2> QED
    BY <2>1, <2>2, <2>3, <2>4, <2>5, <2>6 DEF MachinesNext
<1> QED
  BY <1>1, <1>2, PTL DEF MachinesSpec

(* Whoever is the only one to connect is told, in the row it belongs to.   *)
THEOREM ConnectsAreTold == MachinesSpec => []SingleConnectsAreTold
<1>1. MachinesInv => SingleConnectsAreTold
  BY DEF MachinesInv
<1> QED
  BY <1>1, MachinesInvariant, PTL

(* Connecting to a saved machine again keeps what was measured of it.      *)
THEOREM WhatWasMeasuredStays == MachinesSpec => MeasurementsSurvive
<1>1. [MachinesNext]_machineVars => [StaysMeasured]_machineVars
  <2> SUFFICES ASSUME MachinesNext PROVE StaysMeasured
    BY Zenon
  <2>1. CASE MachinesConnect
    BY <2>1 DEF MachinesConnect, Upserted, StaysMeasured
  <2>2. CASE Forget
    BY <2>2 DEF Forget, StaysMeasured
  <2>3. CASE NoteConnected
    BY <2>3 DEF NoteConnected, StaysMeasured
  <2>4. CASE NoteConnectFailed
    BY <2>4 DEF NoteConnectFailed, StaysMeasured
  <2>5. ASSUME NEW k \in Keys, Fill(k) PROVE StaysMeasured
    BY <2>5 DEF Fill, StaysMeasured
  <2> QED
    BY <2>1, <2>2, <2>3, <2>4, <2>5 DEF MachinesNext
<1> QED
  BY <1>1, PTL DEF MachinesSpec, MeasurementsSurvive

-----------------------------------------------------------------------------
(*                              Method calls                               *)

LEMMA RequestIs ==
  ASSUME NEW r \in Request
  PROVE  /\ r.op \in {"schema", "instances"} => r.class \in Classes
         /\ r.op = "invoke" => /\ r.class \in Classes /\ r.method \in DOMAIN Declared[r.class]
                               /\ r.static \in BOOLEAN /\ r.target \in Targets
<1>1. CASE r \in [op : {"nothing", "read", "connect"}]
  BY <1>1
<1>2. CASE r \in [op : {"schema", "instances"}, class : Classes]
  BY <1>2
<1>3. CASE \E c \in Classes : r \in [op : {"invoke"}, class : {c}, method : DOMAIN Declared[c],
                                     static : BOOLEAN, target : Targets]
  BY <1>3
<1> QED
  BY <1>1, <1>2, <1>3 DEF Request

(* wrong_target() and the retry at the class reach every static method.    *)
LEMMA RetryReaches == CallsTypeOK => StaticsAreReached
<1> SUFFICES ASSUME CallsTypeOK, current.op = "invoke",
                    Declared[current.class][current.method].static
             PROVE  "done" \in Outcomes(current)
  BY DEF StaticsAreReached
<1>1. current.static \in BOOLEAN
  BY RequestIs DEF CallsTypeOK
<1>2. Results(current, TRUE) = {"done", "failed"} /\ Results(current, FALSE) = {"wrong target"}
  BY DEF Results
<1>3. CASE current.static \/ current.target = None
  BY <1>2, <1>3 DEF Outcomes
<1>4. CASE ~(current.static \/ current.target = None)
  BY <1>2, <1>4 DEF Outcomes, RetryOnClass
<1> QED
  BY <1>3, <1>4

(* The fields on screen, and what is under way.                            *)
CallsFields ==
  /\ selected \in Classes \cup {None} /\ schema \in [class : Classes \cup {None}, ready : BOOLEAN]
  /\ open \in BOOLEAN /\ target \in Targets /\ armed \in BOOLEAN /\ instances \in Targets
  /\ palette \in BOOLEAN
  /\ schema.ready => schema.class \in Classes

CallsWork ==
  /\ calls \in Seq(Request) /\ current \in Request
  /\ invoking \in BOOLEAN /\ window \in {"open", "asking", "gone"} /\ left \in BOOLEAN
  /\ CallsAreDeclared
  /\ \A i, j \in Waiting : i = j
  /\ current.op = "invoke" => Waiting = {}
  /\ window # "gone" => (CallIsOut <=> invoking)
  /\ window = "gone" /\ CallIsOut => left

LEMMA CallsOutIs ==
  ASSUME \A i, j \in Waiting : i = j, current.op = "invoke" => Waiting = {}
  PROVE  CallsOut <= 1 /\ (CallsOut > 0 => CallIsOut)
<1>1. CASE Waiting = {}
  <2>1. Cardinality(Waiting) = 0
    BY <1>1, FS_EmptySet
  <2> QED
    BY <2>1 DEF CallsOut, CallIsOut
<1>2. CASE Waiting # {}
  <2>1. PICK k \in Waiting : TRUE
    BY <1>2
  <2>2. Waiting = {k}
    BY <2>1
  <2>3. Cardinality(Waiting) = 1
    BY <2>2, FS_Singleton
  <2> QED
    BY <1>2, <2>3 DEF CallsOut, CallIsOut
<1> QED
  BY <1>1, <1>2

LEMMA CallsInvIs == CallsInv <=> CallsFields /\ CallsWork
<1>1. CallsInv => CallsFields /\ CallsWork
  BY DEF CallsInv, CallsTypeOK, CallsAreAsConfirmed, CallsFields, CallsWork
<1>2. ASSUME CallsFields, CallsWork PROVE CallsInv
  <2>1. CallsTypeOK
    BY <1>2 DEF CallsTypeOK, CallsFields, CallsWork
  <2>2. OneCallAtATime /\ NoCallLeftUnasked
    BY <1>2, CallsOutIs DEF CallsWork, OneCallAtATime, NoCallLeftUnasked
  <2> QED
    BY <1>2, <2>1, <2>2, RetryReaches
       DEF CallsInv, CallsAreAsConfirmed, CallsFields, CallsWork
<1> QED
  BY <1>1, <1>2

-----------------------------------------------------------------------------
(* What a request added to the queue changes, and one taken from it.       *)

LEMMA WaitingAfterSend ==
  ASSUME NEW req \in Request, calls \in Seq(Request), calls' = Append(calls, req)
  PROVE  /\ calls' \in Seq(Request)
         /\ \A k : k \in Waiting' <=> k \in Waiting \/ (k = Len(calls) + 1 /\ req.op = "invoke")
         /\ \A k \in Waiting : calls'[k] = calls[k]
         /\ calls'[Len(calls) + 1] = req
         /\ Waiting \subseteq 1 .. Len(calls) /\ Len(calls) \in Nat
BY DEF Waiting

LEMMA WaitingAfterTake ==
  ASSUME calls \in Seq(Request), calls # <<>>, calls' = Tail(calls)
  PROVE  /\ calls' \in Seq(Request) /\ Head(calls) \in Request
         /\ \A k \in Waiting' : k \in Nat /\ k # 0 /\ k + 1 \in Waiting /\ calls'[k] = calls[k + 1]
         /\ \A k \in Waiting : k = 1 \/ k - 1 \in Waiting'
         /\ 1 \in Waiting <=> Head(calls).op = "invoke"
         /\ Head(calls) = calls[1] /\ Waiting \subseteq Nat
<1>1. /\ Len(calls) \in Nat \ {0} /\ calls' \in Seq(Request) /\ Head(calls) \in Request
      /\ Len(calls') = Len(calls) - 1 /\ Head(calls) = calls[1]
      /\ \A k \in 1 .. Len(calls) - 1 : calls'[k] = calls[k + 1]
  OBVIOUS
<1>2. Waiting = {k \in 1 .. Len(calls) : calls[k].op = "invoke"}
      /\ Waiting' = {k \in 1 .. Len(calls) - 1 : calls'[k].op = "invoke"}
  BY <1>1 DEF Waiting
<1> QED
  BY <1>1, <1>2

LEMMA WorkStays == CallsWork /\ UNCHANGED <<work, invoking, window, left>> => CallsWork'
BY DEF CallsWork, work, CallsAreDeclared, Waiting, CallIsOut

LEMMA SentWork ==
  ASSUME CallsWork, NEW req \in Request, req.op # "invoke", Send(req),
         UNCHANGED <<invoking, window, left>>
  PROVE  CallsWork'
<1>1. calls' = Append(calls, req) /\ current' = current
  BY DEF Send
<1>2. /\ calls' \in Seq(Request) /\ Waiting' = Waiting
      /\ \A k \in Waiting : calls'[k] = calls[k]
  BY <1>1, WaitingAfterSend DEF CallsWork
<1>3. CallIsOut' <=> CallIsOut
  BY <1>1, <1>2 DEF CallIsOut
<1>4. CallsAreDeclared'
  BY <1>2 DEF CallsWork, CallsAreDeclared
<1> QED
  BY <1>1, <1>2, <1>3, <1>4 DEF CallsWork

SchemaIsOfAClass ==
  /\ schema \in [class : Classes \cup {None}, ready : BOOLEAN]
  /\ schema.ready => schema.class \in Classes

LEMMA AskedKeeps ==
  ASSUME CallsFields, CallsWork, NEW c \in Classes, AskSchema(c),
         UNCHANGED <<invoking, window, left>>
  PROVE  CallsWork' /\ SchemaIsOfAClass'
<1>1. CASE schema.class = c
  BY <1>1, WorkStays DEF AskSchema, CallsFields, SchemaIsOfAClass
<1>2. CASE schema.class # c
  <2>1. schema' = [class |-> c, ready |-> FALSE] /\ Send([op |-> "schema", class |-> c])
    BY <1>2 DEF AskSchema
  <2>2. [op |-> "schema", class |-> c] \in Request
    BY DEF Request
  <2>3. CallsWork'
    BY <2>1, <2>2, SentWork
  <2> QED
    BY <2>1, <2>3 DEF SchemaIsOfAClass
<1> QED
  BY <1>1, <1>2

LEMMA ClassPicked ==
  ASSUME CallsFields, CallsWork, NEW c \in Classes, SelectClass(c), palette' \in BOOLEAN
  PROVE  CallsFields' /\ CallsWork'
<1>1. CallsWork' /\ SchemaIsOfAClass'
  BY AskedKeeps DEF SelectClass
<1>2. /\ selected' = c
      /\ UNCHANGED <<open, target, instances, armed>>
  BY DEF SelectClass, arranged, gate
<1> QED
  BY <1>1, <1>2 DEF CallsFields, SchemaIsOfAClass

LEMMA ModalOpened ==
  ASSUME CallsFields, CallsWork, NEW c \in Classes, NEW m, OpenModal(c, m),
         palette' \in BOOLEAN, instances' \in Targets
  PROVE  CallsFields' /\ CallsWork'
<1>1. CallsWork' /\ SchemaIsOfAClass'
  BY AskedKeeps DEF OpenModal
<1>2. selected' = c /\ open' = TRUE /\ armed' = FALSE /\ UNCHANGED target
  BY DEF OpenModal, Disarm
<1> QED
  BY <1>1, <1>2 DEF CallsFields, SchemaIsOfAClass

-----------------------------------------------------------------------------
(* The user keeps the invariant: only a confirmed command is a call.       *)

(* What is confirmed is a request of the class whose schema is at hand.    *)
LEMMA CommandIs ==
  ASSUME CallsFields, FormShown
  PROVE  Command \in Request /\ Command.op = "invoke"
         /\ Command.method \in DOMAIN Declared[Command.class]
         /\ Command.static = Declared[Command.class][Command.method].shown
<1>1. schema.class = selected /\ selected \in Classes /\ method \in DOMAIN Declared[selected]
  BY DEF FormShown, Offered, SchemaReady, CallsFields
<1>2. IsStatic \in BOOLEAN
  BY <1>1, CallsAssumption DEF IsStatic, Classes
<1>3. Command \in [op : {"invoke"}, class : {selected}, method : DOMAIN Declared[selected],
                   static : BOOLEAN, target : Targets]
  BY <1>1, <1>2 DEF Command, CallsFields
<1>4. Command \in Request
  BY <1>1, <1>3 DEF Request
<1> QED
  BY <1>1, <1>4 DEF Command, IsStatic

LEMMA ConfirmKeeps == CallsFields /\ CallsWork /\ Confirm => CallsFields' /\ CallsWork'
<1> SUFFICES ASSUME CallsFields, CallsWork, Confirm PROVE CallsFields' /\ CallsWork'
  OBVIOUS
<1>1. /\ FormShown /\ ~invoking /\ calls' = Append(calls, Command)
      /\ armed' = FALSE /\ invoking' = TRUE /\ window = "open"
      /\ UNCHANGED <<selected, schema, open, target, instances, palette, window, left, current>>
  BY DEF Confirm, FormShown, ButtonsShown, Send, Disarm, arranged, links
<1>2. CallsFields'
  BY <1>1 DEF CallsFields
<1>3. Waiting = {} /\ current.op # "invoke" /\ calls \in Seq(Request)
  BY <1>1 DEF CallsWork, CallIsOut
<1>4. /\ Command \in Request /\ Command.op = "invoke"
      /\ Command.method \in DOMAIN Declared[Command.class]
      /\ Command.static = Declared[Command.class][Command.method].shown
  BY <1>1, CommandIs
<1> HIDE DEF Command
<1>5. /\ calls' \in Seq(Request) /\ Waiting' = {Len(calls) + 1}
      /\ calls'[Len(calls) + 1] = Command
  BY <1>1, <1>3, <1>4, WaitingAfterSend
<1>6. CallIsOut' /\ CallsAreDeclared'
  BY <1>4, <1>5 DEF CallIsOut, CallsAreDeclared
<1>7. CallsWork'
  BY <1>1, <1>3, <1>5, <1>6 DEF CallsWork
<1> QED
  BY <1>2, <1>7

LEMMA UserKeeps == CallsFields /\ CallsWork /\ User => CallsFields' /\ CallsWork'
<1> SUFFICES ASSUME CallsFields, CallsWork, User PROVE CallsFields' /\ CallsWork'
  OBVIOUS
<1>1. CASE PickClass
  BY <1>1, ClassPicked DEF PickClass, CallsFields
<1>2. CASE InvokeFromDetail
  <2>1. selected \in Classes /\ OpenModal(selected, None) /\ instances' \in Targets
        /\ palette' \in BOOLEAN
    BY <1>2 DEF InvokeFromDetail, CallsFields, Targets
  <2> QED
    BY <2>1, ModalOpened
<1>3. CASE InvokeFromCard
  <2>1. PICK m \in Offered : OpenModal(selected, m)
    BY <1>3 DEF InvokeFromCard
  <2>2. selected \in Classes
    BY <2>1 DEF Offered, SchemaReady, CallsFields
  <2> QED
    BY <1>3, <2>1, <2>2, ModalOpened DEF InvokeFromCard, CallsFields
<1>4. CASE TogglePalette
  BY <1>4, WorkStays DEF TogglePalette, CallsFields, arranged, gate
<1>5. CASE HitClass
  BY <1>5, ClassPicked DEF HitClass
<1>6. CASE HitMethod
  BY <1>6, ModalOpened DEF HitMethod, CallsFields
<1>7. CASE HitProperty
  BY <1>7, WorkStays DEF HitProperty, CallsFields, arranged, gate
<1>8. CASE PickMethod
  BY <1>8, WorkStays DEF PickMethod, CallsFields, Disarm, links
<1>9. CASE EditTarget
  BY <1>9, WorkStays DEF EditTarget, CallsFields, Disarm, links, Targets
<1>10. CASE LoadInstances
  <2>1. FormShown /\ Send([op |-> "instances", class |-> selected])
        /\ UNCHANGED <<selected, schema, open, target, instances, armed, invoking,
                       palette, window, left>>
    BY <1>10 DEF LoadInstances, arranged, gate, links
  <2>2. selected \in Classes
    BY <2>1 DEF FormShown, Offered, SchemaReady, CallsFields
  <2>3. [op |-> "instances", class |-> selected] \in Request
    BY <2>2 DEF Request
  <2>4. CallsWork'
    BY <2>1, <2>3, SentWork
  <2> QED
    BY <2>1, <2>4 DEF CallsFields
<1>11. CASE Review
  BY <1>11, WorkStays DEF Review, CallsFields, arranged, links
<1>12. CASE Back
  BY <1>12, WorkStays DEF Back, CallsFields, Disarm, arranged, links
<1>13. CASE Confirm
  BY <1>13, ConfirmKeeps
<1>14. CASE CloseModal
  BY <1>14, WorkStays DEF CloseModal, CallsFields, Disarm, gate, arranged, links
<1>15. CASE Elsewhere
  <2>1. PICK op \in {"read", "connect"} : Send([op |-> op])
    BY <1>15 DEF Elsewhere
  <2>2. [op |-> op] \in Request /\ [op |-> op].op # "invoke"
    BY DEF Request
  <2>3. UNCHANGED <<selected, schema, open, target, instances, armed, invoking,
                    palette, window, left>>
    BY <1>15 DEF Elsewhere, arranged, gate, links
  <2>4. CallsWork'
    BY <2>1, <2>2, <2>3, SentWork
  <2> QED
    BY <2>3, <2>4 DEF CallsFields
<1> QED
  BY <1>1, <1>2, <1>3, <1>4, <1>5, <1>6, <1>7, <1>8, <1>9, <1>10, <1>11, <1>12, <1>13,
     <1>14, <1>15 DEF User

-----------------------------------------------------------------------------
(* So do the worker, which is in one request at a time, and the window,    *)
(* which asks before it goes.                                              *)

LEMMA TakeKeeps == CallsFields /\ CallsWork /\ Take => CallsFields' /\ CallsWork'
<1> SUFFICES ASSUME CallsFields, CallsWork, Take PROVE CallsFields' /\ CallsWork'
  OBVIOUS
<1>1. /\ calls # <<>> /\ current = Nothing /\ current' = Head(calls) /\ calls' = Tail(calls)
      /\ window # "gone"
      /\ UNCHANGED <<selected, schema, open, target, instances, armed, invoking,
                     palette, window, left>>
  BY DEF Take, arranged, gate, links
<1>2. CallsFields'
  BY <1>1 DEF CallsFields
<1>3. /\ calls' \in Seq(Request) /\ current' \in Request
      /\ \A k \in Waiting' : k \in Nat /\ k # 0 /\ k + 1 \in Waiting /\ calls'[k] = calls[k + 1]
      /\ \A k \in Waiting : k = 1 \/ k - 1 \in Waiting'
      /\ 1 \in Waiting <=> current'.op = "invoke"
      /\ Waiting \subseteq Nat
  BY <1>1, WaitingAfterTake DEF CallsWork
<1>4. current.op # "invoke"
  BY <1>1 DEF Nothing
<1>5. \A i, j \in Waiting : i = j
  BY DEF CallsWork
<1>6. \A i, j \in Waiting' : i = j
  BY <1>3, <1>5
<1>7. current'.op = "invoke" => Waiting' = {}
  BY <1>3, <1>5
<1>8. CallIsOut' <=> CallIsOut
  BY <1>3, <1>4 DEF CallIsOut
<1>9. CallsAreDeclared'
  BY <1>3 DEF CallsWork, CallsAreDeclared
<1> QED
  BY <1>1, <1>2, <1>3, <1>6, <1>7, <1>8, <1>9 DEF CallsWork

(* A request that is no call is over: what is out stays out.               *)
LEMMA OtherDone ==
  ASSUME CallsWork, current.op # "invoke", current' = Nothing,
         UNCHANGED <<calls, invoking, window, left>>
  PROVE  CallsWork'
<1>1. Nothing \in Request /\ Nothing.op # "invoke"
  BY DEF Nothing, Request
<1>2. Waiting' = Waiting /\ (CallIsOut' <=> CallIsOut) /\ CallsAreDeclared'
  BY <1>1 DEF CallsWork, Waiting, CallIsOut, CallsAreDeclared
<1> QED
  BY <1>1, <1>2 DEF CallsWork

LEMMA WorkerKeeps ==
  CallsFields /\ CallsWork /\ (MethodDone \/ ReadDone \/ ConnectDone) => CallsFields' /\ CallsWork'
<1> SUFFICES ASSUME CallsFields, CallsWork, MethodDone \/ ReadDone \/ ConnectDone
             PROVE  CallsFields' /\ CallsWork'
  OBVIOUS
<1>1. CASE MethodDone
  <2>1. /\ current.op = "invoke" /\ current' = Nothing
        /\ invoking' = (invoking /\ window = "gone")
        /\ UNCHANGED <<selected, schema, open, target, instances, armed,
                       palette, window, left, calls>>
    BY <1>1 DEF MethodDone, arranged, gate, links
  <2>2. Nothing \in Request /\ Nothing.op # "invoke"
    BY DEF Nothing, Request
  <2>3. Waiting' = {} /\ ~CallIsOut' /\ CallsAreDeclared'
    BY <2>1, <2>2 DEF CallsWork, Waiting, CallIsOut, CallsAreDeclared
  <2>4. CallsWork'
    BY <2>1, <2>2, <2>3 DEF CallsWork
  <2> QED
    BY <2>1, <2>4 DEF CallsFields
<1>2. CASE ReadDone
  <2>1. /\ current.op \in {"read", "schema", "instances"} /\ current' = Nothing
        /\ schema' = [schema EXCEPT !.ready =
                        @ \/ (current.op = "schema" /\ schema.class = current.class)]
        /\ instances' = IF current.op = "instances" THEN current.class ELSE instances
        /\ UNCHANGED <<selected, open, target, armed, invoking, palette, window, left, calls>>
    BY <1>2 DEF ReadDone, gate, links
  <2>2. CallsWork'
    BY <2>1, OtherDone
  <2>3. current.op \in {"schema", "instances"} => current.class \in Classes
    BY RequestIs DEF CallsWork
  <2>4. SchemaIsOfAClass'
    BY <2>1, <2>3 DEF CallsFields, SchemaIsOfAClass
  <2>5. instances' \in Targets
    BY <2>1, <2>3 DEF CallsFields, Targets
  <2> QED
    BY <2>1, <2>2, <2>4, <2>5 DEF CallsFields, SchemaIsOfAClass
<1>3. CASE ConnectDone
  <2>1. /\ current.op = "connect" /\ current' = Nothing
        /\ UNCHANGED <<target, invoking, palette, window, left, calls>>
    BY <1>3 DEF ConnectDone, links
  <2>2. CallsWork'
    BY <2>1, OtherDone
  <2>3. CASE /\ selected' = None /\ schema' = [class |-> None, ready |-> FALSE]
             /\ instances' = None /\ open' = FALSE /\ armed' \in BOOLEAN
    BY <2>1, <2>2, <2>3 DEF CallsFields, Targets
  <2>4. CASE UNCHANGED <<selected, schema, instances, open, armed>>
    BY <2>1, <2>2, <2>4 DEF CallsFields
  <2>5. armed \in BOOLEAN
    BY DEF CallsFields
  <2> QED
    BY <1>3, <2>3, <2>4, <2>5 DEF ConnectDone, Disarm, gate
<1> QED
  BY <1>1, <1>2, <1>3

LEMMA WindowKeeps ==
  CallsFields /\ CallsWork /\ (CloseRequest \/ ClosingModal) => CallsFields' /\ CallsWork'
<1> SUFFICES ASSUME CallsFields, CallsWork, CloseRequest \/ ClosingModal
             PROVE  CallsFields' /\ CallsWork'
  OBVIOUS
<1>1. /\ window # "gone" /\ window' \in {"open", "asking", "gone"} /\ left' \in BOOLEAN
      /\ window' = "gone" => left' \/ ~invoking
      /\ UNCHANGED <<selected, schema, open, target, instances, armed, invoking,
                     palette, calls, current>>
  BY DEF CloseRequest, ClosingModal, AsksFirst, CallsWork, arranged, gate, work
<1>2. CallsFields'
  BY <1>1 DEF CallsFields
<1>3. Waiting' = Waiting /\ (CallIsOut' <=> CallIsOut) /\ CallsAreDeclared'
  BY <1>1 DEF CallsWork, Waiting, CallIsOut, CallsAreDeclared
<1>4. CallIsOut <=> invoking
  BY <1>1 DEF CallsWork
<1> QED
  BY <1>1, <1>2, <1>3, <1>4 DEF CallsWork

(* The inductive invariant of the calls.                                   *)
THEOREM CallsInvariant == CallsSpec => []CallsInv
<1>1. CallsInit => CallsFields /\ CallsWork
  <2> SUFFICES ASSUME CallsInit PROVE CallsFields /\ CallsWork
    OBVIOUS
  <2>1. CallsFields
    BY DEF CallsInit, CallsFields, Targets
  <2>2. calls = <<>> /\ calls \in Seq(Request) /\ Waiting = {}
    BY DEF CallsInit, Waiting
  <2>3. current \in Request /\ current.op # "invoke"
    BY DEF CallsInit, Nothing, Request
  <2>4. invoking = FALSE /\ window = "open" /\ left = FALSE
    BY DEF CallsInit
  <2>5. ~CallIsOut /\ CallsAreDeclared
    BY <2>2, <2>3 DEF CallIsOut, CallsAreDeclared
  <2>6. CallsWork
    BY <2>2, <2>3, <2>4, <2>5 DEF CallsWork
  <2> QED
    BY <2>1, <2>6
<1>2. CallsFields /\ CallsWork /\ [CallsNext]_callVars => CallsFields' /\ CallsWork'
  <2> SUFFICES ASSUME CallsFields, CallsWork, [CallsNext]_callVars PROVE CallsFields' /\ CallsWork'
    OBVIOUS
  <2>1. CASE User
    BY <2>1, UserKeeps
  <2>2. CASE CloseRequest \/ ClosingModal
    BY <2>2, WindowKeeps
  <2>3. CASE Take
    BY <2>3, TakeKeeps
  <2>4. CASE MethodDone \/ ReadDone \/ ConnectDone
    BY <2>4, WorkerKeeps
  <2>5. CASE UNCHANGED callVars
    BY <2>5, WorkStays DEF callVars, arranged, gate, links, CallsFields
  <2> QED
    BY <2>1, <2>2, <2>3, <2>4, <2>5 DEF CallsNext
<1> QED
  BY <1>1, <1>2, CallsInvIs, PTL DEF CallsSpec

(* A call goes out as it was confirmed, one at a time, and is not left     *)
(* behind unasked.                                                         *)
THEOREM CallsGoAsConfirmed == CallsSpec => []CallsAreAsConfirmed
<1>1. CallsInv => CallsAreAsConfirmed
  BY DEF CallsInv
<1> QED
  BY <1>1, CallsInvariant, PTL

-----------------------------------------------------------------------------
(*                             The live panels                             *)

(* The places of the requests of one kind in a queue.                      *)
Places(q, kind) == {i \in DOMAIN q : q[i].is = kind}

LEMMA PlacesAreFinite ==
  ASSUME NEW q \in Seq(Requests), NEW kind
  PROVE  IsFiniteSet(Places(q, kind)) /\ Cardinality(Places(q, kind)) \in Nat
<1>1. Places(q, kind) \in SUBSET DOMAIN q /\ IsFiniteSet(DOMAIN q)
  BY PositionsAreFinite DEF Places
<1>2. IsFiniteSet(Places(q, kind))
  BY <1>1, FS_Subset
<1> QED
  BY <1>2, FS_CardinalityType

LEMMA PlacesAfterSend ==
  ASSUME NEW q \in Seq(Requests), NEW r \in Requests, NEW kind
  PROVE  /\ \A i : i \in Places(Append(q, r), kind)
                     <=> i \in Places(q, kind) \/ (i = Len(q) + 1 /\ r.is = kind)
         /\ Cardinality(Places(Append(q, r), kind))
              = Cardinality(Places(q, kind)) + (IF r.is = kind THEN 1 ELSE 0)
<1> DEFINE before == Places(q, kind)
           after == Places(Append(q, r), kind)
<1>1. \A i : i \in after <=> i \in before \/ (i = Len(q) + 1 /\ r.is = kind)
  BY DEF Places
<1>2. Len(q) + 1 \notin before
  BY DEF Places
<1>3. IsFiniteSet(before) /\ Cardinality(before) \in Nat
  BY PlacesAreFinite
<1> HIDE DEF before, after
<1>4. CASE r.is = kind
  <2>1. after = before \cup {Len(q) + 1}
    BY <1>1, <1>4
  <2>2. Cardinality(after) = Cardinality(before) + 1
    BY <1>2, <1>3, <2>1, FS_AddElement
  <2> QED
    BY <1>1, <1>4, <2>2 DEF before, after
<1>5. CASE r.is # kind
  <2>1. after = before
    BY <1>1, <1>5
  <2> QED
    BY <1>1, <1>3, <1>5, <2>1 DEF before, after
<1> QED
  BY <1>4, <1>5

LEMMA PlacesAfterAnswer ==
  ASSUME NEW q \in Seq(Requests), q # <<>>, NEW kind
  PROVE  /\ \A i \in Places(Tail(q), kind) : i + 1 \in Places(q, kind) /\ i \in Nat \ {0}
         /\ \A i \in Places(q, kind) : i = 1 \/ i - 1 \in Places(Tail(q), kind)
         /\ 1 \in Places(q, kind) <=> Head(q).is = kind
         /\ Places(q, kind) \subseteq Nat
         /\ Cardinality(Places(Tail(q), kind))
              = Cardinality(Places(q, kind)) - (IF Head(q).is = kind THEN 1 ELSE 0)
<1> DEFINE before == Places(q, kind)
           after == Places(Tail(q), kind)
           others == before \ {1}
           next == [i \in others |-> i - 1]
<1>1. /\ Len(q) \in Nat \ {0} /\ Len(Tail(q)) = Len(q) - 1 /\ Tail(q) \in Seq(Requests)
      /\ Head(q) = q[1] /\ \A k \in 1 .. Len(q) - 1 : Tail(q)[k] = q[k + 1]
  OBVIOUS
<1>2. /\ before = {i \in 1 .. Len(q) : q[i].is = kind}
      /\ after = {i \in 1 .. Len(q) - 1 : Tail(q)[i].is = kind}
  BY <1>1 DEF Places
<1>3. /\ \A i \in after : i + 1 \in before /\ i \in Nat \ {0}
      /\ \A i \in before : i = 1 \/ i - 1 \in after
      /\ 1 \in before <=> Head(q).is = kind
      /\ before \subseteq Nat
  BY <1>1, <1>2
<1> HIDE DEF before, after
<1>4. \A i \in after : i + 1 \in others /\ (i + 1) - 1 = i
  BY <1>3
<1>5. next \in [others -> after] /\ \A i, j \in others : next[i] = next[j] => i = j
  BY <1>3
<1>6. \A k \in after : \E i \in others : next[i] = k
  BY <1>4
<1> HIDE DEF next, others
<1>7. IsFiniteSet(before) /\ Cardinality(before) \in Nat
  BY PlacesAreFinite DEF before
<1>8. /\ IsFiniteSet(others)
      /\ Cardinality(others) = IF 1 \in before THEN Cardinality(before) - 1 ELSE Cardinality(before)
  BY <1>7, FS_RemoveElement DEF others
<1>9. Cardinality(after) = Cardinality(others)
  BY <1>5, <1>6, <1>8, SameSize, Zenon
<1>10. Cardinality(after) = Cardinality(before) - (IF Head(q).is = kind THEN 1 ELSE 0)
  BY <1>3, <1>7, <1>8, <1>9
<1> QED
  BY <1>3, <1>10 DEF before, after

(* An answer takes one request of its kind, and leaves the others.         *)
LEMMA AnswerTakes ==
  ASSUME queue \in Seq(Requests), NEW kind, Taken(kind), NEW k
  PROVE  /\ queue' \in Seq(Requests) /\ Head(queue) \in Requests
         /\ k # kind /\ UnderWay(k) # {} => UnderWay(k)' # {}
         /\ Cardinality(UnderWay(k)') = Cardinality(UnderWay(k)) - (IF k = kind THEN 1 ELSE 0)
<1>1. queue # <<>> /\ Head(queue).is = kind /\ queue' = Tail(queue)
  BY DEF Taken
<1>2. queue' \in Seq(Requests) /\ Head(queue) \in Requests
  BY <1>1
<1> DEFINE before(x) == Places(queue, x)
           after(x) == Places(Tail(queue), x)
<1>3. /\ \A i \in after(k) : i + 1 \in before(k) /\ i \in Nat \ {0}
      /\ \A i \in before(k) : i = 1 \/ i - 1 \in after(k)
      /\ 1 \in before(k) <=> kind = k
      /\ before(k) \subseteq Nat
      /\ Cardinality(after(k)) = Cardinality(before(k)) - (IF kind = k THEN 1 ELSE 0)
  BY <1>1, PlacesAfterAnswer
<1>4. UnderWay(k) = before(k) /\ UnderWay(k)' = after(k)
  BY <1>1 DEF UnderWay, Places
<1> HIDE DEF before, after
<1>5. k # kind /\ before(k) # {} => after(k) # {}
  BY <1>3
<1> QED
  BY <1>2, <1>3, <1>4, <1>5

(* What is under way, and what is shown.                                   *)
PanelsWork ==
  /\ queue \in Seq(Requests) /\ bound \in Hosts /\ connected \in Hosts \cup {Nobody}
  /\ inflight \in BOOLEAN /\ clicks \in Nat /\ loading \in [Lazy -> BOOLEAN]
  /\ inflight => UnderWay("network") # {}
  /\ \A p \in Lazy : loading[p] => UnderWay(p) # {}
  /\ connected # Nobody => connected = bound
  /\ Cardinality(UnderWay("network")) <= clicks + (IF inflight THEN 1 ELSE 0)

PanelsShown ==
  /\ view \in Views /\ now \in Nat /\ polling \in BOOLEAN /\ filtered \in BOOLEAN
  /\ lastRefresh \in Nat
  /\ conns \in [DOMAIN conns -> [alive : BOOLEAN, seen : Nat, host : Hosts]]
  /\ shown \in [Lazy -> Hosts \cup {Nobody}]
  /\ PanelsAreOfTheHost /\ AliveIsTheSnapshot

LEMMA PanelsInvIs == PanelsInv <=> PanelsWork /\ PanelsShown
<1>1. PanelsInv => PanelsWork /\ PanelsShown
  BY DEF PanelsInv, PanelsTypeOK, PanelsAreCurrent, RequestsAreBounded, PanelsWork, PanelsShown
<1>2. ASSUME PanelsWork, PanelsShown PROVE PanelsInv
  <2>1. Cardinality(UnderWay("network")) <= clicks + 1
    <3>1. Cardinality(UnderWay("network")) \in Nat
      BY <1>2, PlacesAreFinite DEF PanelsWork, UnderWay, Places
    <3> QED
      BY <1>2, <3>1 DEF PanelsWork
  <2> QED
    BY <1>2, <2>1
       DEF PanelsInv, PanelsTypeOK, PanelsAreCurrent, RequestsAreBounded, PanelsWork, PanelsShown
<1> QED
  BY <1>1, <1>2

LEMMA PanelsWorkStays ==
  PanelsWork /\ UNCHANGED <<queue, bound, connected, inflight, clicks, loading>> => PanelsWork'
BY DEF PanelsWork, UnderWay

LEMMA PanelsShownStays ==
  ASSUME PanelsShown, view' \in Views, now' \in Nat, polling' \in BOOLEAN, filtered' \in BOOLEAN,
         lastRefresh' \in Nat, connected' \in {connected, Nobody},
         UNCHANGED <<conns, snapshot, shown>>
  PROVE  PanelsShown'
BY DEF PanelsShown, PanelsAreOfTheHost, AliveIsTheSnapshot

(* A frame or a click asks for a snapshot, or for what a view shows.       *)
LEMMA AskedWork ==
  ASSUME PanelsWork, NEW kind \in Lazy \cup {"network"},
         queue' = Append(queue, [is |-> kind]),
         UNCHANGED <<bound, connected>>,
         loading' = IF kind \in Lazy THEN [loading EXCEPT ![kind] = TRUE] ELSE loading,
         clicks' \in Nat, inflight' \in BOOLEAN,
         kind = "network" => inflight' /\ (clicks' = clicks + 1 \/ (clicks' = clicks /\ ~inflight)),
         kind # "network" => clicks' = clicks /\ inflight' = inflight
  PROVE  PanelsWork'
<1>1. [is |-> kind] \in Requests /\ queue \in Seq(Requests)
  BY DEF Requests, PanelsWork
<1>2. ASSUME NEW k
      PROVE  /\ UnderWay(k) \subseteq UnderWay(k)' /\ (k = kind => UnderWay(k)' # {})
             /\ k # kind => UnderWay(k)' = UnderWay(k)
             /\ Cardinality(UnderWay(k)') = Cardinality(UnderWay(k)) + (IF k = kind THEN 1 ELSE 0)
             /\ Cardinality(UnderWay(k)) \in Nat
  <2> DEFINE before == Places(queue, k)
             after == Places(Append(queue, [is |-> kind]), k)
  <2>1. /\ \A i : i \in after <=> i \in before \/ (i = Len(queue) + 1 /\ kind = k)
        /\ Cardinality(after) = Cardinality(before) + (IF kind = k THEN 1 ELSE 0)
    BY <1>1, PlacesAfterSend
  <2>2. Cardinality(before) \in Nat
    BY <1>1, PlacesAreFinite
  <2>3. UnderWay(k) = before /\ UnderWay(k)' = after
    BY DEF UnderWay, Places
  <2> HIDE DEF before, after
  <2>4. before \subseteq after /\ (k = kind => after # {}) /\ (k # kind => after = before)
    BY <2>1
  <2> QED
    BY <2>1, <2>2, <2>3, <2>4
<1>3. queue' \in Seq(Requests)
  BY <1>1
<1>4. loading' \in [Lazy -> BOOLEAN] /\ \A p \in Lazy : loading'[p] => p = kind \/ loading[p]
  BY DEF PanelsWork
<1>5. \A p \in Lazy : loading'[p] => UnderWay(p)' # {}
  BY <1>2, <1>4 DEF PanelsWork
<1>6. inflight' => UnderWay("network")' # {}
  BY <1>2 DEF PanelsWork
<1>7. Cardinality(UnderWay("network")') <= clicks' + (IF inflight' THEN 1 ELSE 0)
  <2>1. /\ Cardinality(UnderWay("network")) <= clicks + (IF inflight THEN 1 ELSE 0)
        /\ clicks \in Nat /\ Cardinality(UnderWay("network")) \in Nat
    BY <1>2 DEF PanelsWork
  <2>2. CASE kind = "network"
    <3>1. Cardinality(UnderWay("network")') = Cardinality(UnderWay("network")) + 1
      BY <1>2, <2>2
    <3> QED
      BY <2>1, <2>2, <3>1
  <2>3. CASE kind # "network"
    <3>1. UnderWay("network")' = UnderWay("network")
      BY <1>2, <2>3
    <3> QED
      BY <2>1, <2>3, <3>1
  <2> QED
    BY <2>2, <2>3
<1> QED
  BY <1>3, <1>4, <1>5, <1>6, <1>7 DEF PanelsWork

LEMMA PanelsFrameKeeps == PanelsWork /\ PanelsShown /\ PanelsFrame => PanelsWork' /\ PanelsShown'
<1> SUFFICES ASSUME PanelsWork, PanelsShown, PanelsFrame PROVE PanelsWork' /\ PanelsShown'
  OBVIOUS
<1>1. /\ now' \in {now, now + 1}
      /\ UNCHANGED <<view, polling, filtered, bound, connected, conns, snapshot, clicks, shown>>
  BY DEF PanelsFrame
<1>2. now' \in Nat
  BY <1>1 DEF PanelsShown
<1>3. CASE SnapshotDue
  <2>1. /\ ~inflight /\ inflight' = TRUE /\ lastRefresh' = now' /\ ~LoadDue
        /\ queue' = Append(queue, [is |-> "network"]) /\ loading' = loading
    BY <1>3 DEF PanelsFrame, SnapshotDue, LoadDue, Lazy
  <2>2. clicks' \in Nat /\ "network" \notin Lazy
    BY <1>1 DEF PanelsWork, Lazy
  <2>3. PanelsWork'
    BY <1>1, <2>1, <2>2, AskedWork
  <2> QED
    BY <1>1, <1>2, <2>1, <2>3, PanelsShownStays DEF PanelsShown
<1>4. CASE ~SnapshotDue /\ LoadDue
  <2>1. /\ inflight' = inflight /\ lastRefresh' = lastRefresh /\ view \in Lazy
        /\ queue' = Append(queue, [is |-> view])
        /\ loading' = [loading EXCEPT ![view] = TRUE]
    BY <1>4 DEF PanelsFrame, LoadDue
  <2>2. clicks' \in Nat /\ inflight' \in BOOLEAN /\ view # "network"
    BY <1>1, <2>1 DEF PanelsWork, Lazy
  <2>3. PanelsWork'
    BY <1>1, <2>1, <2>2, AskedWork
  <2> QED
    BY <1>1, <1>2, <2>1, <2>3, PanelsShownStays DEF PanelsShown
<1>5. CASE ~SnapshotDue /\ ~LoadDue
  <2>1. /\ inflight' = inflight /\ lastRefresh' = lastRefresh /\ queue' = queue
        /\ loading' = loading
    BY <1>5 DEF PanelsFrame
  <2> QED
    BY <1>1, <1>2, <2>1, PanelsWorkStays, PanelsShownStays DEF PanelsShown
<1> QED
  BY <1>3, <1>4, <1>5

LEMMA RefreshKeeps == PanelsWork /\ PanelsShown /\ Refresh => PanelsWork' /\ PanelsShown'
<1> SUFFICES ASSUME PanelsWork, PanelsShown, Refresh PROVE PanelsWork' /\ PanelsShown'
  OBVIOUS
<1>1. /\ view # "other" /\ queue' = Append(queue, [is |-> view])
      /\ UNCHANGED <<view, now, polling, filtered, bound, connected, conns, snapshot, shown>>
  BY DEF Refresh, net
<1>2. view \in Lazy \cup {"network"} /\ clicks \in Nat /\ inflight \in BOOLEAN
      /\ now \in Nat /\ lastRefresh \in Nat
  BY <1>1 DEF PanelsShown, PanelsWork, Views
<1>3. CASE view = "network"
  <2>1. /\ inflight' = TRUE /\ lastRefresh' = now /\ clicks' = clicks + 1 /\ loading' = loading
        /\ view \notin Lazy
    BY <1>3 DEF Refresh, Lazy
  <2>2. "network" \in Lazy \cup {"network"} /\ queue' = Append(queue, [is |-> "network"])
        /\ inflight' \in BOOLEAN /\ clicks' \in Nat /\ "network" \notin Lazy
    BY <1>1, <1>2, <1>3, <2>1
  <2>3. PanelsWork'
    BY <1>1, <2>1, <2>2, AskedWork, Zenon
  <2> QED
    BY <1>1, <1>2, <2>1, <2>3, PanelsShownStays DEF PanelsShown
<1>4. CASE view # "network"
  <2>1. /\ inflight' = inflight /\ lastRefresh' = lastRefresh /\ clicks' = clicks
        /\ loading' = [loading EXCEPT ![view] = TRUE] /\ view \in Lazy
    BY <1>2, <1>4 DEF Refresh, net
  <2>2. PanelsWork'
    BY <1>1, <1>2, <1>4, <2>1, AskedWork
  <2> QED
    BY <1>1, <1>2, <2>1, <2>2, PanelsShownStays DEF PanelsShown
<1> QED
  BY <1>3, <1>4

(* Whatever connects are under way, no host is named until one of them is  *)
(* answered.                                                               *)
LEMMA ConnectKeeps ==
  ASSUME PanelsWork, PanelsShown, NEW h \in Hosts, Connect(h)
  PROVE  PanelsWork' /\ PanelsShown'
<1> DEFINE r == [is |-> "connect", host |-> h]
<1>1. /\ queue' = Append(queue, r) /\ connected' = Nobody
      /\ UNCHANGED <<view, now, polling, filtered, bound, inflight, lastRefresh, conns, snapshot,
                     clicks, loading, shown>>
  BY DEF Connect, net, lazy
<1>2. r \in Requests /\ r.is = "connect"
  BY DEF Requests
<1>3. queue \in Seq(Requests)
  BY DEF PanelsWork
<1> HIDE DEF r
<1>4. ASSUME NEW k, k # "connect" PROVE UnderWay(k)' = UnderWay(k)
  <2> DEFINE before == Places(queue, k)
             after == Places(Append(queue, r), k)
  <2>1. \A i : i \in after <=> i \in before \/ (i = Len(queue) + 1 /\ k = "connect")
    BY <1>2, <1>3, PlacesAfterSend
  <2>2. UnderWay(k) = before /\ UnderWay(k)' = after
    BY <1>1 DEF UnderWay, Places
  <2> HIDE DEF before, after
  <2>3. after = before
    BY <1>4, <2>1
  <2> QED
    BY <2>2, <2>3
<1>5. UnderWay("network")' = UnderWay("network") /\ \A p \in Lazy : UnderWay(p)' = UnderWay(p)
  BY <1>4 DEF Lazy
<1>6. queue' \in Seq(Requests)
  BY <1>1, <1>2, <1>3
<1>7. PanelsWork'
  BY <1>1, <1>5, <1>6 DEF PanelsWork
<1>8. PanelsShown'
  BY <1>1, PanelsShownStays DEF PanelsShown
<1> QED
  BY <1>7, <1>8

-----------------------------------------------------------------------------
(* The answers: each clears its own flag, and is of the host the worker is *)
(* pointed at.                                                             *)
LEMMA AnsweredWork ==
  ASSUME PanelsWork, NEW kind \in Lazy \cup {"network"}, Taken(kind),
         UNCHANGED <<bound, connected, clicks>>,
         inflight' = (inflight /\ kind # "network"),
         loading' = IF kind \in Lazy THEN [loading EXCEPT ![kind] = FALSE] ELSE loading
  PROVE  PanelsWork'
<1>1. queue \in Seq(Requests)
  BY DEF PanelsWork
<1>2. ASSUME NEW k
      PROVE  /\ queue' \in Seq(Requests)
             /\ k # kind /\ UnderWay(k) # {} => UnderWay(k)' # {}
             /\ Cardinality(UnderWay(k)')
                  = Cardinality(UnderWay(k)) - (IF k = kind THEN 1 ELSE 0)
  BY <1>1, AnswerTakes
<1>3. \A p \in Lazy : loading'[p] => p # kind /\ loading[p]
  BY DEF PanelsWork
<1>4. loading' \in [Lazy -> BOOLEAN] /\ inflight' \in BOOLEAN
  BY DEF PanelsWork
<1>5. Cardinality(UnderWay("network")') <= clicks' + (IF inflight' THEN 1 ELSE 0)
  <2>1. /\ Cardinality(UnderWay("network")) <= clicks + (IF inflight THEN 1 ELSE 0)
        /\ clicks \in Nat /\ Cardinality(UnderWay("network")) \in Nat
    BY PlacesAreFinite DEF PanelsWork, UnderWay, Places
  <2>2. Cardinality(UnderWay("network")')
          = Cardinality(UnderWay("network")) - (IF kind = "network" THEN 1 ELSE 0)
    BY <1>2
  <2>3. CASE kind = "network"
    <3>1. ~inflight'
      BY <2>3, Zenon
    <3> QED
      BY <2>1, <2>2, <2>3, <3>1
  <2>4. CASE kind # "network"
    <3>1. inflight' <=> inflight
      BY <2>4, Zenon
    <3> QED
      BY <2>1, <2>2, <2>4, <3>1
  <2> QED
    BY <2>3, <2>4
<1>6. inflight' => UnderWay("network")' # {}
  BY <1>2 DEF PanelsWork
<1>7. \A p \in Lazy : loading'[p] => UnderWay(p)' # {}
  BY <1>2, <1>3 DEF PanelsWork
<1> QED
  BY <1>2, <1>4, <1>5, <1>6, <1>7 DEF PanelsWork

(* The answer to a connect, the only one or not: no other work is lost.    *)
LEMMA ReconnectedWork ==
  ASSUME PanelsWork, Taken("connect"), bound' = Head(queue).host,
         connected' \in {Nobody, bound'}, UNCHANGED <<inflight, clicks, loading>>
  PROVE  PanelsWork'
<1>1. queue \in Seq(Requests)
  BY DEF PanelsWork
<1>2. ASSUME NEW k
      PROVE  /\ queue' \in Seq(Requests) /\ Head(queue) \in Requests
             /\ k # "connect" /\ UnderWay(k) # {} => UnderWay(k)' # {}
             /\ k # "connect" => Cardinality(UnderWay(k)') = Cardinality(UnderWay(k)) - 0
  BY <1>1, AnswerTakes
<1>3. bound' \in Hosts
  <2>1. Head(queue) \in Requests /\ Head(queue).is = "connect"
    BY <1>2 DEF Taken
  <2> QED
    BY <2>1 DEF Requests, Lazy
<1>4. Cardinality(UnderWay("network")') <= clicks + (IF inflight THEN 1 ELSE 0)
  <2>1. Cardinality(UnderWay("network")) \in Nat
    BY <1>1, PlacesAreFinite DEF UnderWay, Places
  <2>2. Cardinality(UnderWay("network")') = Cardinality(UnderWay("network")) - 0
    BY <1>2
  <2> QED
    BY <2>1, <2>2 DEF PanelsWork
<1>5. /\ inflight => UnderWay("network")' # {}
      /\ \A p \in Lazy : loading[p] => UnderWay(p)' # {}
  BY <1>2 DEF PanelsWork, Lazy
<1> QED
  BY <1>2, <1>3, <1>4, <1>5 DEF PanelsWork

LEMMA NetworkDoneKeeps == PanelsWork /\ PanelsShown /\ NetworkDone => PanelsWork' /\ PanelsShown'
<1> SUFFICES ASSUME PanelsWork, PanelsShown, NetworkDone PROVE PanelsWork' /\ PanelsShown'
  OBVIOUS
<1>1. /\ Taken("network") /\ inflight' = FALSE
      /\ UNCHANGED <<view, now, polling, filtered, bound, connected, lastRefresh, clicks,
                     loading, shown>>
  BY DEF NetworkDone, lazy
<1>2. PanelsWork'
  <2>1. inflight' = (inflight /\ "network" # "network")
    BY <1>1, Zenon
  <2>2. "network" \notin Lazy /\ "network" \in Lazy \cup {"network"}
    BY DEF Lazy
  <2> QED
    BY <1>1, <2>1, <2>2, AnsweredWork, Zenon
<1>3. PICK S \in SUBSET Sockets :
        LET kept == {s \in DOMAIN conns \ S : StillFading(s)}
        IN /\ conns' = [s \in S \cup kept |->
                          IF s \in S THEN [alive |-> TRUE, seen |-> now, host |-> bound]
                          ELSE StillThere(s)]
           /\ snapshot' = [known |-> TRUE, held |-> S, at |-> now]
  BY DEF NetworkDone
<1> DEFINE kept == {s \in DOMAIN conns \ S : StillFading(s)}
<1>4. kept \subseteq DOMAIN conns \ S /\ \A s \in kept : now - conns[s].seen < NetFade
  BY DEF StillFading
<1>5. conns \in [DOMAIN conns -> [alive : BOOLEAN, seen : Nat, host : Hosts]]
      /\ now \in Nat /\ bound \in Hosts
  BY DEF PanelsShown, PanelsWork
<1>6. /\ conns' = [s \in S \cup kept |->
                     IF s \in S THEN [alive |-> TRUE, seen |-> now, host |-> bound]
                     ELSE [alive |-> FALSE, seen |-> conns[s].seen, host |-> conns[s].host]]
      /\ snapshot'.known /\ snapshot'.held = S /\ snapshot'.at = now
  BY <1>3 DEF StillThere
<1> HIDE DEF kept
<1>7. /\ DOMAIN conns' = S \cup kept
      /\ \A s \in S : conns'[s] = [alive |-> TRUE, seen |-> now, host |-> bound]
      /\ \A s \in kept \ S : conns'[s]
           = [alive |-> FALSE, seen |-> conns[s].seen, host |-> conns[s].host]
  BY <1>6
<1>8. conns' \in [DOMAIN conns' -> [alive : BOOLEAN, seen : Nat, host : Hosts]]
  BY <1>4, <1>5, <1>6
<1>9. AliveIsTheSnapshot'
  <2>1. ASSUME NEW s \in DOMAIN conns'
        PROVE  /\ conns'[s].alive <=> s \in S
               /\ IF conns'[s].alive THEN conns'[s].seen = now
                  ELSE now - conns'[s].seen < NetFade
    <3>1. CASE s \in S
      BY <1>7, <3>1
    <3>2. CASE s \notin S
      BY <1>4, <1>7, <3>2
    <3> QED
      BY <3>1, <3>2
  <2>2. {s \in DOMAIN conns' : conns'[s].alive} = S
    BY <1>7, <2>1
  <2> QED
    BY <1>6, <2>1, <2>2 DEF AliveIsTheSnapshot
<1>10. PanelsAreOfTheHost'
  <2> SUFFICES ASSUME connected # Nobody
               PROVE  /\ \A s \in DOMAIN conns' : conns'[s].host = connected
                      /\ \A p \in Lazy : shown[p] \in {Nobody, connected}
    BY <1>1 DEF PanelsAreOfTheHost
  <2>1. /\ bound = connected /\ \A s \in DOMAIN conns : conns[s].host = connected
        /\ \A p \in Lazy : shown[p] \in {Nobody, connected}
    BY DEF PanelsShown, PanelsAreOfTheHost, PanelsWork
  <2>2. ASSUME NEW s \in DOMAIN conns' PROVE conns'[s].host = connected
    <3>1. CASE s \in S
      BY <1>7, <2>1, <3>1
    <3>2. CASE s \notin S
      BY <1>4, <1>7, <2>1, <3>2
    <3> QED
      BY <3>1, <3>2
  <2> QED
    BY <2>1, <2>2
<1> QED
  BY <1>1, <1>2, <1>8, <1>9, <1>10 DEF PanelsShown

LEMMA NetworkFailedKeeps == PanelsWork /\ PanelsShown /\ NetworkFailed => PanelsWork' /\ PanelsShown'
<1> SUFFICES ASSUME PanelsWork, PanelsShown, NetworkFailed PROVE PanelsWork' /\ PanelsShown'
  OBVIOUS
<1>1. /\ Taken("network") /\ inflight' = FALSE
      /\ UNCHANGED <<view, now, polling, filtered, bound, connected, lastRefresh, conns, snapshot,
                     clicks, loading, shown>>
  BY DEF NetworkFailed, lazy
<1>2. inflight' = (inflight /\ "network" # "network")
  BY <1>1, Zenon
<1>3. "network" \notin Lazy /\ "network" \in Lazy \cup {"network"}
  BY DEF Lazy
<1>4. PanelsWork'
  BY <1>1, <1>2, <1>3, AnsweredWork, Zenon
<1> QED
  BY <1>1, <1>4, PanelsShownStays DEF PanelsShown

LEMMA LazyKeeps ==
  ASSUME PanelsWork, PanelsShown, NEW p \in Lazy, LazyDone(p) \/ LazyFailed(p)
  PROVE  PanelsWork' /\ PanelsShown'
<1>1. /\ Taken(p) /\ loading' = [loading EXCEPT ![p] = FALSE]
      /\ shown' = [shown EXCEPT ![p] = bound] \/ shown' = shown
      /\ UNCHANGED <<view, now, polling, filtered, bound, connected, inflight, lastRefresh,
                     conns, snapshot, clicks>>
  BY DEF LazyDone, LazyFailed, LoadingAfterError, net
<1>2. PanelsWork'
  <2>1. inflight' = (inflight /\ p # "network")
    <3>1. p # "network"
      BY DEF Lazy
    <3>2. inflight \in BOOLEAN
      BY DEF PanelsWork
    <3> QED
      BY <1>1, <3>1, <3>2
  <2>2. p \in Lazy \cup {"network"}
    OBVIOUS
  <2> QED
    BY <1>1, <2>1, <2>2, AnsweredWork
<1>3. bound \in Hosts /\ (connected # Nobody => bound = connected)
  BY DEF PanelsWork
<1>4. shown' \in [Lazy -> Hosts \cup {Nobody}]
      /\ \A q \in Lazy : shown'[q] \in {shown[q], bound}
  BY <1>1, <1>3 DEF PanelsShown
<1>5. PanelsAreOfTheHost' /\ AliveIsTheSnapshot'
  BY <1>1, <1>3, <1>4 DEF PanelsShown, PanelsAreOfTheHost, AliveIsTheSnapshot
<1> QED
  BY <1>1, <1>2, <1>4, <1>5 DEF PanelsShown

LEMMA HostConnectedKeeps == PanelsWork /\ PanelsShown /\ HostConnected => PanelsWork' /\ PanelsShown'
<1> SUFFICES ASSUME PanelsWork, PanelsShown, HostConnected PROVE PanelsWork' /\ PanelsShown'
  OBVIOUS
<1>1. /\ Taken("connect") /\ bound' = Head(queue).host /\ connected' = bound'
      /\ conns' = <<>> /\ snapshot'.known = FALSE /\ shown' = [p \in Lazy |-> Nobody]
      /\ UNCHANGED <<view, now, polling, filtered, inflight, lastRefresh, clicks, loading>>
  BY DEF HostConnected, ShownAfterReset
<1>2. PanelsWork'
  BY <1>1, ReconnectedWork
<1>3. DOMAIN conns' = {} /\ conns' \in [DOMAIN conns' -> [alive : BOOLEAN, seen : Nat, host : Hosts]]
  BY <1>1
<1>4. PanelsAreOfTheHost' /\ AliveIsTheSnapshot'
  BY <1>1, <1>3 DEF PanelsAreOfTheHost, AliveIsTheSnapshot
<1> QED
  BY <1>1, <1>2, <1>3, <1>4 DEF PanelsShown

LEMMA ConnectFailedKeeps == PanelsWork /\ PanelsShown /\ ConnectFailed => PanelsWork' /\ PanelsShown'
<1> SUFFICES ASSUME PanelsWork, PanelsShown, ConnectFailed PROVE PanelsWork' /\ PanelsShown'
  OBVIOUS
<1>1. /\ Taken("connect") /\ bound' = Head(queue).host /\ connected' = Nobody
      /\ UNCHANGED <<view, now, polling, filtered, inflight, lastRefresh, conns, snapshot, clicks,
                     loading, shown>>
  BY DEF ConnectFailed, net, lazy
<1>2. PanelsWork'
  BY <1>1, ReconnectedWork
<1> QED
  BY <1>1, <1>2, PanelsShownStays DEF PanelsShown

(* The inductive invariant of the live panels.                             *)
THEOREM PanelsInvariant == PanelsSpec => []PanelsInv
<1>1. PanelsInit => PanelsWork /\ PanelsShown
  <2> SUFFICES ASSUME PanelsInit PROVE PanelsWork /\ PanelsShown
    OBVIOUS
  <2>1. queue = <<>> /\ \A k : UnderWay(k) = {}
    BY DEF PanelsInit, UnderWay
  <2>2. Cardinality(UnderWay("network")) = 0
    BY <2>1, FS_EmptySet
  <2>3. /\ bound \in Hosts /\ connected = bound /\ clicks = 0 /\ ~inflight /\ inflight \in BOOLEAN
        /\ loading \in [Lazy -> BOOLEAN] /\ \A p \in Lazy : ~loading[p]
    BY DEF PanelsInit
  <2>4. queue \in Seq(Requests)
    BY <2>1
  <2>5. PanelsWork
    BY <2>1, <2>2, <2>3, <2>4 DEF PanelsWork
  <2>6. polling \in BOOLEAN /\ filtered \in BOOLEAN
    BY Zenon DEF PanelsInit
  <2>7. /\ view \in Views /\ now = 0
        /\ lastRefresh = 0 /\ conns = <<>> /\ DOMAIN conns = {} /\ snapshot.known = FALSE
        /\ shown = [p \in Lazy |-> Nobody]
    BY DEF PanelsInit, Views
  <2>8. conns \in [DOMAIN conns -> [alive : BOOLEAN, seen : Nat, host : Hosts]]
    BY <2>7
  <2>9. PanelsAreOfTheHost /\ AliveIsTheSnapshot
    BY <2>7 DEF PanelsAreOfTheHost, AliveIsTheSnapshot
  <2>10. PanelsShown
    BY <2>6, <2>7, <2>8, <2>9 DEF PanelsShown
  <2> QED
    BY <2>5, <2>10
<1>2. PanelsWork /\ PanelsShown /\ [PanelsNext]_panelVars => PanelsWork' /\ PanelsShown'
  <2> SUFFICES ASSUME PanelsWork, PanelsShown, [PanelsNext]_panelVars
               PROVE  PanelsWork' /\ PanelsShown'
    OBVIOUS
  <2>1. CASE PanelsFrame
    BY <2>1, PanelsFrameKeeps
  <2>2. CASE TogglePolling \/ Filter
    BY <2>2, PanelsWorkStays, PanelsShownStays DEF TogglePolling, Filter, net, lazy, PanelsShown
  <2>3. CASE Refresh
    BY <2>3, RefreshKeeps
  <2>4. ASSUME NEW v \in Views, Show(v) PROVE PanelsWork' /\ PanelsShown'
    BY <2>4, PanelsWorkStays, PanelsShownStays DEF Show, net, lazy, PanelsShown
  <2>5. ASSUME NEW h \in Hosts, Connect(h) PROVE PanelsWork' /\ PanelsShown'
    BY <2>5, ConnectKeeps
  <2>6. CASE NetworkDone
    BY <2>6, NetworkDoneKeeps
  <2>7. CASE NetworkFailed
    BY <2>7, NetworkFailedKeeps
  <2>8. CASE HostConnected
    BY <2>8, HostConnectedKeeps
  <2>9. CASE ConnectFailed
    BY <2>9, ConnectFailedKeeps
  <2>10. ASSUME NEW p \in Lazy, LazyDone(p) \/ LazyFailed(p) PROVE PanelsWork' /\ PanelsShown'
    BY <2>10, LazyKeeps
  <2>11. CASE UNCHANGED panelVars
    BY <2>11, PanelsWorkStays, PanelsShownStays DEF panelVars, net, lazy, PanelsShown
  <2> QED
    BY <2>1, <2>2, <2>3, <2>4, <2>5, <2>6, <2>7, <2>8, <2>9, <2>10, <2>11 DEF PanelsNext
<1> QED
  BY <1>1, <1>2, PanelsInvIs, PTL DEF PanelsSpec

(* What the panels show is of the host named and of the last snapshot, and *)
(* their requests do not pile up.                                          *)
THEOREM LivePanelsAreCurrent == PanelsSpec => []PanelsAreCurrent
<1>1. PanelsInv => PanelsAreCurrent
  BY DEF PanelsInv
<1> QED
  BY <1>1, PanelsInvariant, PTL

-----------------------------------------------------------------------------
(*                         The event monitor's log                         *)

LEMMA ListedSequence ==
  ASSUME NEW T, NEW seq \in Seq(T)
  PROVE  seq \in Seq(Listed(seq))
BY DEF Listed

ThreadStates == {"starting", "waiting", "event", "failure", "ended"}

(* The subscriptions, the rows, and the counts.                            *)
EventsRunning ==
  /\ clock \in Nat /\ monitor \in 0..Len(threads) /\ threads \in Seq(ThreadStates)
  /\ asked \in Seq(Listed(asked)) /\ Len(asked) = Len(threads)
  /\ chan \in Seq({Failure, monitor})
  /\ monitor = 0 => chan = <<>>
  /\ monitor # 0 => startedAs = Facts(asked[monitor])

EventsLogged ==
  /\ log \in Seq(Listed(log)) /\ nextSeq \in Nat /\ openSeq \in Nat \cup {-1}
  /\ \A i \in DOMAIN log : log[i].event[1] \in DOMAIN asked /\ log[i].seq \in Nat
  /\ RowsAreOfTheirSubscription /\ OpenEventIsTheOneClicked
  /\ openSeq < nextSeq
  /\ \A i \in DOMAIN log : log[i].seq < nextSeq
  /\ \A i, j \in DOMAIN log : log[i].seq = log[j].seq => i = j

EventsCounted ==
  /\ received \in Nat /\ dropped \in Nat /\ arrivals \in Seq(Nat) /\ CountsAgree
  /\ monitor = 0 => arrivals = <<>>

EventsHold == EventsRunning /\ EventsLogged /\ EventsCounted

LEMMA EventsInvIs == EventsInv <=> EventsHold
BY DEF EventsInv, EventsTypeOK, EventLogIsTrue, EventsHold, EventsRunning, EventsLogged,
       EventsCounted, ThreadStates

LEMMA LoggedStays ==
  EventsLogged /\ UNCHANGED <<log, nextSeq, openSeq, opened, asked>> => EventsLogged'
BY DEF EventsLogged, RowsAreOfTheirSubscription, OpenEventIsTheOneClicked

LEMMA CountedStays ==
  EventsCounted /\ UNCHANGED <<received, dropped, arrivals, monitor, log>> => EventsCounted'
BY DEF EventsCounted, CountsAgree

LEMMA RunningStays ==
  ASSUME EventsRunning, clock' \in Nat, UNCHANGED <<monitor, threads, asked, chan, startedAs>>
  PROVE  EventsRunning'
BY DEF EventsRunning

(* A thread puts what it delivers into the channel it was given, if that   *)
(* is still there.                                                         *)
LEMMA ThreadKeeps ==
  ASSUME EventsRunning, NEW s \in DOMAIN threads, NEW to \in ThreadStates,
         threads' = [threads EXCEPT ![s] = to],
         NEW m \in {Failure, s}, Sent(s, m) \/ chan' = chan,
         UNCHANGED <<clock, monitor, asked, startedAs>>
  PROVE  EventsRunning'
<1>1. /\ threads \in Seq(ThreadStates) /\ chan \in Seq({Failure, monitor}) /\ s # 0
      /\ monitor = 0 => chan = <<>>
  BY DEF EventsRunning
<1>2. threads' \in Seq(ThreadStates) /\ Len(threads') = Len(threads)
  BY <1>1
<1>3. chan' \in Seq({Failure, monitor}) /\ (monitor = 0 => chan' = <<>>)
  <2>1. CASE monitor = s /\ chan' = Append(chan, m)
    BY <1>1, <2>1
  <2>2. CASE chan' = chan
    BY <1>1, <2>2
  <2> QED
    BY <2>1, <2>2 DEF Sent
<1> QED
  BY <1>2, <1>3 DEF EventsRunning

LEMMA ThreadsKeep ==
  ASSUME EventsHold, NEW s \in DOMAIN threads, Subscribe(s) \/ Deliver(s) \/ Hand(s)
  PROVE  EventsHold'
<1>1. UNCHANGED <<clock, monitor, asked, startedAs, log, received, dropped, nextSeq, openSeq,
                  opened, arrivals>>
  BY DEF Subscribe, Deliver, Hand, threadRest, eventsView
<1>2. EventsRunning /\ EventsLogged /\ EventsCounted
  BY DEF EventsHold
<1>3. EventsRunning'
  <2>1. CASE Subscribe(s)
    BY <1>1, <1>2, <2>1, ThreadKeeps DEF Subscribe, ThreadStates
  <2>2. CASE Deliver(s)
    <3>1. PICK to \in ThreadStates : threads' = [threads EXCEPT ![s] = to] /\ chan' = chan
      BY <2>2 DEF Deliver, ThreadStates
    <3> QED
      BY <1>1, <1>2, <3>1, ThreadKeeps
  <2>3. CASE Hand(s)
    <3>1. PICK to \in ThreadStates : threads' = [threads EXCEPT ![s] = to]
      BY <2>3 DEF Hand, ThreadStates
    <3>2. PICK m \in {Failure, s} : Sent(s, m)
      BY <2>3 DEF Hand
    <3> QED
      BY <1>1, <1>2, <3>1, <3>2, ThreadKeeps
  <2> QED
    BY <2>1, <2>2, <2>3
<1>4. EventsLogged' /\ EventsCounted'
  BY <1>1, <1>2, LoggedStays, CountedStays
<1> QED
  BY <1>3, <1>4 DEF EventsHold

-----------------------------------------------------------------------------
(* What a frame's drain adds, on top of what is kept.                      *)
LEMMA DrainedRows ==
  ASSUME EventsHold, monitor # 0, Drain
  PROVE  \E n \in Nat :
           /\ nextSeq' = nextSeq + n /\ received' = received + n /\ chan' = <<>>
           /\ log' \in Seq(Listed(log')) /\ DOMAIN log' \subseteq 1 .. n + Len(log)
           /\ \A i \in DOMAIN log' : i <= n =>
                log'[i] = [seq |-> nextSeq + (n - i), event |-> <<monitor, nextSeq + (n - i)>>,
                           label |-> startedAs, at |-> clock]
           /\ \A i \in DOMAIN log' : i > n => i - n \in DOMAIN log /\ log'[i] = log[i - n]
           /\ dropped' = dropped + (n + Len(log) - Len(log')) /\ Len(log') <= n + Len(log)
           /\ arrivals' \in Seq(Nat) /\ Len(arrivals') <= Len(arrivals) + n
<1> DEFINE failures == {i \in DOMAIN chan : chan[i] = Failure}
           events == Without(chan, failures)
           n == Len(events)
           new == [k \in 1..n |-> Row(events[n - k + 1], n - k)]
           rows == new \o log
           old == {i \in DOMAIN arrivals : arrivals[i] < clock - Window}
           recent == Without(arrivals, old)
<1>1. /\ log' = SubSeq(rows, 1, Smaller(LogCap, Len(rows)))
      /\ dropped' = dropped + (Len(rows) - Len(log'))
      /\ received' = received + n /\ nextSeq' = nextSeq + n /\ chan' = <<>>
      /\ arrivals' = recent \o [k \in 1..n |-> clock]
  BY DEF Drain
<1>2. /\ chan \in Seq({Failure, monitor}) /\ log \in Seq(Listed(log)) /\ Len(log) \in Nat
      /\ clock \in Nat /\ arrivals \in Seq(Nat) /\ nextSeq \in Nat
  BY DEF EventsHold, EventsRunning, EventsLogged, EventsCounted
<1>3. failures \in SUBSET DOMAIN chan /\ old \in SUBSET DOMAIN arrivals
  OBVIOUS
<1>4. /\ events \in Seq({Failure, monitor})
      /\ \A j \in DOMAIN events : \E i \in DOMAIN chan \ failures : events[j] = chan[i]
  <2> HIDE DEF failures
  <2> QED
    BY <1>2, <1>3, WithoutKeeps
<1>5. n \in Nat /\ \A j \in 1..n : events[j] = monitor
  <2>1. \A i \in DOMAIN chan \ failures : chan[i] = monitor
    BY <1>2
  <2> HIDE DEF failures, events
  <2> QED
    BY <1>4, <2>1
<1>6. recent \in Seq(Nat) /\ Len(recent) <= Len(arrivals)
  <2> HIDE DEF old
  <2>1. /\ recent \in Seq(Nat) /\ Cardinality(old) \in Nat
        /\ Len(recent) = Len(arrivals) - Cardinality(old)
    BY <1>2, <1>3, WithoutKeeps
  <2> HIDE DEF recent
  <2>2. Len(arrivals) \in Nat
    BY <1>2
  <2> QED
    BY <2>1, <2>2
<1> HIDE DEF events, recent
<1> HIDE DEF n
<1>7. /\ arrivals' \in Seq(Nat) /\ Len(arrivals') = Len(recent) + n
  BY <1>1, <1>2, <1>5, <1>6
<1>8. /\ DOMAIN new = 1 .. n /\ Len(new) = n
      /\ \A k \in 1..n : new[k] = [seq |-> nextSeq + (n - k),
                                   event |-> <<monitor, nextSeq + (n - k)>>,
                                   label |-> startedAs, at |-> clock]
  <2>1. \A k \in 1..n : n - k + 1 \in 1..n
    BY <1>5
  <2>2. DOMAIN new = 1 .. n /\ \A k \in 1..n : new[k] = Row(events[n - k + 1], n - k)
    OBVIOUS
  <2>3. Len(new) = n
    BY <1>5
  <2> QED
    BY <1>5, <2>1, <2>2, <2>3 DEF Row, SeqOf, LabelOf
<1> DEFINE T == Listed(new) \cup Listed(log)
<1>9. new \in Seq(T) /\ log \in Seq(T)
  <2>1. new = [k \in 1..n |-> new[k]]
    OBVIOUS
  <2>2. \A k \in 1..n : new[k] \in Listed(new)
    BY <1>8 DEF Listed
  <2> HIDE DEF new
  <2>3. new \in Seq(Listed(new))
    BY <1>5, <2>1, <2>2
  <2> QED
    BY <1>2, <2>3
<1> HIDE DEF new, T
<1>10. /\ rows \in Seq(T) /\ Len(rows) = n + Len(log) /\ Len(rows) \in Nat
       /\ \A i \in 1 .. n + Len(log) : rows[i] = IF i <= n THEN new[i] ELSE log[i - n]
  <2>1. rows \in Seq(T) /\ Len(rows) = Len(new) + Len(log)
    BY <1>9
  <2>2. \A i \in 1 .. Len(new) + Len(log) :
          rows[i] = IF i <= Len(new) THEN new[i] ELSE log[i - Len(new)]
    BY <1>9
  <2> QED
    BY <1>2, <1>5, <1>8, <2>1, <2>2
<1> HIDE DEF rows
<1>11. Smaller(LogCap, Len(rows)) \in 0 .. Len(rows)
  BY <1>10, EventsAssumption DEF Smaller
<1>12. /\ log' \in Seq(T) /\ DOMAIN log' \subseteq 1 .. n + Len(log)
       /\ \A i \in DOMAIN log' : log'[i] = rows[i]
       /\ Len(log') <= n + Len(log)
  BY <1>1, <1>10, <1>11
<1>13. log' \in Seq(Listed(log'))
  BY <1>12, ListedSequence
<1>14. \A i \in DOMAIN log' : i > n => i - n \in DOMAIN log /\ log'[i] = log[i - n]
  BY <1>2, <1>5, <1>10, <1>12
<1>15. \A i \in DOMAIN log' : i <= n => i \in 1..n /\ log'[i] = new[i]
  BY <1>2, <1>5, <1>10, <1>12
<1>16. Len(arrivals') <= Len(arrivals) + n
  <2>1. Len(arrivals) \in Nat /\ Len(recent) \in Nat
    BY <1>2, <1>6
  <2> QED
    BY <1>5, <1>6, <1>7, <2>1
<1>17. dropped' = dropped + (n + Len(log) - Len(log'))
  BY <1>1, <1>2, <1>5, <1>10, <1>12
<1> QED
  BY SMTT(30), ZenonT(30), <1>1, <1>5, <1>7, <1>8, <1>12, <1>13, <1>14, <1>15, <1>16, <1>17

LEMMA DrainKeeps ==
  ASSUME EventsHold, EventsFrame, monitor # 0
  PROVE  EventsHold'
<1>1. /\ Drain /\ clock' \in {clock, clock + 1}
      /\ UNCHANGED <<box, monitor, threads, stopped, asked, since, startedAs>>
      /\ IF openSeq # -1 /\ \A i \in DOMAIN log' : log'[i].seq # openSeq
         THEN openSeq' = -1 /\ opened' = <<>> ELSE UNCHANGED <<openSeq, opened>>
  BY DEF EventsFrame
<1>2. EventsRunning /\ EventsLogged /\ EventsCounted
  BY DEF EventsHold
<1>3. PICK n \in Nat :
        /\ nextSeq' = nextSeq + n /\ received' = received + n /\ chan' = <<>>
        /\ log' \in Seq(Listed(log')) /\ DOMAIN log' \subseteq 1 .. n + Len(log)
        /\ \A i \in DOMAIN log' : i <= n =>
             log'[i] = [seq |-> nextSeq + (n - i), event |-> <<monitor, nextSeq + (n - i)>>,
                        label |-> startedAs, at |-> clock]
        /\ \A i \in DOMAIN log' : i > n => i - n \in DOMAIN log /\ log'[i] = log[i - n]
        /\ dropped' = dropped + (n + Len(log) - Len(log')) /\ Len(log') <= n + Len(log)
        /\ arrivals' \in Seq(Nat) /\ Len(arrivals') <= Len(arrivals) + n
  BY <1>1, DrainedRows
<1>4. EventsRunning'
  <2>1. clock' \in Nat /\ chan' \in Seq({Failure, monitor})
    BY SMTT(30), ZenonT(30), <1>1, <1>2, <1>3 DEF EventsRunning
  <2> QED
    BY <1>1, <1>2, <1>3, <2>1 DEF EventsRunning
<1>5. EventsCounted'
  <2>1. /\ received \in Nat /\ dropped \in Nat /\ Len(arrivals) <= received
        /\ received = Len(log) + dropped
        /\ Len(log) \in Nat /\ Len(log') \in Nat /\ Len(arrivals) \in Nat /\ Len(arrivals') \in Nat
    BY <1>2, <1>3 DEF EventsCounted, EventsLogged, CountsAgree
  <2>2. /\ received' \in Nat /\ dropped' \in Nat /\ Len(arrivals') <= received'
        /\ received' = Len(log') + dropped'
    BY SMTT(30), ZenonT(30), <1>3, <2>1
  <2> QED
    BY <1>1, <1>3, <2>2 DEF EventsCounted, CountsAgree
<1>6. /\ nextSeq \in Nat /\ openSeq \in Nat \cup {-1} /\ openSeq < nextSeq
      /\ \A i \in DOMAIN log : log[i].seq \in Nat /\ log[i].seq < nextSeq
      /\ \A i, j \in DOMAIN log : log[i].seq = log[j].seq => i = j
      /\ \A i \in DOMAIN log : /\ log[i].event[1] \in DOMAIN asked
                               /\ log[i].label = Facts(asked[log[i].event[1]])
                               /\ log[i].seq = openSeq => log[i].event = opened
  BY <1>2 DEF EventsLogged, RowsAreOfTheirSubscription, OpenEventIsTheOneClicked
<1>7. monitor \in DOMAIN asked /\ startedAs = Facts(asked[monitor])
  BY <1>2 DEF EventsRunning
<1>8. ASSUME NEW i \in DOMAIN log', i <= n
      PROVE  /\ log'[i].seq = nextSeq + (n - i) /\ log'[i].event[1] = monitor
             /\ log'[i].label = startedAs /\ i \in Nat \ {0}
  BY <1>3, <1>8
<1>9. ASSUME NEW i \in DOMAIN log', i > n
      PROVE  i - n \in DOMAIN log /\ log'[i] = log[i - n] /\ i \in Nat
  BY <1>3, <1>9
<1>10. DOMAIN log' \subseteq Nat
  BY <1>3
<1>11. \A i \in DOMAIN log' : log'[i].seq \in Nat /\ log'[i].seq < nextSeq'
  <2> SUFFICES ASSUME NEW i \in DOMAIN log'
               PROVE  log'[i].seq \in Nat /\ log'[i].seq < nextSeq + n
    BY <1>3
  <2>1. CASE i <= n
    BY <1>6, <1>8, <2>1
  <2>2. CASE i > n
    <3>1. i - n \in DOMAIN log /\ log'[i] = log[i - n]
      BY <1>9, <2>2
    <3>2. log[i - n].seq \in Nat /\ log[i - n].seq < nextSeq
      BY <1>6, <3>1
    <3> QED
      BY <1>6, <3>1, <3>2
  <2> QED
    BY <1>10, <2>1, <2>2
<1>12. \A i \in DOMAIN log' : /\ log'[i].event[1] \in DOMAIN asked
                              /\ log'[i].label = Facts(asked[log'[i].event[1]])
  BY <1>6, <1>7, <1>8, <1>9, <1>10
<1>13. \A i, j \in DOMAIN log' : log'[i].seq = log'[j].seq => i = j
  <2> SUFFICES ASSUME NEW i \in DOMAIN log', NEW j \in DOMAIN log', log'[i].seq = log'[j].seq
               PROVE  i = j
    OBVIOUS
  <2>1. CASE i <= n /\ j <= n
    BY <1>6, <1>8, <2>1
  <2>2. CASE i > n /\ j > n
    BY <1>6, <1>9, <2>2
  <2>3. CASE i <= n /\ j > n
    BY <1>6, <1>8, <1>9, <2>3
  <2>4. CASE i > n /\ j <= n
    BY <1>6, <1>8, <1>9, <2>4
  <2> QED
    BY <1>10, <2>1, <2>2, <2>3, <2>4
<1>14. ASSUME NEW i \in DOMAIN log', openSeq' # -1, log'[i].seq = openSeq'
       PROVE  log'[i].event = opened'
  <2>1. openSeq' = openSeq /\ opened' = opened
    BY <1>1, <1>14
  <2>2. i > n
    BY <1>6, <1>8, <1>10, <1>14, <2>1
  <2> QED
    BY <1>6, <1>9, <1>14, <2>1, <2>2
<1>15. openSeq' \in Nat \cup {-1} /\ openSeq' < nextSeq' /\ nextSeq' \in Nat
  BY <1>1, <1>3, <1>6
<1>16. EventsLogged'
  BY <1>1, <1>3, <1>11, <1>12, <1>13, <1>14, <1>15
     DEF EventsLogged, RowsAreOfTheirSubscription, OpenEventIsTheOneClicked
<1> QED
  BY <1>4, <1>5, <1>16 DEF EventsHold

LEMMA IdleFrameKeeps ==
  ASSUME EventsHold, EventsFrame, monitor = 0
  PROVE  EventsHold'
<1>1. /\ clock' \in {clock, clock + 1}
      /\ UNCHANGED <<log, received, dropped, nextSeq, arrivals, chan, monitor, threads, asked,
                     startedAs>>
      /\ (openSeq' = -1 /\ opened' = <<>>) \/ UNCHANGED <<openSeq, opened>>
  BY DEF EventsFrame
<1>2. EventsRunning /\ EventsLogged /\ EventsCounted
  BY DEF EventsHold
<1>3. EventsRunning' /\ EventsCounted'
  BY <1>1, <1>2, RunningStays, CountedStays DEF EventsRunning
<1>4. EventsLogged'
  BY <1>1, <1>2 DEF EventsLogged, RowsAreOfTheirSubscription, OpenEventIsTheOneClicked
<1> QED
  BY <1>3, <1>4 DEF EventsHold

(* A subscription is labelled with what it is handed, and those before it  *)
(* keep theirs.                                                            *)
LEMMA StartKeeps == EventsHold /\ Start => EventsHold'
<1> SUFFICES ASSUME EventsHold, Start PROVE EventsHold'
  OBVIOUS
<1>1. /\ monitor = 0 /\ monitor' = Len(threads) + 1
      /\ threads' = Append(threads, "starting") /\ asked' = Append(asked, box)
      /\ chan' = <<>> /\ arrivals' = <<>> /\ startedAs' = Facts(box)
      /\ UNCHANGED <<clock, log, received, dropped, nextSeq, openSeq, opened>>
  BY DEF Start, eventsView
<1>2. EventsRunning /\ EventsLogged /\ EventsCounted
  BY DEF EventsHold
<1>3. asked' \in Seq(Listed(asked) \cup {box}) /\ Len(asked') = Len(asked) + 1
      /\ asked'[Len(asked) + 1] = box /\ DOMAIN asked \subseteq DOMAIN asked'
      /\ \A i \in DOMAIN asked : asked'[i] = asked[i]
  BY <1>1, <1>2 DEF EventsRunning
<1>4. asked' \in Seq(Listed(asked'))
  BY <1>3, ListedSequence
<1>5. EventsRunning'
  <2>1. "starting" \in ThreadStates
    BY DEF ThreadStates
  <2>2. threads' \in Seq(ThreadStates) /\ Len(threads') = Len(threads) + 1 /\ Len(threads) \in Nat
    BY <1>1, <1>2, <2>1 DEF EventsRunning
  <2>3. monitor' \in 0 .. Len(threads') /\ Len(asked') = Len(threads') /\ clock' \in Nat
        /\ monitor' = Len(asked) + 1
    BY <1>1, <1>2, <1>3, <2>2 DEF EventsRunning
  <2>4. startedAs' = Facts(asked'[monitor'])
    BY <1>1, <1>3, <2>3
  <2>5. chan' = <<>> /\ chan' \in Seq({Failure, monitor'})
    BY <1>1
  <2> QED
    BY <1>4, <2>2, <2>3, <2>4, <2>5 DEF EventsRunning
<1>6. EventsLogged'
  BY <1>1, <1>2, <1>3 DEF EventsLogged, RowsAreOfTheirSubscription, OpenEventIsTheOneClicked
<1>7. EventsCounted'
  <2>1. arrivals' \in Seq(Nat) /\ Len(arrivals') = 0
    BY <1>1
  <2> QED
    BY <1>1, <1>2, <2>1 DEF EventsCounted, CountsAgree
<1> QED
  BY <1>5, <1>6, <1>7 DEF EventsHold

LEMMA StopKeeps == EventsHold /\ Stop => EventsHold'
<1> SUFFICES ASSUME EventsHold, Stop PROVE EventsHold'
  OBVIOUS
<1>1. /\ monitor' = 0 /\ chan' = <<>> /\ arrivals' = <<>>
      /\ UNCHANGED <<clock, threads, asked, startedAs, log, received, dropped, nextSeq, openSeq,
                     opened>>
  BY DEF Stop, eventsView
<1>2. EventsRunning /\ EventsLogged /\ EventsCounted
  BY DEF EventsHold
<1>3. arrivals' \in Seq(Nat) /\ Len(arrivals') = 0 /\ chan' \in Seq({Failure, monitor'})
  BY <1>1
<1>4. EventsRunning'
  <2>1. monitor' \in 0 .. Len(threads)
    BY <1>1, <1>2 DEF EventsRunning
  <2> QED
    BY <1>1, <1>2, <1>3, <2>1 DEF EventsRunning
<1>5. EventsLogged'
  BY <1>1, <1>2, LoggedStays
<1>6. EventsCounted'
  BY <1>1, <1>2, <1>3 DEF EventsCounted, CountsAgree
<1> QED
  BY <1>4, <1>5, <1>6 DEF EventsHold

LEMMA ClearKeeps == EventsHold /\ Clear => EventsHold'
<1> SUFFICES ASSUME EventsHold, Clear PROVE EventsHold'
  OBVIOUS
<1>1. /\ log' = <<>> /\ received' = 0 /\ dropped' = 0 /\ openSeq' = -1
      /\ arrivals' = <<>> \/ (arrivals' = arrivals /\ monitor = 0)
      /\ UNCHANGED <<clock, monitor, threads, asked, chan, nextSeq, startedAs>>
  BY DEF Clear, RateAfterClear
<1>2. EventsRunning /\ EventsLogged /\ EventsCounted
  BY DEF EventsHold
<1>3. arrivals' = <<>>
  BY <1>1, <1>2 DEF EventsCounted
<1>4. arrivals' \in Seq(Nat) /\ Len(arrivals') = 0 /\ Len(log') = 0 /\ DOMAIN log' = {}
      /\ log' \in Seq(Listed(log'))
  BY <1>1, <1>3
<1>5. EventsRunning'
  BY <1>1, <1>2, RunningStays DEF EventsRunning
<1>6. openSeq' \in Nat \cup {-1} /\ openSeq' < nextSeq' /\ nextSeq' \in Nat
  BY <1>1, <1>2 DEF EventsLogged
<1>7. EventsLogged'
  BY <1>4, <1>6 DEF EventsLogged, RowsAreOfTheirSubscription, OpenEventIsTheOneClicked
<1>8. EventsCounted'
  BY <1>1, <1>3, <1>4 DEF EventsCounted, CountsAgree
<1> QED
  BY <1>5, <1>7, <1>8 DEF EventsHold

(* Numbers are unique, so the number of the open row names its event.      *)
LEMMA ClickKeeps ==
  ASSUME EventsHold, NEW i, Click(i)
  PROVE  EventsHold'
<1>1. /\ i \in DOMAIN log
      /\ \/ openSeq' = -1
         \/ openSeq' = log[i].seq /\ opened' = log[i].event
      /\ UNCHANGED <<clock, monitor, threads, asked, chan, log, received, dropped, nextSeq,
                     arrivals, startedAs>>
  BY DEF Click
<1>2. EventsRunning /\ EventsLogged /\ EventsCounted
  BY DEF EventsHold
<1>3. EventsRunning' /\ EventsCounted'
  BY <1>1, <1>2, RunningStays, CountedStays DEF EventsRunning
<1>4. openSeq' \in Nat \cup {-1} /\ openSeq' < nextSeq'
  BY <1>1, <1>2 DEF EventsLogged
<1>5. \A j \in DOMAIN log : openSeq' # -1 /\ log[j].seq = openSeq' => log[j].event = opened'
  BY <1>1, <1>2 DEF EventsLogged
<1>6. EventsLogged'
  BY <1>1, <1>2, <1>4, <1>5 DEF EventsLogged, RowsAreOfTheirSubscription, OpenEventIsTheOneClicked
<1> QED
  BY <1>3, <1>6 DEF EventsHold

LEMMA TypingKeeps ==
  ASSUME EventsHold,
         UNCHANGED <<clock, monitor, threads, asked, chan, log, received, dropped, nextSeq,
                     openSeq, opened, arrivals, startedAs>>
  PROVE  EventsHold'
<1>1. EventsRunning /\ EventsLogged /\ EventsCounted /\ clock' \in Nat
  BY DEF EventsHold, EventsRunning
<1> QED
  BY <1>1, RunningStays, LoggedStays, CountedStays DEF EventsHold

(* The inductive invariant of the event log.                               *)
THEOREM EventsInvariant == EventsSpec => []EventsInv
<1>1. EventsInit => EventsHold
  <2> SUFFICES ASSUME EventsInit PROVE EventsHold
    OBVIOUS
  <2>1. /\ clock = 0 /\ monitor = 0 /\ threads = <<>> /\ asked = <<>> /\ chan = <<>>
        /\ log = <<>> /\ received = 0 /\ dropped = 0 /\ nextSeq = 0 /\ openSeq = -1
        /\ arrivals = <<>>
    BY DEF EventsInit
  <2>2. /\ threads \in Seq(ThreadStates) /\ asked \in Seq(Listed(asked))
        /\ chan \in Seq({Failure, monitor}) /\ log \in Seq(Listed(log)) /\ arrivals \in Seq(Nat)
        /\ Len(threads) = 0 /\ Len(asked) = 0 /\ Len(log) = 0 /\ Len(arrivals) = 0
        /\ DOMAIN log = {}
    BY <2>1
  <2>3. EventsRunning
    BY <2>1, <2>2 DEF EventsRunning
  <2>4. EventsLogged
    BY <2>1, <2>2 DEF EventsLogged, RowsAreOfTheirSubscription, OpenEventIsTheOneClicked
  <2>5. EventsCounted
    BY <2>1, <2>2 DEF EventsCounted, CountsAgree
  <2> QED
    BY <2>3, <2>4, <2>5 DEF EventsHold
<1>2. EventsHold /\ [EventsNext]_eventVars => EventsHold'
  <2> SUFFICES ASSUME EventsHold, [EventsNext]_eventVars PROVE EventsHold'
    OBVIOUS
  <2>1. CASE EventsFrame
    BY <2>1, DrainKeeps, IdleFrameKeeps
  <2>2. CASE Start
    BY <2>2, StartKeeps
  <2>3. CASE Stop
    BY <2>3, StopKeeps
  <2>4. CASE Clear
    BY <2>4, ClearKeeps
  <2>5. ASSUME NEW i \in 1..LogCap, Click(i) PROVE EventsHold'
    BY <2>5, ClickKeeps
  <2>6. ASSUME NEW q \in Boxes, Edit(q) PROVE EventsHold'
    BY <2>6, TypingKeeps DEF Edit, eventsView
  <2>7. ASSUME NEW n \in Numbers, TypeInterval(n) PROVE EventsHold'
    BY <2>7, TypingKeeps DEF TypeInterval, eventsView
  <2>8. ASSUME NEW s \in DOMAIN threads, Subscribe(s) \/ Deliver(s) \/ Hand(s) PROVE EventsHold'
    BY <2>8, ThreadsKeep
  <2>9. CASE UNCHANGED eventVars
    BY <2>9, TypingKeeps DEF eventVars, eventsView
  <2> QED
    BY <2>1, <2>2, <2>3, <2>4, <2>5, <2>6, <2>7, <2>8, <2>9 DEF EventsNext
<1> QED
  BY <1>1, <1>2, EventsInvIs, PTL DEF EventsSpec

(* A row keeps its subscription's label, the panel its event, and the      *)
(* counts agree with the log.                                              *)
THEOREM EventLogTellsTheTruth == EventsSpec => []EventLogIsTrue
<1>1. EventsInv => EventLogIsTrue
  BY DEF EventsInv
<1> QED
  BY <1>1, EventsInvariant, PTL
=============================================================================
