------------------------------- MODULE Machines --------------------------------
(***************************************************************************)
(* The Machines view (machines.rs) and the chip of the title bar: the form *)
(* a connection is arranged in, the table of targets with what each row    *)
(* says of its machine, and the replies the worker gives.                  *)
(*                                                                         *)
(* A target is its key: host and principal.  The worker answers connects   *)
(* in order and stays pointed at the last one, reached or not (WmiWorker). *)
(***************************************************************************)
EXTENDS Integers, Sequences, FiniteSets

CONSTANTS
  Keys, Local,      (* target keys; Local is the machine we run on         *)
  MaxSent           (* bound: connects                                     *)

ASSUME MachinesAssumption == Local \in Keys /\ MaxSent \in Nat

VARIABLES
  form,        (* conn_host and the credential fields: the key they make   *)
  saved,       (* config.targets: which were ever measured                 *)
  status,      (* conn_status                                              *)
  probes,      (* machines.probes                                          *)
  connecting,  (* machines.connecting                                      *)
  connects,    (* the connects sent and not answered                       *)
  boundTo,     (* the target the worker is pointed at                      *)
  sent,        (* how many connects were sent                              *)
  overlapped   (* a connect was sent while another was under way           *)

machineVars == <<form, saved, status, probes, connecting,
          connects, boundTo, sent, overlapped>>

MachinesInit ==
  /\ form = Local
  /\ \E S \in SUBSET (Keys \ {Local}) : saved = [k \in S |-> FALSE]
  /\ status = "local" /\ probes = [k \in Keys |-> [is |-> "none"]]
  /\ connecting = {} /\ connects = <<>> /\ boundTo = Local /\ sent = 0 /\ overlapped = FALSE

-----------------------------------------------------------------------------
(* What the table shows.                                                   *)

(* active_target_key().                                                    *)
ActiveKey == IF status = "local" THEN Local ELSE form

(* resolve_rows(): this machine, the saved targets, and the active one.    *)
Rows == {Local} \cup DOMAIN saved \cup (IF status = "local" THEN {} ELSE {ActiveKey})

(* resolve_status(): a bind under way wins, then what this session measured *)
(* of the machine, then the active connection, then an earlier session.    *)
Label(k) ==
  LET active == k = ActiveKey
      probe == probes[k].is
  IN CASE k = Local -> "This machine"
       [] active /\ status = "connecting" -> "Connecting"
       [] probe = "connecting" -> "Connecting"
       [] probe = "failed" -> "Failed"
       [] active -> "Connected"
       [] probe = "online" -> "Online"
       [] k \in DOMAIN saved /\ saved[k] -> "Last seen"
       [] OTHER -> "Unknown"

-----------------------------------------------------------------------------
(* The user.                                                               *)

(* Typing into the form, or clicking a row, which loads it there.          *)
Fill(k) ==
  /\ form # k /\ form' = k
  /\ UNCHANGED <<saved, status, probes, connecting, connects, boundTo, sent, overlapped>>

(* Mutant of Upserted: what was measured of the target is forgotten.       *)
UpsertedAfresh(k) ==
  IF k = Local THEN saved
  ELSE [x \in DOMAIN saved \cup {k} |-> x # k /\ saved[x]]

(* upsert_target() with the earlier measurements.                          *)
Upserted(k) ==
  IF k = Local THEN saved
  ELSE [x \in DOMAIN saved \cup {k} |-> x \in DOMAIN saved /\ saved[x]]

(* machines_connect(): Connect and Test are one operation.                 *)
MachinesConnect ==
  /\ sent < MaxSent
  /\ saved' = Upserted(form)
  /\ probes' = [probes EXCEPT ![form] = [is |-> "connecting"]]
  /\ connecting' = {form}
  /\ status' = "connecting"
  /\ connects' = Append(connects, form)
  /\ sent' = sent + 1
  /\ overlapped' = (overlapped \/ connects # <<>>)
  /\ UNCHANGED <<form, boundTo>>

(* forget_target().                                                        *)
Forget ==
  /\ form \in DOMAIN saved
  /\ saved' = [x \in DOMAIN saved \ {form} |-> saved[x]]
  /\ probes' = [probes EXCEPT ![form] = [is |-> "none"]]
  /\ UNCHANGED <<form, status, connecting, connects, boundTo, sent, overlapped>>

-----------------------------------------------------------------------------
(* The replies.                                                            *)

Answered == connects # <<>> /\ connects' = Tail(connects) /\ boundTo' = Head(connects)

(* machines_note_connected(), and the status.                              *)
NoteConnected ==
  /\ Answered
  /\ status' = IF Head(connects) = Local THEN "local" ELSE "remote"
  /\ probes' = [k \in Keys |-> IF k \in connecting
                  THEN [is |-> "online", by |-> Head(connects)] ELSE probes[k]]
  /\ saved' = [k \in DOMAIN saved |-> saved[k] \/ k \in connecting]
  /\ connecting' = {}
  /\ UNCHANGED <<form, sent, overlapped>>

(* Mutant of SlotAfterFailure: a failed connect keeps the slot.            *)
SlotKept == connecting

SlotAfterFailure == {}

(* machines_note_connect_failed().                                         *)
NoteConnectFailed ==
  /\ Answered
  /\ status' = "failed"
  /\ probes' = [k \in Keys |-> IF k \in connecting
                  THEN [is |-> "failed", by |-> Head(connects)] ELSE probes[k]]
  /\ connecting' = SlotAfterFailure
  /\ UNCHANGED <<form, saved, sent, overlapped>>

MachinesNext ==
  \/ MachinesConnect \/ Forget \/ NoteConnected \/ NoteConnectFailed
  \/ \E k \in Keys : Fill(k)

MachinesSpec == MachinesInit /\ [][MachinesNext]_machineVars

-----------------------------------------------------------------------------
(* With connects made one at a time, what a row says of its machine is     *)
(* what that machine answered, and a row says it is connecting only while  *)
(* a connect to it is under way -- whatever is typed, clicked or forgotten *)
(* in the meantime.                                                        *)
SingleConnectsAreTold ==
  ~overlapped =>
    /\ \A k \in Keys : probes[k].is \in {"online", "failed"} => probes[k].by = k
    /\ \A k \in Keys : probes[k].is = "connecting" => connects # <<>> /\ connects[1] = k
    /\ connecting = {} <=> connects = <<>>

(* A measured target stays measured for as long as it is listed.           *)
StaysMeasured == \A k \in DOMAIN saved : saved[k] /\ k \in DOMAIN saved' => saved'[k]
MeasurementsSurvive == [][StaysMeasured]_machineVars

(* The inductive invariant behind the first: one connect at a time is the  *)
(* one its slot names.                                                     *)
Probe == [is : {"none", "connecting"}] \cup [is : {"online", "failed"}, by : Keys]

MachinesTypeOK ==
  /\ form \in Keys /\ status \in {"local", "connecting", "remote", "failed"}
  /\ saved \in [DOMAIN saved -> BOOLEAN] /\ DOMAIN saved \subseteq Keys
  /\ probes \in [Keys -> Probe] /\ connecting \subseteq Keys
  /\ connects \in Seq(Keys) /\ boundTo \in Keys /\ sent \in Nat /\ overlapped \in BOOLEAN

MachinesInv ==
  /\ MachinesTypeOK /\ SingleConnectsAreTold
  /\ ~overlapped => Len(connects) <= 1 /\ (connects # <<>> => connecting = {connects[1]})

(* What active_target_key() says of itself: the key of the target the      *)
(* worker is bound to.  With no connect under way, the row that reads      *)
(* Connected is that target's.                                             *)
ConnectedIsBound ==
  connects = <<>> => \A k \in Rows : Label(k) = "Connected" => k = boundTo
=============================================================================
