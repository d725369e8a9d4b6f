-------------------------------- MODULE Invoke ---------------------------------
(***************************************************************************)
(* Calling a WMI method: the modal a call is arranged in and confirmed     *)
(* (overlays/invoke.rs), the ways into it (the Methods tab, the detail     *)
(* header, the palette's hits), the worker that carries it out             *)
(* (method.rs), and the gate that closing the window passes through        *)
(* (overlays/closing.rs).                                                  *)
(*                                                                         *)
(* The worker takes its requests in order (WmiWorker); dropping it raises  *)
(* a flag it reads before each request, and waits for the one it is in.    *)
(***************************************************************************)
EXTENDS Naturals, Sequences, FiniteSets

CONSTANTS
  Declared,      (* class -> method -> [shown, static]: what the schema    *)
                 (* says of its scope, and what its provider takes         *)
  MaxCalls       (* bound: requests waiting for the worker                 *)

Classes == DOMAIN Declared

ASSUME CallsAssumption ==
  /\ \A c \in Classes : Declared[c] \in [DOMAIN Declared[c] -> [shown : BOOLEAN, static : BOOLEAN]]
  /\ MaxCalls \in Nat

None == "none"

(* An instance's path names its class; a call on no instance has None.     *)
Targets == Classes \cup {None}

VARIABLES
  selected,      (* selected_class, or None                                *)
  schema,        (* schema_class, and whether its schema has come          *)
  open, method, target, armed,         (* the modal and the act_ fields    *)
  reviewed,      (* while armed: the command that Review was clicked on    *)
  instances,     (* act_instances: the class they are of, or None          *)
  invoking,      (* act_invoking                                           *)
  palette,       (* palette_open                                           *)
  window,        (* "open", "asking" (closing_open), "gone"                *)
  left,          (* closing_confirmed                                      *)
  calls, current (* the requests the worker has not taken, and is in       *)

arranged == <<method, target, instances>>
gate == <<armed, reviewed>>
links == <<palette, window, left>>
work == <<calls, current>>
callVars == <<selected, schema, open, arranged, gate, invoking, links, work>>

Nothing == [op |-> "nothing"]

CallsInit ==
  /\ selected = None /\ schema = [class |-> None, ready |-> FALSE]
  /\ open = FALSE /\ method = None /\ target = None
  /\ armed = FALSE /\ reviewed = Nothing /\ instances = None
  /\ invoking = FALSE /\ palette = FALSE /\ window = "open" /\ left = FALSE
  /\ calls = <<>> /\ current = Nothing

-----------------------------------------------------------------------------
(* What the modal shows.                                                   *)

(* Mutant of SchemaReady: a schema is a schema.                            *)
SchemaAtHand == schema.ready

(* The schema is shown only when it is of the selected class.              *)
SchemaReady == schema.ready /\ schema.class = selected

(* The methods offered, which the schema lists.                            *)
Offered == IF SchemaReady THEN DOMAIN Declared[schema.class] ELSE {}

(* The form is there once the class, its schema and a method are.          *)
FormShown == window = "open" /\ open /\ ~palette /\ method \in Offered

IsStatic == Declared[schema.class][method].shown

(* command_preview(), and what fire_invoke() would send.                   *)
Command == [op |-> "invoke", class |-> selected, method |-> method,
            static |-> IsStatic, target |-> target]

(* Mutant of ButtonsShown: a call under way is no reason to wait.          *)
ButtonsStay == TRUE

(* The footer has a spinner in their place while a call is under way.      *)
ButtonsShown == ~invoking

CanInvoke == IsStatic \/ target # None

-----------------------------------------------------------------------------
Room == Len(calls) < MaxCalls

Send(req) == Room /\ calls' = Append(calls, req) /\ UNCHANGED current

(* request_schema(): not asked for twice.                                  *)
AskSchema(c) ==
  IF schema.class = c THEN UNCHANGED <<schema, work>>
  ELSE schema' = [class |-> c, ready |-> FALSE] /\ Send([op |-> "schema", class |-> c])

Disarm == armed' = FALSE /\ reviewed' = Nothing

(* What the pointer reaches behind the modal and the palette.              *)
Reachable == window = "open" /\ ~open /\ ~palette

(* select_class(): the schema (and the query and the count, which change   *)
(* nothing here); the modal and its fields stay as they are.               *)
SelectClass(c) ==
  /\ selected' = c /\ AskSchema(c)
  /\ UNCHANGED <<open, arranged, gate, invoking, window, left>>

PickClass == Reachable /\ (\E c \in Classes : SelectClass(c)) /\ UNCHANGED palette

(* ui_actions(): a panel asked for opens as the modal, disarmed.           *)
OpenModal(c, m) ==
  /\ selected' = c /\ method' = m /\ AskSchema(c) /\ open' = TRUE /\ Disarm
  /\ UNCHANGED <<target, invoking, window, left>>

(* The detail header's Invoke, and a card's on the Methods tab, which      *)
(* names the method, and keeps the instances it has.                       *)
InvokeFromDetail ==
  /\ Reachable /\ selected # None /\ OpenModal(selected, None) /\ instances' = None
  /\ UNCHANGED palette

InvokeFromCard ==
  /\ Reachable /\ (\E m \in Offered : OpenModal(selected, m))
  /\ UNCHANGED <<instances, palette>>

(* The palette opens over anything (Ctrl+K) and closes by itself.          *)
TogglePalette ==
  /\ window # "gone" /\ palette' = ~palette
  /\ UNCHANGED <<selected, schema, open, arranged, gate, invoking, window, left, work>>

(* Its hits: a class, a method of a class, or a property, which only       *)
(* queries (apply_search_hit()).                                           *)
HitClass == palette /\ palette' = FALSE /\ \E c \in Classes : SelectClass(c)

HitMethod ==
  /\ palette /\ palette' = FALSE
  /\ \E c \in Classes : \E m \in DOMAIN Declared[c] : OpenModal(c, m)
  /\ UNCHANGED instances

HitProperty ==
  /\ palette /\ palette' = FALSE /\ selected' \in Classes
  /\ UNCHANGED <<schema, open, arranged, gate, invoking, window, left, work>>

-----------------------------------------------------------------------------
(* Inside the modal.                                                       *)

(* Another method is a fresh call.                                         *)
PickMethod ==
  /\ window = "open" /\ open /\ ~palette
  /\ method' \in Offered \ {method} /\ Disarm
  /\ UNCHANGED <<selected, schema, open, target, instances, invoking, links, work>>

(* Any edit of the form disarms: a path pasted, an instance picked from    *)
(* the list, whichever class it was loaded for.                            *)
EditTarget ==
  /\ FormShown /\ ~IsStatic
  /\ \/ target' \in {selected, None} \ {target}
     \/ instances # None /\ target' \in {instances} \ {target}
  /\ Disarm
  /\ UNCHANGED <<selected, schema, open, method, instances, invoking, links, work>>

LoadInstances ==
  /\ FormShown /\ ~IsStatic
  /\ Send([op |-> "instances", class |-> selected])
  /\ UNCHANGED <<selected, schema, open, arranged, gate, invoking, links>>

Review ==
  /\ FormShown /\ ButtonsShown /\ ~armed /\ CanInvoke
  /\ armed' = TRUE /\ reviewed' = Command
  /\ UNCHANGED <<selected, schema, open, arranged, invoking, links, work>>

Back ==
  /\ FormShown /\ ButtonsShown /\ armed /\ Disarm
  /\ UNCHANGED <<selected, schema, open, arranged, invoking, links, work>>

(* fire_invoke() and request_invoke(): audited, then sent.                 *)
Confirm ==
  /\ FormShown /\ ButtonsShown /\ armed /\ Send(Command)
  /\ Disarm /\ invoking' = TRUE
  /\ UNCHANGED <<selected, schema, open, arranged, links>>

(* Cancel, Close or a click outside disarm; the global Escape does not.    *)
CloseModal ==
  /\ window = "open" /\ open /\ ~palette /\ open' = FALSE
  /\ Disarm \/ UNCHANGED gate
  /\ UNCHANGED <<selected, schema, arranged, invoking, links, work>>

(* Elsewhere: a read (a refresh, a query), and a connection.               *)
Elsewhere ==
  /\ Reachable /\ \E op \in {"read", "connect"} : Send([op |-> op])
  /\ UNCHANGED <<selected, schema, open, arranged, gate, invoking, links>>

-----------------------------------------------------------------------------
(* The worker.                                                             *)

(* run()'s loop: the next request, unless the flag is up.                  *)
Take ==
  /\ current = Nothing /\ calls # <<>> /\ window # "gone"
  /\ current' = Head(calls) /\ calls' = Tail(calls)
  /\ UNCHANGED <<selected, schema, open, arranged, gate, invoking, links>>

(* ExecMethod at one path: static methods are not there on an instance,    *)
(* and on the class only they are; the provider can refuse either.         *)
Results(cmd, onClass) ==
  LET static == Declared[cmd.class][cmd.method].static
  IN IF onClass = static THEN {"done", "failed"}
     ELSE IF static THEN {"wrong target"} ELSE {"failed"}

(* Mutant of RetryOnClass: a failure is a failure.                         *)
RetryNever(res) == FALSE

(* wrong_target(): the object has no such method, so nothing ran.          *)
RetryOnClass(res) == res = "wrong target"

(* invoke_method(): at the instance if there is one and the method is not  *)
(* said to be static, and then at the class if the instance has it not.    *)
Outcomes(cmd) ==
  LET onClass == cmd.static \/ cmd.target = None
      first == Results(cmd, onClass)
      retried == {r \in first : ~onClass /\ RetryOnClass(r)}
  IN (first \ retried) \cup (IF retried # {} THEN Results(cmd, TRUE) ELSE {})

(* MethodDone or its Error, taken in by handle_responses().                *)
MethodDone ==
  /\ current.op = "invoke" /\ current' = Nothing /\ Outcomes(current) # {}
  /\ invoking' = (invoking /\ window = "gone")
  /\ UNCHANGED <<selected, schema, open, arranged, gate, links, calls>>

(* A schema that is no longer waited for is dropped; instances are not     *)
(* asked what class they are of.                                           *)
ReadDone ==
  /\ current.op \in {"read", "schema", "instances"} /\ current' = Nothing
  /\ schema' = [schema EXCEPT !.ready =
                   @ \/ (current.op = "schema" /\ schema.class = current.class)]
  /\ instances' = IF current.op = "instances" THEN current.class ELSE instances
  /\ UNCHANGED <<selected, open, method, target, gate, invoking, links, calls>>

(* HostConnected: reset_and_reseed() leaves no class selected, and the     *)
(* modal closes over that; an error leaves all as it was.                  *)
ConnectDone ==
  /\ current.op = "connect" /\ current' = Nothing
  /\ \/ /\ selected' = None /\ schema' = [class |-> None, ready |-> FALSE]
        /\ instances' = None /\ open' = FALSE
        /\ IF open THEN Disarm ELSE UNCHANGED gate
     \/ UNCHANGED <<selected, schema, instances, open, gate>>
  /\ UNCHANGED <<method, target, invoking, links, calls>>

-----------------------------------------------------------------------------
(* The window.                                                             *)

(* Mutant of AsksFirst: a close asked for is granted.                      *)
NeverAsks == FALSE

(* handle_close_request(): a call under way asks first.                    *)
AsksFirst == invoking /\ ~left

CloseRequest ==
  /\ window = "open"
  /\ window' = IF AsksFirst THEN "asking" ELSE "gone"
  /\ UNCHANGED <<selected, schema, open, arranged, gate, invoking, palette, left, work>>

(* ui_closing_modal(): it withdraws when the call is answered; otherwise   *)
(* Wait, or Close anyway, which sends the close again.                     *)
ClosingModal ==
  /\ window = "asking"
  /\ \/ window' = "open" /\ left' = left
     \/ invoking /\ window' = "gone" /\ left' = TRUE
  /\ UNCHANGED <<selected, schema, open, arranged, gate, invoking, palette, work>>

(* Drop joins the worker's thread: all is over when it has returned.       *)
Exited == window = "gone" /\ current = Nothing

User ==
  \/ PickClass \/ InvokeFromDetail \/ InvokeFromCard
  \/ TogglePalette \/ HitClass \/ HitMethod \/ HitProperty
  \/ PickMethod \/ EditTarget \/ LoadInstances
  \/ Review \/ Back \/ Confirm \/ CloseModal \/ Elsewhere

CallsNext ==
  \/ User \/ CloseRequest \/ ClosingModal
  \/ Take \/ MethodDone \/ ReadDone \/ ConnectDone

CallsSpec == CallsInit /\ [][CallsNext]_callVars

-----------------------------------------------------------------------------
(* Properties.                                                             *)

Waiting == {k \in 1 .. Len(calls) : calls[k].op = "invoke"}

(* The calls confirmed and not over.                                       *)
CallsOut == Cardinality(Waiting) + (IF current.op = "invoke" THEN 1 ELSE 0)

(* No second call is out before the first is answered, though the modal    *)
(* can be closed and opened again, and the class changed, meanwhile        *)
(* (invoke.rs).                                                            *)
OneCallAtATime == CallsOut <= 1

(* A method the schema does not call static, though it is, is not out of   *)
(* reach: "an instance-path invocation that WMI rejects as static is       *)
(* retried" (method.rs).                                                   *)
StaticsAreReached ==
  current.op = "invoke" /\ Declared[current.class][current.method].static
    => "done" \in Outcomes(current)

(* What is sent is a method its own class declares, with that class's      *)
(* scope, though the class can change under the modal while the schema of  *)
(* the one before is still held (ui_invoke_modal(), invoke.rs).            *)
CallsAreDeclared ==
  \A k \in Waiting :
    LET cmd == calls[k]
    IN /\ cmd.method \in DOMAIN Declared[cmd.class]
       /\ cmd.static = Declared[cmd.class][cmd.method].shown

(* The window does not go while a call is out, unless the user said so     *)
(* (closing.rs).                                                           *)
NoCallLeftUnasked == window = "gone" /\ CallsOut > 0 => left

(* One call at a time, of a method its class declares; a static method is  *)
(* reached; and the window asks before it leaves a call behind.            *)
CallsAreAsConfirmed ==
  OneCallAtATime /\ CallsAreDeclared /\ StaticsAreReached /\ NoCallLeftUnasked

(* The inductive invariant behind it: while there is a window, its spinner *)
(* turns exactly while the one call is out.                                *)
Request ==
  [op : {"nothing", "read", "connect"}] \cup [op : {"schema", "instances"}, class : Classes]
  \cup UNION {[op : {"invoke"}, class : {c}, method : DOMAIN Declared[c], static : BOOLEAN,
               target : Targets] : c \in Classes}

CallsTypeOK ==
  /\ selected \in Classes \cup {None} /\ schema \in [class : Classes \cup {None}, ready : BOOLEAN]
  /\ open \in BOOLEAN /\ target \in Targets /\ armed \in BOOLEAN /\ instances \in Targets
  /\ invoking \in BOOLEAN /\ palette \in BOOLEAN
  /\ window \in {"open", "asking", "gone"} /\ left \in BOOLEAN
  /\ calls \in Seq(Request) /\ current \in Request

CallIsOut == Waiting # {} \/ current.op = "invoke"

CallsInv ==
  /\ CallsTypeOK /\ CallsAreAsConfirmed
  /\ schema.ready => schema.class \in Classes
  /\ \A i, j \in Waiting : i = j
  /\ current.op = "invoke" => Waiting = {}
  /\ window # "gone" => (CallIsOut <=> invoking)
  /\ window = "gone" /\ CallIsOut => left

(* closing.rs: "Closing now does not cancel it -- the method still runs on *)
(* the target".  A call that is still queued when the window goes is       *)
(* dropped with the queue.                                                 *)
ClosedCallStillRuns == Exited => Waiting = {}

(* invoke.rs: "Any edit disarms the confirm step: the operator must be     *)
(* looking at the command they are about to run when they confirm it, not  *)
(* one they typed before changing their mind."                             *)
AnyEditDisarms == FormShown /\ armed => reviewed = Command
=============================================================================
