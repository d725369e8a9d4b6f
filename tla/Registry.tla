------------------------------ MODULE Registry ------------------------------
(***************************************************************************)
(* WorkerRegistry: one worker per target.  A registry is a value: the set  *)
(* of open targets, and per target what its worker has been asked and what *)
(* it has answered.  Each worker is RequestService: it answers in order,   *)
(* one answer each; a SetHost that fails leaves a worker that still tries  *)
(* to serve the queries behind it.                                         *)
(***************************************************************************)
EXTENDS Naturals, Sequences

CONSTANT Targets

NewRegistry == [open |-> {}, asked |-> [t \in Targets |-> <<>>],
                answered |-> [t \in Targets |-> <<>>]]

IsOpen(registry, t) == t \in registry.open

(* send(), to a target that is open.                                       *)
Ask(registry, t, request) == [registry EXCEPT !.asked[t] = Append(@, request)]

(* open(): spawned if there is none; asked to connect in any case.         *)
Open(registry, t, id) ==
  Ask([registry EXCEPT !.open = @ \cup {t}], t, [id |-> id, op |-> "SetHost"])

(* poll() takes everything answered so far.                                *)
Emptied(registry) == [registry EXCEPT !.answered = [t \in Targets |-> <<>>]]

(* One worker answers its oldest request.                                  *)
AnswerOldest(registry, t, reply) ==
  [open |-> registry.open,
   asked |-> [registry.asked EXCEPT ![t] = Tail(@)],
   answered |-> [registry.answered EXCEPT ![t] = Append(@, reply)]]
=============================================================================
