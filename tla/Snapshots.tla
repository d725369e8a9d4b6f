----------------------------- MODULE Snapshots -----------------------------
(***************************************************************************)
(* Two requests that join several queries to one table by PID: the         *)
(* provider list with its hosts, and the connection list with its owners.  *)
(* Each query is answered, refused or cut, and a cut is an error; what     *)
(* that error costs differs from query to query.                           *)
(***************************************************************************)
EXTENDS Budget, Fields, Naturals, FiniteSets

CONSTANT
  Targets      (* what the target may hold: records [providers, endpoints, *)
               (* running, counters], the last two sets of PIDs; PID 0 is  *)
               (* no process, and what the counters call Idle              *)

ASSUME TargetAssumption ==
  \A t \in Targets : \A e \in t.endpoints : e.proto \in {"tcp", "udp"}

VARIABLES
  request,     (* "providers" or "connections"                             *)
  target,      (* the member of Targets it is asked of                     *)
  step,        (* the query that is next, or how the request ended         *)
  names,       (* the PIDs whose image name is known                       *)
  rows,        (* the rows so far                                          *)
  toRead,      (* the namespaces whose registrations are not read yet      *)
  loads,       (* the hosts whose load is known                            *)
  unreadable,  (* what the report says it could not read                   *)
  answered     (* the queries the target answered                          *)

joining == <<request, target, step, names, rows, toRead, loads, unreadable, answered>>
snapVars == <<flags, joining>>

Order == [names |-> IF request = "providers" THEN "list" ELSE "tcp",
          list |-> "models", models |-> "quota", quota |-> "cpus", cpus |-> "stats",
          stats |-> "done", tcp |-> "udp", udp |-> "done"]

(* process_names() drops PID 0; the joined column is empty for a PID that  *)
(* is not there.                                                           *)
NameOf(pid) == IF pid \in names THEN pid ELSE Absent

Provider(p) == [of |-> p, pid |-> p.pid, process |-> NameOf(p.pid), model |-> Absent]

(* to_connection(): a UDP endpoint has no peer and no state.               *)
Connection(e) == [of |-> e, pid |-> e.pid, process |-> NameOf(e.pid),
                  peer |-> IF e.proto = "tcp" THEN e.peer ELSE Absent]

HostPidsWithIdle == {r.pid : r \in rows}

HostPids == {r.pid : r \in rows} \ {0}

SnapInit ==
  /\ request \in {"providers", "connections"} /\ target \in Targets
  /\ step = "names" /\ names = {} /\ rows = {} /\ toRead = {} /\ loads = {}
  /\ unreadable = {} /\ answered = {} /\ FlagsDown

(* Only the provider list can be cancelled, and only the models have a     *)
(* budget.                                                                 *)
Cancel == request = "providers" /\ RaiseFlag /\ UNCHANGED joining
Expire == step = "models" /\ BudgetSpent /\ UNCHANGED joining

(* A query can be answered only while its flag is down; it can always      *)
(* fail.                                                                   *)
Answers(q) == ~cancel /\ answered' = answered \cup {q}
Fails(q) == answered' = answered
Advance == step' = Order[step]

NamesRead ==
  /\ step = "names" /\ Advance
  /\ Answers("names") /\ names' = target.running \ {0}
  /\ UNCHANGED <<request, target, rows, toRead, loads, unreadable, flags>>

(* The provider list goes on without names and does not say so; the        *)
(* connection list fails.                                                  *)
NamesFail ==
  /\ step = "names" /\ Fails("names")
  /\ step' = IF request = "providers" THEN Order[step] ELSE "failed"
  /\ UNCHANGED <<request, target, names, rows, toRead, loads, unreadable, flags>>

ListRead ==
  /\ step = "list" /\ Advance /\ Answers("list")
  /\ rows' = {Provider(p) : p \in target.providers}
  /\ toRead' = {p.namespace : p \in target.providers} \ {Absent}
  /\ UNCHANGED <<request, target, names, loads, unreadable, flags>>

ListFails ==
  /\ step = "list" /\ step' = "failed" /\ Fails("list")
  /\ UNCHANGED <<request, target, names, rows, toRead, loads, unreadable, flags>>

(* add_hosting_models(): one query for each namespace, until a cancel or   *)
(* the budget ends the loop with a note.                                   *)
ModelsRead(n) ==
  /\ step = "models" /\ n \in toRead /\ ~late /\ Answers(n)
  /\ rows' = {IF r.of.namespace = n /\ r.of.registered
              THEN [r EXCEPT !.model = r.of.provider] ELSE r : r \in rows}
  /\ toRead' = toRead \ {n}
  /\ UNCHANGED <<request, target, step, names, loads, unreadable, flags>>

ModelsFail(n) ==
  /\ step = "models" /\ n \in toRead /\ Fails(n)
  /\ unreadable' = unreadable \cup {n} /\ toRead' = toRead \ {n}
  /\ UNCHANGED <<request, target, step, names, rows, loads, flags>>

ModelsEnd ==
  /\ step = "models" /\ Advance
  /\ \/ toRead = {} /\ unreadable' = unreadable
     \/ toRead # {} /\ (cancel \/ late) /\ unreadable' = unreadable \cup {"models"}
  /\ toRead' = {}
  /\ UNCHANGED <<request, target, names, rows, loads, answered, flags>>

(* provider_hosts(): the quota and the processor count, a failure of       *)
(* either noted.                                                           *)
FactRead ==
  /\ step \in {"quota", "cpus"} /\ Advance /\ Answers(step)
  /\ UNCHANGED <<request, target, names, rows, toRead, loads, unreadable, flags>>

FactFails ==
  /\ step \in {"quota", "cpus"} /\ Advance /\ Fails(step)
  /\ unreadable' = unreadable \cup {step}
  /\ UNCHANGED <<request, target, names, rows, toRead, loads, flags>>

(* The counters answer for whatever PIDs they like: only real hosts are    *)
(* kept, and with no host they are not asked.                              *)
StatsRead ==
  /\ step = "stats" /\ Advance
  /\ IF HostPids = {} THEN loads' = {} /\ answered' = answered
                      ELSE loads' = target.counters \cap HostPids /\ Answers("stats")
  /\ UNCHANGED <<request, target, names, rows, toRead, unreadable, flags>>

StatsFail ==
  /\ step = "stats" /\ HostPids # {} /\ Advance /\ Fails("stats")
  /\ unreadable' = unreadable \cup {"stats"}
  /\ UNCHANGED <<request, target, names, rows, toRead, loads, flags>>

(* list_connections(): either endpoint class may be missing, and any other *)
(* failure looks the same.                                                 *)
EndpointsRead ==
  /\ step \in {"tcp", "udp"} /\ Advance /\ Answers(step)
  /\ rows' = rows \cup {Connection(e) : e \in {e \in target.endpoints : e.proto = step}}
  /\ UNCHANGED <<request, target, names, toRead, loads, unreadable, flags>>

EndpointsFail ==
  /\ step \in {"tcp", "udp"} /\ Advance /\ Fails(step)
  /\ UNCHANGED <<request, target, names, rows, toRead, loads, unreadable, flags>>

SnapNext ==
  \/ Cancel \/ Expire \/ NamesRead \/ NamesFail \/ ListRead \/ ListFails
  \/ \E n \in toRead : ModelsRead(n) \/ ModelsFail(n)
  \/ ModelsEnd \/ FactRead \/ FactFails \/ StatsRead \/ StatsFail
  \/ EndpointsRead \/ EndpointsFail

SnapSpec == SnapInit /\ [][SnapNext]_snapVars

-----------------------------------------------------------------------------
Listed == IF request = "providers" THEN target.providers
          ELSE {e \in target.endpoints : e.proto \in answered}

Joined == {p.namespace : p \in target.providers} \ {Absent}

Parts == {"quota", "cpus"} \cup Joined

(* Whatever the joins answer, a report loses no row of the list it is      *)
(* about, and no row carries the name or the load of another PID -- a      *)
(* provider that is not loaded has neither; a host report that calls       *)
(* itself complete has every registration, the quota, the processor count  *)
(* and the load of every host the counters know.                           *)
JoinsLoseNothing ==
  step = "done" =>
    /\ {r.of : r \in rows} = Listed
    /\ \A r \in rows : r.process \in {Absent, r.of.pid} /\ (r.of.pid = 0 => r.process = Absent)
    /\ 0 \notin loads
    /\ request = "providers" /\ unreadable = {} =>
         /\ Parts \subseteq answered
         /\ \A p \in target.providers :
              /\ p.pid \in target.counters \ {0} => p.pid \in loads
              /\ p.registered /\ p.namespace # Absent =>
                   \E r \in rows : r.of = p /\ r.model = p.provider

(* The inductive invariant behind it: the rows are of the list and carry   *)
(* their own PID's name, and of the parts behind the current step each has *)
(* answered unless something is called unreadable.                         *)
RowIsItsOwn(r) ==
  /\ r.pid = r.of.pid
  /\ r.process \in {Absent, r.of.pid} /\ (r.of.pid = 0 => r.process = Absent)

RowIsWhole(r) == r = [of |-> r.of, pid |-> r.pid, process |-> r.process, model |-> r.model]

Modelled(n) ==
  /\ n \in answered
  /\ \A r \in rows : r.of.namespace = n /\ r.of.registered => r.model = r.of.provider

Enriched == step \in {"models", "quota", "cpus", "stats", "done"}

ProvidersInv ==
  /\ step \in {"names", "list", "models", "quota", "cpus", "stats", "done", "failed"}
  /\ \A r \in rows : RowIsWhole(r)
  /\ Enriched => {r.of : r \in rows} = target.providers
  /\ Enriched /\ step # "models" => toRead = {}
  /\ unreadable = {} =>
       /\ Enriched => \A n \in Joined \ toRead : Modelled(n)
       /\ step \in {"cpus", "stats", "done"} => "quota" \in answered
       /\ step \in {"stats", "done"} => "cpus" \in answered
       /\ step = "done" =>
            \A p \in target.providers : p.pid \in target.counters \ {0} => p.pid \in loads

ConnectionsInv ==
  /\ step \in {"names", "tcp", "udp", "done", "failed"}
  /\ {r.of : r \in rows} = {e \in target.endpoints : e.proto \in answered}

SnapInv ==
  /\ request \in {"providers", "connections"} /\ target \in Targets
  /\ 0 \notin names /\ 0 \notin loads
  /\ step \in {"names", "list"} => rows = {}
  /\ \A r \in rows : RowIsItsOwn(r)
  /\ request = "providers" => ProvidersInv
  /\ request = "connections" => ConnectionsInv

(* "Did every part of this scan answer?" (providers.rs:246): the question  *)
(* is_complete() says it answers.                                          *)
EveryPartAnswered ==
  step = "done" /\ request = "providers" /\ unreadable = {} =>
    Parts \cup {"names"} \subseteq answered
=============================================================================
