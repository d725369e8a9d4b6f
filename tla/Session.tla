------------------------------- MODULE Session -------------------------------
(***************************************************************************)
(* The GUI's session over its WMI worker: what VmiScopeApp asks for        *)
(* (state/requests.rs), and what it makes of the replies                   *)
(* (state/responses.rs).                                                   *)
(*                                                                         *)
(* The worker is RequestService with hosts: it answers in order, and a     *)
(* request is answered by the host that the last SetHost sent before it    *)
(* selects, whether that host was reached or not (WmiWorker's              *)
(* OneReplyEachInOrder and StampIsSelectedHost).  A reply can wait in the  *)
(* channel while the user goes on clicking; nothing in it changes by then, *)
(* so answering a request and handling its reply are one step here.        *)
(*                                                                         *)
(* Data is abstracted to where it came from.  A slot of the screen holds a *)
(* set of at most one origin: {} while it is empty.                        *)
(***************************************************************************)
EXTENDS Integers, Sequences, FiniteSets

CONSTANTS
  Hosts, Local,
  Namespaces, Default, Top,   (* DEFAULT_NAMESPACE and ROOT_NAMESPACE      *)
  Classes, NoClass,           (* class names; every namespace may have all *)
  Connects,                   (* the host and namespace pairs of the form  *)
  MaxSent                     (* bound: clicks stop at so many requests    *)

ASSUME SessionAssumption ==
  /\ Local \in Hosts /\ {Default, Top} \subseteq Namespaces
  /\ NoClass \notin Classes
  /\ Connects \subseteq [host : Hosts, ns : Namespaces]
  /\ MaxSent \in Nat

VARIABLES
  (* -- the worker and its channels -------------------------------------- *)
  inflight,    (* the requests sent and not yet answered, oldest first     *)
  sent,        (* next_id: how many requests have been sent                *)
  target,      (* the host the worker is pointed at                        *)
  (* -- the session ------------------------------------------------------ *)
  status,      (* conn_status: connecting, connected to a host, or failed  *)
  pendingNs,   (* machines.pending_namespace                               *)
  connecting,  (* machines.connecting: the row that waits for a connect    *)
  probes,      (* machines.probes: what each row says of its last connect  *)
  activeNs,    (* active_ns                                                *)
  selected,    (* selected_class                                           *)
  (* -- what the screen holds -------------------------------------------- *)
  tree,        (* ns_children and ns_loading of the tree's root            *)
  classCache,  (* class_cache: a class list per namespace                  *)
  list,        (* classes, classes_ns and classes_loading                  *)
  query,       (* result, latest_query_id and query_loading                *)
  panels,      (* schema, associations and MOF: each for one class         *)
  counts,      (* instance_counts, by class name                           *)
  counting     (* counting                                                 *)

workerVars == <<inflight, sent, target>>
screenVars == <<tree, classCache, list, query, panels, counts, counting>>
connectVars == <<status, pendingNs, connecting, probes>>
vars == <<inflight, sent, target, status, pendingNs, connecting, probes,
          activeNs, selected, tree, classCache, list, query, panels, counts, counting>>

-----------------------------------------------------------------------------
Origin == [host : Hosts, ns : Namespaces]
Panels == {"ClassSchema", "Associations", "ClassMof"}
Ops == {"ListChildNamespaces", "ListClasses", "Query", "InstanceCount", "SetHost"} \cup Panels

Request == [id : Nat, op : Ops, ns : Namespaces, class : Classes \cup {NoClass}, host : Hosts]

Ask(op, ns, class) == [op |-> op, ns |-> ns, class |-> class, host |-> Local]

Unless(c, asks) == IF c THEN <<>> ELSE asks

(* alloc_id(), for the requests one click makes, in order.                 *)
Numbered(asks, last) ==
  [k \in 1 .. Len(asks) |->
     [id |-> last + k, op |-> asks[k].op, ns |-> asks[k].ns,
      class |-> asks[k].class, host |-> asks[k].host]]

(* ... and their send().                                                   *)
Send(asks) ==
  /\ sent + Len(asks) <= MaxSent
  /\ sent' = sent + Len(asks)
  /\ inflight' = inflight \o Numbered(asks, sent)
  /\ UNCHANGED target

EmptyPanel == [class |-> NoClass, data |-> {}, loading |-> FALSE]

-----------------------------------------------------------------------------
(* The requests that are not made twice.                                   *)

(* request_schema(), request_associations(), request_class_mof_inline().   *)
Held(p, c) == panels[p].class = c /\ (panels[p].data # {} \/ panels[p].loading)
PanelAsks(p, c) == Unless(Held(p, c), <<Ask(p, activeNs, c)>>)
PanelFor(p, c) ==
  IF Held(p, c) THEN panels[p] ELSE [class |-> c, data |-> {}, loading |-> TRUE]

(* request_instance_count().                                               *)
Counted(c) == counts[c] # {} \/ c \in counting
CountAsks(c) == Unless(Counted(c), <<Ask("InstanceCount", activeNs, c)>>)

(* request_classes(): from the cache, or sent for.                         *)
ClassAsks(ns, cache) == Unless(cache[ns] # {}, <<Ask("ListClasses", ns, NoClass)>>)
ListFor(ns, cache) == [ns |-> ns, data |-> cache[ns], loading |-> cache[ns] = {}]

-----------------------------------------------------------------------------
NoCache == [ns \in Namespaces |-> {}]

(* What a session on a new host starts with: the tree, the classes, and    *)
(* the opening query, which only the default namespace has an answer to.   *)
Seed(ns) ==
  <<Ask("ListChildNamespaces", Top, NoClass), Ask("ListClasses", ns, NoClass)>>
  \o Unless(ns # Default, <<Ask("Query", ns, NoClass)>>)

Unknown == [is |-> "unknown", host |-> Local]

Loading(ns) == [ns |-> ns, data |-> {}, loading |-> TRUE]

(* new().  The settings say where it starts.                               *)
Init ==
  /\ activeNs \in Namespaces /\ selected = NoClass
  /\ target = Local
  /\ sent = Len(Seed(activeNs)) /\ inflight = Numbered(Seed(activeNs), 0)
  /\ status = [is |-> "connected", host |-> Local]
  /\ pendingNs = {} /\ connecting = {} /\ probes = [h \in Hosts |-> Unknown]
  /\ tree = [data |-> {}, loading |-> TRUE]
  /\ classCache = NoCache /\ list = Loading(activeNs)
  /\ query = IF activeNs = Default THEN [latest |-> 3, data |-> {}, loading |-> TRUE]
             ELSE [latest |-> 0, data |-> {}, loading |-> FALSE]
  /\ panels = [p \in Panels |-> EmptyPanel]
  /\ counts = [c \in Classes |-> {}] /\ counting = {}

-----------------------------------------------------------------------------
(* The user.                                                               *)

(* toggle_namespace() opening the root: request_namespaces().              *)
ExpandTree ==
  /\ ~tree.loading /\ tree.data = {}
  /\ tree' = [tree EXCEPT !.loading = TRUE]
  /\ Send(<<Ask("ListChildNamespaces", Top, NoClass)>>)
  /\ UNCHANGED <<connectVars, activeNs, selected,
                 classCache, list, query, panels, counts, counting>>

(* select_namespace().  What is known of classes by name alone is dropped; *)
(* the MOF panel and the spinners of the other two stay.                   *)
SelectNamespace(ns) ==
  /\ activeNs # ns
  /\ activeNs' = ns /\ selected' = NoClass
  /\ panels' = [p \in Panels |->
                  IF p = "ClassMof" THEN panels[p]
                  ELSE [panels[p] EXCEPT !.class = NoClass, !.data = {}]]
  /\ counts' = [c \in Classes |-> {}] /\ counting' = {}
  /\ list' = ListFor(ns, classCache)
  /\ Send(ClassAsks(ns, classCache))
  /\ UNCHANGED <<connectVars, tree, classCache, query>>

(* Mutant of LatestQuery: the id is not the one the query was given.       *)
LatestQueryOffByOne == sent + 2

(* run_query(): the id decides whose result is shown.                      *)
LatestQuery == sent + 1
Queried == [query EXCEPT !.latest = LatestQuery, !.loading = TRUE]

RunQuery ==
  /\ query' = Queried
  /\ Send(<<Ask("Query", activeNs, NoClass)>>)
  /\ UNCHANGED <<connectVars, activeNs, selected,
                 tree, classCache, list, panels, counts, counting>>

(* select_class(): its instances, its schema and its count.                *)
SelectClass(c) ==
  /\ list.data # {}
  /\ selected' = c
  /\ query' = Queried
  /\ panels' = [panels EXCEPT !["ClassSchema"] = PanelFor("ClassSchema", c)]
  /\ counting' = IF Counted(c) THEN counting ELSE counting \cup {c}
  /\ Send(<<Ask("Query", activeNs, NoClass)>> \o PanelAsks("ClassSchema", c) \o CountAsks(c))
  /\ UNCHANGED <<connectVars, activeNs, tree, classCache, list, counts>>

(* The Schema tab, drawn every frame: associations and MOF of the class,   *)
(* unless they are there or on their way.                                  *)
ShowSchemaTab ==
  LET asks == PanelAsks("Associations", selected) \o PanelAsks("ClassMof", selected) IN
  /\ selected # NoClass /\ asks # <<>>
  /\ panels' = [p \in Panels |->
                  IF p = "ClassSchema" THEN panels[p] ELSE PanelFor(p, selected)]
  /\ Send(asks)
  /\ UNCHANGED <<connectVars, activeNs, selected,
                 tree, classCache, list, query, counts, counting>>

(* Mutant of StatusOnConnect: connected as soon as asked.                  *)
StatusOptimistic(host) == [is |-> "connected", host |-> host]

StatusOnConnect(host) == [is |-> "connecting", host |-> host]

(* machines_connect() and apply_host().  Nothing keeps the user from       *)
(* connecting again before the answer: there is one slot for the namespace *)
(* to open and one for the row to tell.                                    *)
Connect(c) ==
  /\ status' = StatusOnConnect(c.host) /\ pendingNs' = {c.ns}
  /\ connecting' = {c.host}
  /\ probes' = [probes EXCEPT ![c.host] = [is |-> "connecting", host |-> c.host]]
  /\ Send(<<[Ask("SetHost", c.ns, NoClass) EXCEPT !.host = c.host]>>)
  /\ UNCHANGED <<activeNs, selected, screenVars>>

-----------------------------------------------------------------------------
(* The replies.  A request that fails clears the spinner of its kind.      *)

head == inflight[1]

Answered(op) == inflight # <<>> /\ head.op = op

Taken == inflight' = Tail(inflight) /\ UNCHANGED <<sent, target>>

(* The data of the answer in hand.                                         *)
Answer == {[host |-> target, ns |-> head.ns]}

session == <<connectVars, activeNs, selected>>

ChildNamespaces ==
  /\ Answered("ListChildNamespaces") /\ Taken
  /\ \/ tree' = [data |-> Answer, loading |-> FALSE]
     \/ tree' = [tree EXCEPT !.loading = FALSE]
  /\ UNCHANGED <<session, classCache, list, query, panels, counts, counting>>

(* Mutant of ListWants: whatever class list arrives is shown.              *)
ListWantsAny(ns) == TRUE

ListWants(ns) == ns = list.ns

(* A class list is cached, and shown if it is still the one looked at.     *)
ClassList ==
  /\ Answered("ListClasses") /\ Taken
  /\ \/ /\ classCache' = [classCache EXCEPT ![head.ns] = Answer]
        /\ list' = IF ListWants(head.ns)
                   THEN [list EXCEPT !.data = Answer, !.loading = FALSE] ELSE list
     \/ list' = [list EXCEPT !.loading = FALSE] /\ UNCHANGED classCache
  /\ UNCHANGED <<session, tree, query, panels, counts, counting>>

QueryResult ==
  /\ Answered("Query") /\ Taken
  /\ \/ head.id = query.latest /\ query' = [query EXCEPT !.data = Answer, !.loading = FALSE]
     \/ head.id = query.latest /\ query' = [query EXCEPT !.loading = FALSE]
     \/ head.id # query.latest /\ UNCHANGED query
  /\ UNCHANGED <<session, tree, classCache, list, panels, counts, counting>>

(* A schema, associations or a MOF is taken for its class, wherever it     *)
(* came from; an error clears the spinner whatever class it was about.     *)
PanelReply(p) ==
  /\ Answered(p) /\ Taken
  /\ \/ head.class = panels[p].class
        /\ panels' = [panels EXCEPT ![p].data = Answer, ![p].loading = FALSE]
     \/ head.class # panels[p].class /\ UNCHANGED panels
     \/ panels' = [panels EXCEPT ![p].loading = FALSE]
  /\ UNCHANGED <<session, tree, classCache, list, query, counts, counting>>

InstanceCount ==
  /\ Answered("InstanceCount") /\ Taken
  /\ counting' = counting \ {head.class}
  /\ \/ counts' = [counts EXCEPT ![head.class] = Answer]
     \/ UNCHANGED counts
  /\ UNCHANGED <<session, tree, classCache, list, query, panels>>

(* Mutant of CacheAfterReset: class lists outlive their host.              *)
CacheKept == classCache

CacheAfterReset == NoCache

(* machines_note_connected() and machines_note_connect_failed(): the row   *)
(* in the slot is told of the host that answered.                          *)
NoteProbe(outcome, host) ==
  /\ connecting' = {}
  /\ probes' = [h \in Hosts |-> IF h \in connecting
                                THEN [is |-> outcome, host |-> host] ELSE probes[h]]

(* HostConnected: reset_and_reseed() for the namespace the connect asked   *)
(* for.  The MOF panel is not among what is reset.                         *)
HostConnected ==
  /\ Answered("SetHost")
  /\ target' = head.host
  /\ status' = [is |-> "connected", host |-> head.host]
  /\ NoteProbe("online", head.host) /\ pendingNs' = {}
  /\ selected' = NoClass
  /\ \E ns \in Namespaces :
       /\ IF pendingNs = {} THEN ns = Default ELSE ns \in pendingNs
       /\ activeNs' = ns
       /\ list' = Loading(ns)
       /\ query' = IF ns = Default
                   THEN [latest |-> sent + 3, data |-> {}, loading |-> TRUE]
                   ELSE [query EXCEPT !.data = {}]
       /\ sent' = sent + Len(Seed(ns))
       /\ inflight' = Tail(inflight) \o Numbered(Seed(ns), sent)
  /\ tree' = [data |-> {}, loading |-> TRUE]
  /\ classCache' = CacheAfterReset
  /\ panels' = [p \in Panels |->
                  IF p = "ClassMof" THEN panels[p]
                  ELSE [panels[p] EXCEPT !.class = NoClass, !.data = {}]]
  /\ counts' = [c \in Classes |-> {}] /\ counting' = {}

(* Mutant of StatusOnFailure: a failed connect leaves the spinner.         *)
StatusUnchanged(host) == status

StatusOnFailure(host) == [is |-> "failed", host |-> host]

(* The error of a connect.  The worker stays pointed at the new host, the  *)
(* screen keeps what it has of the old one.                                *)
ConnectFailed ==
  /\ Answered("SetHost")
  /\ inflight' = Tail(inflight) /\ UNCHANGED sent
  /\ target' = head.host
  /\ status' = StatusOnFailure(head.host)
  /\ NoteProbe("failed", head.host) /\ pendingNs' = {}
  /\ UNCHANGED <<activeNs, selected, screenVars>>

-----------------------------------------------------------------------------
User ==
  \/ ExpandTree \/ RunQuery \/ ShowSchemaTab
  \/ \E ns \in Namespaces : SelectNamespace(ns)
  \/ \E c \in Classes : SelectClass(c)
  \/ \E c \in Connects : Connect(c)

HandleResponse ==
  \/ ChildNamespaces \/ ClassList \/ QueryResult \/ InstanceCount
  \/ \E p \in Panels : PanelReply(p)
  \/ HostConnected \/ ConnectFailed

Next == User \/ HandleResponse

Spec == Init /\ [][Next]_vars

-----------------------------------------------------------------------------
Slot == {s \in SUBSET Origin : Cardinality(s) <= 1}

(* Every variable has its type, and the query looked at was sent.          *)
TypeOK ==
  /\ inflight \in Seq(Request) /\ sent \in Nat /\ target \in Hosts
  /\ status \in [is : {"connected", "connecting", "failed"}, host : Hosts]
  /\ pendingNs \in SUBSET Namespaces /\ connecting \in SUBSET Hosts
  /\ probes \in [Hosts -> [is : {"unknown", "connecting", "online", "failed"}, host : Hosts]]
  /\ activeNs \in Namespaces
  /\ selected \in Classes \cup {NoClass}
  /\ tree \in [data : Slot, loading : BOOLEAN]
  /\ classCache \in [Namespaces -> Slot]
  /\ list \in [ns : Namespaces, data : Slot, loading : BOOLEAN]
  /\ query \in [latest : 0 .. sent, data : Slot, loading : BOOLEAN]
  /\ panels \in [Panels -> [class : Classes \cup {NoClass}, data : Slot, loading : BOOLEAN]]
  /\ counts \in [Classes -> Slot] /\ counting \in SUBSET Classes

InFlight(op) == {inflight[k] : k \in {k \in DOMAIN inflight : inflight[k].op = op}}

(* The MOF that the Schema tab draws: what is held for the class selected. *)
MofDrawn ==
  IF panels["ClassMof"].class = selected /\ selected # NoClass
  THEN panels["ClassMof"].data ELSE {}

(* What reset_and_reseed() wipes of the slots above: all but the MOF, of   *)
(* which see MofIsOfConnectedHost.                                         *)
OnScreen ==
  tree.data \cup list.data \cup query.data
  \cup (UNION {classCache[ns] : ns \in Namespaces})
  \cup (UNION {counts[c] : c \in Classes})
  \cup panels["ClassSchema"].data \cup panels["Associations"].data

(* While the title bar says connected, the tree, the class lists, the      *)
(* result, the schema, the associations and the counts -- everything but   *)
(* the MOF -- came from the machine it names, however many connects,       *)
(* clicks and late replies are under way; and so will the answer to the    *)
(* next request, unless another connect is already sent.                   *)
ScreenIsOfConnectedHost ==
  status.is = "connected" =>
    /\ \A o \in OnScreen : o.host = status.host
    /\ InFlight("SetHost") = {} => target = status.host

(* The class list shown is that of the namespace it is shown under, which  *)
(* is the active one; so is every cached list.                             *)
ListIsOfItsNamespace ==
  /\ list.ns = activeNs
  /\ \A o \in list.data : o.ns = activeNs
  /\ \A ns \in Namespaces : \A o \in classCache[ns] : o.ns = ns

(* A spinner turns only while the request that will clear it is in flight, *)
(* so none turns for ever: the tree's, the class list's, the query's, the  *)
(* MOF's, a count's, and the connect's.  The slots of a connect are empty  *)
(* when no connect is under way.                                           *)
SpinnersHaveRequests ==
  /\ tree.loading => InFlight("ListChildNamespaces") # {}
  /\ list.loading => \E r \in InFlight("ListClasses") : r.ns = list.ns
  /\ query.loading => \E r \in InFlight("Query") : r.id = query.latest
  /\ panels["ClassMof"].loading =>
       \E r \in InFlight("ClassMof") : r.class = panels["ClassMof"].class
  /\ \A c \in counting : \E r \in InFlight("InstanceCount") : r.class = c
  /\ status.is = "connecting" \/ pendingNs # {} \/ connecting # {} =>
       InFlight("SetHost") # {}

(* The inductive invariant behind them: while the title bar says connected *)
(* the worker is pointed at the machine it names, even with another        *)
(* connect already sent.                                                   *)
WorkerIsOnConnectedHost ==
  status.is = "connected" =>
    target = status.host /\ \A o \in OnScreen : o.host = status.host

SessionInv ==
  TypeOK /\ WorkerIsOnConnectedHost /\ ListIsOfItsNamespace /\ SpinnersHaveRequests

(* What reset_and_reseed() says it does: wipe host-scoped state for a new  *)
(* target.  The MOF drawn would then be the connected machine's.           *)
MofIsOfConnectedHost ==
  status.is = "connected" => \A o \in MofDrawn : o.host = status.host

(* What select_namespace() says of the instance counts: a fact about a     *)
(* namespace's population, they cannot survive a namespace switch.         *)
CountsAreOfActiveNamespace ==
  \A c \in Classes : \A o \in counts[c] : o.ns = activeNs

(* What the title bar says when it shows this machine's name after a       *)
(* failed connect: the worker is left bound to the local machine.          *)
FailedConnectLeavesLocal ==
  status.is = "failed" /\ InFlight("SetHost") = {} => target = Local

(* What MachinesView says of its slot: one connect at a time is in flight, *)
(* so the reply lands on the right row.                                    *)
ProbesAreOfTheirRow ==
  \A h \in Hosts : probes[h].is \in {"online", "failed"} => probes[h].host = h
=============================================================================
