-------------------------------- MODULE MCReads --------------------------------
(***************************************************************************)
(* Small instances, for one run, of what the worker reads and what the     *)
(* program makes of it: the namespace rollup, the associations, the event  *)
(* subscriptions, the providers and connections with what is joined to     *)
(* them, the diff of two tables, the texts of the Events view and the      *)
(* files.  A behaviour is of one of them, its part; the others stay where  *)
(* they begin.                                                             *)
(***************************************************************************)
EXTENDS NamespaceStats, Associations, Subscriptions, Snapshots, CompareTable, EventTexts,
        Exports

CONSTANTS
  Checked,
  top, cimv2, security, ms, applications,                     (* namespaces *)
  name, pid, x, y                                     (* columns and cells *)

VARIABLE part

all == <<part, flags, walking, asking, subsVars, joining, tableVars, textVars, table>>

-----------------------------------------------------------------------------
(* A tree of five namespaces: two children, one of which has two of its    *)
(* own; one namespace without classes.                                     *)
Tree == {top, cimv2, security, ms, applications}

ChildrenInTree ==
  [n \in Tree |-> CASE n = top -> <<cimv2, security>>
                     [] n = cimv2 -> <<applications, ms>>
                     [] OTHER -> <<>>]

ClassesInTree == [n \in Tree |-> CASE n = cimv2 -> 2 [] n = ms -> 0 [] OTHER -> 1]

(* A class with one ancestor: an association of its own, one of both ends  *)
(* in the ancestor, one that names the ancestor, one with a vague end, one *)
(* of which no end could be read.                                          *)
Def(class, ends) == [class |-> class, ends |-> ends]
SessionProcess == Def("SessionProcess", {<<"Antecedent", "LogonSession">>, <<"Dependent", "Process">>})
ProcessExecutable == Def("ProcessExecutable", {<<"Antecedent", "DataFile">>, <<"Dependent", "CIM_Process">>})
BasedOn == Def("BasedOn", {<<"Antecedent", "CIM_Process">>, <<"Dependent", "CIM_Process">>})
Vague == Def("Vague", {<<"Element", "ManagedElement">>})
Unreadable == Def("Unreadable", {})

Lineage == <<"Process", "CIM_Process">>
Associated == {SessionProcess, ProcessExecutable, BasedOn, Vague, Unreadable}
Referring ==
  [c \in {"Process", "CIM_Process"} |->
     IF c = "Process" THEN {SessionProcess, Vague} ELSE {ProcessExecutable, BasedOn, Unreadable}]

(* One filter and three consumers, two of one name, with at most one       *)
(* binding; and a namespace with nothing or with one bound script.         *)
Filter(n, q) == [name |-> n, query |-> q]
Consumer(c, n, does) == [class |-> c, name |-> n, action |-> does]
Staged == {Filter("f", "intrinsic")}
Runners == {Consumer("CommandLine", "a", "plain"), Consumer("LogFile", "a", Absent),
            Consumer("LogFile", "b", "keyword")}
Script == <<Filter("f", "plain"), Consumer("ActiveScript", "a", "plain")>>
NoSubscriptions == [filters |-> {}, consumers |-> {}, bindings |-> {}]

SubscriptionNamespaces == <<"subscription", "default">>

Repositories ==
  [subscription |-> {w \in [filters : SUBSET Staged, consumers : SUBSET Runners,
                            bindings : SUBSET (Staged \X Runners)] : Cardinality(w.bindings) <= 1},
   default |-> {NoSubscriptions,
                [filters |-> {Script[1]}, consumers |-> {Script[2]}, bindings |-> {Script}]}]

(* Providers that are registered or not, loaded or not, without namespace; *)
(* endpoints of processes that are gone; names and counters that lack one. *)
Registered(n, space, p, is) == [provider |-> n, namespace |-> space, pid |-> p, registered |-> is]
Endpoint(proto, p, peer) == [proto |-> proto, pid |-> p, peer |-> peer]
Providers == {Registered("p", cimv2, 1, TRUE), Registered("q", security, 0, FALSE),
              Registered("r", cimv2, 2, TRUE), Registered("s", Absent, 0, TRUE)}
Endpoints == {Endpoint("tcp", 1, "x"), Endpoint("tcp", 3, "y"), Endpoint("udp", 2, "x")}
Machines == [providers : SUBSET Providers, endpoints : SUBSET Endpoints,
             running : {{0, 1, 2}, {0, 1}}, counters : {{0, 1, 2, 3}, {0, 1}, {0}}]

(* Two columns, one that may be the class key and one that moves by        *)
(* itself, with two values each.  Up to two rows against up to three of a  *)
(* query that has no key; rows of a class, whose key is unique; a side     *)
(* that did not return the key, or returned __RELPATH; a side that was cut.*)
Tables(columns, most) == UNION {[1 .. n -> [columns -> {x, y}]] : n \in 0 .. most}

Keyed(columns, key) ==
  {r \in Tables(columns, 2) : \A i, j \in DOMAIN r : r[i][key] = r[j][key] => i = j}

Side(columns, keys, r, whole) ==
  [columns |-> columns, keys |-> keys, rows |-> r, whole |-> whole]

Both == {name, pid}
KeyedByBoth == Keyed(Both, name) \cap Keyed(Both, pid)

Compared ==
  {<<Side(Both, {}, r, TRUE), Side(Both, {}, s, TRUE)>> :
     r \in Tables(Both, 2), s \in Tables(Both, 3)}
  \cup {<<Side(Both, {k}, r, TRUE), Side(Both, {k}, s, w)>> :
          k \in Both, r \in KeyedByBoth, s \in KeyedByBoth, w \in BOOLEAN}
  \cup {<<Side(Both, {name}, r, TRUE), Side({pid}, {name}, s, TRUE)>> :
          r \in Keyed(Both, name), s \in Tables({pid}, 2)}
  \cup {<<Side({name, RelPath}, {}, r, TRUE), Side({RelPath}, {name}, s, FALSE)>> :
          r \in Tables({name, RelPath}, 1), s \in Tables({RelPath}, 2)}

NothingCompared == Side(Both, {}, <<>>, TRUE)

NothingDiffed ==
  keyOverride = Derived /\ ignoreOverride = Derived /\ allowPartial = FALSE /\ view = NoView

(* Queries of up to four tokens, each bare or quoted.                      *)
Typed ==
  UNION {[1 .. n -> [text : {"from", "within", "isa", "1", "creation", "push"},
                     quoted : BOOLEAN]] : n \in 0 .. 4}

(* Events of up to three properties of either half, each delivered once.   *)
Delivered ==
  {p \in UNION {[1 .. n -> [half : {"previous", "target", "top"}, field : {"Name", "Size"},
                            value : {1, 2}]] : n \in 0 .. 3} :
     \A i, j \in DOMAIN p : p[i].half = p[j].half /\ p[i].field = p[j].field => i = j}

NameFirst == <<"Name">>

(* Tables whose rows are shorter or longer than their columns, of texts of *)
(* up to two characters.                                                   *)
FourKinds == {comma, quote, newline, other}
Texts(n) == UNION {[1 .. k -> FourKinds] : k \in 0 .. n}
Ragged(n) == UNION {[1 .. k -> Texts(n)] : k \in 0 .. 2}
Table(c, r) == [columns |-> c, rows |-> r]

Results ==
  {Table(c, <<r>>) : c \in {<<>>, <<<<other>>>>}, r \in Ragged(2)}
  \cup {Table(<<<<quote>>, <<other>>>>, <<r, s>>) : r \in Ragged(1), s \in Ragged(1)}
  \cup {Table(<<>>, <<>>)}

-----------------------------------------------------------------------------
SuiteInit ==
  /\ part \in Checked
  /\ IF part = "walk" THEN TRUE ELSE recursive = FALSE
  /\ Init
  /\ AssocInit
  /\ IF part = "scan" THEN TRUE ELSE world = [n \in Spaces |-> NoSubscriptions]
  /\ SubsInit
  /\ IF part = "snapshot" THEN TRUE
     ELSE request = "providers"
          /\ target = [providers |-> {}, endpoints |-> {}, running |-> {0, 1}, counters |-> {0}]
  /\ SnapInit
  /\ IF part = "diff" THEN TableInit
     ELSE sideA = NothingCompared /\ sideB = NothingCompared /\ NothingDiffed
  /\ IF part = "query" THEN query \in Queries ELSE query = <<>>
  /\ IF part = "event" THEN pairs \in Deliveries ELSE pairs = <<>>
  /\ IF part = "file" THEN FileInit ELSE table = Table(<<>>, <<>>)

SuiteNext ==
  \/ /\ part = "walk" /\ Next
     /\ UNCHANGED <<part, asking, subsVars, joining, tableVars, textVars, table>>
  \/ /\ part = "associations" /\ AssocNext
     /\ UNCHANGED <<part, walking, subsVars, joining, tableVars, textVars, table>>
  \/ /\ part = "scan" /\ SubsNext
     /\ UNCHANGED <<part, flags, walking, asking, joining, tableVars, textVars, table>>
  \/ /\ part = "snapshot" /\ SnapNext
     /\ UNCHANGED <<part, walking, asking, subsVars, tableVars, textVars, table>>
  \/ /\ part = "diff" /\ TableNext
     /\ UNCHANGED <<part, flags, walking, asking, subsVars, joining, textVars, table>>
  \/ /\ part = "query" /\ SetInterval
     /\ UNCHANGED <<part, flags, walking, asking, subsVars, joining, tableVars, table>>

Suite == SuiteInit /\ [][SuiteNext]_all
=============================================================================
