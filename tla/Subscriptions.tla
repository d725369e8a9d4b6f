--------------------------- MODULE Subscriptions ---------------------------
(***************************************************************************)
(* ListEventSubscriptions: for each subscription namespace the filters,    *)
(* the consumers and the bindings are read, in that order, on a repository *)
(* that may change meanwhile, and joined by name into scored rows.         *)
(***************************************************************************)
EXTENDS Fields, Naturals, Sequences, FiniteSets

CONSTANTS
  Scanned,     (* SUBSCRIPTION_NAMESPACES, a sequence                      *)
  Worlds,      (* for each namespace, what it may hold: records [filters,  *)
               (* consumers, bindings], bindings pairs of the two          *)
  MaxChanges   (* how often the repository changes during the scan         *)

(* A filter's Name is its key, so that no namespace has two of one name; a *)
(* consumer's key is its Name within its class.                            *)
ASSUME ScanAssumption ==
  /\ Scanned \in Seq(DOMAIN Worlds) /\ Scanned # <<>>
  /\ \A n \in DOMAIN Worlds : \A w \in Worlds[n] :
       \A f, g \in w.filters : f.name = g.name => f = g

VARIABLES
  world,       (* what each namespace holds now                            *)
  held,        (* and all it has held since the scan began                 *)
  past,        (* how many namespaces are done                             *)
  filters,     (* the filters read from this one, by name                  *)
  consumers,   (* the consumers, by name, a name standing for one of them  *)
  subs,        (* the rows of the report                                   *)
  unread,      (* the namespaces that could not be read                    *)
  phase        (* the query that is next, or how the scan ended            *)

subsVars == <<world, held, past, filters, consumers, subs, unread, phase>>
repository == <<world, held>>

Spaces == {Scanned[i] : i \in DOMAIN Scanned}
Here == Scanned[past + 1]
Level == [Low |-> 1, Medium |-> 2, High |-> 3]
AtLeast(a, b) == IF Level[a] >= Level[b] THEN a ELSE b

(* assess(): what a consumer of this class with this action, fired by this *)
(* query, is worth.  Absent stands for an empty string.                    *)
Assess(class, query, action) ==
  LET acts == IF class \in {"ActiveScript", "CommandLine"} \/ action = "keyword"
              THEN "High" ELSE "Low"
  IN  IF query \in {"intrinsic", "watched"} THEN AtLeast(acts, "Medium") ELSE acts

Sub(filter, consumer, risk, bound) ==
  [ns |-> Here, filter |-> filter, consumer |-> consumer, risk |-> risk, bound |-> bound]

NoFilter == [name |-> Absent, query |-> Absent]
NoConsumer == [class |-> Absent, name |-> Absent, action |-> Absent]

NameRead(set, name, none) ==
  IF \E x \in set : x.name = name THEN CHOOSE x \in set : x.name = name
                                  ELSE [none EXCEPT !.name = name]

SubsInit ==
  /\ world \in [Spaces -> UNION {Worlds[n] : n \in DOMAIN Worlds}]
  /\ \A n \in DOMAIN world : world[n] \in Worlds[n]
  /\ held = [n \in DOMAIN world |-> {world[n]}]
  /\ past = 0 /\ filters = {} /\ consumers = {} /\ subs = {} /\ unread = {}
  /\ phase = "filters"

(* Somebody installs or removes subscriptions while the scan runs.         *)
Change(n) ==
  /\ Cardinality(held[n]) <= MaxChanges /\ phase \notin {"report", "done", "failed"}
  /\ \E w \in Worlds[n] \ held[n] :
       world' = [world EXCEPT ![n] = w] /\ held' = [held EXCEPT ![n] = @ \cup {w}]
  /\ UNCHANGED <<past, filters, consumers, subs, unread, phase>>

(* A map by Name: of several objects with one name the last read stays.    *)
OnePerName(set) ==
  {s \in SUBSET set : /\ \A x \in set : \E y \in s : y.name = x.name
                      /\ \A x, y \in s : x.name = y.name => x = y}

ReadFilters ==
  /\ phase = "filters"
  /\ filters' = world[Here].filters
  /\ phase' = "consumers"
  /\ UNCHANGED <<repository, past, consumers, subs, unread>>

ReadConsumersOrNone ==
  /\ phase = "consumers"
  /\ consumers' \in OnePerName(world[Here].consumers) \cup {{}}
  /\ phase' = "bindings"
  /\ UNCHANGED <<repository, past, filters, subs, unread>>

ReadConsumers ==
  /\ phase = "consumers"
  /\ consumers' \in OnePerName(world[Here].consumers)
  /\ phase' = "bindings"
  /\ UNCHANGED <<repository, past, filters, subs, unread>>

BoundRow(b) ==
  LET f == NameRead(filters, b[1].name, NoFilter)
      c == NameRead(consumers, b[2].name, NoConsumer)
  IN  Sub(f, c, Assess(c.class, f.query, c.action), TRUE)

UnboundConsumers(bound) ==
  {Sub(NoFilter, c, AtLeast(Assess(c.class, Absent, c.action), "Medium"), FALSE) :
     c \in {c \in consumers : \A b \in bound : b[2].name # c.name}}

UnboundFilters(bound) ==
  {Sub(f, NoConsumer, "Low", FALSE) :
     f \in {f \in filters : \A b \in bound : b[1].name # f.name}}

NextNamespace ==
  /\ past' = past + 1
  /\ phase' = IF past + 1 = Len(Scanned) THEN "report" ELSE "filters"
  /\ filters' = {} /\ consumers' = {}

ReadBindings ==
  /\ phase = "bindings"
  /\ LET bound == world[Here].bindings
     IN  subs' = subs \cup {BoundRow(b) : b \in bound}
                      \cup UnboundConsumers(bound) \cup UnboundFilters(bound)
  /\ NextNamespace
  /\ UNCHANGED <<repository, unread>>

(* Any of the three that fails, or is cut short, fails the namespace.      *)
ScanFails ==
  /\ phase \in {"filters", "consumers", "bindings"}
  /\ unread' = unread \cup {Here}
  /\ NextNamespace
  /\ UNCHANGED <<repository, subs>>

(* Nothing scanned is an error, not a clean bill of health.                *)
Report ==
  /\ phase = "report"
  /\ phase' = IF subs = {} /\ Cardinality(unread) = Len(Scanned) THEN "failed" ELSE "done"
  /\ UNCHANGED <<repository, past, filters, consumers, subs, unread>>

SubsNext ==
  \/ \E n \in Spaces : Change(n)
  \/ ReadFilters \/ ReadConsumers \/ ReadBindings \/ ScanFails \/ Report

SubsSpec == SubsInit /\ [][SubsNext]_subsVars

-----------------------------------------------------------------------------
Read == Spaces \ unread

Throughout(n, x, part) == \A w \in held[n] : x \in w[part]
Ever(n, part) == UNION {w[part] : w \in held[n]}

OwnName(n, c) == \A d \in Ever(n, "consumers") : d.name = c.name => d = c

RowShows(n, b) ==
  \E s \in subs : /\ s.ns = n /\ s.bound
                  /\ s.filter = b[1] /\ s.consumer = b[2]
                  /\ s.risk = Assess(b[2].class, b[1].query, b[2].action)

BindingsShown(n) ==
  \A b \in Ever(n, "bindings") :
    /\ Throughout(n, b, "bindings") /\ OwnName(n, b[2])
    /\ Throughout(n, b[1], "filters") /\ Throughout(n, b[2], "consumers")
    => RowShows(n, b)

FiltersShown(n) ==
  \A f \in Ever(n, "filters") :
    Throughout(n, f, "filters") => \E s \in subs : s.ns = n /\ s.filter = f

ConsumersShown(n) ==
  \A c \in Ever(n, "consumers") :
    Throughout(n, c, "consumers") /\ OwnName(n, c)
    => \E s \in subs : s.ns = n /\ s.consumer = c

StagedIsNoted(s) == ~s.bound /\ s.consumer.class # Absent => s.risk # "Low"

(* What was there throughout the scan of a namespace the report does not   *)
(* call unreadable is in the report: a binding with its own filter's query *)
(* and its own consumer's class, action and score, every filter, and every *)
(* consumer -- as long as no other consumer has that name.  Code staged    *)
(* without a binding is never scored Low.                                  *)
ReadIsReported ==
  phase = "done" =>
    /\ \A n \in Read : BindingsShown(n) /\ FiltersShown(n) /\ ConsumersShown(n)
    /\ \A s \in subs : StagedIsNoted(s)

(* The inductive invariant behind it: what was read of the namespace in    *)
(* hand has all that was there throughout so far, and knows it by name;    *)
(* the namespaces that are done are shown.                                 *)
OneOfEachName(set) == \A p, q \in set : p.name = q.name => p = q

FiltersInHand ==
  /\ OneOfEachName(filters)
  /\ \A f \in Ever(Here, "filters") : Throughout(Here, f, "filters") => f \in filters

ConsumersInHand ==
  /\ OneOfEachName(consumers)
  /\ \A c \in Ever(Here, "consumers") :
       Throughout(Here, c, "consumers") /\ OwnName(Here, c) => c \in consumers

ScanInv ==
  /\ world = [n \in Spaces |-> world[n]] /\ held = [n \in Spaces |-> held[n]]
  /\ \A n \in Spaces : world[n] \in held[n] /\ held[n] \subseteq Worlds[n]
  /\ past \in 0 .. Len(Scanned)
  /\ phase \in {"filters", "consumers", "bindings", "report", "done", "failed"}
  /\ phase \in {"filters", "consumers", "bindings"} <=> past < Len(Scanned)
  /\ phase \in {"consumers", "bindings"} => FiltersInHand
  /\ phase = "bindings" => ConsumersInHand
  /\ \A i \in 1 .. past : Scanned[i] \notin unread =>
       BindingsShown(Scanned[i]) /\ FiltersShown(Scanned[i]) /\ ConsumersShown(Scanned[i])
  /\ \A s \in subs : StagedIsNoted(s)

(* "additionally surfaces orphan filters/consumers -- objects staged       *)
(* without a binding" (worker.rs:1821): a consumer that is there           *)
(* throughout has a row of its own.                                        *)
EveryConsumerSurfaces ==
  phase = "done" => \A n \in Read : \A c \in Ever(n, "consumers") :
    Throughout(n, c, "consumers") => \E s \in subs : s.ns = n /\ s.consumer = c
=============================================================================
