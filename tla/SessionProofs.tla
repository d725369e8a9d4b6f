---------------------------- MODULE SessionProofs ----------------------------
(***************************************************************************)
(* The session, for any hosts, namespaces, classes and any number of       *)
(* clicks: the screen is of the machine the title bar names, the class     *)
(* list of the namespace it stands under, and no spinner turns for ever.   *)
(***************************************************************************)
EXTENDS Session, SequenceTheorems, FiniteSetTheorems, TLAPS

-----------------------------------------------------------------------------
(*                       Requests, and their channel                       *)

Asked == [op : Ops, ns : Namespaces, class : Classes \cup {NoClass}, host : Hosts]

LEMMA AskIsAsked ==
  ASSUME NEW op \in Ops, NEW ns \in Namespaces, NEW class \in Classes \cup {NoClass}
  PROVE  Ask(op, ns, class) \in Asked /\ Ask(op, ns, class).op = op
         /\ Ask(op, ns, class).ns = ns /\ Ask(op, ns, class).class = class
BY SessionAssumption DEF Ask, Asked

LEMMA NumberedIsTyped ==
  ASSUME NEW asks \in Seq(Asked), NEW last \in Nat
  PROVE  /\ Numbered(asks, last) \in Seq(Request) /\ Len(Numbered(asks, last)) = Len(asks)
         /\ \A j \in 1 .. Len(asks) :
              Numbered(asks, last)[j] =
                [id |-> last + j, op |-> asks[j].op, ns |-> asks[j].ns,
                 class |-> asks[j].class, host |-> asks[j].host]
<1>1. \A j \in 1 .. Len(asks) :
        [id |-> last + j, op |-> asks[j].op, ns |-> asks[j].ns,
         class |-> asks[j].class, host |-> asks[j].host] \in Request
  <2> SUFFICES ASSUME NEW j \in 1 .. Len(asks)
               PROVE  [id |-> last + j, op |-> asks[j].op, ns |-> asks[j].ns,
                       class |-> asks[j].class, host |-> asks[j].host] \in Request
    OBVIOUS
  <2>1. asks[j] \in Asked /\ last + j \in Nat
    OBVIOUS
  <2> QED
    BY <2>1 DEF Asked, Request
<1>2. Len(asks) \in Nat
  OBVIOUS
<1> QED
  BY <1>1, <1>2 DEF Numbered

(* What one append does to the requests in flight: all of them stay, and   *)
(* the new ones are among them.                                            *)
LEMMA AppendAdds ==
  ASSUME NEW queue \in Seq(Request), NEW more \in Seq(Request)
  PROVE  /\ queue \o more \in Seq(Request)
         /\ \A k \in DOMAIN queue : k \in DOMAIN (queue \o more) /\ (queue \o more)[k] = queue[k]
         /\ \A j \in 1 .. Len(more) :
              /\ Len(queue) + j \in DOMAIN (queue \o more)
              /\ (queue \o more)[Len(queue) + j] = more[j]
OBVIOUS

LEMMA TailKeeps ==
  ASSUME NEW queue \in Seq(Request), queue # <<>>
  PROVE  /\ Tail(queue) \in Seq(Request) /\ queue[1] \in Request
         /\ \A k \in DOMAIN queue :
              k = 1 \/ (k - 1 \in DOMAIN Tail(queue) /\ Tail(queue)[k - 1] = queue[k])
OBVIOUS

LEMMA SendAdds ==
  ASSUME inflight \in Seq(Request), sent \in Nat, NEW asks \in Seq(Asked), Send(asks)
  PROVE  /\ inflight' \in Seq(Request) /\ sent' = sent + Len(asks) /\ sent' \in Nat
         /\ target' = target
         /\ \A op : InFlight(op) \subseteq InFlight(op)'
         /\ \A j \in 1 .. Len(asks) :
              \E r \in InFlight(asks[j].op)' :
                r.id = sent + j /\ r.ns = asks[j].ns /\ r.class = asks[j].class
<1> DEFINE more == Numbered(asks, sent)
<1>1. inflight' = inflight \o more /\ sent' = sent + Len(asks) /\ target' = target
  BY DEF Send
<1>2. more \in Seq(Request) /\ Len(more) = Len(asks)
  BY NumberedIsTyped
<1>3. ASSUME NEW op PROVE InFlight(op) \subseteq InFlight(op)'
  <2> SUFFICES ASSUME NEW r \in InFlight(op) PROVE r \in InFlight(op)'
    OBVIOUS
  <2>1. PICK k \in DOMAIN inflight : inflight[k] = r /\ r.op = op
    BY DEF InFlight
  <2>2. k \in DOMAIN inflight' /\ inflight'[k] = r
    BY <1>1, <1>2, <2>1, AppendAdds
  <2> QED
    BY <2>1, <2>2 DEF InFlight
<1>4. ASSUME NEW j \in 1 .. Len(asks)
      PROVE  \E r \in InFlight(asks[j].op)' :
               r.id = sent + j /\ r.ns = asks[j].ns /\ r.class = asks[j].class
  <2>1. more[j] = [id |-> sent + j, op |-> asks[j].op, ns |-> asks[j].ns,
                   class |-> asks[j].class, host |-> asks[j].host]
    BY NumberedIsTyped
  <2>2. Len(inflight) + j \in DOMAIN inflight' /\ inflight'[Len(inflight) + j] = more[j]
    BY <1>1, <1>2, AppendAdds
  <2>3. more[j] \in InFlight(asks[j].op)'
    BY <2>1, <2>2 DEF InFlight
  <2> QED
    BY <2>1, <2>3
<1>5. inflight' \in Seq(Request) /\ sent' \in Nat
  BY <1>1, <1>2, AppendAdds
<1> QED
  BY <1>1, <1>3, <1>4, <1>5

(* An answered request leaves, the others wait on.                         *)
LEMMA TakenLeaves ==
  ASSUME inflight \in Seq(Request), inflight # <<>>, inflight' = Tail(inflight)
  PROVE  /\ inflight' \in Seq(Request) /\ head \in Request
         /\ \A op : \A r \in InFlight(op) : r = head \/ r \in InFlight(op)'
         /\ \A op : op # head.op => InFlight(op) \subseteq InFlight(op)'
<1>1. \A op : \A r \in InFlight(op) : r = head \/ r \in InFlight(op)'
  <2> SUFFICES ASSUME NEW op, NEW r \in InFlight(op), r # head PROVE r \in InFlight(op)'
    OBVIOUS
  <2>1. PICK k \in DOMAIN inflight : inflight[k] = r /\ r.op = op
    BY DEF InFlight
  <2>2. k - 1 \in DOMAIN inflight' /\ inflight'[k - 1] = r
    BY <2>1, TailKeeps DEF head
  <2> QED
    BY <2>1, <2>2 DEF InFlight
<1>2. \A op : \A r \in InFlight(op) : r.op = op
  BY DEF InFlight
<1> QED
  BY <1>1, <1>2, TailKeeps DEF head

(* The requests of one click.                                              *)
LEMMA Appended ==
  ASSUME NEW S, NEW s \in Seq(S), NEW t \in Seq(S)
  PROVE  /\ s \o t \in Seq(S) /\ Len(s \o t) = Len(s) + Len(t)
         /\ \A i \in 1 .. Len(s) : (s \o t)[i] = s[i]
         /\ \A i \in 1 .. Len(t) : (s \o t)[Len(s) + i] = t[i]
OBVIOUS

LEMMA OneAsked ==
  ASSUME NEW a \in Asked
  PROVE  <<a>> \in Seq(Asked) /\ Len(<<a>>) = 1 /\ <<a>>[1] = a
OBVIOUS

LEMMA SeedIs ==
  ASSUME NEW ns \in Namespaces
  PROVE  /\ Seed(ns) \in Seq(Asked) /\ Len(Seed(ns)) = IF ns = Default THEN 3 ELSE 2
         /\ Seed(ns)[1].op = "ListChildNamespaces"
         /\ Seed(ns)[2].op = "ListClasses" /\ Seed(ns)[2].ns = ns
         /\ ns = Default => Seed(ns)[3].op = "Query"
<1> DEFINE a == Ask("ListChildNamespaces", Top, NoClass)
           b == Ask("ListClasses", ns, NoClass)
           c == Ask("Query", ns, NoClass)
<1>1. a \in Asked /\ b \in Asked /\ c \in Asked
      /\ a.op = "ListChildNamespaces" /\ b.op = "ListClasses" /\ b.ns = ns /\ c.op = "Query"
  BY AskIsAsked, SessionAssumption DEF Ops
<1>2. Seed(ns) = <<a, b>> \o (IF ns = Default THEN <<c>> ELSE <<>>)
  BY DEF Seed, Unless
<1> HIDE DEF a, b, c
<1> QED
  BY <1>1, <1>2

LEMMA SendOne ==
  ASSUME inflight \in Seq(Request), sent \in Nat, NEW a \in Asked, Send(<<a>>)
  PROVE  /\ inflight' \in Seq(Request) /\ sent' = sent + 1 /\ target' = target
         /\ \A op : InFlight(op) \subseteq InFlight(op)'
         /\ \E r \in InFlight(a.op)' : r.id = sent + 1 /\ r.ns = a.ns /\ r.class = a.class
<1>1. <<a>> \in Seq(Asked) /\ Len(<<a>>) = 1 /\ <<a>>[1] = a
  BY OneAsked
<1> DEFINE asks == <<a>>
<1> HIDE DEF asks
<1>2. asks \in Seq(Asked) /\ Send(asks) /\ 1 \in 1 .. Len(asks) /\ asks[1] = a /\ Len(asks) = 1
  BY <1>1 DEF asks
<1> QED
  BY <1>2, SendAdds

LEMMA SendNone ==
  ASSUME inflight \in Seq(Request), sent \in Nat, NEW c, NEW a, c, Send(Unless(c, <<a>>))
  PROVE  /\ inflight' \in Seq(Request) /\ sent' = sent /\ target' = target
         /\ \A op : InFlight(op) \subseteq InFlight(op)'
<1> DEFINE none == Unless(c, <<a>>)
<1>1. none \in Seq(Asked) /\ Len(none) = 0
  BY EmptySeq DEF Unless
<1> HIDE DEF none
<1>2. Send(none)
  BY DEF none
<1>3. /\ inflight' \in Seq(Request) /\ sent' = sent + Len(none) /\ target' = target
      /\ \A op : InFlight(op) \subseteq InFlight(op)'
  BY <1>1, <1>2, SendAdds, Zenon
<1> QED
  BY <1>1, <1>3

(* The id of the query that is looked at was sent, and stays so.           *)
QueryTyped == query \in [latest : 0 .. sent, data : Slot, loading : BOOLEAN]

LEMMA QueryUntouched ==
  ASSUME sent \in Nat, sent' \in Nat, sent <= sent', QueryTyped, query' = query
  PROVE  QueryTyped'
<1>1. query.latest \in 0 .. sent' /\ query.data \in Slot /\ query.loading \in BOOLEAN
      /\ query = [latest |-> query.latest, data |-> query.data, loading |-> query.loading]
  BY DEF QueryTyped
<1> QED
  BY <1>1 DEF QueryTyped

(* What a slot of the screen may hold.                                     *)
LEMMA SlotOfOne == {} \in Slot /\ \A o \in Origin : {o} \in Slot
<1>1. Cardinality({}) = 0
  BY FS_EmptySet
<1>2. \A o : Cardinality({o}) = 1
  BY FS_Singleton
<1> QED
  BY <1>1, <1>2 DEF Slot

-----------------------------------------------------------------------------
(*                                The user                                 *)

(* A click shows nothing that was not on the screen.                       *)
LEMMA ClickShowsNothingNew ==
  ASSUME WorkerIsOnConnectedHost, UNCHANGED <<status, target>>, OnScreen' \subseteq OnScreen
  PROVE  WorkerIsOnConnectedHost'
BY DEF WorkerIsOnConnectedHost

LEMMA ExpandTreeKeeps == SessionInv /\ ExpandTree => SessionInv'
<1> SUFFICES ASSUME SessionInv, ExpandTree PROVE SessionInv'
  OBVIOUS
<1> DEFINE a == Ask("ListChildNamespaces", Top, NoClass)
<1>1. a \in Asked /\ a.op = "ListChildNamespaces"
  BY AskIsAsked, SessionAssumption DEF Ops
<1>2. /\ Send(<<a>>) /\ tree' = [tree EXCEPT !.loading = TRUE]
      /\ UNCHANGED <<status, pendingNs, connecting, probes, activeNs, selected, classCache,
                     list, query, panels, counts, counting>>
  BY DEF ExpandTree, connectVars
<1> HIDE DEF a
<1>3. inflight \in Seq(Request) /\ sent \in Nat
  BY DEF SessionInv, TypeOK
<1>4. /\ inflight' \in Seq(Request) /\ sent' = sent + 1 /\ target' = target
      /\ \A op : InFlight(op) \subseteq InFlight(op)'
      /\ InFlight("ListChildNamespaces")' # {}
  BY <1>1, <1>2, <1>3, SendOne
<1>5. TypeOK'
  <2>1. QueryTyped'
    BY <1>2, <1>3, <1>4, QueryUntouched DEF SessionInv, TypeOK, QueryTyped
  <2>2. tree' \in [data : Slot, loading : BOOLEAN]
    BY <1>2 DEF SessionInv, TypeOK
  <2>3. sent' \in Nat
    BY <1>3, <1>4
  <2> QED
    BY <1>2, <1>4, <2>1, <2>2, <2>3 DEF SessionInv, TypeOK, QueryTyped
<1>6. WorkerIsOnConnectedHost'
  <2>1. tree'.data = tree.data
    BY <1>2 DEF SessionInv, TypeOK
  <2>2. OnScreen' = OnScreen
    BY <1>2, <2>1 DEF OnScreen
  <2> QED
    BY <1>2, <1>4, <2>2, ClickShowsNothingNew DEF SessionInv
<1>7. ListIsOfItsNamespace'
  BY <1>2 DEF SessionInv, ListIsOfItsNamespace
<1>8. SpinnersHaveRequests'
  BY <1>2, <1>4 DEF SessionInv, SpinnersHaveRequests
<1> QED
  BY <1>5, <1>6, <1>7, <1>8 DEF SessionInv

(* The list of the new namespace is the one that was cached for it.        *)
LEMMA SelectNamespaceKeeps ==
  ASSUME SessionInv, NEW ns \in Namespaces, SelectNamespace(ns)
  PROVE  SessionInv'
<1> DEFINE a == Ask("ListClasses", ns, NoClass)
<1>1. a \in Asked /\ a.op = "ListClasses" /\ a.ns = ns
  BY AskIsAsked DEF Ops
<1>2. /\ Send(Unless(classCache[ns] # {}, <<a>>))
      /\ activeNs' = ns /\ selected' = NoClass
      /\ panels' = [p \in Panels |->
                      IF p = "ClassMof" THEN panels[p]
                      ELSE [panels[p] EXCEPT !.class = NoClass, !.data = {}]]
      /\ counts' = [c \in Classes |-> {}] /\ counting' = {}
      /\ list' = [ns |-> ns, data |-> classCache[ns], loading |-> classCache[ns] = {}]
      /\ UNCHANGED <<status, pendingNs, connecting, probes, tree, classCache, query>>
  BY DEF SelectNamespace, ClassAsks, ListFor, connectVars
<1> HIDE DEF a
<1>3. inflight \in Seq(Request) /\ sent \in Nat
  BY DEF SessionInv, TypeOK
<1>4. /\ inflight' \in Seq(Request) /\ sent' \in Nat /\ sent <= sent' /\ target' = target
      /\ \A op : InFlight(op) \subseteq InFlight(op)'
      /\ classCache[ns] = {} => \E r \in InFlight("ListClasses")' : r.ns = ns
  <2>1. CASE classCache[ns] = {}
    <3>1. Send(<<a>>)
      BY <1>2, <2>1 DEF Unless
    <3>2. /\ inflight' \in Seq(Request) /\ sent' = sent + 1 /\ target' = target
          /\ \A op : InFlight(op) \subseteq InFlight(op)'
          /\ \E r \in InFlight("ListClasses")' : r.ns = ns
      BY <1>1, <1>3, <3>1, SendOne
    <3>3. sent' \in Nat /\ sent <= sent'
      BY <1>3, <3>2
    <3> QED
      BY <3>2, <3>3
  <2>2. CASE classCache[ns] # {}
    <3>1. /\ inflight' \in Seq(Request) /\ sent' = sent /\ target' = target
          /\ \A op : InFlight(op) \subseteq InFlight(op)'
      BY <1>2, <1>3, <2>2, SendNone, Zenon
    <3> QED
      BY <1>3, <2>2, <3>1
  <2> QED
    BY <2>1, <2>2
<1>5. TypeOK'
  <2>1. panels' \in [Panels -> [class : Classes \cup {NoClass}, data : Slot, loading : BOOLEAN]]
    BY SMTT(30), ZenonT(30), <1>2, SlotOfOne DEF SessionInv, TypeOK
  <2>2. counts' \in [Classes -> Slot]
    BY <1>2, SlotOfOne
  <2>3. list' \in [ns : Namespaces, data : Slot, loading : BOOLEAN]
    BY <1>2 DEF SessionInv, TypeOK
  <2>4. QueryTyped'
    BY <1>2, <1>3, <1>4, QueryUntouched DEF SessionInv, TypeOK, QueryTyped
  <2> QED
    BY <1>2, <1>4, <2>1, <2>2, <2>3, <2>4 DEF SessionInv, TypeOK, QueryTyped
<1>6. WorkerIsOnConnectedHost'
  <2>1. list'.data = classCache[ns]
    BY <1>2
  <2>2. panels'["ClassSchema"].data = {} /\ panels'["Associations"].data = {}
    BY <1>2 DEF SessionInv, TypeOK, Panels
  <2>3. \A c \in Classes : counts'[c] = {}
    BY <1>2
  <2>6. ASSUME NEW o \in OnScreen' PROVE o \in OnScreen
    <3>1. \/ o \in tree'.data \/ o \in list'.data \/ o \in query'.data
          \/ \E m \in Namespaces : o \in classCache'[m]
          \/ \E c \in Classes : o \in counts'[c]
          \/ o \in panels'["ClassSchema"].data \/ o \in panels'["Associations"].data
      BY <2>6 DEF OnScreen
    <3>2. o \in tree.data \/ o \in query.data \/ \E m \in Namespaces : o \in classCache[m]
      BY <1>2, <2>1, <2>2, <2>3, <3>1
    <3> QED
      BY <3>2 DEF OnScreen
  <2> QED
    BY <1>2, <1>4, <2>6, ClickShowsNothingNew DEF SessionInv
<1>7. ListIsOfItsNamespace'
  BY <1>2 DEF SessionInv, ListIsOfItsNamespace
<1>8. SpinnersHaveRequests'
  <2>1. panels'["ClassMof"] = panels["ClassMof"]
    BY <1>2 DEF Panels
  <2> QED
    BY <1>2, <1>4, <2>1 DEF SessionInv, SpinnersHaveRequests
<1> QED
  BY <1>5, <1>6, <1>7, <1>8 DEF SessionInv

LEMMA RunQueryKeeps == SessionInv /\ RunQuery => SessionInv'
<1> SUFFICES ASSUME SessionInv, RunQuery PROVE SessionInv'
  OBVIOUS
<1> DEFINE a == Ask("Query", activeNs, NoClass)
<1>1. a \in Asked /\ a.op = "Query"
  BY AskIsAsked DEF Ops, SessionInv, TypeOK
<1>2. /\ Send(<<a>>) /\ query' = [query EXCEPT !.latest = sent + 1, !.loading = TRUE]
      /\ UNCHANGED <<status, pendingNs, connecting, probes, activeNs, selected, tree,
                     classCache, list, panels, counts, counting>>
  BY DEF RunQuery, Queried, LatestQuery, connectVars
<1> HIDE DEF a
<1>3. inflight \in Seq(Request) /\ sent \in Nat
  BY DEF SessionInv, TypeOK
<1>4. /\ inflight' \in Seq(Request) /\ sent' = sent + 1 /\ target' = target
      /\ \A op : InFlight(op) \subseteq InFlight(op)'
      /\ \E r \in InFlight("Query")' : r.id = sent + 1
  BY <1>1, <1>2, <1>3, SendOne
<1>5. query' = [latest |-> sent + 1, data |-> query.data, loading |-> TRUE]
  BY <1>2 DEF SessionInv, TypeOK
<1>6. TypeOK'
  <2>1. query.data \in Slot
    BY DEF SessionInv, TypeOK
  <2>2. QueryTyped'
    BY <1>3, <1>4, <1>5, <2>1 DEF QueryTyped
  <2> QED
    BY <1>2, <1>3, <1>4, <2>2 DEF SessionInv, TypeOK, QueryTyped
<1>7. WorkerIsOnConnectedHost'
  <2>1. OnScreen' = OnScreen
    BY <1>2, <1>5 DEF OnScreen
  <2> QED
    BY <1>2, <1>4, <2>1, ClickShowsNothingNew DEF SessionInv
<1>8. ListIsOfItsNamespace'
  BY <1>2 DEF SessionInv, ListIsOfItsNamespace
<1>9. SpinnersHaveRequests'
  BY <1>2, <1>4, <1>5 DEF SessionInv, SpinnersHaveRequests
<1> QED
  BY <1>6, <1>7, <1>8, <1>9 DEF SessionInv

LEMMA ConnectKeeps ==
  ASSUME SessionInv, NEW c \in Connects, Connect(c)
  PROVE  SessionInv'
<1> DEFINE a == [Ask("SetHost", c.ns, NoClass) EXCEPT !.host = c.host]
<1>1. c.host \in Hosts /\ c.ns \in Namespaces
  BY SessionAssumption
<1>2. a \in Asked /\ a.op = "SetHost"
  BY <1>1 DEF Ask, Asked, Ops
<1>3. /\ Send(<<a>>) /\ status' = [is |-> "connecting", host |-> c.host]
      /\ pendingNs' = {c.ns} /\ connecting' = {c.host}
      /\ probes' = [probes EXCEPT ![c.host] = [is |-> "connecting", host |-> c.host]]
      /\ UNCHANGED <<activeNs, selected, tree, classCache, list, query, panels, counts, counting>>
  BY DEF Connect, StatusOnConnect, screenVars
<1> HIDE DEF a
<1>4. inflight \in Seq(Request) /\ sent \in Nat
  BY DEF SessionInv, TypeOK
<1>5. /\ inflight' \in Seq(Request) /\ sent' = sent + 1 /\ target' = target
      /\ \A op : InFlight(op) \subseteq InFlight(op)'
      /\ InFlight("SetHost")' # {}
  BY <1>2, <1>3, <1>4, SendOne
<1>6. TypeOK'
  <2>1. QueryTyped'
    BY <1>3, <1>4, <1>5, QueryUntouched DEF SessionInv, TypeOK, QueryTyped
  <2> QED
    BY <1>1, <1>3, <1>4, <1>5, <2>1 DEF SessionInv, TypeOK, QueryTyped
<1>7. WorkerIsOnConnectedHost'
  BY <1>3 DEF WorkerIsOnConnectedHost
<1>8. ListIsOfItsNamespace'
  BY <1>3 DEF SessionInv, ListIsOfItsNamespace
<1>9. SpinnersHaveRequests'
  BY <1>3, <1>5 DEF SessionInv, SpinnersHaveRequests
<1> QED
  BY <1>6, <1>7, <1>8, <1>9 DEF SessionInv

(* At most one request is asked for each panel and each count.             *)
LEMMA UnlessIsAsked ==
  ASSUME NEW held, NEW a \in Asked
  PROVE  /\ Unless(held, <<a>>) \in Seq(Asked)
         /\ ~held => Len(Unless(held, <<a>>)) = 1 /\ Unless(held, <<a>>)[1] = a
<1>1. CASE held
  BY <1>1, EmptySeq DEF Unless
<1>2. CASE ~held
  BY <1>2, OneAsked DEF Unless
<1> QED
  BY <1>1, <1>2

LEMMA BothAreSent ==
  ASSUME inflight \in Seq(Request), sent \in Nat,
         NEW first \in Seq(Asked), NEW then \in Seq(Asked), Send(first \o then)
  PROVE  /\ inflight' \in Seq(Request) /\ sent' \in Nat /\ sent' = sent + Len(first) + Len(then)
         /\ target' = target
         /\ \A op : InFlight(op) \subseteq InFlight(op)'
         /\ \A op : \A i \in 1 .. Len(first) : first[i].op = op =>
              \E r \in InFlight(op)' : r.id = sent + i /\ r.class = first[i].class
         /\ \A op : \A i \in 1 .. Len(then) : then[i].op = op =>
              \E r \in InFlight(op)' : r.class = then[i].class
<1> DEFINE asks == first \o then
<1>1. /\ asks \in Seq(Asked) /\ Len(asks) = Len(first) + Len(then)
      /\ \A i \in 1 .. Len(first) : asks[i] = first[i]
      /\ \A i \in 1 .. Len(then) : asks[Len(first) + i] = then[i]
  BY Appended
<1>2. Len(first) \in Nat /\ Len(then) \in Nat
  OBVIOUS
<1>3. Send(asks)
  OBVIOUS
<1> HIDE DEF asks
<1>4. /\ inflight' \in Seq(Request) /\ sent' = sent + Len(asks) /\ sent' \in Nat
      /\ target' = target
      /\ \A op : InFlight(op) \subseteq InFlight(op)'
      /\ \A j \in 1 .. Len(asks) :
           \E r \in InFlight(asks[j].op)' :
             r.id = sent + j /\ r.ns = asks[j].ns /\ r.class = asks[j].class
  BY <1>1, <1>3, SendAdds, Zenon
<1>5. sent' = sent + Len(first) + Len(then)
  BY <1>1, <1>2, <1>4
<1>6. ASSUME NEW i \in 1 .. Len(first)
      PROVE  \E r \in InFlight(first[i].op)' : r.id = sent + i /\ r.class = first[i].class
  <2>1. i \in 1 .. Len(asks) /\ asks[i] = first[i]
    BY <1>1, <1>2
  <2> QED
    BY <2>1, <1>4
<1>7. ASSUME NEW i \in 1 .. Len(then)
      PROVE  \E r \in InFlight(then[i].op)' : r.class = then[i].class
  <2>1. Len(first) + i \in 1 .. Len(asks) /\ asks[Len(first) + i] = then[i]
    BY <1>1, <1>2
  <2> QED
    BY <2>1, <1>4
<1> QED
  BY <1>4, <1>5, <1>6, <1>7

(* A panel for a class keeps what it has of it, or begins empty.           *)
LEMMA PanelForIs ==
  ASSUME TypeOK, NEW p \in Panels, NEW c \in Classes \cup {NoClass}
  PROVE  /\ PanelFor(p, c) \in [class : Classes \cup {NoClass}, data : Slot, loading : BOOLEAN]
         /\ PanelFor(p, c).data \subseteq panels[p].data
         /\ PanelFor(p, c) = panels[p] \/ (~Held(p, c) /\ PanelFor(p, c).class = c)
BY SlotOfOne DEF PanelFor, TypeOK

LEMMA SelectClassKeeps ==
  ASSUME SessionInv, NEW c \in Classes, SelectClass(c)
  PROVE  SessionInv'
<1> DEFINE q == Ask("Query", activeNs, NoClass)
           a == Ask("ClassSchema", activeNs, c)
           n == Ask("InstanceCount", activeNs, c)
           first == <<q>> \o Unless(Held("ClassSchema", c), <<a>>)
           then == Unless(Counted(c), <<n>>)
           shown == PanelFor("ClassSchema", c)
<1>1. q \in Asked /\ q.op = "Query" /\ a \in Asked /\ n \in Asked /\ n.op = "InstanceCount"
      /\ n.class = c
  BY AskIsAsked DEF Ops, Panels, SessionInv, TypeOK
<1>2. /\ Send(first \o then)
      /\ selected' = c
      /\ query' = [query EXCEPT !.latest = sent + 1, !.loading = TRUE]
      /\ panels' = [panels EXCEPT !["ClassSchema"] = shown]
      /\ counting' = IF Counted(c) THEN counting ELSE counting \cup {c}
      /\ UNCHANGED <<status, pendingNs, connecting, probes, activeNs, tree, classCache, list, counts>>
  BY DEF SelectClass, PanelAsks, CountAsks, Queried, LatestQuery, connectVars
<1>3. inflight \in Seq(Request) /\ sent \in Nat
  BY DEF SessionInv, TypeOK
<1>4. /\ first \in Seq(Asked) /\ then \in Seq(Asked) /\ Len(first) \in Nat /\ Len(then) \in Nat
      /\ Len(first) >= 1 /\ first[1] = q
      /\ ~Counted(c) => Len(then) = 1 /\ then[1] = n
  <2>1. Unless(Held("ClassSchema", c), <<a>>) \in Seq(Asked) /\ then \in Seq(Asked)
        /\ (~Counted(c) => Len(then) = 1 /\ then[1] = n)
    BY <1>1, UnlessIsAsked, Zenon
  <2>2. <<q>> \in Seq(Asked) /\ Len(<<q>>) = 1 /\ <<q>>[1] = q
    BY <1>1, OneAsked
  <2> DEFINE schema == Unless(Held("ClassSchema", c), <<a>>)
  <2> HIDE DEF schema, then, q
  <2>3. schema \in Seq(Asked)
    BY <2>1 DEF schema
  <2>4. <<q>> \o schema \in Seq(Asked) /\ Len(<<q>> \o schema) >= 1 /\ (<<q>> \o schema)[1] = q
    BY <2>2, <2>3
  <2>5. Len(<<q>> \o schema) \in Nat /\ Len(then) \in Nat
    BY <2>1, <2>4
  <2> QED
    BY <2>1, <2>4, <2>5 DEF schema
<1> HIDE DEF q, a, n, first, then, shown
<1>5. /\ inflight' \in Seq(Request) /\ sent' \in Nat /\ sent' = sent + Len(first) + Len(then)
      /\ target' = target
      /\ \A op : InFlight(op) \subseteq InFlight(op)'
      /\ \A op : \A i \in 1 .. Len(first) : first[i].op = op =>
           \E r \in InFlight(op)' : r.id = sent + i /\ r.class = first[i].class
      /\ \A op : \A i \in 1 .. Len(then) : then[i].op = op =>
           \E r \in InFlight(op)' : r.class = then[i].class
  BY <1>2, <1>3, <1>4, BothAreSent, Zenon
<1>6. sent + 1 \in 0 .. sent'
  BY <1>3, <1>4, <1>5
<1>7. \E r \in InFlight("Query")' : r.id = sent + 1
  <2>1. 1 \in 1 .. Len(first)
    BY <1>4
  <2> QED
    BY <2>1, <1>1, <1>4, <1>5
<1>8. ~Counted(c) => \E r \in InFlight("InstanceCount")' : r.class = c
  <2> SUFFICES ASSUME ~Counted(c) PROVE \E r \in InFlight("InstanceCount")' : r.class = c
    OBVIOUS
  <2>1. Len(then) = 1 /\ then[1] = n
    BY <1>4, Zenon
  <2>2. 1 \in 1 .. Len(then)
    BY <2>1
  <2> QED
    BY <2>1, <2>2, <1>1, <1>5
<1>9. /\ shown \in [class : Classes \cup {NoClass}, data : Slot, loading : BOOLEAN]
      /\ shown.data \subseteq panels["ClassSchema"].data
  BY PanelForIs DEF shown, Panels, SessionInv
<1>10. query' = [latest |-> sent + 1, data |-> query.data, loading |-> TRUE]
  BY <1>2 DEF SessionInv, TypeOK
<1>11. /\ panels' \in [Panels -> [class : Classes \cup {NoClass}, data : Slot, loading : BOOLEAN]]
       /\ panels'["ClassSchema"] = shown
       /\ panels'["ClassMof"] = panels["ClassMof"]
       /\ panels'["Associations"] = panels["Associations"]
  BY <1>2, <1>9 DEF SessionInv, TypeOK, Panels
<1>12. TypeOK'
  <2>1. query.data \in Slot
    BY DEF SessionInv, TypeOK
  <2>2. QueryTyped'
    BY <1>6, <1>10, <2>1 DEF QueryTyped
  <2>3. counting' \in SUBSET Classes /\ selected' \in Classes \cup {NoClass}
    BY <1>2 DEF SessionInv, TypeOK
  <2> QED
    BY <1>2, <1>5, <1>11, <2>2, <2>3 DEF SessionInv, TypeOK, QueryTyped
<1>13. WorkerIsOnConnectedHost'
  <2>1. ASSUME NEW o \in OnScreen' PROVE o \in OnScreen
    <3>1. \/ o \in tree'.data \/ o \in list'.data \/ o \in query'.data
          \/ \E m \in Namespaces : o \in classCache'[m]
          \/ \E d \in Classes : o \in counts'[d]
          \/ o \in panels'["ClassSchema"].data \/ o \in panels'["Associations"].data
      BY <2>1 DEF OnScreen
    <3> QED
      BY <1>2, <1>9, <1>10, <1>11, <3>1 DEF OnScreen
  <2> QED
    BY <1>2, <1>5, <2>1, ClickShowsNothingNew DEF SessionInv
<1>14. ListIsOfItsNamespace'
  BY <1>2 DEF SessionInv, ListIsOfItsNamespace
<1>15. SpinnersHaveRequests'
  <2>1. \A d \in counting' : \E r \in InFlight("InstanceCount")' : r.class = d
    BY <1>2, <1>5, <1>8 DEF SessionInv, SpinnersHaveRequests
  <2>2. \E r \in InFlight("Query")' : r.id = query'.latest
    BY <1>7, <1>10
  <2> QED
    BY <1>2, <1>5, <1>11, <2>1, <2>2 DEF SessionInv, SpinnersHaveRequests
<1> QED
  BY <1>12, <1>13, <1>14, <1>15 DEF SessionInv

LEMMA ShowSchemaTabKeeps == SessionInv /\ ShowSchemaTab => SessionInv'
<1> SUFFICES ASSUME SessionInv, ShowSchemaTab PROVE SessionInv'
  OBVIOUS
<1> DEFINE a == Ask("Associations", activeNs, selected)
           m == Ask("ClassMof", activeNs, selected)
           first == Unless(Held("Associations", selected), <<a>>)
           then == Unless(Held("ClassMof", selected), <<m>>)
<1>1. a \in Asked /\ m \in Asked /\ m.op = "ClassMof" /\ m.class = selected
  BY AskIsAsked DEF Ops, Panels, SessionInv, TypeOK
<1>2. /\ Send(first \o then)
      /\ panels' = [p \in Panels |->
                      IF p = "ClassSchema" THEN panels[p] ELSE PanelFor(p, selected)]
      /\ UNCHANGED <<status, pendingNs, connecting, probes, activeNs, selected, tree, classCache,
                     list, query, counts, counting>>
  BY DEF ShowSchemaTab, PanelAsks, connectVars
<1>3. inflight \in Seq(Request) /\ sent \in Nat /\ selected \in Classes \cup {NoClass}
  BY DEF SessionInv, TypeOK
<1>4. /\ first \in Seq(Asked) /\ then \in Seq(Asked)
      /\ ~Held("ClassMof", selected) => Len(then) = 1 /\ then[1] = m
  BY <1>1, UnlessIsAsked, Zenon
<1> HIDE DEF a, m, first, then
<1>5. Len(first) \in Nat /\ Len(then) \in Nat
  BY <1>4
<1>6. /\ inflight' \in Seq(Request) /\ sent' \in Nat /\ sent' = sent + Len(first) + Len(then)
      /\ target' = target
      /\ \A op : InFlight(op) \subseteq InFlight(op)'
      /\ \A op : \A i \in 1 .. Len(then) : then[i].op = op =>
           \E r \in InFlight(op)' : r.class = then[i].class
  BY <1>2, <1>3, <1>4, BothAreSent, Zenon
<1>7. sent <= sent'
  BY <1>3, <1>5, <1>6
<1>8. ~Held("ClassMof", selected) => \E r \in InFlight("ClassMof")' : r.class = selected
  <2> SUFFICES ASSUME ~Held("ClassMof", selected)
               PROVE  \E r \in InFlight("ClassMof")' : r.class = selected
    OBVIOUS
  <2>1. 1 \in 1 .. Len(then) /\ then[1] = m
    BY <1>4
  <2> QED
    BY <2>1, <1>1, <1>6
<1>9. \A p \in Panels :
        /\ panels'[p] \in [class : Classes \cup {NoClass}, data : Slot, loading : BOOLEAN]
        /\ panels'[p].data \subseteq panels[p].data
        /\ panels'[p] = panels[p] \/ (~Held(p, selected) /\ panels'[p].class = selected)
  <2> SUFFICES ASSUME NEW p \in Panels
               PROVE  /\ panels'[p] \in [class : Classes \cup {NoClass}, data : Slot, loading : BOOLEAN]
                      /\ panels'[p].data \subseteq panels[p].data
                      /\ panels'[p] = panels[p] \/ (~Held(p, selected) /\ panels'[p].class = selected)
    OBVIOUS
  <2>1. panels'[p] = panels[p] \/ panels'[p] = PanelFor(p, selected)
    BY <1>2
  <2>2. panels[p] \in [class : Classes \cup {NoClass}, data : Slot, loading : BOOLEAN]
    BY DEF SessionInv, TypeOK
  <2> QED
    BY <1>3, <2>1, <2>2, PanelForIs DEF SessionInv
<1>10. TypeOK'
  <2>1. panels' \in [Panels -> [class : Classes \cup {NoClass}, data : Slot, loading : BOOLEAN]]
    BY <1>2, <1>9, Zenon
  <2>2. QueryTyped'
    BY <1>2, <1>3, <1>6, <1>7, QueryUntouched DEF SessionInv, TypeOK, QueryTyped
  <2> QED
    BY <1>2, <1>6, <2>1, <2>2 DEF SessionInv, TypeOK, QueryTyped
<1>11. WorkerIsOnConnectedHost'
  <2>1. ASSUME NEW o \in OnScreen' PROVE o \in OnScreen
    <3>1. \/ o \in tree'.data \/ o \in list'.data \/ o \in query'.data
          \/ \E n \in Namespaces : o \in classCache'[n]
          \/ \E d \in Classes : o \in counts'[d]
          \/ o \in panels'["ClassSchema"].data \/ o \in panels'["Associations"].data
      BY <2>1 DEF OnScreen
    <3>2. /\ panels'["ClassSchema"].data \subseteq panels["ClassSchema"].data
          /\ panels'["Associations"].data \subseteq panels["Associations"].data
      BY <1>9 DEF Panels
    <3> QED
      BY <1>2, <3>1, <3>2 DEF OnScreen
  <2> QED
    BY <1>2, <1>6, <2>1, ClickShowsNothingNew DEF SessionInv
<1>12. ListIsOfItsNamespace'
  BY <1>2 DEF SessionInv, ListIsOfItsNamespace
<1>13. SpinnersHaveRequests'
  <2>1. panels'["ClassMof"] = panels["ClassMof"]
        \/ (~Held("ClassMof", selected) /\ panels'["ClassMof"].class = selected)
    BY <1>9 DEF Panels
  <2> QED
    BY <1>2, <1>6, <1>8, <2>1 DEF SessionInv, SpinnersHaveRequests
<1> QED
  BY <1>10, <1>11, <1>12, <1>13 DEF SessionInv

-----------------------------------------------------------------------------
(*                               The replies                               *)

(* What every reply does to the channel, and what an answer brings.        *)
LEMMA ReplyTaken ==
  ASSUME SessionInv, inflight # <<>>, Taken
  PROVE  /\ inflight' \in Seq(Request) /\ sent' \in Nat /\ sent' = sent /\ target' = target
         /\ head \in Request /\ Answer \in Slot
         /\ \A o \in Answer : o.host = target /\ o.ns = head.ns
         /\ \A op : \A r \in InFlight(op) : r = head \/ r \in InFlight(op)'
         /\ \A op : op # head.op => InFlight(op) \subseteq InFlight(op)'
<1>1. inflight \in Seq(Request) /\ sent \in Nat /\ target \in Hosts
  BY DEF SessionInv, TypeOK
<1>2. inflight' = Tail(inflight) /\ sent' = sent /\ target' = target
  BY DEF Taken
<1>3. /\ inflight' \in Seq(Request) /\ head \in Request
      /\ \A op : \A r \in InFlight(op) : r = head \/ r \in InFlight(op)'
      /\ \A op : op # head.op => InFlight(op) \subseteq InFlight(op)'
  BY <1>1, <1>2, TakenLeaves
<1>4. [host |-> target, ns |-> head.ns] \in Origin
  BY <1>1, <1>3 DEF Request, Origin
<1>5. Answer \in Slot
  BY <1>4, SlotOfOne DEF Answer
<1>6. \A o \in Answer : o.host = target /\ o.ns = head.ns
  BY DEF Answer
<1> QED
  BY <1>1, <1>2, <1>3, <1>5, <1>6

(* A reply shows the answer of the worker's host, or nothing new.          *)
LEMMA ReplyIsOfTheHost ==
  ASSUME WorkerIsOnConnectedHost, UNCHANGED <<status, target>>,
         \A o \in OnScreen' : o \in OnScreen \/ o.host = target
  PROVE  WorkerIsOnConnectedHost'
BY DEF WorkerIsOnConnectedHost

LEMMA ChildNamespacesKeeps == SessionInv /\ ChildNamespaces => SessionInv'
<1> SUFFICES ASSUME SessionInv, ChildNamespaces PROVE SessionInv'
  OBVIOUS
<1>1. /\ inflight # <<>> /\ head.op = "ListChildNamespaces" /\ Taken
      /\ \/ tree' = [data |-> Answer, loading |-> FALSE]
         \/ tree' = [tree EXCEPT !.loading = FALSE]
      /\ UNCHANGED <<status, pendingNs, connecting, probes, activeNs, selected, classCache,
                     list, query, panels, counts, counting>>
  BY DEF ChildNamespaces, Answered, session, connectVars
<1>2. /\ inflight' \in Seq(Request) /\ sent' \in Nat /\ sent' = sent /\ target' = target
      /\ Answer \in Slot /\ \A o \in Answer : o.host = target
      /\ \A op : op # head.op => InFlight(op) \subseteq InFlight(op)'
  BY <1>1, ReplyTaken
<1>3. /\ tree' \in [data : Slot, loading : BOOLEAN] /\ ~tree'.loading
      /\ tree'.data = Answer \/ tree'.data = tree.data
  <2>1. tree \in [data : Slot, loading : BOOLEAN] /\ tree.data \in Slot
    BY DEF SessionInv, TypeOK
  <2>2. CASE tree' = [data |-> Answer, loading |-> FALSE]
    BY <1>2, <2>2
  <2>3. CASE tree' = [tree EXCEPT !.loading = FALSE]
    <3>1. tree' = [data |-> tree.data, loading |-> FALSE]
      BY <2>1, <2>3
    <3> QED
      BY <2>1, <3>1
  <2> QED
    BY <1>1, <2>2, <2>3
<1>4. TypeOK'
  <2>1. QueryTyped'
    BY <1>1, <1>2 DEF SessionInv, TypeOK, QueryTyped
  <2> QED
    BY <1>1, <1>2, <1>3, <2>1 DEF SessionInv, TypeOK, QueryTyped
<1>5. WorkerIsOnConnectedHost'
  <2>1. ASSUME NEW o \in OnScreen' PROVE o \in OnScreen \/ o.host = target
    BY <1>1, <1>2, <1>3, <2>1 DEF OnScreen
  <2> QED
    BY <1>1, <1>2, <2>1, ReplyIsOfTheHost DEF SessionInv
<1>6. ListIsOfItsNamespace'
  BY <1>1 DEF SessionInv, ListIsOfItsNamespace
<1>7. SpinnersHaveRequests'
  BY <1>1, <1>2, <1>3 DEF SessionInv, SpinnersHaveRequests
<1> QED
  BY <1>4, <1>5, <1>6, <1>7 DEF SessionInv

(* The list that is filled is that of the namespace the answer names.      *)
LEMMA ClassListKeeps == SessionInv /\ ClassList => SessionInv'
<1> SUFFICES ASSUME SessionInv, ClassList PROVE SessionInv'
  OBVIOUS
<1>1. /\ inflight # <<>> /\ head.op = "ListClasses" /\ Taken
      /\ \/ /\ classCache' = [classCache EXCEPT ![head.ns] = Answer]
            /\ list' = IF head.ns = list.ns
                       THEN [list EXCEPT !.data = Answer, !.loading = FALSE] ELSE list
         \/ list' = [list EXCEPT !.loading = FALSE] /\ classCache' = classCache
      /\ UNCHANGED <<status, pendingNs, connecting, probes, activeNs, selected, tree,
                     query, panels, counts, counting>>
  BY DEF ClassList, ListWants, Answered, session, connectVars
<1>2. /\ inflight' \in Seq(Request) /\ sent' \in Nat /\ sent' = sent /\ target' = target
      /\ head \in Request /\ Answer \in Slot
      /\ \A o \in Answer : o.host = target /\ o.ns = head.ns
      /\ \A op : \A r \in InFlight(op) : r = head \/ r \in InFlight(op)'
      /\ \A op : op # head.op => InFlight(op) \subseteq InFlight(op)'
  BY <1>1, ReplyTaken
<1>3. /\ list \in [ns : Namespaces, data : Slot, loading : BOOLEAN]
      /\ classCache \in [Namespaces -> Slot] /\ head.ns \in Namespaces
  BY <1>2 DEF SessionInv, TypeOK, Request
<1>4. /\ list' \in [ns : Namespaces, data : Slot, loading : BOOLEAN] /\ list'.ns = list.ns
      /\ list'.data = list.data \/ (list'.data = Answer /\ head.ns = list.ns)
      /\ list'.loading => list.loading /\ head.ns # list.ns
  BY <1>1, <1>2, <1>3
<1>5. /\ classCache' \in [Namespaces -> Slot]
      /\ \A ns \in Namespaces :
           classCache'[ns] = classCache[ns] \/ (classCache'[ns] = Answer /\ ns = head.ns)
  BY <1>1, <1>2, <1>3
<1>6. TypeOK'
  <2>1. QueryTyped'
    BY <1>1, <1>2 DEF SessionInv, TypeOK, QueryTyped
  <2> QED
    BY <1>1, <1>2, <1>4, <1>5, <2>1 DEF SessionInv, TypeOK, QueryTyped
<1>7. WorkerIsOnConnectedHost'
  <2>1. ASSUME NEW o \in OnScreen' PROVE o \in OnScreen \/ o.host = target
    <3>1. \/ o \in tree'.data \/ o \in list'.data \/ o \in query'.data
          \/ \E ns \in Namespaces : o \in classCache'[ns]
          \/ \E c \in Classes : o \in counts'[c]
          \/ o \in panels'["ClassSchema"].data \/ o \in panels'["Associations"].data
      BY <2>1 DEF OnScreen
    <3> QED
      BY <1>1, <1>2, <1>4, <1>5, <3>1 DEF OnScreen
  <2> QED
    BY <1>1, <1>2, <2>1, ReplyIsOfTheHost DEF SessionInv
<1>8. ListIsOfItsNamespace'
  BY <1>1, <1>2, <1>4, <1>5 DEF SessionInv, ListIsOfItsNamespace
<1>9. SpinnersHaveRequests'
  <2>1. list'.loading => \E r \in InFlight("ListClasses")' : r.ns = list'.ns
    BY <1>2, <1>4 DEF SessionInv, SpinnersHaveRequests
  <2> QED
    BY <1>1, <1>2, <2>1 DEF SessionInv, SpinnersHaveRequests
<1> QED
  BY <1>6, <1>7, <1>8, <1>9 DEF SessionInv

LEMMA QueryResultKeeps == SessionInv /\ QueryResult => SessionInv'
<1> SUFFICES ASSUME SessionInv, QueryResult PROVE SessionInv'
  OBVIOUS
<1>1. /\ inflight # <<>> /\ head.op = "Query" /\ Taken
      /\ \/ query' = [query EXCEPT !.data = Answer, !.loading = FALSE]
         \/ query' = [query EXCEPT !.loading = FALSE]
         \/ head.id # query.latest /\ query' = query
      /\ UNCHANGED <<status, pendingNs, connecting, probes, activeNs, selected, tree,
                     classCache, list, panels, counts, counting>>
  BY DEF QueryResult, Answered, session, connectVars
<1>2. /\ inflight' \in Seq(Request) /\ sent' \in Nat /\ sent' = sent /\ target' = target
      /\ Answer \in Slot /\ \A o \in Answer : o.host = target
      /\ \A op : \A r \in InFlight(op) : r = head \/ r \in InFlight(op)'
      /\ \A op : op # head.op => InFlight(op) \subseteq InFlight(op)'
  BY <1>1, ReplyTaken
<1>3. /\ QueryTyped' /\ query'.latest = query.latest
      /\ query'.data = query.data \/ query'.data = Answer
      /\ query'.loading => query.loading /\ head.id # query.latest
  <2>1. QueryTyped
    BY DEF SessionInv, TypeOK, QueryTyped
  <2> QED
    BY <1>1, <1>2, <2>1 DEF QueryTyped
<1>4. TypeOK'
  BY <1>1, <1>2, <1>3 DEF SessionInv, TypeOK, QueryTyped
<1>5. WorkerIsOnConnectedHost'
  <2>1. ASSUME NEW o \in OnScreen' PROVE o \in OnScreen \/ o.host = target
    BY <1>1, <1>2, <1>3, <2>1 DEF OnScreen
  <2> QED
    BY <1>1, <1>2, <2>1, ReplyIsOfTheHost DEF SessionInv
<1>6. ListIsOfItsNamespace'
  BY <1>1 DEF SessionInv, ListIsOfItsNamespace
<1>7. SpinnersHaveRequests'
  <2>1. query'.loading => \E r \in InFlight("Query")' : r.id = query'.latest
    BY <1>2, <1>3 DEF SessionInv, SpinnersHaveRequests
  <2> QED
    BY <1>1, <1>2, <2>1 DEF SessionInv, SpinnersHaveRequests
<1> QED
  BY <1>4, <1>5, <1>6, <1>7 DEF SessionInv

(* A panel's answer goes to the class that is looked at, or nowhere.       *)
LEMMA PanelReplyKeeps ==
  ASSUME SessionInv, NEW p \in Panels, PanelReply(p)
  PROVE  SessionInv'
<1>1. /\ inflight # <<>> /\ head.op = p /\ Taken
      /\ \/ /\ head.class = panels[p].class
            /\ panels' = [panels EXCEPT ![p].data = Answer, ![p].loading = FALSE]
         \/ head.class # panels[p].class /\ panels' = panels
         \/ panels' = [panels EXCEPT ![p].loading = FALSE]
      /\ UNCHANGED <<status, pendingNs, connecting, probes, activeNs, selected, tree,
                     classCache, list, query, counts, counting>>
  BY DEF PanelReply, Answered, session, connectVars
<1>2. /\ inflight' \in Seq(Request) /\ sent' \in Nat /\ sent' = sent /\ target' = target
      /\ Answer \in Slot /\ \A o \in Answer : o.host = target
      /\ \A op : \A r \in InFlight(op) : r = head \/ r \in InFlight(op)'
      /\ \A op : op # head.op => InFlight(op) \subseteq InFlight(op)'
  BY <1>1, ReplyTaken
<1> DEFINE Panel == [class : Classes \cup {NoClass}, data : Slot, loading : BOOLEAN]
<1>3. panels \in [Panels -> Panel] /\ panels[p] \in Panel
  BY DEF SessionInv, TypeOK
<1>4. \/ panels' = panels /\ head.class # panels[p].class
      \/ panels' = [panels EXCEPT ![p] = [class |-> panels[p].class, data |-> Answer,
                                          loading |-> FALSE]]
      \/ panels' = [panels EXCEPT ![p] = [class |-> panels[p].class, data |-> panels[p].data,
                                          loading |-> FALSE]]
  BY <1>1, <1>3
<1>5. panels' \in [Panels -> Panel]
  <2>1. [class |-> panels[p].class, data |-> Answer, loading |-> FALSE] \in Panel
    BY <1>2, <1>3
  <2>2. [class |-> panels[p].class, data |-> panels[p].data, loading |-> FALSE] \in Panel
    BY <1>3
  <2> HIDE DEF Panel
  <2> QED
    BY <1>3, <1>4, <2>1, <2>2
<1>6. \A k \in Panels : panels'[k].data = panels[k].data \/ panels'[k].data = Answer
  BY <1>3, <1>4
<1>7. /\ panels'["ClassMof"].class = panels["ClassMof"].class
      /\ panels'["ClassMof"].loading =>
           panels["ClassMof"].loading
           /\ (p # "ClassMof" \/ head.class # panels["ClassMof"].class)
  BY <1>3, <1>4 DEF Panels
<1>8. TypeOK'
  <2>1. QueryTyped'
    BY <1>1, <1>2 DEF SessionInv, TypeOK, QueryTyped
  <2> QED
    BY <1>1, <1>2, <1>5, <2>1 DEF SessionInv, TypeOK, QueryTyped
<1>9. WorkerIsOnConnectedHost'
  <2>1. ASSUME NEW o \in OnScreen' PROVE o \in OnScreen \/ o.host = target
    <3>1. \/ o \in tree'.data \/ o \in list'.data \/ o \in query'.data
          \/ \E ns \in Namespaces : o \in classCache'[ns]
          \/ \E c \in Classes : o \in counts'[c]
          \/ o \in panels'["ClassSchema"].data \/ o \in panels'["Associations"].data
      BY <2>1 DEF OnScreen
    <3> QED
      BY <1>1, <1>2, <1>6, <3>1 DEF OnScreen, Panels
  <2> QED
    BY <1>1, <1>2, <2>1, ReplyIsOfTheHost DEF SessionInv
<1>10. ListIsOfItsNamespace'
  BY <1>1 DEF SessionInv, ListIsOfItsNamespace
<1>11. SpinnersHaveRequests'
  <2>1. head.op \notin {"ListChildNamespaces", "ListClasses", "Query", "InstanceCount", "SetHost"}
    BY <1>1 DEF Panels
  <2>2. panels'["ClassMof"].loading =>
          \E r \in InFlight("ClassMof")' : r.class = panels'["ClassMof"].class
    BY <1>1, <1>2, <1>7 DEF SessionInv, SpinnersHaveRequests
  <2>3. tree.loading => InFlight("ListChildNamespaces")' # {}
    BY <1>2, <2>1 DEF SessionInv, SpinnersHaveRequests
  <2>4. list.loading => \E r \in InFlight("ListClasses")' : r.ns = list.ns
    BY <1>2, <2>1 DEF SessionInv, SpinnersHaveRequests
  <2>5. query.loading => \E r \in InFlight("Query")' : r.id = query.latest
    BY <1>2, <2>1 DEF SessionInv, SpinnersHaveRequests
  <2>6. \A c \in counting : \E r \in InFlight("InstanceCount")' : r.class = c
    BY <1>2, <2>1 DEF SessionInv, SpinnersHaveRequests
  <2>7. status.is = "connecting" \/ pendingNs # {} \/ connecting # {} => InFlight("SetHost")' # {}
    BY <1>2, <2>1 DEF SessionInv, SpinnersHaveRequests
  <2> QED
    BY <1>1, <2>2, <2>3, <2>4, <2>5, <2>6, <2>7 DEF SpinnersHaveRequests
<1> QED
  BY <1>8, <1>9, <1>10, <1>11 DEF SessionInv

LEMMA InstanceCountKeeps == SessionInv /\ InstanceCount => SessionInv'
<1> SUFFICES ASSUME SessionInv, InstanceCount PROVE SessionInv'
  OBVIOUS
<1>1. /\ inflight # <<>> /\ head.op = "InstanceCount" /\ Taken
      /\ counting' = counting \ {head.class}
      /\ counts' = [counts EXCEPT ![head.class] = Answer] \/ counts' = counts
      /\ UNCHANGED <<status, pendingNs, connecting, probes, activeNs, selected, tree,
                     classCache, list, query, panels>>
  BY DEF InstanceCount, Answered, session, connectVars
<1>2. /\ inflight' \in Seq(Request) /\ sent' \in Nat /\ sent' = sent /\ target' = target
      /\ Answer \in Slot /\ \A o \in Answer : o.host = target
      /\ \A op : \A r \in InFlight(op) : r = head \/ r \in InFlight(op)'
      /\ \A op : op # head.op => InFlight(op) \subseteq InFlight(op)'
  BY <1>1, ReplyTaken
<1>3. counts \in [Classes -> Slot] /\ counting \in SUBSET Classes
  BY DEF SessionInv, TypeOK
<1>4. /\ counts' \in [Classes -> Slot] /\ counting' \in SUBSET Classes
      /\ \A c \in Classes : counts'[c] = counts[c] \/ counts'[c] = Answer
  BY <1>1, <1>2, <1>3
<1>5. TypeOK'
  <2>1. QueryTyped'
    BY <1>1, <1>2 DEF SessionInv, TypeOK, QueryTyped
  <2> QED
    BY <1>1, <1>2, <1>4, <2>1 DEF SessionInv, TypeOK, QueryTyped
<1>6. WorkerIsOnConnectedHost'
  <2>1. ASSUME NEW o \in OnScreen' PROVE o \in OnScreen \/ o.host = target
    <3>1. \/ o \in tree'.data \/ o \in list'.data \/ o \in query'.data
          \/ \E ns \in Namespaces : o \in classCache'[ns]
          \/ \E c \in Classes : o \in counts'[c]
          \/ o \in panels'["ClassSchema"].data \/ o \in panels'["Associations"].data
      BY <2>1 DEF OnScreen
    <3> QED
      BY <1>1, <1>2, <1>4, <3>1 DEF OnScreen
  <2> QED
    BY <1>1, <1>2, <2>1, ReplyIsOfTheHost DEF SessionInv
<1>7. ListIsOfItsNamespace'
  BY <1>1 DEF SessionInv, ListIsOfItsNamespace
<1>8. SpinnersHaveRequests'
  <2>1. \A c \in counting' : \E r \in InFlight("InstanceCount")' : r.class = c
    BY <1>1, <1>2 DEF SessionInv, SpinnersHaveRequests
  <2> QED
    BY <1>1, <1>2, <2>1 DEF SessionInv, SpinnersHaveRequests
<1> QED
  BY <1>5, <1>6, <1>7, <1>8 DEF SessionInv

(* The requests of a new host's session follow those still in flight.      *)
LEMMA SeedAdds ==
  ASSUME inflight \in Seq(Request), inflight # <<>>, sent \in Nat, NEW ns \in Namespaces,
         inflight' = Tail(inflight) \o Numbered(Seed(ns), sent), sent' = sent + Len(Seed(ns))
  PROVE  /\ inflight' \in Seq(Request) /\ sent' \in Nat /\ sent <= sent' /\ head \in Request
         /\ \A op : op # head.op => InFlight(op) \subseteq InFlight(op)'
         /\ InFlight("ListChildNamespaces")' # {}
         /\ \E r \in InFlight("ListClasses")' : r.ns = ns
         /\ ns = Default => /\ sent + 3 \in 0 .. sent'
                            /\ \E r \in InFlight("Query")' : r.id = sent + 3
<1> DEFINE seed == Seed(ns)
           more == Numbered(seed, sent)
           rest == Tail(inflight)
<1>1. /\ seed \in Seq(Asked) /\ Len(seed) = IF ns = Default THEN 3 ELSE 2
      /\ seed[1].op = "ListChildNamespaces"
      /\ seed[2].op = "ListClasses" /\ seed[2].ns = ns
      /\ (ns = Default => seed[3].op = "Query")
  BY SeedIs
<1>2. inflight' = rest \o more /\ sent' = sent + Len(seed)
  OBVIOUS
<1> HIDE DEF seed
<1>3. /\ more \in Seq(Request) /\ Len(more) = Len(seed)
      /\ \A j \in 1 .. Len(seed) :
           more[j] = [id |-> sent + j, op |-> seed[j].op, ns |-> seed[j].ns,
                      class |-> seed[j].class, host |-> seed[j].host]
  BY <1>1, NumberedIsTyped, Zenon
<1>4. /\ rest \in Seq(Request) /\ head \in Request
      /\ \A k \in DOMAIN inflight :
           k = 1 \/ (k - 1 \in DOMAIN rest /\ rest[k - 1] = inflight[k])
  BY TailKeeps DEF head
<1> HIDE DEF more, rest
<1>5. /\ inflight' \in Seq(Request)
      /\ \A k \in DOMAIN rest : k \in DOMAIN inflight' /\ inflight'[k] = rest[k]
      /\ \A j \in 1 .. Len(more) :
           /\ Len(rest) + j \in DOMAIN inflight'
           /\ inflight'[Len(rest) + j] = more[j]
  <2>1. /\ rest \o more \in Seq(Request)
        /\ \A k \in DOMAIN rest : k \in DOMAIN (rest \o more) /\ (rest \o more)[k] = rest[k]
        /\ \A j \in 1 .. Len(more) :
             /\ Len(rest) + j \in DOMAIN (rest \o more)
             /\ (rest \o more)[Len(rest) + j] = more[j]
    BY <1>3, <1>4, AppendAdds, Zenon
  <2> QED
    BY <1>2, <2>1, Zenon
<1>6. ASSUME NEW op, op # head.op, NEW r \in InFlight(op) PROVE r \in InFlight(op)'
  <2>1. PICK k \in DOMAIN inflight : inflight[k] = r /\ r.op = op
    BY <1>6 DEF InFlight
  <2>2. k # 1
    BY <2>1, <1>6 DEF head
  <2>3. k - 1 \in DOMAIN inflight' /\ inflight'[k - 1] = r
    BY <2>1, <2>2, <1>4, <1>5
  <2> QED
    BY <2>1, <2>3 DEF InFlight
<1>7. \A j \in 1 .. Len(seed) : \E k \in DOMAIN inflight' :
        inflight'[k] = [id |-> sent + j, op |-> seed[j].op, ns |-> seed[j].ns,
                        class |-> seed[j].class, host |-> seed[j].host]
  BY <1>3, <1>5
<1>8. 1 \in 1 .. Len(seed) /\ 2 \in 1 .. Len(seed) /\ (ns = Default => 3 \in 1 .. Len(seed))
      /\ sent' \in Nat /\ sent <= sent' /\ (ns = Default => sent + 3 \in 0 .. sent')
  BY <1>1, <1>2
<1>9. InFlight("ListChildNamespaces")' # {}
  <2>1. PICK k \in DOMAIN inflight' :
          inflight'[k] = [id |-> sent + 1, op |-> seed[1].op, ns |-> seed[1].ns,
                          class |-> seed[1].class, host |-> seed[1].host]
    BY <1>7, <1>8, Zenon
  <2>2. inflight'[k].op = "ListChildNamespaces"
    BY <1>1, <2>1
  <2>3. inflight'[k] \in InFlight("ListChildNamespaces")'
    BY <2>2 DEF InFlight
  <2> QED
    BY <2>2, <2>3
<1>10. \E r \in InFlight("ListClasses")' : r.ns = ns
  <2>1. PICK k \in DOMAIN inflight' :
          inflight'[k] = [id |-> sent + 2, op |-> seed[2].op, ns |-> seed[2].ns,
                          class |-> seed[2].class, host |-> seed[2].host]
    BY <1>7, <1>8, Zenon
  <2>2. inflight'[k].op = "ListClasses" /\ inflight'[k].ns = ns
    BY SMTT(30), ZenonT(30), <1>1, <2>1
  <2>3. inflight'[k] \in InFlight("ListClasses")'
    BY <2>2 DEF InFlight
  <2> QED
    BY <2>2, <2>3
<1>11. ns = Default => \E r \in InFlight("Query")' : r.id = sent + 3
  <2> SUFFICES ASSUME ns = Default PROVE \E r \in InFlight("Query")' : r.id = sent + 3
    OBVIOUS
  <2>1. PICK k \in DOMAIN inflight' :
          inflight'[k] = [id |-> sent + 3, op |-> seed[3].op, ns |-> seed[3].ns,
                          class |-> seed[3].class, host |-> seed[3].host]
    BY <1>7, <1>8, Zenon
  <2>2. inflight'[k].op = "Query" /\ inflight'[k].id = sent + 3
    BY SMTT(30), ZenonT(30), <1>1, <2>1
  <2>3. inflight'[k] \in InFlight("Query")'
    BY <2>2 DEF InFlight
  <2> QED
    BY <2>2, <2>3
<1> QED
  BY <1>4, <1>5, <1>6, <1>8, <1>9, <1>10, <1>11

(* The row in the slot is told, whichever it is.                           *)
LEMMA ProbesAreTyped ==
  ASSUME TypeOK, NEW outcome \in {"online", "failed"}, NEW host \in Hosts,
         NoteProbe(outcome, host)
  PROVE  probes' \in [Hosts -> [is : {"unknown", "connecting", "online", "failed"}, host : Hosts]]
         /\ connecting' = {}
BY DEF NoteProbe, TypeOK

(* A new host's session starts from nothing but the MOF.                   *)
LEMMA HostConnectedKeeps == SessionInv /\ HostConnected => SessionInv'
<1> SUFFICES ASSUME SessionInv, HostConnected PROVE SessionInv'
  OBVIOUS
<1>1. PICK ns \in Namespaces :
        /\ activeNs' = ns
        /\ list' = [ns |-> ns, data |-> {}, loading |-> TRUE]
        /\ query' = IF ns = Default THEN [latest |-> sent + 3, data |-> {}, loading |-> TRUE]
                    ELSE [query EXCEPT !.data = {}]
        /\ sent' = sent + Len(Seed(ns))
        /\ inflight' = Tail(inflight) \o Numbered(Seed(ns), sent)
  BY DEF HostConnected, Loading
<1>2. /\ inflight # <<>> /\ head.op = "SetHost" /\ target' = head.host
      /\ status' = [is |-> "connected", host |-> head.host]
      /\ NoteProbe("online", head.host) /\ pendingNs' = {} /\ selected' = NoClass
      /\ tree' = [data |-> {}, loading |-> TRUE]
      /\ classCache' = [m \in Namespaces |-> {}]
      /\ panels' = [p \in Panels |->
                      IF p = "ClassMof" THEN panels[p]
                      ELSE [panels[p] EXCEPT !.class = NoClass, !.data = {}]]
      /\ counts' = [c \in Classes |-> {}] /\ counting' = {}
  BY DEF HostConnected, Answered, CacheAfterReset, NoCache
<1>3. inflight \in Seq(Request) /\ sent \in Nat
  BY DEF SessionInv, TypeOK
<1>4. /\ inflight' \in Seq(Request) /\ sent' \in Nat /\ sent <= sent' /\ head \in Request
      /\ \A op : op # head.op => InFlight(op) \subseteq InFlight(op)'
      /\ InFlight("ListChildNamespaces")' # {}
      /\ \E r \in InFlight("ListClasses")' : r.ns = ns
      /\ (ns = Default => /\ sent + 3 \in 0 .. sent'
                          /\ \E r \in InFlight("Query")' : r.id = sent + 3)
  BY <1>1, <1>2, <1>3, SeedAdds
<1>5. head.host \in Hosts
  BY <1>4 DEF Request
<1>6. /\ probes' \in [Hosts -> [is : {"unknown", "connecting", "online", "failed"}, host : Hosts]]
      /\ connecting' = {}
  BY <1>2, <1>5, ProbesAreTyped DEF SessionInv
<1>7. QueryTyped' /\ query'.data = {}
      /\ (query'.loading => \E r \in InFlight("Query")' : r.id = query'.latest)
  <2>1. CASE ns = Default
    <3>1. query' = [latest |-> sent + 3, data |-> {}, loading |-> TRUE]
      BY <1>1, <2>1
    <3> QED
      BY <1>4, <2>1, <3>1, SlotOfOne DEF QueryTyped
  <2>2. CASE ns # Default
    <3>1. query.latest \in 0 .. sent /\ query.loading \in BOOLEAN
          /\ query' = [latest |-> query.latest, data |-> {}, loading |-> query.loading]
      BY <1>1, <2>2 DEF SessionInv, TypeOK
    <3>2. query.latest \in 0 .. sent'
      BY <1>3, <1>4, <3>1
    <3>3. query.loading => \E r \in InFlight("Query")' : r.id = query.latest
      BY <1>2, <1>4 DEF SessionInv, SpinnersHaveRequests
    <3> QED
      BY <3>1, <3>2, <3>3, SlotOfOne DEF QueryTyped
  <2> QED
    BY <2>1, <2>2
<1>8. /\ panels' \in [Panels -> [class : Classes \cup {NoClass}, data : Slot, loading : BOOLEAN]]
      /\ panels'["ClassSchema"].data = {} /\ panels'["Associations"].data = {}
      /\ panels'["ClassMof"] = panels["ClassMof"]
  BY SMTT(30), ZenonT(30), <1>2, SlotOfOne DEF SessionInv, TypeOK, Panels
<1>9. TypeOK'
  <2>1. tree' \in [data : Slot, loading : BOOLEAN] /\ classCache' \in [Namespaces -> Slot]
        /\ counts' \in [Classes -> Slot]
        /\ list' \in [ns : Namespaces, data : Slot, loading : BOOLEAN]
    BY <1>1, <1>2, SlotOfOne
  <2> QED
    BY <1>1, <1>2, <1>4, <1>5, <1>6, <1>7, <1>8, <2>1 DEF TypeOK, QueryTyped
<1>10. WorkerIsOnConnectedHost'
  <2>1. ASSUME NEW o \in OnScreen' PROVE FALSE
    <3>1. \/ o \in tree'.data \/ o \in list'.data \/ o \in query'.data
          \/ \E m \in Namespaces : o \in classCache'[m]
          \/ \E c \in Classes : o \in counts'[c]
          \/ o \in panels'["ClassSchema"].data \/ o \in panels'["Associations"].data
      BY <2>1 DEF OnScreen
    <3> QED
      BY <1>1, <1>2, <1>7, <1>8, <3>1
  <2> QED
    BY <1>2, <2>1 DEF WorkerIsOnConnectedHost
<1>11. ListIsOfItsNamespace'
  BY <1>1, <1>2 DEF ListIsOfItsNamespace
<1>12. SpinnersHaveRequests'
  <2>1. panels'["ClassMof"].loading =>
          \E r \in InFlight("ClassMof")' : r.class = panels'["ClassMof"].class
    BY <1>2, <1>4, <1>8 DEF SessionInv, SpinnersHaveRequests
  <2> QED
    BY <1>1, <1>2, <1>4, <1>6, <1>7, <2>1 DEF SpinnersHaveRequests
<1> QED
  BY <1>9, <1>10, <1>11, <1>12 DEF SessionInv

LEMMA ConnectFailedKeeps == SessionInv /\ ConnectFailed => SessionInv'
<1> SUFFICES ASSUME SessionInv, ConnectFailed PROVE SessionInv'
  OBVIOUS
<1>1. /\ inflight # <<>> /\ head.op = "SetHost" /\ inflight' = Tail(inflight) /\ sent' = sent
      /\ target' = head.host /\ status' = [is |-> "failed", host |-> head.host]
      /\ NoteProbe("failed", head.host) /\ pendingNs' = {}
      /\ UNCHANGED <<activeNs, selected, tree, classCache, list, query, panels, counts, counting>>
  BY DEF ConnectFailed, Answered, StatusOnFailure, screenVars
<1>2. inflight \in Seq(Request) /\ sent \in Nat
  BY DEF SessionInv, TypeOK
<1>3. /\ inflight' \in Seq(Request) /\ head \in Request
      /\ \A op : op # head.op => InFlight(op) \subseteq InFlight(op)'
  BY <1>1, <1>2, TakenLeaves
<1>4. head.host \in Hosts
  BY <1>3 DEF Request
<1>5. /\ probes' \in [Hosts -> [is : {"unknown", "connecting", "online", "failed"}, host : Hosts]]
      /\ connecting' = {}
  BY <1>1, <1>4, ProbesAreTyped DEF SessionInv
<1>6. TypeOK'
  <2>1. QueryTyped'
    BY <1>1 DEF SessionInv, TypeOK, QueryTyped
  <2> QED
    BY <1>1, <1>2, <1>3, <1>4, <1>5, <2>1 DEF SessionInv, TypeOK, QueryTyped
<1>7. WorkerIsOnConnectedHost'
  BY <1>1 DEF WorkerIsOnConnectedHost
<1>8. ListIsOfItsNamespace'
  BY <1>1 DEF SessionInv, ListIsOfItsNamespace
<1>9. SpinnersHaveRequests'
  BY <1>1, <1>3, <1>5 DEF SessionInv, SpinnersHaveRequests
<1> QED
  BY <1>6, <1>7, <1>8, <1>9 DEF SessionInv

-----------------------------------------------------------------------------
(*                              The theorems                               *)

(* The session starts with the worker's opening requests in flight.        *)
LEMMA InitHolds == Init => SessionInv
<1> SUFFICES ASSUME Init PROVE SessionInv
  OBVIOUS
<1> DEFINE seed == Seed(activeNs)
           opening == Numbered(seed, 0)
<1>1. /\ activeNs \in Namespaces /\ selected = NoClass /\ target = Local
      /\ sent = Len(seed) /\ inflight = opening
      /\ status = [is |-> "connected", host |-> Local]
      /\ pendingNs = {} /\ connecting = {}
      /\ probes = [h \in Hosts |-> [is |-> "unknown", host |-> Local]]
      /\ tree = [data |-> {}, loading |-> TRUE]
      /\ classCache = [ns \in Namespaces |-> {}]
      /\ list = [ns |-> activeNs, data |-> {}, loading |-> TRUE]
      /\ query = IF activeNs = Default THEN [latest |-> 3, data |-> {}, loading |-> TRUE]
                 ELSE [latest |-> 0, data |-> {}, loading |-> FALSE]
      /\ panels = [p \in Panels |-> [class |-> NoClass, data |-> {}, loading |-> FALSE]]
      /\ counts = [c \in Classes |-> {}] /\ counting = {}
  BY DEF Init, Unknown, NoCache, Loading, EmptyPanel
<1>2. /\ seed \in Seq(Asked) /\ Len(seed) = IF activeNs = Default THEN 3 ELSE 2
      /\ seed[1].op = "ListChildNamespaces"
      /\ seed[2].op = "ListClasses" /\ seed[2].ns = activeNs
      /\ (activeNs = Default => seed[3].op = "Query")
  BY <1>1, SeedIs
<1> HIDE DEF seed
<1>3. /\ opening \in Seq(Request) /\ Len(opening) = Len(seed)
      /\ \A j \in 1 .. Len(seed) :
           opening[j] = [id |-> 0 + j, op |-> seed[j].op, ns |-> seed[j].ns,
                         class |-> seed[j].class, host |-> seed[j].host]
  <2>1. 0 \in Nat
    OBVIOUS
  <2> QED
    BY <1>2, <2>1, NumberedIsTyped, Zenon
<1> HIDE DEF opening
<1>4. 1 \in 1 .. Len(seed) /\ 2 \in 1 .. Len(seed) /\ (activeNs = Default => 3 \in 1 .. Len(seed))
      /\ sent \in Nat /\ (activeNs = Default => 3 \in 0 .. sent) /\ 0 \in 0 .. sent
  BY <1>1, <1>2
<1>5. \A j \in 1 .. Len(seed) : inflight[j] \in InFlight(seed[j].op)
                                /\ inflight[j].id = j /\ inflight[j].ns = seed[j].ns
  <2> SUFFICES ASSUME NEW j \in 1 .. Len(seed)
               PROVE  inflight[j] \in InFlight(seed[j].op)
                      /\ inflight[j].id = j /\ inflight[j].ns = seed[j].ns
    OBVIOUS
  <2>1. inflight[j] = [id |-> 0 + j, op |-> seed[j].op, ns |-> seed[j].ns,
                       class |-> seed[j].class, host |-> seed[j].host]
    BY <1>1, <1>3
  <2>2. j \in DOMAIN inflight
    BY <1>1, <1>3
  <2>3. inflight[j].op = seed[j].op /\ inflight[j].id = j /\ inflight[j].ns = seed[j].ns
    BY <2>1
  <2> QED
    BY <2>2, <2>3 DEF InFlight
<1>6. QueryTyped /\ query.data = {} /\ (query.loading => activeNs = Default /\ query.latest = 3)
  <2>1. CASE activeNs = Default
    BY <1>1, <1>4, <2>1, SlotOfOne DEF QueryTyped
  <2>2. CASE activeNs # Default
    BY <1>1, <1>4, <2>2, SlotOfOne DEF QueryTyped
  <2> QED
    BY <2>1, <2>2
<1>7. TypeOK
  <2>1. inflight \in Seq(Request)
    BY <1>1, <1>3
  <2>2. /\ status \in [is : {"connected", "connecting", "failed"}, host : Hosts]
        /\ probes \in [Hosts -> [is : {"unknown", "connecting", "online", "failed"}, host : Hosts]]
    BY <1>1, SessionAssumption
  <2>3. /\ tree \in [data : Slot, loading : BOOLEAN] /\ classCache \in [Namespaces -> Slot]
        /\ list \in [ns : Namespaces, data : Slot, loading : BOOLEAN]
        /\ panels \in [Panels -> [class : Classes \cup {NoClass}, data : Slot, loading : BOOLEAN]]
        /\ counts \in [Classes -> Slot]
    BY <1>1, SlotOfOne
  <2> QED
    BY <1>1, <1>4, <1>6, <2>1, <2>2, <2>3, SessionAssumption DEF TypeOK, QueryTyped
<1>8. WorkerIsOnConnectedHost
  <2>1. ASSUME NEW o \in OnScreen PROVE FALSE
    <3>1. \/ o \in tree.data \/ o \in list.data \/ o \in query.data
          \/ \E m \in Namespaces : o \in classCache[m]
          \/ \E c \in Classes : o \in counts[c]
          \/ o \in panels["ClassSchema"].data \/ o \in panels["Associations"].data
      BY <2>1 DEF OnScreen
    <3>2. panels["ClassSchema"].data = {} /\ panels["Associations"].data = {}
      BY <1>1 DEF Panels
    <3> QED
      BY <1>1, <1>6, <3>1, <3>2
  <2> QED
    BY <1>1, <2>1 DEF WorkerIsOnConnectedHost
<1>9. ListIsOfItsNamespace
  BY <1>1 DEF ListIsOfItsNamespace
<1>10. SpinnersHaveRequests
  <2>1. InFlight("ListChildNamespaces") # {}
    BY <1>2, <1>4, <1>5
  <2>2. \E r \in InFlight("ListClasses") : r.ns = list.ns
    BY <1>1, <1>2, <1>4, <1>5
  <2>3. query.loading => \E r \in InFlight("Query") : r.id = query.latest
    BY <1>2, <1>4, <1>5, <1>6
  <2>4. ~panels["ClassMof"].loading /\ status.is # "connecting"
    BY <1>1 DEF Panels
  <2> QED
    BY <1>1, <2>1, <2>2, <2>3, <2>4 DEF SpinnersHaveRequests
<1> QED
  BY <1>7, <1>8, <1>9, <1>10 DEF SessionInv

LEMMA StepKeeps == SessionInv /\ [Next]_vars => SessionInv'
<1> SUFFICES ASSUME SessionInv, [Next]_vars PROVE SessionInv'
  OBVIOUS
<1>1. CASE ExpandTree
  BY <1>1, ExpandTreeKeeps
<1>2. CASE RunQuery
  BY <1>2, RunQueryKeeps
<1>3. CASE ShowSchemaTab
  BY <1>3, ShowSchemaTabKeeps
<1>4. CASE \E ns \in Namespaces : SelectNamespace(ns)
  BY <1>4, SelectNamespaceKeeps
<1>5. CASE \E c \in Classes : SelectClass(c)
  BY <1>5, SelectClassKeeps
<1>6. CASE \E c \in Connects : Connect(c)
  BY <1>6, ConnectKeeps
<1>7. CASE ChildNamespaces
  BY <1>7, ChildNamespacesKeeps
<1>8. CASE ClassList
  BY <1>8, ClassListKeeps
<1>9. CASE QueryResult
  BY <1>9, QueryResultKeeps
<1>10. CASE InstanceCount
  BY <1>10, InstanceCountKeeps
<1>11. CASE \E p \in Panels : PanelReply(p)
  BY <1>11, PanelReplyKeeps
<1>12. CASE HostConnected
  BY <1>12, HostConnectedKeeps
<1>13. CASE ConnectFailed
  BY <1>13, ConnectFailedKeeps
<1>14. CASE UNCHANGED vars
  BY <1>14 DEF vars, SessionInv, TypeOK, WorkerIsOnConnectedHost, OnScreen,
               ListIsOfItsNamespace, SpinnersHaveRequests, InFlight
<1> QED
  BY <1>1, <1>2, <1>3, <1>4, <1>5, <1>6, <1>7, <1>8, <1>9, <1>10, <1>11, <1>12, <1>13, <1>14
     DEF Next, User, HandleResponse

(* Every state of the session satisfies its inductive invariant.           *)
THEOREM SessionInvariant == Spec => []SessionInv
<1> QED
  BY InitHolds, StepKeeps, PTL DEF Spec

(* While the title bar says connected, everything on screen but the MOF    *)
(* came from the machine it names, and so will the next answer unless      *)
(* another connect is already sent (reset_and_reseed, HostConnected).      *)
THEOREM ScreenTellsTheTruth == Spec => []ScreenIsOfConnectedHost
<1>1. SessionInv => ScreenIsOfConnectedHost
  BY DEF SessionInv, WorkerIsOnConnectedHost, ScreenIsOfConnectedHost
<1> QED
  BY <1>1, SessionInvariant, PTL

(* The class list shown, and every list that is cached, is of the          *)
(* namespace it stands under (request_classes, the ClassList reply).       *)
THEOREM ListTellsTheTruth == Spec => []ListIsOfItsNamespace
<1>1. SessionInv => ListIsOfItsNamespace
  BY DEF SessionInv
<1> QED
  BY <1>1, SessionInvariant, PTL

(* Each spinner has the request that will clear it in flight, whatever the *)
(* clicks, switches, connects and failures before.                         *)
THEOREM NoSpinnerTurnsForEver == Spec => []SpinnersHaveRequests
<1>1. SessionInv => SpinnersHaveRequests
  BY DEF SessionInv
<1> QED
  BY <1>1, SessionInvariant, PTL
=============================================================================
