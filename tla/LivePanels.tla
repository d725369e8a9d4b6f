------------------------------- MODULE LivePanels -------------------------------
(***************************************************************************)
(* The views that fetch by themselves: Network, which snapshots the        *)
(* sockets on the frame clock, and Persistence and Providers, which load   *)
(* when they are opened (App::ui in app.rs, views/network.rs,              *)
(* views/persistence.rs, views/providers.rs).                              *)
(*                                                                         *)
(* The worker answers in the order it was asked, and stays pointed at the  *)
(* last host it was given, reached or not (WmiWorker): a request is here   *)
(* carried out when its answer is taken in.                                *)
(***************************************************************************)
EXTENDS Naturals, Sequences, FiniteSets

CONSTANTS
  Hosts,         (* machines to connect to                                 *)
  Sockets,       (* TcpConn::key()s                                        *)
  NetRefresh,    (* NET_REFRESH_SECS, in clock ticks                       *)
  NetFade,       (* NET_FADE_SECS                                          *)
  MaxQueue, MaxClicks, MaxTime   (* bounds: requests under way, clicks on  *)
                                 (* Refresh over Network, clock            *)

ASSUME PanelsAssumption ==
  /\ NetRefresh \in Nat /\ NetFade \in Nat
  /\ MaxQueue \in Nat /\ MaxClicks \in Nat /\ MaxTime \in Nat

Lazy == {"persistence", "providers"}
Views == Lazy \cup {"network", "other"}
Nobody == "nobody"

VARIABLES
  view,          (* the view on screen                                     *)
  now,
  polling,       (* config.live_polling and not net_paused                 *)
  filtered,      (* the filters of Network exclude every row               *)
  queue,         (* the requests sent and not answered                     *)
  bound,         (* the host the worker is pointed at                      *)
  connected,     (* conn_status: the host it names, Nobody otherwise       *)
  inflight,      (* net_inflight                                           *)
  lastRefresh,   (* net_last_refresh                                       *)
  conns,         (* net_conns: socket -> alive, last_seen and its host     *)
  snapshot,      (* what the last snapshot of this host held, if any, and  *)
                 (* when                                                   *)
  clicks,        (* how often Refresh was clicked over Network             *)
  loading,       (* events_loading, providers_loading                      *)
  shown          (* the host events_report and providers are of, or Nobody *)

net == <<inflight, lastRefresh, conns, snapshot, clicks>>
lazy == <<loading, shown>>
panelVars == <<view, now, polling, filtered, queue, bound, connected, net, lazy>>

PanelsInit ==
  /\ view = "other" /\ now = 0 /\ polling \in BOOLEAN /\ filtered = FALSE
  /\ queue = <<>> /\ bound \in Hosts /\ connected = bound
  /\ inflight = FALSE /\ lastRefresh = 0 /\ conns = <<>> /\ snapshot = [known |-> FALSE]
  /\ clicks = 0
  /\ loading = [p \in Lazy |-> FALSE] /\ shown = [p \in Lazy |-> Nobody]

-----------------------------------------------------------------------------
(* A frame, before its view is drawn: the snapshot that is due, and the    *)
(* load of a view that has nothing.                                        *)

(* Mutant of SnapshotDue: whether one is under way is not asked.           *)
SnapshotDueAnyway == view = "network" /\ polling /\ now' - lastRefresh >= NetRefresh

SnapshotDue == view = "network" /\ polling /\ ~inflight /\ now' - lastRefresh >= NetRefresh

LoadDue == view \in Lazy /\ shown[view] = Nobody /\ ~loading[view]

PanelsFrame ==
  /\ now' \in {now, now + 1} /\ now' <= MaxTime
  /\ SnapshotDue \/ LoadDue => Len(queue) < MaxQueue
  /\ IF SnapshotDue
     THEN inflight' = TRUE /\ lastRefresh' = now' /\ queue' = Append(queue, [is |-> "network"])
     ELSE /\ UNCHANGED <<inflight, lastRefresh>>
          /\ queue' = IF LoadDue THEN Append(queue, [is |-> view]) ELSE queue
  /\ loading' = IF LoadDue THEN [loading EXCEPT ![view] = TRUE] ELSE loading
  /\ UNCHANGED <<view, polling, filtered, bound, connected, conns, snapshot, clicks, shown>>

-----------------------------------------------------------------------------
(* The user.                                                               *)

Show(v) ==
  /\ view # v /\ view' = v
  /\ UNCHANGED <<now, polling, filtered, queue, bound, connected, net, lazy>>

(* Pause, or live polling in the settings.                                 *)
TogglePolling ==
  /\ view = "network" /\ polling' = ~polling
  /\ UNCHANGED <<view, now, filtered, queue, bound, connected, net, lazy>>

Filter ==
  /\ view = "network" /\ filtered' = ~filtered
  /\ UNCHANGED <<view, now, polling, queue, bound, connected, net, lazy>>

(* refresh_active_view(), or a view's own Refresh: nothing asks whether a  *)
(* request is under way.                                                   *)
Refresh ==
  /\ view # "other" /\ Len(queue) < MaxQueue
  /\ queue' = Append(queue, [is |-> view])
  /\ IF view = "network"
     THEN /\ clicks < MaxClicks /\ inflight' = TRUE /\ lastRefresh' = now /\ clicks' = clicks + 1
          /\ UNCHANGED <<conns, snapshot, loading>>
     ELSE loading' = [loading EXCEPT ![view] = TRUE] /\ UNCHANGED net
  /\ UNCHANGED <<view, now, polling, filtered, bound, connected, shown>>

(* machines_connect() and apply_host(): to any host, the one the worker is *)
(* on included, and with an earlier connect still under way.               *)
Connect(h) ==
  /\ Len(queue) < MaxQueue
  /\ queue' = Append(queue, [is |-> "connect", host |-> h]) /\ connected' = Nobody
  /\ UNCHANGED <<view, now, polling, filtered, bound, net, lazy>>

-----------------------------------------------------------------------------
(* The answers (handle_responses()).                                       *)

Taken(kind) == queue # <<>> /\ Head(queue).is = kind /\ queue' = Tail(queue)

(* Mutant of StillThere: a socket that is gone stays alive.                *)
StaysAlive(s) == [alive |-> TRUE, seen |-> conns[s].seen, host |-> conns[s].host]

StillThere(s) == [alive |-> FALSE, seen |-> conns[s].seen, host |-> conns[s].host]

(* Mutant of StillFading: a row stays for a snapshot too many.             *)
FadingAtTheEnd(s) == now - conns[s].seen <= NetFade

StillFading(s) == now - conns[s].seen < NetFade

(* Network: everything is marked stale, what is there now is revived, and  *)
(* what has faded out is dropped.                                          *)
NetworkDone ==
  /\ Taken("network") /\ inflight' = FALSE
  /\ \E S \in SUBSET Sockets :
       LET kept == {s \in DOMAIN conns \ S : StillFading(s)}
       IN /\ conns' = [s \in S \cup kept |->
                         IF s \in S THEN [alive |-> TRUE, seen |-> now, host |-> bound]
                         ELSE StillThere(s)]
          /\ snapshot' = [known |-> TRUE, held |-> S, at |-> now]
  /\ UNCHANGED <<view, now, polling, filtered, bound, connected, lastRefresh, clicks, lazy>>

NetworkFailed ==
  /\ Taken("network") /\ inflight' = FALSE
  /\ UNCHANGED <<view, now, polling, filtered, bound, connected, lastRefresh, conns, snapshot,
                 clicks, lazy>>

(* EventSubscriptions, Providers.                                          *)
LazyDone(p) ==
  /\ Taken(p)
  /\ loading' = [loading EXCEPT ![p] = FALSE]
  /\ shown' = [shown EXCEPT ![p] = bound]
  /\ UNCHANGED <<view, now, polling, filtered, bound, connected, net>>

(* Mutant of LoadingAfterError: the error leaves the spinner.              *)
LoadingKept(p) == loading

LoadingAfterError(p) == [loading EXCEPT ![p] = FALSE]

LazyFailed(p) ==
  /\ Taken(p) /\ loading' = LoadingAfterError(p)
  /\ UNCHANGED <<view, now, polling, filtered, bound, connected, net, shown>>

(* Mutant of ShownAfterReset: reset_and_reseed() leaves the providers.     *)
ShownButProviders == [shown EXCEPT !["persistence"] = Nobody]

ShownAfterReset == [p \in Lazy |-> Nobody]

(* HostConnected and reset_and_reseed(): what was held is of another host. *)
HostConnected ==
  /\ Taken("connect")
  /\ bound' = Head(queue).host /\ connected' = bound'
  /\ conns' = <<>> /\ snapshot' = [known |-> FALSE]
  /\ shown' = ShownAfterReset
  /\ UNCHANGED <<view, now, polling, filtered, inflight, lastRefresh, clicks, loading>>

(* The worker stays pointed at the new host; the panels keep what they     *)
(* have, under no name, even if an earlier connect was answered meanwhile. *)
ConnectFailed ==
  /\ Taken("connect") /\ bound' = Head(queue).host /\ connected' = Nobody
  /\ UNCHANGED <<view, now, polling, filtered, net, lazy>>

PanelsNext ==
  \/ PanelsFrame \/ TogglePolling \/ Filter \/ Refresh
  \/ \E v \in Views : Show(v)
  \/ \E h \in Hosts : Connect(h)
  \/ NetworkDone \/ NetworkFailed \/ HostConnected \/ ConnectFailed
  \/ \E p \in Lazy : LazyDone(p) \/ LazyFailed(p)

PanelsSpec == PanelsInit /\ [][PanelsNext]_panelVars

-----------------------------------------------------------------------------
(* Under a host the title bar names, every socket, subscription and        *)
(* provider on screen was read from that host.                             *)
PanelsAreOfTheHost ==
  connected # Nobody =>
    /\ \A s \in DOMAIN conns : conns[s].host = connected
    /\ \A p \in Lazy : shown[p] \in {Nobody, connected}

(* The sockets drawn at full strength are those of the last snapshot, and  *)
(* the others were in one less than NET_FADE_SECS before it.               *)
AliveIsTheSnapshot ==
  /\ snapshot.known =>
       /\ {s \in DOMAIN conns : conns[s].alive} = snapshot.held
       /\ \A s \in DOMAIN conns :
            IF conns[s].alive THEN conns[s].seen = snapshot.at
            ELSE snapshot.at - conns[s].seen < NetFade
  /\ ~snapshot.known => conns = <<>>

UnderWay(kind) == {i \in DOMAIN queue : queue[i].is = kind}

(* Each spinner has an answer still to come, and live polling never has    *)
(* more snapshots under way than the user asked for by hand, plus one.     *)
RequestsAreBounded ==
  /\ inflight => UnderWay("network") # {}
  /\ \A p \in Lazy : loading[p] => UnderWay(p) # {}
  /\ Cardinality(UnderWay("network")) <= clicks + 1

(* What the live panels show is of the host the title bar names and of the *)
(* last snapshot, and their requests do not pile up.                       *)
PanelsAreCurrent == PanelsAreOfTheHost /\ AliveIsTheSnapshot /\ RequestsAreBounded

(* The inductive invariant behind it: a host is named only while the       *)
(* worker is pointed at it, whatever connects are still to be answered,    *)
(* and the snapshots under way are those asked for by hand and the one in  *)
(* flight.                                                                 *)
Requests == [is : Lazy \cup {"network"}] \cup [is : {"connect"}, host : Hosts]

PanelsTypeOK ==
  /\ view \in Views /\ now \in Nat /\ polling \in BOOLEAN /\ filtered \in BOOLEAN
  /\ queue \in Seq(Requests) /\ bound \in Hosts /\ connected \in Hosts \cup {Nobody}
  /\ inflight \in BOOLEAN /\ lastRefresh \in Nat /\ clicks \in Nat
  /\ conns \in [DOMAIN conns -> [alive : BOOLEAN, seen : Nat, host : Hosts]]
  /\ loading \in [Lazy -> BOOLEAN] /\ shown \in [Lazy -> Hosts \cup {Nobody}]

PanelsInv ==
  /\ PanelsTypeOK /\ PanelsAreCurrent
  /\ connected # Nobody => connected = bound
  /\ Cardinality(UnderWay("network")) <= clicks + (IF inflight THEN 1 ELSE 0)

(* What Network says when it has no row to show (net_empty_note()).        *)
Note ==
  IF conns = <<>> THEN IF inflight THEN "reading" ELSE "the snapshot came back empty"
  ELSE IF filtered THEN "no rows match" ELSE "rows"

(* An empty table says which nothing it is: the snapshot came back empty   *)
(* only if there was one, and it was.                                      *)
EmptyNoteIsTrue ==
  view = "network" /\ Note = "the snapshot came back empty" => snapshot.known /\ snapshot.held = {}
=============================================================================
