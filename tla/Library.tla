-------------------------------- MODULE Library --------------------------------
(***************************************************************************)
(* The configuration as the user's own data: the query history, the saved  *)
(* queries, the connection targets and the preferences (config.rs), the    *)
(* views that change them (query.rs, saved.rs, save_query.rs, settings.rs, *)
(* machines.rs), and their way to the disk: a debounced save at the end of *)
(* a frame, a queue, and the one IO thread (io.rs) that also shows the     *)
(* file dialogs.                                                           *)
(*                                                                         *)
(* A run of a query is known by its request id, which stands for the       *)
(* moment it was dispatched and for the timings it brings back.            *)
(***************************************************************************)
EXTENDS Retain

CONSTANTS
  Texts, NoText,   (* WQL texts                                            *)
  Spaces, NoSpace, (* namespaces; NoSpace is the empty one of an old file  *)
  Names,           (* names of saved queries, 1 .. n in their order        *)
  Folders,         (* folders, 0 being "" and the rest in their order      *)
  TargetKeys, NoTarget, (* target keys; NoTarget is the local machine      *)
  Imports,         (* the library files there are to import                *)
  OldFiles,        (* the config files an earlier session may have left    *)
  HistoryCap,      (* HISTORY_CAP                                          *)
  Debounce,        (* SAVE_DEBOUNCE in ticks of the clock                  *)
  MaxOps           (* bound: user operations, a restart being one          *)

VARIABLES
  config,    (* Config: version, history, saved, targets, prefs            *)
  clock,     (* SaveClock: dirty, and the ticks since the last save        *)
  typed,     (* query_text and active_ns                                   *)
  inflight,  (* queries sent and not answered                              *)
  ops,       (* how many operations, and the next request id               *)
  frame,     (* a frame is being drawn                                     *)
  wake,      (* request_repaint_after() of a frame that found a wait       *)
  ioJobs,    (* the IO thread's queue                                      *)
  io,        (* the job it is at, if any                                   *)
  notes,     (* how many picked files drain_io() has still to take         *)
  disk,      (* config.json: its contents, cut short, or none              *)
  failed,    (* the last write failed                                      *)
  launched   (* the process is running                                     *)

libraryVars == <<config, clock, typed, inflight, ops, frame, wake,
                 ioJobs, io, notes, disk, failed, launched>>

-----------------------------------------------------------------------------
(* What serde reads from a file that parses: every field is there.         *)
IsConfig(c) ==
  c = [version |-> c.version, history |-> c.history, saved |-> c.saved,
       targets |-> c.targets, prefs |-> c.prefs]

IsEntry(e) == e = [wql |-> e.wql, ns |-> e.ns, run |-> e.run, metrics |-> e.metrics]

IsCard(q) ==
  /\ q = [name |-> q.name, wql |-> q.wql, ns |-> q.ns, folder |-> q.folder,
          fav |-> q.fav, metrics |-> q.metrics]
  /\ q.name \in Int /\ q.folder \in Int /\ q.fav \in BOOLEAN

IsTarget(t) == t = [key |-> t.key, seen |-> t.seen]

IsList(s) == s \in Seq({s[k] : k \in DOMAIN s})

Version == 3   (* CONFIG_VERSION *)

Default == [version |-> Version, history |-> <<>>, saved |-> <<>>, targets |-> <<>>, prefs |-> 0]

Cut == [Default EXCEPT !.version = 0]      (* a file that does not parse *)

(* load(): a file that is missing or does not parse gives the default.     *)
Loaded(file) == IF file \subseteq {Cut} THEN Default ELSE CHOOSE c \in file : TRUE

(* migrate().                                                              *)
Migrated(c) == [c EXCEPT !.version = Version]

Never == Debounce + 1     (* last_write is None *)

Owed(k) == k.dirty /\ k.since >= Debounce                     (* Due::Now  *)
Waits(k) == k.dirty /\ k.since < Debounce                     (* Due::In   *)

Write(c) == [kind |-> "Write", contents |-> c]

Stamp == [dirty |-> FALSE, since |-> 0]

(* save() of configuration c: queued now, written by the IO thread later.  *)
Save(c) == config' = c /\ clock' = Stamp /\ ioJobs' = Append(ioJobs, Write(c))

(* Mutant of SaveLater: the change is not marked.                          *)
SaveNever(c) == config' = c /\ UNCHANGED <<clock, ioJobs>>

(* save_debounced().                                                       *)
SaveLater(c) == config' = c /\ clock' = [clock EXCEPT !.dirty = TRUE] /\ UNCHANGED ioJobs

(* Nothing of the IO thread, the file and the process.                     *)
SameProcess == UNCHANGED <<wake, io, notes, disk, failed, launched>>

(* A user's operation, in a frame.                                         *)
Op == launched /\ ops < MaxOps /\ ops' = ops + 1 /\ frame' = TRUE /\ SameProcess

-----------------------------------------------------------------------------
(* History.                                                                *)

IsOf(e, wql, ns) == e.wql = wql /\ e.ns = ns

(* push_history(): once per text and namespace, newest first, capped.      *)
Pushed(h, wql, ns, id) ==
  LET rest == Without(h, {k \in DOMAIN h : IsOf(h[k], wql, ns)}) IN
  SubSeq(<<[wql |-> wql, ns |-> ns, run |-> id, metrics |-> {}]>> \o rest, 1,
         IF Len(rest) + 1 > HistoryCap THEN HistoryCap ELSE Len(rest) + 1)

(* Mutant of Measured: the namespace is not looked at.                     *)
MeasuredAnywhere(s, wql, ns, m) ==
  [k \in DOMAIN s |-> IF s[k].wql = wql THEN [s[k] EXCEPT !.metrics = m] ELSE s[k]]

(* note_query_run(), for the history and for the saved queries.            *)
Measured(s, wql, ns, m) ==
  [k \in DOMAIN s |-> IF IsOf(s[k], wql, ns) THEN [s[k] EXCEPT !.metrics = m] ELSE s[k]]

(* What a run measured: the metrics of run id of that query.               *)
Metrics(q) == {[wql |-> q.wql, ns |-> q.ns, run |-> q.run]}

(* run_query() with the editor as it will be.                              *)
RunIn(ed) ==
  /\ ed.text # NoText
  /\ typed' = ed
  /\ SaveLater([config EXCEPT !.history = Pushed(config.history, ed.text, ed.ns, ops + 1)])
  /\ inflight' = Append(inflight, [wql |-> ed.text, ns |-> ed.ns, run |-> ops + 1])

RunQuery == Op /\ RunIn(typed)

(* The history rail: namespace first, unless the entry has none.           *)
LoadEntry(e) ==
  Op /\ RunIn([text |-> e.wql, ns |-> IF e.ns = NoSpace THEN typed.ns ELSE e.ns])

QueryResult ==
  /\ launched /\ inflight # <<>>
  /\ LET q == Head(inflight)
         c == [config EXCEPT !.history = Measured(config.history, q.wql, q.ns, Metrics(q)),
                             !.saved = Measured(config.saved, q.wql, q.ns, Metrics(q))]
     IN IF c # config THEN SaveLater(c) ELSE UNCHANGED <<config, clock, ioJobs>>
  /\ inflight' = Tail(inflight) /\ frame' = TRUE
  /\ UNCHANGED <<typed, ops>> /\ SameProcess

QueryFailed ==
  /\ launched /\ inflight # <<>>
  /\ inflight' = Tail(inflight) /\ frame' = TRUE
  /\ UNCHANGED <<config, clock, ioJobs, typed, ops>> /\ SameProcess

(* Typing, and choosing a namespace in the Explorer.                       *)
Edit ==
  /\ Op
  /\ \E t \in Texts \cup {NoText}, ns \in Spaces :
       typed # [text |-> t, ns |-> ns] /\ typed' = [text |-> t, ns |-> ns]
  /\ UNCHANGED <<config, clock, ioJobs, inflight>>

-----------------------------------------------------------------------------
(* The library of saved queries.                                           *)

Num(b) == IF b THEN 0 ELSE 1

Before(a, b) ==
  \/ Num(a.fav) < Num(b.fav)
  \/ a.fav = b.fav /\ a.folder < b.folder
  \/ a.fav = b.fav /\ a.folder = b.folder /\ a.name < b.name

(* sort_saved(), which is stable.                                          *)
NotAfter(s, i) ==
  {j \in DOMAIN s : Before(s[j], s[i]) \/ (~Before(s[i], s[j]) /\ j <= i)}

Sorted(s) == Arranged(s, [i \in DOMAIN s |-> NotAfter(s, i)])

Named(s, n) == {k \in DOMAIN s : s[k].name = n}
Others(s, n) == Without(s, Named(s, n))

(* save_query(): a name that is saved over keeps its folder and its star,  *)
(* and the metrics are those of the history entry of the same query.       *)
SaveQuery(n) ==
  LET old == Named(config.saved, n)
      ran == {k \in DOMAIN config.history : IsOf(config.history[k], typed.text, typed.ns)}
      q == [name |-> n, wql |-> typed.text, ns |-> typed.ns,
            folder |-> IF old = {} THEN 0 ELSE config.saved[First(old)].folder,
            fav |-> old # {} /\ config.saved[First(old)].fav,
            metrics |-> IF ran = {} THEN {} ELSE config.history[First(ran)].metrics]
  IN /\ Op
     /\ Save([config EXCEPT !.saved = Sorted(Append(Others(config.saved, n), q))])
     /\ UNCHANGED <<typed, inflight>>

Changed(n, F(_)) ==
  [k \in DOMAIN config.saved |->
     IF config.saved[k].name = n THEN F(config.saved[k]) ELSE config.saved[k]]

SetFolder(n, f) ==
  /\ Op /\ Named(config.saved, n) # {}
  /\ Save([config EXCEPT !.saved = Sorted(Changed(n, LAMBDA q : [q EXCEPT !.folder = f]))])
  /\ UNCHANGED <<typed, inflight>>

ToggleFavourite(n) ==
  /\ Op /\ Named(config.saved, n) # {}
  /\ Save([config EXCEPT !.saved = Sorted(Changed(n, LAMBDA q : [q EXCEPT !.fav = ~q.fav]))])
  /\ UNCHANGED <<typed, inflight>>

DeleteSaved(n) ==
  /\ Op /\ Named(config.saved, n) # {}
  /\ Save([config EXCEPT !.saved = Others(config.saved, n)])
  /\ UNCHANGED <<typed, inflight>>

(* apply_saved_query().                                                    *)
ApplySaved(q) ==
  Op /\ RunIn([text |-> q.wql, ns |-> IF q.ns = NoSpace THEN typed.ns ELSE q.ns])

(* Mutant of MergeOne: an import is appended whatever it is called.        *)
MergeAppending(s, q) == IF q.name = 0 THEN s ELSE Append(s, q)

(* merge_library() of one entry: replaced by name, a blank name is left.   *)
MergeOne(s, q) ==
  IF q.name = 0 THEN s
  ELSE IF Named(s, q.name) = {} THEN Append(s, q)
  ELSE [k \in DOMAIN s |-> IF s[k].name = q.name THEN q ELSE s[k]]

Merging(s, incoming) ==
  LET after[n \in 0 .. Len(incoming)] ==
        IF n = 0 THEN s ELSE MergeOne(after[n - 1], incoming[n])
  IN after[Len(incoming)]

Merged(s, incoming) == Sorted(Merging(s, incoming))

-----------------------------------------------------------------------------
(* What the parts of a configuration are while they are kept in order.     *)

(* The timings on a row were measured by a run of that very text in that   *)
(* very namespace.                                                         *)
MetricsFit(s) == \A k \in DOMAIN s : \A m \in s[k].metrics : IsOf(m, s[k].wql, s[k].ns)

(* The history has each query once and stays within its cap.               *)
HistoryIsKept(h) ==
  /\ Len(h) <= HistoryCap /\ MetricsFit(h)
  /\ \A i, j \in DOMAIN h : IsOf(h[i], h[j].wql, h[j].ns) => i = j

CardsAreDistinct(s) ==
  MetricsFit(s) /\ \A i, j \in DOMAIN s : s[i].name = s[j].name => i = j

(* The library has each name once and is in the order it is drawn in.      *)
CardsAreKept(s) ==
  CardsAreDistinct(s) /\ \A i, j \in DOMAIN s : i < j => Before(s[i], s[j])

(* A target is listed once, and the local machine never.                   *)
TargetsAreKept(s) ==
  \A i \in DOMAIN s : s[i].key # NoTarget /\ \A j \in DOMAIN s : s[i].key = s[j].key => i = j

IsHistory(h) == IsList(h) /\ \A k \in DOMAIN h : IsEntry(h[k])
AreCards(s) == IsList(s) /\ \A k \in DOMAIN s : IsCard(s[k])
AreTargets(s) == IsList(s) /\ \A k \in DOMAIN s : IsTarget(s[k])

IsKept(c) ==
  /\ IsConfig(c)
  /\ IsHistory(c.history) /\ HistoryIsKept(c.history)
  /\ AreCards(c.saved) /\ CardsAreKept(c.saved)
  /\ AreTargets(c.targets) /\ TargetsAreKept(c.targets)

(* A file an earlier session left was kept in order by it, and a library   *)
(* to import was exported, so its timings are of the queries they are at.  *)
ASSUME LibraryAssumption ==
  /\ Debounce \in Nat /\ HistoryCap \in Nat
  /\ Names \subseteq Int /\ Folders \subseteq Int
  /\ \A file \in OldFiles : \A c \in file : IsKept(c)
  /\ \A lib \in Imports : AreCards(lib) /\ MetricsFit(lib)

-----------------------------------------------------------------------------
(* Preferences and targets.                                                *)

(* settings.rs: a control that saves at once, or a field that is typed in. *)
SetPreference ==
  /\ Op
  /\ LET c == [config EXCEPT !.prefs = (@ + 1) % 2] IN Save(c) \/ SaveLater(c)
  /\ UNCHANGED <<typed, inflight>>

Keyed(s, t) == {k \in DOMAIN s : s[k].key = t}

(* upsert_target(), by machines_connect(): what was measured is kept.      *)
ConnectTarget(t) ==
  /\ Op
  /\ IF t = NoTarget THEN UNCHANGED <<config, clock, ioJobs>>
     ELSE LET old == Keyed(config.targets, t) IN
          SaveLater([config EXCEPT !.targets =
            Append(Without(config.targets, old),
                   [key |-> t, seen |-> old # {} /\ config.targets[First(old)].seen])])
  /\ UNCHANGED <<typed, inflight>>

(* note_target_probe().                                                    *)
NoteProbe(t) ==
  /\ Op
  /\ LET c == [config EXCEPT !.targets =
                 [k \in DOMAIN @ |-> IF @[k].key = t THEN [@[k] EXCEPT !.seen = TRUE] ELSE @[k]]]
     IN IF Keyed(config.targets, t) # {}
        THEN SaveLater(c) ELSE UNCHANGED <<config, clock, ioJobs>>
  /\ UNCHANGED <<typed, inflight>>

ForgetTarget(t) ==
  /\ Op /\ Keyed(config.targets, t) # {}
  /\ Save([config EXCEPT !.targets = Without(config.targets, Keyed(config.targets, t))])
  /\ UNCHANGED <<typed, inflight>>

-----------------------------------------------------------------------------
(* Dialogs and the IO thread: one job at a time, in order.                 *)

(* save_file() and pick(): a dialog waits in the queue like any write.     *)
AskDialog(kind) ==
  /\ Op /\ ioJobs' = Append(ioJobs, [kind |-> kind, contents |-> config])
  /\ UNCHANGED <<config, clock, typed, inflight>>

appVars == <<config, clock, typed, inflight, ops, frame, wake, launched>>

(* fs::write() has emptied the file by the time it writes to it.           *)
TakeJob ==
  /\ launched /\ io = {} /\ ioJobs # <<>>
  /\ io' = {Head(ioJobs)} /\ ioJobs' = Tail(ioJobs)
  /\ disk' = IF Head(ioJobs).kind = "Write" THEN {Cut} ELSE disk
  /\ UNCHANGED <<appVars, notes, failed>>

FinishWrite ==
  /\ launched /\ \E j \in io : j.kind = "Write" /\ disk' = {j.contents}
  /\ io' = {} /\ failed' = FALSE
  /\ UNCHANGED <<appVars, ioJobs, notes>>

FailWrite ==
  /\ launched /\ \E j \in io : j.kind = "Write"
  /\ io' = {} /\ failed' = TRUE
  /\ UNCHANGED <<appVars, ioJobs, notes, disk>>

(* The user answers a dialog with a file that is read or written, or       *)
(* cancels it or names one that is not.                                    *)
AnswerDialog ==
  /\ launched /\ \E j \in io : j.kind \in {"SaveAs", "Pick"}
  /\ io' = {}
  /\ \/ UNCHANGED notes
     \/ \E j \in io : j.kind = "Pick" /\ notes' = notes + 1
  /\ UNCHANGED <<appVars, ioJobs, disk, failed>>

(* drain_io(): a picked library is merged, or does not parse.              *)
DrainIo ==
  /\ launched /\ notes > 0
  /\ notes' = notes - 1 /\ frame' = TRUE
  /\ \/ \E lib \in Imports : Save([config EXCEPT !.saved = Merged(config.saved, lib)])
     \/ UNCHANGED <<config, clock, ioJobs>>
  /\ UNCHANGED <<typed, inflight, ops, wake, io, disk, failed, launched>>

-----------------------------------------------------------------------------
(* Time.                                                                   *)

(* Mutant of WakeAfter: nothing comes back for a write that has to wait.   *)
WakeNever == FALSE

(* A frame that ends with a wait asks to be drawn again after it.          *)
WakeAfter == Waits(clock)

(* poll_save(), at the end of a frame.                                     *)
EndFrame ==
  /\ launched /\ frame
  /\ frame' = FALSE /\ wake' = WakeAfter
  /\ IF Owed(clock) THEN Save(config) ELSE UNCHANGED <<config, clock, ioJobs>>
  /\ UNCHANGED <<typed, inflight, ops, io, notes, disk, failed, launched>>

(* A frame is drawn when its time has come.                                *)
WakeUp ==
  /\ launched /\ wake /\ ~frame /\ Owed(clock)
  /\ frame' = TRUE /\ wake' = FALSE
  /\ UNCHANGED <<config, clock, typed, inflight, ops, ioJobs, io, notes, disk, failed, launched>>

Tick ==
  /\ launched /\ ~frame /\ clock.since < Debounce
  /\ clock' = [clock EXCEPT !.since = @ + 1]
  /\ UNCHANGED <<config, typed, inflight, ops, frame, wake, ioJobs, io, notes, disk, failed, launched>>

(* The window closes, or the process dies: the queue goes with it, and the *)
(* IO thread is stopped wherever it is.                                    *)
Close ==
  /\ launched /\ launched' = FALSE
  /\ ioJobs' = <<>> /\ io' = {} /\ notes' = 0 /\ inflight' = <<>>
  /\ frame' = FALSE /\ wake' = FALSE
  /\ UNCHANGED <<config, clock, typed, ops, disk, failed>>

(* load(), with the save of a migrated file.                               *)
Launch ==
  /\ ~launched /\ ops < MaxOps /\ launched' = TRUE /\ ops' = ops + 1
  /\ LET c == Loaded(disk) IN
     /\ config' = Migrated(c)
     /\ IF c.version < Version
        THEN ioJobs' = <<Write(Migrated(c))>> /\ clock' = Stamp
        ELSE ioJobs' = <<>> /\ clock' = [dirty |-> FALSE, since |-> Never]
  /\ typed' = [text |-> NoText, ns |-> CHOOSE ns \in Spaces : TRUE]
  /\ frame' = TRUE
  /\ UNCHANGED <<inflight, wake, io, notes, disk, failed>>

LibraryInit ==
  /\ disk \in OldFiles
  /\ config = Default /\ clock = [dirty |-> FALSE, since |-> Never]
  /\ typed = [text |-> NoText, ns |-> CHOOSE ns \in Spaces : TRUE]
  /\ inflight = <<>> /\ ops = 0 /\ frame = FALSE /\ wake = FALSE
  /\ ioJobs = <<>> /\ io = {} /\ notes = 0 /\ failed = FALSE /\ launched = FALSE

User ==
  \/ RunQuery \/ Edit \/ SetPreference
  \/ \E k \in DOMAIN config.history : LoadEntry(config.history[k])
  \/ \E k \in DOMAIN config.saved : ApplySaved(config.saved[k])
  \/ \E n \in Names : SaveQuery(n) \/ ToggleFavourite(n) \/ DeleteSaved(n)
  \/ \E n \in Names, f \in Folders : SetFolder(n, f)
  \/ \E t \in TargetKeys \cup {NoTarget} : ConnectTarget(t) \/ NoteProbe(t) \/ ForgetTarget(t)
  \/ \E k \in {"SaveAs", "Pick"} : AskDialog(k)

Replies == QueryResult \/ QueryFailed \/ DrainIo

Thread == TakeJob \/ FinishWrite \/ FailWrite \/ AnswerDialog

LibraryNext == User \/ Replies \/ Thread \/ EndFrame \/ WakeUp \/ Tick \/ Close \/ Launch

LibrarySpec == LibraryInit /\ [][LibraryNext]_libraryVars

(* Frames end, time passes, and a frame that was asked for is drawn.       *)
FairLibrary == LibrarySpec /\ WF_libraryVars(EndFrame) /\ WF_libraryVars(WakeUp) /\ WF_libraryVars(Tick)

-----------------------------------------------------------------------------
Writes == {k \in DOMAIN ioJobs : ioJobs[k].kind = "Write"}

Unsaved == clock.dirty \/ Writes # {} \/ \E j \in io : j.kind = "Write"

(* While nothing is owed to the file, and unless its last write failed,    *)
(* the file holds what the window shows: every operation of every view     *)
(* that changes the configuration saves it, and a later save never lands   *)
(* before an earlier one.                                                  *)
QuietFileIsConfig ==
  launched /\ ~Unsaved /\ ~failed => Migrated(Loaded(disk)) = config

(* The inductive invariant behind it.  A configuration that is not dirty   *)
(* is the last one queued, else the one being written, else the file's.    *)
Jobs == {ioJobs[k] : k \in DOMAIN ioJobs}

LibraryTypeOK ==
  /\ IsConfig(config) /\ config.version = Version
  /\ clock \in [dirty : BOOLEAN, since : Nat]
  /\ ioJobs \in Seq(Jobs)
  /\ \A c \in disk : IsConfig(c)
  /\ \A j \in Jobs \cup io : IsConfig(j.contents)
  /\ \A j, k \in io : j = k
  /\ ~launched => io = {}

LastWriteIsConfig ==
  /\ \A k \in Writes : Writes \subseteq 1 .. k => ioJobs[k].contents = config
  /\ Writes = {} => \A j \in io : j.kind = "Write" => j.contents = config

FileInv ==
  LibraryTypeOK /\ QuietFileIsConfig /\ (launched /\ ~clock.dirty => LastWriteIsConfig)

(* Library, history and targets are in order, without repetitions, and the *)
(* timings on a row and on a card are of the very query they stand beside, *)
(* over saves, filings, stars, imports and restarts.                       *)
LibraryIsKept ==
  HistoryIsKept(config.history) /\ CardsAreKept(config.saved) /\ TargetsAreKept(config.targets)

(* The inductive invariant behind it: every configuration there is, shown, *)
(* queued, being written or in the file, is as it should be.               *)
Held == {config} \cup disk \cup {j.contents : j \in Jobs \cup io}

AllIsKept == \A c \in Held : IsKept(c)

LibraryInv == FileInv /\ AllIsKept

(* The refinement: the job the IO thread is at and its queue are what is   *)
(* in line, each write for what a new session will make of it.             *)
Reread(file) == Migrated(Loaded(file))

Given(j) == IF j.kind = "Write" THEN {Reread({j.contents})} ELSE {}

Underway == IF io = {} THEN <<>> ELSE <<Given(CHOOSE j \in io : TRUE)>>

InLine == Underway \o [k \in DOMAIN ioJobs |-> Given(ioJobs[k])]

Promised == INSTANCE SavedFile
  WITH Empty <- Default, open <- launched, shown <- config, owed <- clock.dirty,
       line <- InLine, kept <- Reread(disk)

(* Whatever is changed, by whichever view, is saved or owed; saves reach   *)
(* the file whole and in their order, with failed writes, dialogs and a    *)
(* process that dies at any step between them; and a new session shows     *)
(* what the last of them left.                                             *)
SavedFileSpec == Promised!Spec

(* A change that waits for the cooldown is saved, although nobody touches  *)
(* the window again.                                                       *)
ChangesAreSaved == clock.dirty /\ launched ~> ~clock.dirty \/ ~launched

(* What HistoryEntry says of its metrics: a query that errored never gets  *)
(* any.                                                                    *)
ErrorsHaveNoMetrics ==
  [][QueryFailed => \A k \in DOMAIN config.history :
       config.history[k].run = Head(inflight).run => config.history[k].metrics = {}]_libraryVars

(* What save() says of its queue: the last one wins, exactly as an inline  *)
(* write would -- so a window that is closed with nothing dirty leaves the *)
(* configuration it had.                                                   *)
ClosingLosesNoSave ==
  [][Close /\ ~clock.dirty /\ ~failed /\ (Writes # {} \/ io # {}) => disk' = {config}]_libraryVars
=============================================================================
