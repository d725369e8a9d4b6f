------------------------------- MODULE Compare -------------------------------
(***************************************************************************)
(* The Compare view's session: two sides, each with a target, the ids of   *)
(* what it has asked and the state of its answer, over a worker per target *)
(* (views/compare.rs).  CompareTable says what is made of two results;     *)
(* here a result is the host it came from, the question it answers and     *)
(* whether it is whole.  A question is a query with its namespace.         *)
(***************************************************************************)
EXTENDS Registry, FiniteSets

CONSTANTS
  Local,        (* the target both sides begin with                        *)
  AltTargets,   (* targets reached with a password                         *)
  Questions,    (* what the query row may hold, Blank among them           *)
  Blank,
  Nobody,       (* no result, no info                                      *)
  MaxRuns,      (* bound: how often the user runs a comparison             *)
  MaxPicks      (* bound: how often a target is picked                     *)

ASSUME CompareAssumption ==
  /\ Local \in Targets \ AltTargets /\ AltTargets \subseteq Targets
  /\ Nobody \notin Targets
  /\ MaxRuns \in Nat /\ MaxPicks \in Nat

VARIABLES
  registry,
  side,          (* a and b                                                *)
  editor,        (* shape, class, wql and namespace: a question or Blank   *)
  ran,           (* ran_wql and ran_namespace                              *)
  overrides,     (* key_override and ignore_override: 0, or the number of  *)
                 (* the run whose columns they name                        *)
  allowPartial,  (* the same: 0, or the run that was accepted              *)
  view,          (* the results it was built from, and whether both whole  *)
  stale,
  ids,           (* alloc_id()                                             *)
  runs, picks    (* how many comparisons were run, targets picked          *)

compareVars == <<registry, side, editor, ran, overrides, allowPartial, view, stale, ids, runs, picks>>

Sides == {"A", "B"}
Other(w) == IF w = "A" THEN "B" ELSE "A"

NoView == [built |-> FALSE]

(* Side::new(). *)
NewSide(t) ==
  [target |-> t, connect |-> 0, query |-> 0, state |-> "Idle", result |-> Nobody, info |-> Nobody]

CompareInit ==
  /\ registry = NewRegistry
  /\ side = [w \in Sides |-> NewSide(Local)]
  /\ editor \in Questions \ {Blank} /\ ran = Blank
  /\ overrides = 0 /\ allowPartial = 0
  /\ view = NoView /\ stale = FALSE
  /\ ids = 0 /\ runs = 0 /\ picks = 0

Running == \E w \in Sides : side[w].state = "Running"
CanRun == ~Running /\ editor # Blank

-----------------------------------------------------------------------------
(* compare_dispatch(): refused, or connected if need be and asked.         *)
Refused(s) == [s EXCEPT !.state = "Refused", !.result = Nobody]

Dispatch(d, w) ==
  LET s == d.side[w]
      first == ~IsOpen(d.registry, s.target)
      connect == IF first THEN d.ids + 1 ELSE 0
      query == IF first THEN d.ids + 2 ELSE d.ids + 1
      opened == IF first THEN Open(d.registry, s.target, connect) ELSE d.registry
      asked == Ask(opened, s.target, [id |-> query, op |-> "Query", question |-> editor])
  IN IF s.target \in AltTargets
     THEN [d EXCEPT !.side[w] = Refused(s)]
     ELSE [registry |-> asked, ids |-> query,
           side |-> [d.side EXCEPT ![w].connect = connect, ![w].query = query,
                                   ![w].state = "Running", ![w].result = Nobody]]

(* Mutant of OverridesOnRun: the keys of the last comparison stay.         *)
OverridesKept == overrides

OverridesOnRun == 0

(* compare_run(): Run, Enter in the query field, or the title bar's        *)
(* refresh.                                                                *)
Run ==
  /\ CanRun /\ runs < MaxRuns
  /\ runs' = runs + 1
  /\ allowPartial' = 0 /\ overrides' = OverridesOnRun
  /\ view' = NoView /\ stale' = FALSE
  /\ LET d == Dispatch(Dispatch([registry |-> registry, side |-> side, ids |-> ids], "A"), "B")
     IN registry' = d.registry /\ side' = d.side /\ ids' = d.ids
  /\ ran' = editor
  /\ UNCHANGED <<editor, picks>>

-----------------------------------------------------------------------------
(* One worker answers.  A query that was cut is partial.                   *)
Serve(t) ==
  /\ registry.asked[t] # <<>>
  /\ LET request == registry.asked[t][1] IN
     \/ request.op = "SetHost"
        /\ registry' = AnswerOldest(registry, t, [id |-> request.id, op |-> "HostConnected", host |-> t])
     \/ request.op = "Query"
        /\ \E whole \in BOOLEAN :
             registry' = AnswerOldest(registry, t,
               [id |-> request.id, op |-> "QueryResult",
                result |-> [host |-> t, question |-> request.question, whole |-> whole]])
     \/ registry' = AnswerOldest(registry, t, [id |-> request.id, op |-> "Error"])
  /\ UNCHANGED <<side, editor, ran, overrides, allowPartial, view, stale, ids, runs, picks>>

Arrived ==
  UNION {{registry.answered[t][i] : i \in DOMAIN registry.answered[t]} : t \in registry.open}

(* A reply goes to the side that asked for it.  Any other is of a run that *)
(* was superseded, and dropped.                                            *)
RepliesTo(id) == {r \in Arrived : id # 0 /\ r.id = id}

(* Mutant of Failed: the ids are cleared, the spinner stays.               *)
FailedSpinning(s) == [s EXCEPT !.connect = 0, !.query = 0]

Failed(s) == [s EXCEPT !.connect = 0, !.query = 0, !.state = "Failed", !.result = Nobody]

(* compare_apply() for the reply to a connect, and for the one to a query. *)
AfterConnect(s) ==
  LET replies == RepliesTo(s.connect)
      reply == CHOOSE r \in replies : TRUE
  IN IF replies = {} THEN s
     ELSE IF reply.op = "Error" THEN Failed(s)
     ELSE [s EXCEPT !.connect = 0, !.info = reply.host]

AfterQuery(s) ==
  LET replies == RepliesTo(s.query)
      reply == CHOOSE r \in replies : TRUE
  IN IF replies = {} THEN s
     ELSE IF reply.op = "Error" THEN Failed(s)
     ELSE [s EXCEPT !.query = 0, !.state = "Done", !.result = reply.result]

(* Mutant of StaleAfter: only a failure makes the view stale.              *)
StaleIfFailed(s, now) == s.query # now.query /\ now.state = "Failed"

StaleAfter(s, now) == s.query # now.query

(* compare_poll(), in every frame, whatever view is shown.  A worker       *)
(* answers the connect before the query, so a side takes its replies in    *)
(* that order; no two sides share an id, so it does not matter in which    *)
(* order the workers are drained.                                          *)
PollReplies ==
  /\ Arrived # {}
  /\ side' = [w \in Sides |-> AfterQuery(AfterConnect(side[w]))]
  /\ stale' = (stale \/ \E w \in Sides : StaleAfter(side[w], side'[w]))
  /\ registry' = Emptied(registry)
  /\ UNCHANGED <<editor, ran, overrides, allowPartial, view, ids, runs, picks>>

-----------------------------------------------------------------------------
BothDone == \A w \in Sides : side[w].state = "Done"
Whole == \A w \in Sides : side[w].result.whole

(* Mutant of MayBuild: sides that were cut are compared like any other.    *)
MayBuildAlways == BothDone

MayBuild == BothDone /\ (Whole \/ allowPartial # 0)

(* compare_rebuild(), before the view is drawn.                            *)
Rebuild ==
  /\ stale
  /\ stale' = FALSE
  /\ view' = IF MayBuild
             THEN [built |-> TRUE, a |-> side["A"].result, b |-> side["B"].result,
                   sound |-> Whole, overrides |-> overrides]
             ELSE NoView
  /\ UNCHANGED <<registry, side, editor, ran, overrides, allowPartial, ids, runs, picks>>

(* What follows are clicks in the view that Rebuild has brought up to date. *)
Drawn == ~stale

Partial(w) == side[w].state = "Done" /\ ~side[w].result.whole

(* A target is picked: the old result belongs to the old machine.  A       *)
(* target that needs a password is listed and cannot be picked.            *)
Pick(w, t) ==
  /\ Drawn /\ t \notin AltTargets /\ side[w].target # t
  /\ picks < MaxPicks /\ picks' = picks + 1
  /\ side' = [side EXCEPT ![w].target = t, ![w].state = "Idle",
                          ![w].result = Nobody, ![w].info = Nobody]
  /\ view' = NoView
  /\ UNCHANGED <<registry, editor, ran, overrides, allowPartial, stale, ids, runs>>

(* The query row. *)
EditQuery(q) ==
  /\ Drawn /\ editor # q
  /\ editor' = q
  /\ UNCHANGED <<registry, side, ran, overrides, allowPartial, view, stale, ids, runs, picks>>

(* "Diff the partial results anyway", offered as soon as one side is.      *)
AcceptPartial ==
  /\ Drawn /\ allowPartial = 0 /\ \E w \in Sides : Partial(w)
  /\ allowPartial' = runs /\ stale' = TRUE
  /\ UNCHANGED <<registry, side, editor, ran, overrides, view, ids, runs, picks>>

(* The legend's menus and "Compare shared columns only".                   *)
Override ==
  /\ Drawn /\ view.built
  /\ overrides' \in {0, runs} /\ stale' = TRUE
  /\ UNCHANGED <<registry, side, editor, ran, allowPartial, view, ids, runs, picks>>

Window ==
  \/ Run \/ PollReplies \/ Rebuild \/ AcceptPartial \/ Override
  \/ \E w \in Sides, t \in Targets : Pick(w, t)
  \/ \E q \in Questions : EditQuery(q)

CompareNext == Window \/ \E t \in Targets : Serve(t)

CompareSpec == CompareInit /\ [][CompareNext]_compareVars

(* A worker answers in time, and frames are drawn: compare_poll() asks for *)
(* the next one while a side is running.                                   *)
FairCompare == CompareSpec /\ WF_compareVars(PollReplies) /\ \A t \in Targets : WF_compareVars(Serve(t))

-----------------------------------------------------------------------------
(* compare_status(), without the numbers. *)
CompareStatus ==
  CASE Running -> "comparing"
    [] ~Running /\ \E w \in Sides : side[w].state \in {"Failed", "Refused"} -> "no answer"
    [] OTHER -> IF view.built THEN IF view.sound THEN "counts" ELSE "counts, partial"
                ELSE IF \E w \in Sides : Partial(w) THEN "withheld" ELSE "not run"

(* What a side says of its machine: what its own connect learned, or the   *)
(* other side's if both name one target.                                   *)
ShownInfo(w) ==
  IF side[w].info # Nobody THEN side[w].info
  ELSE IF side[Other(w)].target = side[w].target THEN side[Other(w)].info ELSE Nobody

(* The comparison on screen is of two results of one question, the last    *)
(* one run and the one an export is stamped with, whatever was typed since *)
(* and however many replies of earlier runs are late; its keys and ignores *)
(* were derived or picked from that run's columns; it is marked sound only *)
(* if both sides were read to the end, and otherwise somebody accepted it. *)
(* Once drawn, it is of what the sides show.                               *)
ViewIsOfTheRun ==
  /\ \A w \in Sides : side[w].state = "Done" => side[w].result.question = ran
  /\ overrides \in {0, runs} /\ allowPartial \in {0, runs}
  /\ view.built =>
       /\ view.a.question = ran /\ view.b.question = ran
       /\ view.sound = (view.a.whole /\ view.b.whole)
       /\ view.sound \/ allowPartial = runs
       /\ view.overrides \in {0, runs}
       /\ Drawn => view.a = side["A"].result /\ view.b = side["B"].result

(* has_compare_blocker() and compare_status(): a view that is drawn and    *)
(* shows no table has a reason to give -- a side is not run, running, has  *)
(* failed or was cut -- so that two whole answers are never answered with  *)
(* "No comparison yet", and the status bar gives the same reason.          *)
MissingTableIsExplained ==
  Drawn =>
    /\ ~view.built =>
         \E w \in Sides : side[w].state \in {"Idle", "Running", "Failed", "Refused"} \/ Partial(w)
    /\ BothDone => CompareStatus = IF Whole THEN "counts"
                                  ELSE IF view.built THEN "counts, partial" ELSE "withheld"

(* The inductive invariant behind them.  The ids of a side are of its own  *)
(* connect and its own query, wherever a request or an answer still has    *)
(* them; its connect is answered before its query, so that a view that is  *)
(* drawn cannot lose a side; and what may be compared is.                  *)
Question == [id : Nat, op : {"SetHost"}] \cup [id : Nat, op : {"Query"}, question : Questions]
Result == [host : Targets, question : Questions, whole : BOOLEAN]
Reply ==
  [id : Nat, op : {"HostConnected"}, host : Targets] \cup [id : Nat, op : {"Error"}]
  \cup [id : Nat, op : {"QueryResult"}, result : Result]

Registries ==
  [open : SUBSET Targets, asked : [Targets -> Seq(Question)], answered : [Targets -> Seq(Reply)]]

SideStates == {"Idle", "Running", "Done", "Failed", "Refused"}

SideType ==
  [target : Targets \ AltTargets, connect : Nat, query : Nat, state : SideStates,
   result : Result \cup {Nobody}, info : Targets \cup {Nobody}]

CompareTypeOK ==
  /\ registry \in Registries /\ side \in [Sides -> SideType]
  /\ editor \in Questions /\ ids \in Nat /\ runs \in Nat /\ picks \in Nat
  /\ stale \in BOOLEAN /\ view.built \in BOOLEAN
  /\ \A w \in Sides : side[w].state = "Done" => side[w].result \in Result

IdsAreGiven(reg, n) ==
  \A t \in Targets :
    /\ t \notin reg.open => reg.asked[t] = <<>> /\ reg.answered[t] = <<>>
    /\ \A i \in DOMAIN reg.asked[t] : reg.asked[t][i].id \in 1 .. n
    /\ \A i \in DOMAIN reg.answered[t] : reg.answered[t][i].id \in 1 .. n

IdsAreItsOwn(reg, s, question) ==
  \A t \in Targets :
    /\ \A i \in DOMAIN reg.asked[t] :
         /\ reg.asked[t][i].id = s.connect => reg.asked[t][i].op = "SetHost"
         /\ reg.asked[t][i].id = s.query =>
              reg.asked[t][i].op = "Query" /\ reg.asked[t][i].question = question
    /\ \A i \in DOMAIN reg.answered[t] :
         /\ reg.answered[t][i].id = s.connect => reg.answered[t][i].op \in {"HostConnected", "Error"}
         /\ reg.answered[t][i].id = s.query =>
              \/ reg.answered[t][i].op = "Error"
              \/ /\ reg.answered[t][i].op = "QueryResult"
                 /\ reg.answered[t][i].result.question = question

Told(reg, t, id) == \E i \in DOMAIN reg.answered[t] : reg.answered[t][i].id = id

ConnectComesFirst(reg, s) ==
  s.connect # 0 =>
    /\ s.query # 0
    /\ \A t \in Targets :
         /\ Told(reg, t, s.query) => Told(reg, t, s.connect)
         /\ \A i \in DOMAIN reg.asked[t] : reg.asked[t][i].id = s.query =>
              \/ Told(reg, t, s.connect)
              \/ \E j \in 1 .. (i - 1) : reg.asked[t][j].id = s.connect

IdsInv ==
  /\ IdsAreGiven(registry, ids)
  /\ \A w \in Sides :
       /\ side[w].connect <= ids /\ side[w].query <= ids
       /\ IdsAreItsOwn(registry, side[w], ran) /\ ConnectComesFirst(registry, side[w])

CompareInv == CompareTypeOK /\ ViewIsOfTheRun /\ IdsInv /\ (Drawn /\ MayBuild => view.built)

(* A run ends: no side waits for an answer nobody will give, although an   *)
(* error of the connect makes the view deaf to the answer of the query.    *)
RunsEnd == Running ~> ~Running

(* What the picker says when a target is picked: the old result belongs to *)
(* the old machine.  What a side shows is of the machine it names.         *)
ResultIsOfItsTarget ==
  \A w \in Sides :
    /\ side[w].state = "Done" => side[w].result.host = side[w].target
    /\ ShownInfo(w) \in {Nobody, side[w].target}
=============================================================================
