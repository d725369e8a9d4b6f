--------------------------- MODULE NamespaceStats ---------------------------
(***************************************************************************)
(* namespace_stats() (worker.rs): the depth-first walk over a tree of WMI  *)
(* namespaces that counts classes, under one budget and one cancel token.  *)
(*                                                                         *)
(* Each of its two enumerations per namespace -- the class count and the   *)
(* child listing -- is one drain(), taken here with what module            *)
(* Enumeration promises of it: all rows, or some of them and the reason,   *)
(* or an error.                                                            *)
(***************************************************************************)
EXTENDS Budget, Integers, Sequences, FiniteSets

CONSTANTS
  Namespaces,   (* every namespace of the tree                             *)
  Root,         (* the one the rollup was asked for                        *)
  Children,     (* the children of each, in the order of their names       *)
  Classes       (* how many classes each defines                           *)

ChildrenOf(n) == {Children[n][i] : i \in DOMAIN Children[n]}

ASSUME NamespaceAssumption ==
  /\ IsFiniteSet(Namespaces) /\ Root \in Namespaces
  /\ Children \in [Namespaces -> Seq(Namespaces)]
  /\ Classes \in [Namespaces -> Nat]

(* A child's full name is its parent's with its own appended, and a        *)
(* listing is deduplicated: no two places of it are the same namespace,    *)
(* and none is the root.  What is there is what is below the root.         *)
ASSUME TreeAssumption ==
  /\ \A n, m \in Namespaces : \A i \in DOMAIN Children[n], j \in DOMAIN Children[m] :
       Children[n][i] = Children[m][j] => n = m /\ i = j
  /\ \A n \in Namespaces : Root \notin ChildrenOf(n)
  /\ \A below \in SUBSET Namespaces :
       Root \in below /\ (\A n \in below : ChildrenOf(n) \subseteq below) => below = Namespaces

VARIABLES
  recursive,   (* was the whole subtree asked for?                         *)
  pc,          (* "pop", "bind", "count", "list"; "done", "failed"         *)
  stack,       (* the namespaces still to visit, the next one last         *)
  ns,          (* the namespace in hand                                    *)
  root,        (* is it the first one?                                     *)
  stats,       (* the NamespaceStats being filled in                       *)
  visited,     (* history: the namespaces whose classes were counted       *)
  refused,     (* history: those that could not be bound or counted        *)
  missed       (* history: a child listing failed or came short            *)

walking == <<recursive, pc, stack, ns, root, stats, visited, refused, missed>>
vars == <<flags, walking>>

Stats == [classes : Nat, children : Nat, namespaces : Nat, total_classes : Nat,
          unreadable : Nat, completion : Completions]

-----------------------------------------------------------------------------
Init ==
  /\ recursive \in BOOLEAN /\ FlagsDown
  /\ pc = "pop" /\ stack = <<Root>> /\ ns = Root /\ root = TRUE
  /\ stats = [classes |-> 0, children |-> 0, namespaces |-> 0, total_classes |-> 0,
              unreadable |-> 0, completion |-> "complete"]
  /\ visited = {} /\ refused = {} /\ missed = FALSE

-----------------------------------------------------------------------------
walkFrame == <<recursive, flags>>

(* Vec::pop().                                                             *)
Remaining(s) == SubSeq(s, 1, Len(s) - 1)

Finished ==
  /\ pc = "pop" /\ stack = <<>>
  /\ pc' = "done"
  /\ UNCHANGED <<walkFrame, stack, ns, root, stats, visited, refused, missed>>

(* The top of the loop: the token, then the budget.  Either overwrites the *)
(* completion.                                                             *)
GiveUp ==
  /\ pc = "pop" /\ stack # <<>> /\ (cancel \/ late)
  /\ stack' = Remaining(stack)
  /\ stats' = [stats EXCEPT !.completion = IF cancel THEN "cancelled" ELSE "timedout"]
  /\ pc' = "done"
  /\ UNCHANGED <<walkFrame, ns, root, visited, refused, missed>>

Pop ==
  /\ pc = "pop" /\ stack # <<>> /\ ~cancel /\ ~late
  /\ ns' = stack[Len(stack)] /\ stack' = Remaining(stack)
  /\ pc' = "bind"
  /\ UNCHANGED <<walkFrame, root, stats, visited, refused, missed>>

(* Mutant of AfterRefusal: the namespace is counted all the same.          *)
CountAnyway == "count"

AfterRefusal == "pop"

(* bind(): a refusal is an error for the root and a number for the rest.   *)
Bind ==
  /\ pc = "bind"
  /\ \/ pc' = "count" /\ UNCHANGED <<stats, refused>>
     \/ root /\ pc' = "failed" /\ UNCHANGED <<stats, refused>>
     \/ /\ ~root /\ pc' = AfterRefusal
        /\ stats' = [stats EXCEPT !.unreadable = @ + 1]
        /\ refused' = refused \cup {ns}
  /\ UNCHANGED <<walkFrame, stack, ns, root, visited, missed>>

(* Mutant of Keep: the reason of a partial count is not passed on.         *)
KeepNothing(how) == stats.completion

(* A partial count makes the rollup partial; the first reason stays.       *)
Keep(how) == IF stats.completion = "complete" THEN how ELSE stats.completion

(* count_classes().                                                        *)
CountClasses ==
  /\ pc = "count"
  /\ pc' = "list"
  /\ \/ \E how \in Completions, n \in 0 .. Classes[ns] :
          /\ MayEnd(how)
          /\ how = "complete" => n = Classes[ns]
          /\ stats' = [stats EXCEPT !.namespaces = @ + 1,
                                    !.total_classes = @ + n,
                                    !.classes = IF root THEN n ELSE @,
                                    !.completion = Keep(how)]
          /\ visited' = visited \cup {ns} /\ UNCHANGED refused
     \/ /\ stats' = [stats EXCEPT !.unreadable = @ + 1]
        /\ refused' = refused \cup {ns} /\ UNCHANGED visited
  /\ UNCHANGED <<walkFrame, stack, ns, root, missed>>

(* Mutants of Push: a listing is pushed for each of its two uses; a plain  *)
(* request walks on, a recursive one stops.                                *)
PushTwice(kids) == IF recursive THEN stack \o kids \o kids ELSE stack
PushSwapped(kids) == IF recursive THEN stack ELSE stack \o kids

Push(kids) == IF recursive THEN stack \o kids ELSE stack

(* child_namespaces(): its Completion is dropped, and so is its error.     *)
ListChildren ==
  /\ pc = "list"
  /\ IF recursive \/ root
     THEN \/ \E how \in Completions, k \in 0 .. Len(Children[ns]) :
               LET kids == SubSeq(Children[ns], 1, k) IN
               /\ MayEnd(how)
               /\ how = "complete" => kids = Children[ns]
               /\ stats' = [stats EXCEPT !.children = IF root THEN k ELSE @]
               /\ stack' = Push(kids)
               /\ missed' = (missed \/ kids # Children[ns])
          \/ missed' = TRUE /\ UNCHANGED <<stack, stats>>
     ELSE UNCHANGED <<stack, stats, missed>>
  /\ root' = FALSE
  /\ pc' = "pop"
  /\ UNCHANGED <<walkFrame, ns, visited, refused>>

Walk == Finished \/ GiveUp \/ Pop \/ Bind \/ CountClasses \/ ListChildren

Next == Walk \/ ((RaiseFlag \/ BudgetSpent) /\ UNCHANGED walking)

Spec == Init /\ [][Next]_vars

-----------------------------------------------------------------------------
(* How many classes the namespaces of a set define: a class is known by    *)
(* its namespace and a number in it.                                       *)
ClassesIn(set) == Cardinality(UNION {{n} \X (1 .. Classes[n]) : n \in set})

(* Every variable has its type, and the walk is at one namespace of the    *)
(* tree at a time.                                                         *)
TypeOK ==
  /\ recursive \in BOOLEAN /\ FlagsOK
  /\ pc \in {"pop", "bind", "count", "list", "done", "failed"}
  /\ stack \in Seq(Namespaces) /\ Len(stack) <= Cardinality(Namespaces)
  /\ ns \in Namespaces /\ root \in BOOLEAN
  /\ stats \in Stats /\ missed \in BOOLEAN
  /\ visited \subseteq Namespaces /\ refused \subseteq Namespaces

(* The rollup is a lower bound of the truth at every moment: no namespace  *)
(* is counted twice, or counted and also called unreadable.                *)
RollupIsLowerBound ==
  /\ stats.namespaces = Cardinality(visited) /\ stats.unreadable = Cardinality(refused)
  /\ visited \cap refused = {}
  /\ stats.namespaces + stats.unreadable <= Cardinality(Namespaces)
  /\ stats.total_classes <= ClassesIn(visited)
  /\ ~recursive => stats.namespaces <= 1 /\ stats.total_classes = stats.classes

(* A rollup that calls itself complete has counted in full every namespace *)
(* it claims to have reached.                                              *)
CompleteTotalIsExact ==
  stats.completion = "complete" => stats.total_classes = ClassesIn(visited)

(* Apart from child listings that failed or came short, nothing is lost in *)
(* silence: a complete recursive rollup with nothing unreadable has        *)
(* reached the whole tree.                                                 *)
OnlyListingsAreLost ==
  pc = "done" /\ recursive /\ stats.completion = "complete" /\ stats.unreadable = 0 /\ ~missed
  => visited = Namespaces

(* The rollup never counts more than there is, counts every namespace it   *)
(* reached in full when it calls itself complete, and loses none in        *)
(* silence but by a child listing that came short.                         *)
RollupIsTrue ==
  TypeOK /\ RollupIsLowerBound /\ CompleteTotalIsExact /\ OnlyListingsAreLost

-----------------------------------------------------------------------------
(* The inductive invariant behind them.                                    *)

OnStack == {stack[i] : i \in DOMAIN stack}
InHand == IF pc \in {"bind", "count", "list"} THEN {ns} ELSE {}
Reached == visited \cup refused

(* Every namespace is waiting, in hand or reached, and never two of these; *)
(* apart from the root it got there by the listing of its parent.          *)
EachOnce ==
  /\ \A i, j \in DOMAIN stack : stack[i] = stack[j] => i = j
  /\ OnStack \cap (InHand \cup Reached) = {}
  /\ visited \cap refused = {}
  /\ pc \in {"bind", "count"} => ns \notin Reached
  /\ pc = "list" => ns \in Reached

Descent ==
  LET listed == IF pc = "list" THEN Reached \ {ns} ELSE Reached IN
  \A n \in OnStack \cup InHand \cup Reached :
    n = Root \/ \E parent \in listed : n \in ChildrenOf(parent)

(* The numbers are those of the histories.                                 *)
Tally ==
  /\ stats.namespaces = Cardinality(visited) /\ stats.unreadable = Cardinality(refused)
  /\ stats.total_classes <= ClassesIn(visited)
  /\ CompleteTotalIsExact

(* The first namespace is the root, alone; without recursion, the only one. *)
RootFirst ==
  /\ root => /\ pc = "pop" => stack = <<Root>>
             /\ pc # "pop" => stack = <<>>
             /\ pc \in {"pop", "bind", "count"} => Reached = {}
             /\ Reached \subseteq {ns}
             /\ stats.total_classes = stats.classes
             /\ visited = {} => stats.classes = 0
  /\ ~recursive => /\ ~root => stack = <<>> /\ pc \in {"pop", "done"}
                   /\ Cardinality(visited) <= 1
                   /\ stats.total_classes = stats.classes

(* What is reached is below the root in full, as far as nothing was        *)
(* refused, cut or missed.                                                 *)
NothingLost ==
  pc # "failed" /\ recursive /\ stats.completion = "complete" /\ refused = {} /\ ~missed =>
    LET known == OnStack \cup InHand \cup visited IN
    /\ Root \in known
    /\ \A n \in visited : (pc = "list" /\ n = ns) \/ ChildrenOf(n) \subseteq known
    /\ pc = "done" => stack = <<>>

WalkInv ==
  /\ recursive \in BOOLEAN /\ FlagsOK
  /\ pc \in {"pop", "bind", "count", "list", "done", "failed"}
  /\ stack \in Seq(Namespaces) /\ ns \in Namespaces /\ root \in BOOLEAN
  /\ stats \in Stats /\ missed \in BOOLEAN
  /\ visited \subseteq Namespaces /\ refused \subseteq Namespaces
  /\ EachOnce /\ Descent /\ Tally /\ RootFirst /\ NothingLost

-----------------------------------------------------------------------------
(* What NamespaceStats::unreadable says: namespaces that could not be      *)
(* enumerated are counted rather than swallowed, so a complete rollup with *)
(* none of them covers the tree.                                           *)
NothingQuietlyOmitted ==
  pc = "done" /\ recursive /\ stats.completion = "complete" /\ stats.unreadable = 0
  => visited = Namespaces
=============================================================================
