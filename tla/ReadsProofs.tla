----------------------------- MODULE ReadsProofs -----------------------------
(***************************************************************************)
(* The compound reads of the worker and the comparison of two tables, each *)
(* for any values of its constants.                                        *)
(* NamespaceStats: the rollup counts what the walk has read, for any tree. *)
(* Associations: a report that calls itself complete is whole, and no row  *)
(* is made up.  Subscriptions: what was there throughout the scan, while   *)
(* the repository changed, is in the report.  Snapshots: whatever the      *)
(* queries they are joined of answer, no row is lost and none carries      *)
(* another PID's name.                                                     *)
(* CompareTable: of two compared tables no row is lost or counted twice,   *)
(* and with unique keys each is drawn and exported under its own sign.     *)
(***************************************************************************)
EXTENDS NamespaceStats, Associations, Subscriptions, Snapshots, CompareTable, RetainProofs,
        FiniteSetTheorems, SequenceTheorems, TLAPS

-----------------------------------------------------------------------------
(*                       The rollup of the namespaces                      *)

(* The classes of a set of namespaces are a number, none for none, and     *)
(* those of one more namespace come on top.                                *)
LEMMA NoClasses == ClassesIn({}) = 0
<1>1. UNION {{n} \X (1 .. Classes[n]) : n \in {}} = {}
  OBVIOUS
<1> QED
  BY <1>1, FS_EmptySet DEF ClassesIn

LEMMA OneNamespacesClasses ==
  ASSUME NEW n \in Namespaces
  PROVE  /\ IsFiniteSet({n} \X (1 .. Classes[n]))
         /\ Cardinality({n} \X (1 .. Classes[n])) = Classes[n]
<1>1. Classes[n] \in Nat
  BY NamespaceAssumption
<1>2. IsFiniteSet(1 .. Classes[n]) /\ Cardinality(1 .. Classes[n]) = Classes[n]
  <2>1. /\ IsFiniteSet(1 .. Classes[n])
        /\ Cardinality(1 .. Classes[n]) = IF 1 > Classes[n] THEN 0 ELSE Classes[n] - 1 + 1
    <3>1. 1 \in Int /\ Classes[n] \in Int
      BY <1>1
    <3> QED
      BY <3>1, FS_Interval, Zenon
  <2> QED
    BY <1>1, <2>1
<1>3. IsFiniteSet({n}) /\ Cardinality({n}) = 1
  BY FS_Singleton, Zenon
<1>4. /\ IsFiniteSet({n} \X (1 .. Classes[n]))
      /\ Cardinality({n} \X (1 .. Classes[n])) = Cardinality({n}) * Cardinality(1 .. Classes[n])
  BY <1>2, <1>3, FS_Product, Zenon
<1> QED
  BY <1>1, <1>2, <1>3, <1>4

LEMMA ClassesAreFinite ==
  ASSUME NEW set \in SUBSET Namespaces
  PROVE  /\ IsFiniteSet(UNION {{n} \X (1 .. Classes[n]) : n \in set})
         /\ ClassesIn(set) \in Nat
<1> DEFINE all == {{n} \X (1 .. Classes[n]) : n \in set}
           f == [n \in set |-> {n} \X (1 .. Classes[n])]
<1>1. IsFiniteSet(set)
  BY NamespaceAssumption, FS_Subset
<1>2. f \in Surjection(set, all)
  BY DEF Surjection
<1>3. IsFiniteSet(all)
  BY <1>1, <1>2, FS_Surjection
<1>4. \A s \in all : IsFiniteSet(s)
  BY OneNamespacesClasses
<1>5. IsFiniteSet(UNION all)
  BY <1>3, <1>4, FS_UNION
<1> QED
  BY <1>5, FS_CardinalityType DEF ClassesIn

LEMMA OneMoreNamespace ==
  ASSUME NEW set \in SUBSET Namespaces, NEW n \in Namespaces \ set
  PROVE  ClassesIn(set \cup {n}) = ClassesIn(set) + Classes[n]
<1> DEFINE those == UNION {{m} \X (1 .. Classes[m]) : m \in set}
           these == {n} \X (1 .. Classes[n])
<1>1. UNION {{m} \X (1 .. Classes[m]) : m \in set \cup {n}} = those \cup these
  OBVIOUS
<1>2. those \cap these = {}
  OBVIOUS
<1>3. IsFiniteSet(those) /\ Cardinality(those) = ClassesIn(set) /\ ClassesIn(set) \in Nat
  BY ClassesAreFinite DEF ClassesIn
<1>4. IsFiniteSet(these) /\ Cardinality(these) = Classes[n] /\ Classes[n] \in Nat
  BY OneNamespacesClasses, NamespaceAssumption
<1>5. Cardinality(those \cup these) = Cardinality(those) + Cardinality(these) - Cardinality({})
  BY <1>2, <1>3, <1>4, FS_Union
<1>6. ClassesIn(set \cup {n}) = Cardinality(those \cup these)
  BY <1>1, Zenon DEF ClassesIn
<1> QED
  BY <1>3, <1>4, <1>5, <1>6, FS_EmptySet

-----------------------------------------------------------------------------
(* Stacks, and what the tree gives for them.                               *)

(* A sequence without repetition is no longer than what it is drawn from.  *)
LEMMA NoRepetitionFits ==
  ASSUME NEW s \in Seq(Namespaces), \A i, j \in DOMAIN s : s[i] = s[j] => i = j
  PROVE  Len(s) <= Cardinality(Namespaces)
<1>1. s \in Injection(1 .. Len(s), Namespaces)
  BY DEF Injection, IsInjective
<1>2. Cardinality(1 .. Len(s)) <= Cardinality(Namespaces)
  BY <1>1, NamespaceAssumption, FS_Injection
<1>3. Cardinality(1 .. Len(s)) = Len(s)
  <2>1. Len(s) \in Nat /\ 1 \in Int /\ Len(s) \in Int
    OBVIOUS
  <2>2. Cardinality(1 .. Len(s)) = IF 1 > Len(s) THEN 0 ELSE Len(s) - 1 + 1
    BY <2>1, FS_Interval, Zenon
  <2> QED
    BY <2>1, <2>2
<1> QED
  BY <1>2, <1>3

(* What Vec::pop() leaves.                                                 *)
LEMMA PopLeaves ==
  ASSUME NEW s \in Seq(Namespaces), s # <<>>
  PROVE  /\ Remaining(s) \in Seq(Namespaces)
         /\ Len(s) \in Nat \ {0} /\ Len(Remaining(s)) = Len(s) - 1
         /\ s[Len(s)] \in Namespaces
         /\ \A i \in 1 .. Len(s) - 1 : Remaining(s)[i] = s[i]
<1>1. Len(s) \in Nat \ {0} /\ s[Len(s)] \in Namespaces
  OBVIOUS
<1>2. \A i \in 1 .. Len(s) - 1 : s[i] \in Namespaces
  OBVIOUS
<1>3. Remaining(s) \in Seq(Namespaces) /\ \A i \in 1 .. Len(s) - 1 : Remaining(s)[i] = s[i]
  BY DEF Remaining
<1>4. Len(Remaining(s)) = IF 1 <= Len(s) - 1 THEN Len(s) - 1 - 1 + 1 ELSE 0
  BY <1>1, <1>2, SubSeqProperties, SMT DEF Remaining
<1>5. Len(Remaining(s)) = Len(s) - 1
  <2> DEFINE n == Len(s)
  <2>1. n \in Nat \ {0} /\ Len(Remaining(s)) = IF 1 <= n - 1 THEN n - 1 - 1 + 1 ELSE 0
    BY <1>1, <1>4
  <2> HIDE DEF n
  <2>2. Len(Remaining(s)) = n - 1
    BY <2>1
  <2> QED
    BY <2>2 DEF n
<1> QED
  BY <1>1, <1>3, <1>5

(* A leading part of a listing, pushed on a stack that has none of it.     *)
LEMMA PushAdds ==
  ASSUME NEW s \in Seq(Namespaces), NEW kids \in Seq(Namespaces),
         \A i, j \in DOMAIN s : s[i] = s[j] => i = j,
         \A i, j \in DOMAIN kids : kids[i] = kids[j] => i = j,
         \A i \in DOMAIN s, j \in DOMAIN kids : s[i] # kids[j]
  PROVE  /\ s \o kids \in Seq(Namespaces)
         /\ \A i, j \in DOMAIN (s \o kids) : (s \o kids)[i] = (s \o kids)[j] => i = j
         /\ {(s \o kids)[i] : i \in DOMAIN (s \o kids)} =
              {s[i] : i \in DOMAIN s} \cup {kids[i] : i \in DOMAIN kids}
<1>1. /\ s \o kids \in Seq(Namespaces)
      /\ Len(s) \in Nat /\ Len(kids) \in Nat /\ Len(s \o kids) = Len(s) + Len(kids)
      /\ DOMAIN s = 1 .. Len(s) /\ DOMAIN kids = 1 .. Len(kids)
      /\ DOMAIN (s \o kids) = 1 .. (Len(s) + Len(kids))
  OBVIOUS
<1>2. \A i \in 1 .. Len(s) + Len(kids) :
        (s \o kids)[i] = IF i <= Len(s) THEN s[i] ELSE kids[i - Len(s)]
  BY <1>1
<1>3. ASSUME NEW i \in DOMAIN (s \o kids), NEW j \in DOMAIN (s \o kids),
             (s \o kids)[i] = (s \o kids)[j]
      PROVE  i = j
  <2>1. CASE i <= Len(s) /\ j <= Len(s)
    BY <1>1, <1>2, <1>3, <2>1
  <2>2. CASE i > Len(s) /\ j > Len(s)
    <3>1. i - Len(s) \in DOMAIN kids /\ j - Len(s) \in DOMAIN kids
      BY <1>1, <2>2
    <3>2. kids[i - Len(s)] = kids[j - Len(s)]
      BY <1>1, <1>2, <1>3, <2>2
    <3>3. i - Len(s) = j - Len(s)
      BY <3>1, <3>2
    <3> QED
      BY <1>1, <3>3
  <2>3. CASE (i <= Len(s)) # (j <= Len(s))
    BY <1>1, <1>2, <1>3, <2>3
  <2> QED
    BY <1>1, <2>1, <2>2, <2>3
<1>4. \A i \in DOMAIN s : i \in DOMAIN (s \o kids) /\ (s \o kids)[i] = s[i]
  BY <1>1, <1>2
<1>5. \A i \in DOMAIN kids :
        i + Len(s) \in DOMAIN (s \o kids) /\ (s \o kids)[i + Len(s)] = kids[i]
  BY <1>1, <1>2
<1> DEFINE both == s \o kids
           inBoth == {both[k] : k \in DOMAIN both}
           inS == {s[k] : k \in DOMAIN s}
           inKids == {kids[k] : k \in DOMAIN kids}
<1>6. \A k \in DOMAIN both : both[k] \in inS \cup inKids
  BY <1>1, <1>2
<1> HIDE DEF both
<1>7. inS \subseteq inBoth
  BY <1>4 DEF both
<1>8. inKids \subseteq inBoth
  <2> SUFFICES ASSUME NEW k \in DOMAIN kids PROVE kids[k] \in inBoth
    OBVIOUS
  <2>1. k + Len(s) \in DOMAIN both /\ both[k + Len(s)] = kids[k]
    BY <1>5 DEF both
  <2> QED
    BY <2>1
<1>9. inBoth \subseteq inS \cup inKids
  BY <1>6
<1> HIDE DEF inBoth, inS, inKids
<1>10. inBoth = inS \cup inKids
  BY <1>7, <1>8, <1>9
<1> QED
  BY <1>1, <1>3, <1>10 DEF both, inBoth, inS, inKids

(* Two children of one namespace are two, and the children of a namespace  *)
(* that was not listed yet have not been seen.                             *)
LEMMA ListingIsFresh ==
  ASSUME NEW n \in Namespaces
  PROVE  /\ Children[n] \in Seq(Namespaces)
         /\ \A i, j \in DOMAIN Children[n] : Children[n][i] = Children[n][j] => i = j
         /\ Root \notin ChildrenOf(n)
         /\ ChildrenOf(n) \subseteq Namespaces
         /\ \A p \in Namespaces : ChildrenOf(n) \cap ChildrenOf(p) # {} => n = p
<1>1. Children[n] \in Seq(Namespaces) /\ ChildrenOf(n) \subseteq Namespaces
  BY NamespaceAssumption DEF ChildrenOf
<1> QED
  BY <1>1, TreeAssumption DEF ChildrenOf

-----------------------------------------------------------------------------
(* The invariant holds at the start, and every step keeps it.              *)

LEMMA InitInvariant == Init => WalkInv
<1> SUFFICES ASSUME Init PROVE WalkInv
    OBVIOUS
<1> USE DEF Init, FlagsDown
<1>1. stack \in Seq(Namespaces) /\ ns \in Namespaces
  BY NamespaceAssumption
<1>a. stats \in Stats
  BY DEF Stats, Completions
<1>b. FlagsOK
  BY DEF FlagsOK
<1>2. OnStack = {Root} /\ InHand = {} /\ Reached = {}
  BY DEF OnStack, InHand, Reached
<1>3. EachOnce /\ Descent
  BY <1>2 DEF EachOnce, Descent
<1>4. Tally
  BY FS_EmptySet, NoClasses DEF Tally, CompleteTotalIsExact
<1>5. RootFirst
  BY <1>2, FS_EmptySet DEF RootFirst
<1>6. NothingLost
  BY <1>2 DEF NothingLost
<1> QED
  BY <1>1, <1>a, <1>b, <1>3, <1>4, <1>5, <1>6 DEF WalkInv

(* The flags move and the walk does not.                                   *)
LEMMA FlagsKeepInvariant ==
  ASSUME WalkInv, RaiseFlag \/ BudgetSpent, UNCHANGED walking
  PROVE  WalkInv'
<1>1. FlagsOK'
  BY DEF WalkInv, FlagsOK, RaiseFlag, BudgetSpent
<1>2. EachOnce' /\ Descent' /\ Tally' /\ RootFirst' /\ NothingLost'
  BY DEF WalkInv, walking, EachOnce, Descent, Tally, CompleteTotalIsExact, RootFirst, NothingLost,
         OnStack, InHand, Reached
<1> QED
  BY <1>1, <1>2 DEF WalkInv, walking

LEMMA FinishedKeepsInvariant ==
  ASSUME WalkInv, Finished
  PROVE  WalkInv'
<1> USE DEF WalkInv, Finished, walkFrame, flags
<1>1. OnStack' = {} /\ OnStack = {} /\ InHand' = {} /\ InHand = {} /\ Reached' = Reached
  BY DEF OnStack, InHand, Reached
<1>2. EachOnce' /\ Descent'
  BY <1>1 DEF EachOnce, Descent
<1>3. Tally' /\ RootFirst'
  BY <1>1 DEF Tally, CompleteTotalIsExact, RootFirst
<1>4. NothingLost'
  BY <1>1 DEF NothingLost
<1> QED
  BY <1>2, <1>3, <1>4 DEF FlagsOK

(* Popping takes one namespace off the stack.                              *)
LEMMA PoppedStack ==
  ASSUME WalkInv, stack # <<>>, stack' = Remaining(stack)
  PROVE  /\ stack' \in Seq(Namespaces)
         /\ stack[Len(stack)] \in Namespaces
         /\ \A i, j \in DOMAIN stack' : stack'[i] = stack'[j] => i = j
         /\ OnStack' = OnStack \ {stack[Len(stack)]}
         /\ stack[Len(stack)] \in OnStack
         /\ stack = <<Root>> => stack' = <<>>
<1>1. /\ stack' \in Seq(Namespaces) /\ Len(stack) \in Nat \ {0}
      /\ Len(stack') = Len(stack) - 1 /\ stack[Len(stack)] \in Namespaces
      /\ \A i \in 1 .. Len(stack) - 1 : stack'[i] = stack[i]
  BY PopLeaves DEF WalkInv
<1>2. DOMAIN stack = 1 .. Len(stack) /\ DOMAIN stack' = 1 .. Len(stack) - 1
  BY <1>1 DEF WalkInv
<1>3. \A i, j \in DOMAIN stack : stack[i] = stack[j] => i = j
  BY DEF WalkInv, EachOnce
<1>4. \A i, j \in DOMAIN stack' : stack'[i] = stack'[j] => i = j
  BY <1>1, <1>2, <1>3
<1>5. OnStack' = OnStack \ {stack[Len(stack)]}
  <2>1. OnStack' \subseteq OnStack \ {stack[Len(stack)]}
    BY <1>1, <1>2, <1>3 DEF OnStack
  <2>2. OnStack \ {stack[Len(stack)]} \subseteq OnStack'
    BY <1>1, <1>2 DEF OnStack
  <2> QED
    BY <2>1, <2>2
<1>6. stack[Len(stack)] \in OnStack
  BY <1>1, <1>2 DEF OnStack
<1>7. stack = <<Root>> => stack' = <<>>
  BY <1>1
<1> QED
  BY <1>1, <1>4, <1>5, <1>6, <1>7

LEMMA GiveUpKeepsInvariant ==
  ASSUME WalkInv, GiveUp
  PROVE  WalkInv'
<1> USE DEF WalkInv, GiveUp, walkFrame, flags
<1>1. /\ stack' \in Seq(Namespaces) /\ OnStack' \subseteq OnStack
      /\ \A i, j \in DOMAIN stack' : stack'[i] = stack'[j] => i = j
      /\ stack = <<Root>> => stack' = <<>>
  BY PoppedStack
<1>2. InHand' = {} /\ Reached' = Reached
  BY DEF InHand, Reached
<1>3. EachOnce' /\ Descent'
  BY <1>1, <1>2 DEF EachOnce, Descent
<1>4. stats' \in Stats /\ stats'.completion # "complete"
  BY DEF Stats, Completions
<1>5. /\ stats'.namespaces = stats.namespaces /\ stats'.unreadable = stats.unreadable
      /\ stats'.total_classes = stats.total_classes /\ stats'.classes = stats.classes
  BY DEF Stats
<1>6. Tally' /\ RootFirst'
  BY <1>1, <1>2, <1>4, <1>5 DEF Tally, CompleteTotalIsExact, RootFirst
<1>7. NothingLost'
  BY <1>4 DEF NothingLost
<1> QED
  BY <1>1, <1>3, <1>4, <1>6, <1>7 DEF FlagsOK

LEMMA PopKeepsInvariant ==
  ASSUME WalkInv, Pop
  PROVE  WalkInv'
<1> USE DEF WalkInv, Pop, walkFrame, flags
<1>1. /\ stack' \in Seq(Namespaces) /\ ns' \in Namespaces
      /\ \A i, j \in DOMAIN stack' : stack'[i] = stack'[j] => i = j
      /\ OnStack' = OnStack \ {ns'} /\ ns' \in OnStack
      /\ stack = <<Root>> => stack' = <<>>
  BY PoppedStack
<1>2. InHand = {} /\ InHand' = {ns'} /\ Reached' = Reached
  BY DEF InHand, Reached
<1>3. EachOnce' /\ Descent'
  BY <1>1, <1>2 DEF EachOnce, Descent
<1>4. Tally' /\ RootFirst'
  BY <1>1, <1>2 DEF Tally, CompleteTotalIsExact, RootFirst
<1>5. NothingLost'
  BY <1>1, <1>2 DEF NothingLost
<1> QED
  BY <1>1, <1>3, <1>4, <1>5 DEF FlagsOK

LEMMA BindKeepsInvariant ==
  ASSUME WalkInv, Bind
  PROVE  WalkInv'
<1> USE DEF WalkInv, Bind, AfterRefusal, walkFrame, flags
<1>1. CASE UNCHANGED <<stats, refused>>
  <2>1. /\ OnStack' = OnStack /\ InHand = {ns} /\ Reached' = Reached /\ stats' = stats
        /\ \/ pc' = "count" /\ InHand' = {ns}
           \/ pc' = "failed" /\ InHand' = {}
    BY <1>1 DEF OnStack, InHand, Reached, Tally, Stats
  <2>2. EachOnce' /\ Descent'
    BY <2>1 DEF EachOnce, Descent
  <2>3. Tally' /\ RootFirst'
    BY <1>1, <2>1 DEF Tally, CompleteTotalIsExact, RootFirst
  <2>4. NothingLost'
    BY <1>1, <2>1 DEF NothingLost
  <2> QED
    BY <1>1, <2>1, <2>2, <2>3, <2>4 DEF FlagsOK
<1>2. CASE /\ ~root /\ pc' = AfterRefusal
           /\ stats' = [stats EXCEPT !.unreadable = @ + 1]
           /\ refused' = refused \cup {ns}
  <2>1. /\ OnStack' = OnStack /\ InHand = {ns} /\ InHand' = {}
        /\ Reached' = Reached \cup {ns} /\ ns \notin Reached
    BY <1>2 DEF OnStack, InHand, Reached, EachOnce
  <2>2. EachOnce' /\ Descent'
    BY <1>2, <2>1 DEF EachOnce, Descent, Reached
  <2>3. /\ stats' \in Stats /\ stats'.unreadable = stats.unreadable + 1
        /\ stats'.namespaces = stats.namespaces /\ stats'.completion = stats.completion
        /\ stats'.total_classes = stats.total_classes /\ stats'.classes = stats.classes
    BY <1>2 DEF Stats
  <2>4. Cardinality(refused') = Cardinality(refused) + 1
    <3>1. IsFiniteSet(refused) /\ ns \notin refused
      BY <2>1, NamespaceAssumption, FS_Subset DEF Reached
    <3> QED
      BY <1>2, <3>1, FS_AddElement
  <2>5. Tally' /\ RootFirst'
    BY <1>2, <2>1, <2>3, <2>4 DEF Tally, CompleteTotalIsExact, RootFirst
  <2>6. NothingLost'
    BY <1>2 DEF NothingLost
  <2> QED
    BY <1>2, <2>2, <2>3, <2>5, <2>6 DEF FlagsOK
<1> QED
  BY <1>1, <1>2

LEMMA CountClassesKeepsInvariant ==
  ASSUME WalkInv, CountClasses
  PROVE  WalkInv'
<1>0. /\ pc = "count" /\ pc' = "list"
      /\ UNCHANGED <<recursive, cancel, late, stack, ns, root, missed>>
  BY DEF CountClasses, walkFrame, flags
<1> USE DEF WalkInv
<1>1. /\ OnStack' = OnStack /\ InHand = {ns} /\ InHand' = {ns}
      /\ ns \notin Reached /\ ns \in Namespaces /\ Classes[ns] \in Nat
  BY <1>0, NamespaceAssumption DEF OnStack, InHand, EachOnce
<1>2. CASE \E how \in Completions, n \in 0 .. Classes[ns] :
             /\ MayEnd(how)
             /\ how = "complete" => n = Classes[ns]
             /\ stats' = [stats EXCEPT !.namespaces = @ + 1,
                                       !.total_classes = @ + n,
                                       !.classes = IF root THEN n ELSE @,
                                       !.completion = Keep(how)]
             /\ visited' = visited \cup {ns} /\ UNCHANGED refused
  <2>1. PICK how \in Completions, n \in 0 .. Classes[ns] :
             /\ how = "complete" => n = Classes[ns]
             /\ stats' = [stats EXCEPT !.namespaces = @ + 1,
                                       !.total_classes = @ + n,
                                       !.classes = IF root THEN n ELSE @,
                                       !.completion = Keep(how)]
             /\ visited' = visited \cup {ns} /\ UNCHANGED refused
    BY <1>2
  <2>2. /\ stats' \in Stats /\ stats'.unreadable = stats.unreadable
        /\ stats'.namespaces = stats.namespaces + 1
        /\ stats'.total_classes = stats.total_classes + n
        /\ stats'.classes = (IF root THEN n ELSE stats.classes)
        /\ stats'.completion = Keep(how)
    <3>1. Keep(how) \in Completions
      BY <2>1 DEF Keep, Stats
    <3> DEFINE classes == IF root THEN n ELSE stats.classes
               total == stats.total_classes + n
               namespaces == stats.namespaces + 1
               kept == Keep(how)
    <3>2. classes \in Nat /\ total \in Nat /\ namespaces \in Nat
      BY <1>1 DEF Stats
    <3>3. stats' = [stats EXCEPT !.namespaces = namespaces, !.total_classes = total,
                                 !.classes = classes, !.completion = kept]
      BY <2>1
    <3> HIDE DEF classes, total, namespaces, kept
    <3>4. /\ stats' \in Stats /\ stats'.unreadable = stats.unreadable
          /\ stats'.namespaces = namespaces /\ stats'.total_classes = total
          /\ stats'.classes = classes /\ stats'.completion = kept
      BY <3>1, <3>2, <3>3 DEF Stats, kept
    <3> QED
      BY <3>4 DEF classes, total, namespaces, kept
  <2>c. stats'.completion = "complete" => stats.completion = "complete" /\ how = "complete"
    BY <2>2 DEF Keep
  <2>3. Reached' = Reached \cup {ns}
    BY <2>1 DEF Reached
  <2>4. EachOnce' /\ Descent'
    BY <1>0, <1>1, <2>1, <2>3 DEF EachOnce, Descent, Reached
  <2>5. Cardinality(visited') = Cardinality(visited) + 1
    <3>1. IsFiniteSet(visited) /\ ns \notin visited
      BY <1>0, <1>1, NamespaceAssumption, FS_Subset DEF Reached
    <3> QED
      BY <2>1, <3>1, FS_AddElement
  <2>6. ClassesIn(visited') = ClassesIn(visited) + Classes[ns] /\ ClassesIn(visited) \in Nat
    <3>1. ns \in Namespaces \ visited
      BY <1>1 DEF Reached
    <3> QED
      BY <2>1, <3>1, OneMoreNamespace, ClassesAreFinite
  <2>7. Tally'
    <3>1. n \in Nat /\ n <= Classes[ns] /\ stats.total_classes \in Nat
      BY <1>1 DEF Stats
    <3>2. CompleteTotalIsExact'
      BY <1>1, <2>1, <2>2, <2>c, <2>6 DEF Tally, CompleteTotalIsExact
    <3>3. stats'.total_classes <= ClassesIn(visited')
      BY <1>1, <2>2, <2>6, <3>1 DEF Tally
    <3> QED
      BY <2>1, <2>2, <2>5, <3>2, <3>3 DEF Tally
  <2>8. RootFirst'
    <3>1. root => visited = {} /\ stats.total_classes = 0 /\ Cardinality(visited) = 0
      BY <1>0, FS_EmptySet DEF RootFirst, Reached, Tally
    <3>2. ~recursive => root
      BY <1>0 DEF RootFirst
    <3> QED
      BY <1>0, <1>1, <2>1, <2>2, <2>3, <2>5, <3>1, <3>2 DEF RootFirst, Stats
  <2>9. NothingLost'
    BY <1>0, <1>1, <2>1, <2>2, <2>c DEF NothingLost
  <2> QED
    BY <1>0, <1>1, <2>1, <2>2, <2>4, <2>7, <2>8, <2>9 DEF FlagsOK
<1>3. CASE /\ stats' = [stats EXCEPT !.unreadable = @ + 1]
           /\ refused' = refused \cup {ns} /\ UNCHANGED visited
  <2>1. /\ stats' \in Stats /\ stats'.unreadable = stats.unreadable + 1
        /\ stats'.namespaces = stats.namespaces /\ stats'.completion = stats.completion
        /\ stats'.total_classes = stats.total_classes /\ stats'.classes = stats.classes
    BY <1>3 DEF Stats
  <2>2. Reached' = Reached \cup {ns}
    BY <1>3 DEF Reached
  <2>3. EachOnce' /\ Descent'
    BY <1>0, <1>1, <1>3, <2>2 DEF EachOnce, Descent, Reached
  <2>4. Cardinality(refused') = Cardinality(refused) + 1
    <3>1. IsFiniteSet(refused) /\ ns \notin refused
      BY <1>0, <1>1, NamespaceAssumption, FS_Subset DEF Reached
    <3> QED
      BY <1>3, <3>1, FS_AddElement
  <2>5. Tally' /\ RootFirst'
    BY <1>0, <1>1, <1>3, <2>1, <2>2, <2>4 DEF Tally, CompleteTotalIsExact, RootFirst
  <2>6. NothingLost'
    BY <1>0, <1>3 DEF NothingLost
  <2> QED
    BY <1>0, <1>1, <1>3, <2>1, <2>3, <2>5, <2>6 DEF FlagsOK
<1> QED
  BY <1>2, <1>3 DEF CountClasses

(* The children of the namespace in hand have not been seen.               *)
LEMMA KidsAreFresh ==
  ASSUME WalkInv, pc = "list"
  PROVE  ChildrenOf(ns) \cap (OnStack \cup InHand \cup Reached) = {}
<1> SUFFICES ASSUME NEW kid \in ChildrenOf(ns), kid \in OnStack \cup InHand \cup Reached
             PROVE  FALSE
    OBVIOUS
<1>1. ns \in Namespaces /\ Reached \subseteq Namespaces
  BY DEF WalkInv, Reached
<1>2. kid # Root
  BY <1>1, ListingIsFresh
<1>3. PICK parent \in Reached \ {ns} : kid \in ChildrenOf(parent)
  BY <1>2 DEF WalkInv, Descent
<1>4. ns = parent
  BY <1>1, <1>3, ListingIsFresh
<1> QED
  BY <1>3, <1>4

(* What a listing pushes: nothing, or a leading part of the children.      *)
LEMMA ListChildrenCases ==
  ASSUME WalkInv, ListChildren
  PROVE  /\ pc = "list" /\ pc' = "pop" /\ root' = FALSE
         /\ UNCHANGED <<recursive, cancel, late, ns, visited, refused>>
         /\ stats' \in Stats /\ missed' \in BOOLEAN /\ (missed => missed')
         /\ \A f \in {"classes", "namespaces", "total_classes", "unreadable", "completion"} :
              stats'[f] = stats[f]
         /\ \/ stack' = stack /\ (recursive => missed')
            \/ recursive /\ \E k \in 0 .. Len(Children[ns]) :
                 /\ stack' = stack \o SubSeq(Children[ns], 1, k)
                 /\ ~missed' => SubSeq(Children[ns], 1, k) = Children[ns]
<1>0. /\ pc = "list" /\ pc' = "pop" /\ root' = FALSE
      /\ UNCHANGED <<recursive, cancel, late, ns, visited, refused>>
      /\ root \in BOOLEAN /\ missed \in BOOLEAN /\ stats \in Stats
  BY DEF ListChildren, walkFrame, flags, WalkInv
<1>1. CASE ~(recursive \/ root)
  BY <1>0, <1>1 DEF ListChildren, Stats
<1>2. CASE (recursive \/ root) /\ missed' = TRUE /\ UNCHANGED <<stack, stats>>
  BY <1>0, <1>2
<1>3. ASSUME NEW how \in Completions, NEW k \in 0 .. Len(Children[ns]),
             stats' = [stats EXCEPT !.children = IF root THEN k ELSE @],
             stack' = Push(SubSeq(Children[ns], 1, k)),
             missed' = (missed \/ SubSeq(Children[ns], 1, k) # Children[ns])
      PROVE  /\ stats' \in Stats /\ missed' \in BOOLEAN /\ (missed => missed')
             /\ \A f \in {"classes", "namespaces", "total_classes", "unreadable", "completion"} :
                  stats'[f] = stats[f]
             /\ IF recursive THEN stack' = stack \o SubSeq(Children[ns], 1, k) ELSE stack' = stack
             /\ ~missed' => SubSeq(Children[ns], 1, k) = Children[ns]
  <2>1. k \in Nat
    OBVIOUS
  <2>2. stats' \in Stats
    BY <1>0, <1>3, <2>1 DEF Stats
  <2> QED
    BY <1>0, <1>3, <2>2 DEF Stats, Push
<1> QED
  BY <1>0, <1>1, <1>2, <1>3 DEF ListChildren

LEMMA ListChildrenKeepsInvariant ==
  ASSUME WalkInv, ListChildren
  PROVE  WalkInv'
<1>1. /\ pc = "list" /\ pc' = "pop" /\ root' = FALSE
      /\ UNCHANGED <<recursive, cancel, late, ns, visited, refused>>
      /\ stats' \in Stats /\ missed' \in BOOLEAN /\ (missed => missed')
      /\ stats'.namespaces = stats.namespaces /\ stats'.completion = stats.completion
      /\ stats'.total_classes = stats.total_classes /\ stats'.classes = stats.classes
      /\ stats'.unreadable = stats.unreadable
  BY ListChildrenCases
<1>2. /\ InHand = {ns} /\ InHand' = {} /\ Reached' = Reached /\ ns \in Reached
  BY <1>1 DEF InHand, Reached, WalkInv, EachOnce
<1>3. Tally'
  BY <1>1 DEF WalkInv, Tally, CompleteTotalIsExact
<1>4. CASE stack' = stack /\ (recursive => missed')
  <2>1. OnStack' = OnStack
    BY <1>4 DEF OnStack
  <2>2. EachOnce' /\ Descent'
    BY <1>1, <1>2, <1>4, <2>1 DEF WalkInv, EachOnce, Descent
  <2>3. RootFirst' /\ NothingLost'
    BY <1>1, <1>4 DEF WalkInv, RootFirst, NothingLost
  <2> QED
    BY <1>1, <1>3, <1>4, <2>2, <2>3 DEF WalkInv, FlagsOK
<1>5. ASSUME recursive, NEW k \in 0 .. Len(Children[ns]),
             stack' = stack \o SubSeq(Children[ns], 1, k),
             ~missed' => SubSeq(Children[ns], 1, k) = Children[ns]
      PROVE  WalkInv'
  <2> DEFINE kids == SubSeq(Children[ns], 1, k)
             kidSet == {kids[i] : i \in DOMAIN kids}
  <2>1. /\ ns \in Namespaces /\ Children[ns] \in Seq(Namespaces)
        /\ ChildrenOf(ns) \subseteq Namespaces
        /\ \A i, j \in DOMAIN Children[ns] : Children[ns][i] = Children[ns][j] => i = j
    BY ListingIsFresh DEF WalkInv
  <2>2. /\ kids \in Seq(Namespaces)
        /\ DOMAIN kids \subseteq DOMAIN Children[ns]
        /\ \A i \in DOMAIN kids : kids[i] = Children[ns][i]
    BY <2>1
  <2>3. kidSet \subseteq ChildrenOf(ns) /\ (kids = Children[ns] => kidSet = ChildrenOf(ns))
    BY <2>2 DEF ChildrenOf
  <2>4. \A i, j \in DOMAIN kids : kids[i] = kids[j] => i = j
    BY <2>1, <2>2
  <2> HIDE DEF kids
  <2>5. \A i \in DOMAIN stack, j \in DOMAIN kids : stack[i] # kids[j]
    BY <1>1, <2>3, KidsAreFresh DEF OnStack
  <2>6. /\ stack' \in Seq(Namespaces) /\ OnStack' = OnStack \cup kidSet
        /\ \A i, j \in DOMAIN stack' : stack'[i] = stack'[j] => i = j
    <3>1. stack \in Seq(Namespaces) /\ \A i, j \in DOMAIN stack : stack[i] = stack[j] => i = j
      BY DEF WalkInv, EachOnce
    <3>2. stack' = stack \o kids
      BY <1>5 DEF kids
    <3>3. /\ stack \o kids \in Seq(Namespaces)
          /\ \A i, j \in DOMAIN (stack \o kids) : (stack \o kids)[i] = (stack \o kids)[j] => i = j
          /\ {(stack \o kids)[i] : i \in DOMAIN (stack \o kids)} =
               {stack[i] : i \in DOMAIN stack} \cup {kids[i] : i \in DOMAIN kids}
      BY <2>2, <2>4, <2>5, <3>1, PushAdds, Zenon
    <3> QED
      BY <3>2, <3>3, Zenon DEF OnStack
  <2> HIDE DEF kidSet
  <2>7. kidSet \cap Reached = {} /\ \A n \in kidSet : n \in ChildrenOf(ns)
    BY <1>1, <2>3, KidsAreFresh
  <2>8. EachOnce' /\ Descent'
    BY <1>1, <1>2, <2>6, <2>7 DEF WalkInv, EachOnce, Descent
  <2>9. RootFirst'
    BY <1>1, <1>5 DEF WalkInv, RootFirst
  <2>10. NothingLost'
    <3> SUFFICES ASSUME stats.completion = "complete", refused = {}, ~missed'
                 PROVE  NothingLost'
        BY <1>1 DEF NothingLost
    <3>1. OnStack' = OnStack \cup ChildrenOf(ns)
      BY <1>5, <2>3, <2>6 DEF kids
    <3>2. ns \in visited /\ ~missed
      BY <1>1, <1>2 DEF Reached, WalkInv
    <3> QED
      BY <1>1, <1>2, <1>5, <3>1, <3>2 DEF WalkInv, NothingLost
  <2> QED
    BY <1>1, <1>3, <2>6, <2>8, <2>9, <2>10 DEF WalkInv, FlagsOK
<1> QED
  BY <1>4, <1>5, ListChildrenCases

(* The invariant of the walk (namespace_stats()): every namespace is       *)
(* waiting, in hand or reached, once, and got there from its parent; the   *)
(* numbers are those of what was reached.                                  *)
THEOREM WalkInvariant == Spec => []WalkInv
<1>1. WalkInv /\ [Next]_vars => WalkInv'
  <2> SUFFICES ASSUME WalkInv, [Next]_vars PROVE WalkInv'
      OBVIOUS
  <2>1. CASE UNCHANGED vars
    BY <2>1 DEF vars, walking, flags, WalkInv, FlagsOK, EachOnce, Descent, Tally,
                CompleteTotalIsExact, RootFirst, NothingLost, OnStack, InHand, Reached
  <2>2. CASE (RaiseFlag \/ BudgetSpent) /\ UNCHANGED walking
    BY <2>2, FlagsKeepInvariant
  <2>3. CASE Walk
    BY <2>3, FinishedKeepsInvariant, GiveUpKeepsInvariant, PopKeepsInvariant, BindKeepsInvariant,
       CountClassesKeepsInvariant, ListChildrenKeepsInvariant DEF Walk
  <2> QED
    BY <2>1, <2>2, <2>3 DEF Next
<1> QED
  BY <1>1, InitInvariant, PTL DEF Spec

(* What the invariant says of the rollup.                                  *)
LEMMA InvariantGivesTruth == WalkInv => RollupIsTrue
<1> SUFFICES ASSUME WalkInv PROVE RollupIsTrue
    OBVIOUS
<1>1. IsFiniteSet(Namespaces) /\ IsFiniteSet(visited) /\ IsFiniteSet(refused)
  BY NamespaceAssumption, FS_Subset DEF WalkInv
<1>2. TypeOK
  <2>1. Len(stack) <= Cardinality(Namespaces)
    BY NoRepetitionFits DEF WalkInv, EachOnce
  <2> QED
    BY <2>1 DEF WalkInv, TypeOK
<1>3. RollupIsLowerBound
  <2>1. Cardinality(visited \cup refused) = Cardinality(visited) + Cardinality(refused)
    <3>1. visited \cap refused = {}
      BY DEF WalkInv, EachOnce
    <3>2. Cardinality(visited \cup refused) =
            Cardinality(visited) + Cardinality(refused) - Cardinality(visited \cap refused)
      BY <1>1, FS_Union
    <3>3. Cardinality(visited) \in Nat /\ Cardinality(refused) \in Nat
      BY <1>1, FS_CardinalityType
    <3>4. Cardinality(visited \cap refused) = 0
      BY <3>1, FS_EmptySet
    <3> QED
      BY <3>2, <3>3, <3>4
  <2>2. Cardinality(visited \cup refused) <= Cardinality(Namespaces)
    BY <1>1, FS_Subset DEF WalkInv
  <2> QED
    BY <2>1, <2>2 DEF WalkInv, EachOnce, Tally, RootFirst, RollupIsLowerBound
<1>4. OnlyListingsAreLost
  <2> SUFFICES ASSUME pc = "done", recursive, stats.completion = "complete",
                      stats.unreadable = 0, ~missed
               PROVE  visited = Namespaces
      BY DEF OnlyListingsAreLost
  <2>1. refused = {}
    BY <1>1, FS_EmptySet DEF WalkInv, Tally
  <2>2. OnStack \cup InHand \cup visited = visited
    BY <2>1 DEF WalkInv, NothingLost, OnStack, InHand
  <2>3. Root \in visited /\ \A n \in visited : ChildrenOf(n) \subseteq visited
    BY <2>1, <2>2 DEF WalkInv, NothingLost
  <2> QED
    BY <2>3, TreeAssumption DEF WalkInv
<1> QED
  BY <1>2, <1>3, <1>4 DEF RollupIsTrue, WalkInv, Tally

(* Whatever the tree, the refusals, the cuts and the moment: the rollup is *)
(* a lower bound, exact in what it claims to have reached when it calls    *)
(* itself complete, and loses nothing in silence but by a child listing    *)
(* that came short (NamespaceStats, schema.rs).                            *)
THEOREM RollupsAreTrue == Spec => []RollupIsTrue
BY WalkInvariant, InvariantGivesTruth, PTL

-----------------------------------------------------------------------------
(*                               Associations                              *)

(* assoc_rows() shows an association that has an end at least once, with   *)
(* an end of it across from the class, or with the end's own role.         *)
LEMMA RowsShow ==
  ASSUME NEW d \in Defs, NEW subject, NEW inherited, d.ends # {}
  PROVE  \E r \in AssocRows(d, subject, inherited) :
           r.assoc = d.class /\ \E e \in d.ends :
             r.target = e[2] /\ (r.role = e[1] \/ <<r.role, subject>> \in d.ends)
<1>1. CASE Ours(d, subject) = {}
  <2>1. PICK e \in d.ends : TRUE
    OBVIOUS
  <2>2. Row(d, e[1], e[2], <<inherited, "role not resolved">>) \in AssocRows(d, subject, inherited)
    BY <1>1 DEF AssocRows
  <2> QED
    BY <2>2 DEF Row
<1>2. CASE Ours(d, subject) # {}
  <2>1. PICK ours \in d.ends : ours \in Ours(d, subject) /\ ours = <<ours[1], subject>>
    BY <1>2, AssocAssumption DEF Ours
  <2>2. PICK far \in d.ends : far \in FarEnds(d, ours[1])
    BY <2>1 DEF FarEnds
  <2> DEFINE note == <<inherited, IF far[2] = subject THEN "self-referencing" ELSE Absent>>
             row == Row(d, ours[1], far[2], note)
             acrossFrom == {p \in Ours(d, subject) \X d.ends : p[2] \in FarEnds(d, p[1][1])}
  <2>3. <<ours, far>> \in acrossFrom
    BY <2>1, <2>2
  <2>4. <<ours, far>>[1] = ours /\ <<ours, far>>[2] = far
    OBVIOUS
  <2>5. row \in AssocRows(d, subject, inherited)
    BY <1>2, <2>3, <2>4, Zenon DEF AssocRows
  <2>6. row.assoc = d.class /\ row.role = ours[1] /\ row.target = far[2]
    BY DEF Row
  <2>7. <<row.role, subject>> \in d.ends
    BY <2>1, <2>6
  <2> QED
    BY <2>5, <2>6, <2>7
<1> QED
  BY <1>1, <1>2

(* And all its rows are of that association, each with an end of it.       *)
LEMMA RowsAreEnds ==
  ASSUME NEW d \in Defs, NEW subject, NEW inherited,
         NEW r \in AssocRows(d, subject, inherited)
  PROVE  r.assoc = d.class /\ \E e \in d.ends : r.target = e[2]
<1>1. CASE Ours(d, subject) = {}
  <2>1. PICK e \in d.ends : r = Row(d, e[1], e[2], <<inherited, "role not resolved">>)
    BY <1>1 DEF AssocRows
  <2> QED
    BY <2>1 DEF Row
<1>2. CASE Ours(d, subject) # {}
  <2>1. PICK p \in Ours(d, subject) \X d.ends :
          r = Row(d, p[1][1], p[2][2],
                  <<inherited, IF p[2][2] = subject THEN "self-referencing" ELSE Absent>>)
    BY <1>2 DEF AssocRows
  <2> QED
    BY <2>1 DEF Row
<1> QED
  BY <1>1, <1>2

(* Rows only come.                                                         *)
LEMMA ShownRowStays ==
  ASSUME out \subseteq out', NEW d, NEW subject, Shown(d, subject)
  PROVE  Shown(d, subject)'
BY DEF Shown

LEMMA GenuineStays ==
  ASSUME endpoints \subseteq endpoints', NEW r, RowIsGenuine(r)
  PROVE  RowIsGenuine(r)'
BY DEF RowIsGenuine

-----------------------------------------------------------------------------
LEMMA InitEstablishes == AssocInit => AssocInv
<1> SUFFICES ASSUME AssocInit PROVE AssocInv
  OBVIOUS
<1> USE DEF AssocInit
<1>1. lineage \in Seq(DOMAIN Returned) /\ Len(lineage) = 0 /\ asked \in 0 .. Len(lineage)
  OBVIOUS
<1>2. Behind = {}
  BY DEF Behind
<1> QED
  BY <1>1, <1>2 DEF AssocInv, Completions

LEMMA ReadLineageKeeps == AssocInv /\ ReadLineage => AssocInv'
<1> SUFFICES ASSUME AssocInv, ReadLineage PROVE AssocInv'
  OBVIOUS
<1>1. /\ stage = "lineage" /\ stage' = "next"
      /\ lineage' = Ancestors \/ lineage' = <<Head(Ancestors)>>
      /\ UNCHANGED <<asked, out, endpoints, completion>>
  BY DEF ReadLineage
<1>2. lineage' \in Seq(DOMAIN Returned) /\ Len(lineage') \in Nat
  <2> DEFINE C == DOMAIN Returned
  <2>1. Ancestors \in Seq(C) /\ Head(Ancestors) \in C
    BY AssocAssumption
  <2> HIDE DEF C
  <2>2. <<Head(Ancestors)>> \in Seq(C)
    BY <2>1
  <2>3. lineage' \in Seq(C)
    BY <1>1, <2>1, <2>2
  <2>4. Len(lineage') \in Nat
    BY <2>3
  <2> QED
    BY <2>3, <2>4 DEF C
<1>3. asked' = 0
  BY <1>1 DEF AssocInv
<1>4. Behind' = {}
  BY <1>1, <1>3 DEF Behind
<1>5. \A r \in out' : RowIsGenuine(r)'
  BY <1>1, GenuineStays DEF AssocInv
<1> QED
  BY <1>1, <1>2, <1>3, <1>4, <1>5 DEF AssocInv

LEMMA EndEarlyKeeps == AssocInv /\ EndEarly => AssocInv'
<1> SUFFICES ASSUME AssocInv, EndEarly PROVE AssocInv'
  OBVIOUS
<1>1. UNCHANGED <<lineage, asked, out, endpoints>> /\ stage' = "merge"
      /\ completion' \in {"timedout", "cancelled"}
  BY DEF EndEarly
<1>2. \A r \in out' : RowIsGenuine(r)'
  BY <1>1, GenuineStays DEF AssocInv
<1> QED
  BY <1>1, <1>2 DEF AssocInv, Completions

(* A step that moves between the queries: nothing more is behind it.       *)
LEMMA MovesKeep == AssocInv /\ (NextSubject \/ Refused) => AssocInv'
<1> SUFFICES ASSUME AssocInv, NextSubject \/ Refused PROVE AssocInv'
  OBVIOUS
<1>1. UNCHANGED <<lineage, asked, out, endpoints, completion>>
  BY DEF NextSubject, Refused, answer
<1>2. (stage' = "references" /\ asked < Len(lineage)) \/ stage' = "failed"
  BY DEF NextSubject, Refused
<1>3. Behind' \subseteq Behind
  BY <1>1, <1>2 DEF Behind, AssocInv
<1>4. \A r \in out' : RowIsGenuine(r)'
  BY <1>1, GenuineStays DEF AssocInv
<1>5. \A d, c : Shown(d, c) => Shown(d, c)'
  BY <1>1, ShownRowStays
<1> QED
  BY <1>1, <1>2, <1>3, <1>4, <1>5 DEF AssocInv, Related

(* A query for REFERENCES OF that was drained whole has every association  *)
(* of the class in hand shown.                                             *)
LEMMA ReferencesKeep == AssocInv /\ References => AssocInv'
<1> SUFFICES ASSUME AssocInv, References PROVE AssocInv'
  OBVIOUS
<1> DEFINE inherited == IF asked = 0 THEN Absent ELSE Subject
<1>1. /\ stage = "references" /\ stage' = "associators"
      /\ UNCHANGED <<lineage, asked, endpoints>>
  BY DEF References
<1>2. PICK c \in Completions, got \in SUBSET Returned[Subject] :
        /\ c = "complete" => got = Returned[Subject]
        /\ completion' = Noted(c)
        /\ out' = out \cup UNION {AssocRows(d, Subject, inherited) : d \in got}
  BY DEF References
<1>3. Subject \in DOMAIN Returned /\ got \subseteq Defs /\ Returned[Subject] \subseteq Defs
  <2>1. asked + 1 \in 1 .. Len(lineage) /\ lineage \in Seq(DOMAIN Returned)
    BY <1>1 DEF AssocInv
  <2>2. Subject \in DOMAIN Returned
    BY <2>1 DEF Subject
  <2> QED
    BY <2>2, <1>2, AssocAssumption
<1>4. completion' \in Completions
  BY <1>2 DEF Noted, AssocInv
<1>5. completion' = "complete" => completion = "complete" /\ got = Returned[Subject]
  BY <1>2 DEF Noted
<1>6. \A r \in out' : RowIsGenuine(r)'
  <2> SUFFICES ASSUME NEW r \in out' PROVE RowIsGenuine(r)'
    OBVIOUS
  <2>1. CASE r \in out
    BY <2>1, <1>1, GenuineStays DEF AssocInv
  <2>2. CASE r \notin out
    <3>1. PICK d \in got : r \in AssocRows(d, Subject, inherited)
      BY <2>2, <1>2
    <3>2. d \in Defs
      BY <1>3
    <3>3. r.assoc = d.class /\ \E e \in d.ends : r.target = e[2]
      BY <3>1, <3>2, RowsAreEnds
    <3> QED
      BY <3>2, <3>3 DEF RowIsGenuine
  <2> QED
    BY <2>1, <2>2
<1>7. ASSUME completion' = "complete", NEW i \in Behind', NEW d \in Related(lineage[i])
      PROVE  Shown(d, lineage[i])'
  <2>1. CASE i \in Behind
    <3>1. Shown(d, lineage[i])
      BY <2>1, <1>5, <1>7 DEF AssocInv
    <3> QED
      BY <3>1, <1>1, <1>2, ShownRowStays
  <2>2. CASE i \notin Behind
    <3>1. i = asked + 1 /\ lineage[i] = Subject
      BY <2>2, <1>1 DEF Behind, Subject, AssocInv
    <3>2. d \in got /\ d \in Defs /\ d.ends # {}
      BY <3>1, <1>3, <1>5, <1>7 DEF Related
    <3>3. PICK r \in AssocRows(d, Subject, inherited) :
            r.assoc = d.class /\ \E e \in d.ends :
              r.target = e[2] /\ (r.role = e[1] \/ <<r.role, Subject>> \in d.ends)
      BY <3>2, RowsShow
    <3>4. r \in out'
      BY <1>2, <3>2
    <3>5. Subject' = Subject /\ lineage' = lineage
      BY <1>1 DEF Subject
    <3> QED
      BY <3>1, <3>3, <3>4, <3>5 DEF Shown
  <2> QED
    BY <2>1, <2>2
<1>8. \A i \in Behind' : lineage[i]' = lineage[i] /\ Related(lineage[i])' = Related(lineage[i])
  BY <1>1 DEF Related
<1> QED
  BY <1>1, <1>4, <1>6, <1>7, <1>8 DEF AssocInv

LEMMA AssociatorsKeep == AssocInv /\ Associators => AssocInv'
<1> SUFFICES ASSUME AssocInv, Associators PROVE AssocInv'
  OBVIOUS
<1>1. /\ stage = "associators" /\ stage' = "next" /\ asked' = asked + 1
      /\ endpoints \subseteq endpoints' /\ UNCHANGED <<lineage, out, completion>>
  BY DEF Associators
<1>2. Behind' = Behind
  BY <1>1 DEF Behind
<1>3. \A r \in out' : RowIsGenuine(r)'
  BY <1>1, GenuineStays DEF AssocInv
<1>4. \A d, c : Shown(d, c) => Shown(d, c)'
  BY <1>1, ShownRowStays
<1> QED
  BY <1>1, <1>2, <1>3, <1>4 DEF AssocInv, Related

LEMMA MergeKeeps == AssocInv /\ Merge => AssocInv'
<1> SUFFICES ASSUME AssocInv, Merge PROVE AssocInv'
  OBVIOUS
<1> DEFINE alone == {e \in endpoints : \A r \in out : r.target # e}
<1>1. /\ stage' = "done" /\ UNCHANGED <<lineage, asked, endpoints, completion>>
      /\ out' = out \cup {OnlyAssociators(e) : e \in alone}
      /\ stage = "merge" \/ (stage = "next" /\ asked = Len(lineage))
  BY DEF Merge
<1>2. Behind' = Behind
  BY <1>1 DEF Behind
<1>3. \A e \in alone : OnlyAssociators(e).assoc = Absent /\ OnlyAssociators(e).target = e
  BY DEF OnlyAssociators
<1>4. \A r \in out' : RowIsGenuine(r)'
  <2> SUFFICES ASSUME NEW r \in out' PROVE RowIsGenuine(r)'
    OBVIOUS
  <2>1. CASE r \in out
    BY <2>1, <1>1, GenuineStays DEF AssocInv
  <2>2. CASE r \notin out
    <3>1. PICK e \in alone : r = OnlyAssociators(e)
      BY <2>2, <1>1
    <3> QED
      BY <3>1, <1>1, <1>3 DEF RowIsGenuine
  <2> QED
    BY <2>1, <2>2
<1>5. \A d, c : Shown(d, c) => Shown(d, c)'
  BY <1>1, ShownRowStays
<1>6. \A e \in endpoints' : \E r \in out' : r.target = e
  <2> SUFFICES ASSUME NEW e \in endpoints PROVE \E r \in out' : r.target = e
    BY <1>1
  <2>1. CASE e \in alone
    BY <2>1, <1>1, <1>3
  <2>2. CASE e \notin alone
    BY <2>2, <1>1
  <2> QED
    BY <2>1, <2>2
<1> QED
  BY <1>1, <1>2, <1>4, <1>5, <1>6 DEF AssocInv, Related

(* The flag and the clock touch nothing of it.                             *)
LEMMA AssocStutters == AssocInv /\ UNCHANGED asking => AssocInv'
<1> SUFFICES ASSUME AssocInv, UNCHANGED asking PROVE AssocInv'
  OBVIOUS
<1>1. UNCHANGED <<lineage, asked, out, endpoints, completion, stage>>
  BY DEF asking, answer
<1>2. Behind' = Behind
  BY <1>1 DEF Behind
<1>3. \A r \in out' : RowIsGenuine(r)'
  BY <1>1, GenuineStays DEF AssocInv
<1>4. \A d, c : Shown(d, c) => Shown(d, c)'
  BY <1>1, ShownRowStays
<1> QED
  BY <1>1, <1>2, <1>3, <1>4 DEF AssocInv, Related

(* Whatever is behind the loop is shown unless the report says otherwise.  *)
THEOREM AssocInvariant == AssocSpec => []AssocInv
<1>1. AssocInit => AssocInv
  BY InitEstablishes
<1>2. AssocInv /\ [AssocNext]_assocVars => AssocInv'
  BY ReadLineageKeeps, EndEarlyKeeps, MovesKeep, ReferencesKeep, AssociatorsKeep,
     MergeKeeps, AssocStutters
  DEF AssocNext, Asks, assocVars
<1> QED
  BY <1>1, <1>2, PTL DEF AssocSpec

(* A complete report of the associations of a class is whole, and invents  *)
(* none.                                                                   *)
THEOREM CompleteReportsAreWhole == AssocSpec => []CompleteIsWhole
<1>1. AssocInv => CompleteIsWhole
  <2> SUFFICES ASSUME AssocInv, stage = "done" PROVE CompleteIsWhole
    BY DEF CompleteIsWhole
  <2>1. completion = "complete" => Behind = 1 .. Len(lineage)
    BY DEF AssocInv, Behind
  <2> QED
    BY <2>1 DEF AssocInv, CompleteIsWhole, RowIsGenuine
<1> QED
  BY <1>1, AssocInvariant, PTL

-----------------------------------------------------------------------------
(*                              Subscriptions                              *)

(* What is there throughout was there before, and where.                   *)
LEMMA ThroughoutEarlier ==
  ASSUME NEW n, NEW part, NEW x, held[n] \subseteq held'[n], held[n] # {},
         x \in Ever(n, part)', Throughout(n, x, part)'
  PROVE  x \in Ever(n, part) /\ Throughout(n, x, part)
BY DEF Throughout, Ever

LEMMA OwnNameEarlier ==
  ASSUME NEW n, NEW c, held[n] \subseteq held'[n], OwnName(n, c)'
  PROVE  OwnName(n, c)
BY DEF OwnName, Ever

(* So what a namespace has to show only becomes less, and rows only come.  *)
LEMMA ShownStays ==
  ASSUME NEW n, held[n] \subseteq held'[n], held[n] # {}, subs \subseteq subs'
  PROVE  /\ BindingsShown(n) => BindingsShown(n)'
         /\ FiltersShown(n) => FiltersShown(n)'
         /\ ConsumersShown(n) => ConsumersShown(n)'
<1>1. ASSUME BindingsShown(n) PROVE BindingsShown(n)'
  <2> SUFFICES ASSUME NEW b \in Ever(n, "bindings")',
                      Throughout(n, b, "bindings")', OwnName(n, b[2])',
                      Throughout(n, b[1], "filters")', Throughout(n, b[2], "consumers")'
               PROVE  RowShows(n, b)'
    BY DEF BindingsShown
  <2>1. b \in Ever(n, "bindings") /\ Throughout(n, b, "bindings")
    BY ThroughoutEarlier
  <2>2. Throughout(n, b[1], "filters") /\ Throughout(n, b[2], "consumers")
    BY DEF Throughout
  <2>3. OwnName(n, b[2])
    BY OwnNameEarlier
  <2>4. RowShows(n, b)
    BY <1>1, <2>1, <2>2, <2>3 DEF BindingsShown
  <2> QED
    BY <2>4 DEF RowShows
<1>2. ASSUME FiltersShown(n) PROVE FiltersShown(n)'
  BY <1>2, ThroughoutEarlier DEF FiltersShown
<1>3. ASSUME ConsumersShown(n) PROVE ConsumersShown(n)'
  BY <1>3, ThroughoutEarlier, OwnNameEarlier DEF ConsumersShown
<1> QED
  BY <1>1, <1>2, <1>3

(* A set with one of each name gives that one for its name.                *)
LEMMA ReadByName ==
  ASSUME NEW set, OneOfEachName(set), NEW x \in set, NEW none
  PROVE  NameRead(set, x.name, none) = x
BY DEF NameRead, OneOfEachName

(* A consumer without a binding is worth Medium or more.                   *)
LEMMA StagedIsNeverLow ==
  ASSUME NEW class, NEW query, NEW action
  PROVE  AtLeast(Assess(class, query, action), "Medium") # "Low"
<1>1. Level["Low"] = 1 /\ Level["Medium"] = 2 /\ Level["High"] = 3
  BY DEF Level
<1>2. Assess(class, query, action) \in {"Low", "Medium", "High"}
  BY DEF Assess, AtLeast
<1> QED
  BY <1>1, <1>2 DEF AtLeast

-----------------------------------------------------------------------------
LEMMA ScanBegins == SubsInit => ScanInv
<1> SUFFICES ASSUME SubsInit PROVE ScanInv
  OBVIOUS
<1>1. Len(Scanned) \in Nat /\ Len(Scanned) # 0
  BY ScanAssumption
<1>2. DOMAIN world = Spaces /\ world = [n \in Spaces |-> world[n]]
  BY DEF SubsInit
<1>3. held = [n \in Spaces |-> {world[n]}]
  BY <1>2 DEF SubsInit
<1>4. held = [n \in Spaces |-> held[n]] /\ \A n \in Spaces : world[n] \in held[n] /\ held[n] \subseteq Worlds[n]
  BY <1>2, <1>3 DEF SubsInit
<1> QED
  BY <1>1, <1>2, <1>4 DEF SubsInit, ScanInv

(* The namespace in hand is one of them.                                   *)
LEMMA HereIsASpace ==
  ASSUME ScanInv, phase \in {"filters", "consumers", "bindings"}
  PROVE  /\ Here \in Spaces /\ Here \in DOMAIN Worlds
         /\ past + 1 \in 1 .. Len(Scanned) /\ Here = Scanned[past + 1]
         /\ world[Here] \in held[Here] /\ world[Here] \in Worlds[Here]
<1>1. Len(Scanned) \in Nat /\ DOMAIN Scanned = 1 .. Len(Scanned)
  BY ScanAssumption
<1>2. past + 1 \in DOMAIN Scanned
  BY <1>1 DEF ScanInv
<1>3. Here \in Spaces /\ Here \in DOMAIN Worlds
  BY <1>2, ScanAssumption DEF Here, Spaces
<1> QED
  BY <1>1, <1>2, <1>3 DEF ScanInv, Here

(* Somebody changes the repository: what has been read has what was there  *)
(* all along.                                                              *)
LEMMA ChangeKeeps ==
  ASSUME ScanInv, NEW n \in Spaces, Change(n)
  PROVE  ScanInv'
<1>1. PICK w \in Worlds[n] \ held[n] :
        world' = [world EXCEPT ![n] = w] /\ held' = [held EXCEPT ![n] = @ \cup {w}]
  BY DEF Change
<1>2. UNCHANGED <<past, filters, consumers, subs, unread, phase>>
  BY DEF Change
<1>3. /\ world' = [m \in Spaces |-> world'[m]] /\ held' = [m \in Spaces |-> held'[m]]
      /\ \A m \in Spaces : world'[m] \in held'[m] /\ held'[m] \subseteq Worlds[m]
      /\ \A m \in Spaces : held[m] \subseteq held'[m] /\ held[m] # {}
  BY <1>1 DEF ScanInv
<1>4. phase \in {"filters", "consumers", "bindings"} => Here \in Spaces /\ Here' = Here
  BY <1>2, HereIsASpace DEF Here
<1>5. phase \in {"consumers", "bindings"} => FiltersInHand'
  <2> SUFFICES ASSUME phase \in {"consumers", "bindings"} PROVE FiltersInHand'
    OBVIOUS
  <2>1. FiltersInHand
    BY DEF ScanInv
  <2>2. \A f \in Ever(Here, "filters")' : Throughout(Here, f, "filters")' => f \in filters
    <3> SUFFICES ASSUME NEW f \in Ever(Here, "filters")', Throughout(Here, f, "filters")'
                 PROVE  f \in filters
      OBVIOUS
    <3>1. f \in Ever(Here, "filters") /\ Throughout(Here, f, "filters")
      BY <1>3, <1>4 DEF Ever, Throughout
    <3> QED
      BY <2>1, <3>1 DEF FiltersInHand
  <2> QED
    BY <1>2, <2>1, <2>2 DEF FiltersInHand
<1>6. phase = "bindings" => ConsumersInHand'
  <2> SUFFICES ASSUME phase = "bindings" PROVE ConsumersInHand'
    OBVIOUS
  <2>1. ConsumersInHand
    BY DEF ScanInv
  <2>2. \A c \in Ever(Here, "consumers")' :
          Throughout(Here, c, "consumers")' /\ OwnName(Here, c)' => c \in consumers
    <3> SUFFICES ASSUME NEW c \in Ever(Here, "consumers")', Throughout(Here, c, "consumers")',
                        OwnName(Here, c)'
                 PROVE  c \in consumers
      OBVIOUS
    <3>1. c \in Ever(Here, "consumers") /\ Throughout(Here, c, "consumers") /\ OwnName(Here, c)
      BY <1>3, <1>4 DEF Ever, Throughout, OwnName
    <3> QED
      BY <2>1, <3>1 DEF ConsumersInHand
  <2> QED
    BY <1>2, <2>1, <2>2 DEF ConsumersInHand
<1>7. ASSUME NEW i \in 1 .. past, Scanned[i] \notin unread
      PROVE  (BindingsShown(Scanned[i]) /\ FiltersShown(Scanned[i]) /\ ConsumersShown(Scanned[i]))'
  <2>1. BindingsShown(Scanned[i]) /\ FiltersShown(Scanned[i]) /\ ConsumersShown(Scanned[i])
    BY <1>7 DEF ScanInv
  <2>2. Scanned[i] \in Spaces
    <3>1. i \in DOMAIN Scanned
      BY ScanAssumption DEF ScanInv
    <3> QED
      BY <3>1 DEF Spaces
  <2>3. held[Scanned[i]] \subseteq held'[Scanned[i]] /\ held[Scanned[i]] # {} /\ subs \subseteq subs'
    BY <1>2, <1>3, <2>2
  <2> QED
    BY <2>1, <2>3, ShownStays
<1> QED
  BY <1>2, <1>3, <1>5, <1>6, <1>7 DEF ScanInv

(* What is shown of the namespaces behind the one in hand stays so while   *)
(* the repository does.                                                    *)
LEMMA BehindStays ==
  ASSUME ScanInv, UNCHANGED repository, subs \subseteq subs', unread \subseteq unread',
         NEW i \in 1 .. past, Scanned[i] \notin unread'
  PROVE  (BindingsShown(Scanned[i]) /\ FiltersShown(Scanned[i]) /\ ConsumersShown(Scanned[i]))'
<1>1. BindingsShown(Scanned[i]) /\ FiltersShown(Scanned[i]) /\ ConsumersShown(Scanned[i])
  BY DEF ScanInv
<1>2. Scanned[i] \in Spaces
  <2>1. i \in DOMAIN Scanned
    BY ScanAssumption DEF ScanInv
  <2> QED
    BY <2>1 DEF Spaces
<1>3. held[Scanned[i]] \subseteq held'[Scanned[i]] /\ held[Scanned[i]] # {}
  BY <1>2 DEF ScanInv, repository
<1> QED
  BY <1>1, <1>3, ShownStays

LEMMA ReadFiltersKeeps == ScanInv /\ ReadFilters => ScanInv'
<1> SUFFICES ASSUME ScanInv, ReadFilters PROVE ScanInv'
  OBVIOUS
<1>1. /\ phase = "filters" /\ phase' = "consumers" /\ filters' = world[Here].filters
      /\ UNCHANGED <<past, consumers, subs, unread>> /\ UNCHANGED repository
  BY DEF ReadFilters
<1>2. world[Here] \in held[Here] /\ world[Here] \in Worlds[Here] /\ Here \in DOMAIN Worlds
  BY <1>1, HereIsASpace
<1>3. FiltersInHand'
  <2>1. OneOfEachName(filters')
    BY <1>1, <1>2, ScanAssumption DEF OneOfEachName
  <2>2. \A f : Throughout(Here, f, "filters") => f \in filters'
    BY <1>1, <1>2 DEF Throughout
  <2>3. Here' = Here /\ \A f : Throughout(Here, f, "filters")' = Throughout(Here, f, "filters")
    BY <1>1 DEF Here, Throughout, repository
  <2> QED
    BY <2>1, <2>2, <2>3 DEF FiltersInHand, OneOfEachName
<1> QED
  BY <1>1, <1>3, BehindStays DEF ScanInv, repository

LEMMA ReadConsumersKeeps == ScanInv /\ ReadConsumers => ScanInv'
<1> SUFFICES ASSUME ScanInv, ReadConsumers PROVE ScanInv'
  OBVIOUS
<1>1. /\ phase = "consumers" /\ phase' = "bindings"
      /\ consumers' \in OnePerName(world[Here].consumers)
      /\ UNCHANGED <<past, filters, subs, unread>> /\ UNCHANGED repository
  BY DEF ReadConsumers
<1>2. world[Here] \in held[Here]
  BY <1>1, HereIsASpace
<1>3. /\ consumers' \subseteq world[Here].consumers
      /\ \A x \in world[Here].consumers : \E y \in consumers' : y.name = x.name
      /\ OneOfEachName(consumers')
  BY <1>1 DEF OnePerName, OneOfEachName
<1>4. ASSUME NEW c, Throughout(Here, c, "consumers"), OwnName(Here, c)
      PROVE  c \in consumers'
  <2>1. c \in world[Here].consumers
    BY <1>2, <1>4 DEF Throughout
  <2>2. PICK y \in consumers' : y.name = c.name
    BY <1>3, <2>1
  <2>3. y \in Ever(Here, "consumers")
    BY <1>2, <1>3 DEF Ever
  <2> QED
    BY <1>4, <2>2, <2>3 DEF OwnName
<1>5. /\ Here' = Here
      /\ \A part, x : Throughout(Here, x, part)' = Throughout(Here, x, part)
      /\ \A part : Ever(Here, part)' = Ever(Here, part)
      /\ \A c : OwnName(Here, c)' = OwnName(Here, c)
  BY <1>1 DEF Here, Throughout, Ever, OwnName, repository
<1>6. ConsumersInHand'
  BY <1>3, <1>4, <1>5 DEF ConsumersInHand, OneOfEachName
<1>7. FiltersInHand'
  BY <1>1, <1>5 DEF ScanInv, FiltersInHand, OneOfEachName
<1> QED
  BY <1>1, <1>6, <1>7, BehindStays DEF ScanInv, repository

(* The next namespace, or the report.                                      *)
LEMMA NextIsInOrder ==
  ASSUME ScanInv, phase \in {"filters", "consumers", "bindings"}, NextNamespace
  PROVE  /\ past' = past + 1 /\ past' \in 0 .. Len(Scanned)
         /\ phase' \in {"filters", "report"}
         /\ phase' = "filters" <=> past' < Len(Scanned)
         /\ 1 .. past' = (1 .. past) \cup {past'} /\ Scanned[past'] = Here
<1>1. Len(Scanned) \in Nat
  BY ScanAssumption
<1> QED
  BY <1>1 DEF ScanInv, NextNamespace, Here

(* A binding that is there throughout gets a row with its own filter and   *)
(* its own consumer; a filter or a consumer gets one by its bindings or by *)
(* having none.                                                            *)
LEMMA ReadBindingsKeeps == ScanInv /\ ReadBindings => ScanInv'
<1> SUFFICES ASSUME ScanInv, ReadBindings PROVE ScanInv'
  OBVIOUS
<1> DEFINE bound == world[Here].bindings
           fresh == {BoundRow(b) : b \in bound} \cup UnboundConsumers(bound)
                                                \cup UnboundFilters(bound)
<1>1. /\ phase = "bindings" /\ NextNamespace /\ subs' = subs \cup fresh
      /\ UNCHANGED repository /\ UNCHANGED unread
  BY DEF ReadBindings
<1>2. world[Here] \in held[Here]
  BY <1>1, HereIsASpace
<1>3. FiltersInHand /\ ConsumersInHand
  BY <1>1 DEF ScanInv
<1>4. \A b \in bound : BoundRow(b) \in subs'
  BY <1>1
<1>5. ASSUME NEW n, n = Here
      PROVE  \A part : /\ Ever(n, part)' = Ever(n, part)
                       /\ \A x : Throughout(n, x, part)' = Throughout(n, x, part)
  BY <1>1 DEF Ever, Throughout, repository
<1>6. ASSUME NEW n, n = Here
      PROVE  \A c : OwnName(n, c)' = OwnName(n, c)
  BY <1>5, <1>6 DEF OwnName
<1>7. ASSUME NEW b \in bound
      PROVE  LET f == NameRead(filters, b[1].name, NoFilter)
                 c == NameRead(consumers, b[2].name, NoConsumer)
             IN  /\ BoundRow(b).ns = Here /\ BoundRow(b).bound = TRUE
                 /\ BoundRow(b).filter = f /\ BoundRow(b).consumer = c
                 /\ BoundRow(b).risk = Assess(c.class, f.query, c.action)
  BY DEF BoundRow, Sub
<1>8. ASSUME NEW n, n = Here PROVE BindingsShown(n)'
  <2> SUFFICES ASSUME NEW b \in Ever(n, "bindings")',
                      Throughout(n, b, "bindings")', OwnName(n, b[2])',
                      Throughout(n, b[1], "filters")', Throughout(n, b[2], "consumers")'
               PROVE  RowShows(n, b)'
    BY DEF BindingsShown
  <2>1. b \in bound
    BY <1>2, <1>5, <1>8 DEF Throughout
  <2>2. b[1] \in filters
    BY <1>2, <1>3, <1>5, <1>8 DEF FiltersInHand, Throughout, Ever
  <2>3. b[2] \in consumers
    <3>1. OwnName(Here, b[2]) /\ Throughout(Here, b[2], "consumers")
      BY <1>5, <1>6, <1>8
    <3>2. b[2] \in Ever(Here, "consumers")
      BY <1>2, <3>1 DEF Throughout, Ever
    <3> QED
      BY <1>3, <3>1, <3>2 DEF ConsumersInHand
  <2>4. NameRead(filters, b[1].name, NoFilter) = b[1]
    BY <1>3, <2>2, ReadByName DEF FiltersInHand
  <2>5. NameRead(consumers, b[2].name, NoConsumer) = b[2]
    BY <1>3, <2>3, ReadByName DEF ConsumersInHand
  <2> QED
    BY <1>4, <1>7, <1>8, <2>1, <2>4, <2>5 DEF RowShows
<1>9. ASSUME NEW n, n = Here PROVE FiltersShown(n)'
  <2> SUFFICES ASSUME NEW f \in Ever(n, "filters")', Throughout(n, f, "filters")'
               PROVE  \E s \in subs' : s.ns = n /\ s.filter = f
    BY DEF FiltersShown
  <2>1. f \in filters
    BY <1>2, <1>3, <1>5, <1>9 DEF FiltersInHand, Throughout, Ever
  <2>2. CASE \E b \in bound : b[1].name = f.name
    <3>1. PICK b \in bound : b[1].name = f.name
      BY <2>2
    <3>2. NameRead(filters, b[1].name, NoFilter) = f
      BY <1>3, <2>1, <3>1, ReadByName DEF FiltersInHand
    <3> QED
      BY <1>4, <1>7, <1>9, <3>1, <3>2
  <2>3. CASE \A b \in bound : b[1].name # f.name
    <3>1. Sub(f, NoConsumer, "Low", FALSE) \in subs'
      BY <1>1, <2>1, <2>3 DEF UnboundFilters
    <3> QED
      BY <1>9, <3>1 DEF Sub
  <2> QED
    BY <2>2, <2>3
<1>10. ASSUME NEW n, n = Here PROVE ConsumersShown(n)'
  <2> SUFFICES ASSUME NEW c \in Ever(n, "consumers")', Throughout(n, c, "consumers")',
                      OwnName(n, c)'
               PROVE  \E s \in subs' : s.ns = n /\ s.consumer = c
    BY DEF ConsumersShown
  <2>1. c \in consumers
    BY <1>2, <1>3, <1>5, <1>6, <1>10 DEF ConsumersInHand, Throughout, Ever
  <2>2. CASE \E b \in bound : b[2].name = c.name
    <3>1. PICK b \in bound : b[2].name = c.name
      BY <2>2
    <3>2. NameRead(consumers, b[2].name, NoConsumer) = c
      BY <1>3, <2>1, <3>1, ReadByName DEF ConsumersInHand
    <3> QED
      BY <1>4, <1>7, <1>10, <3>1, <3>2
  <2>3. CASE \A b \in bound : b[2].name # c.name
    <3> DEFINE risk == AtLeast(Assess(c.class, Absent, c.action), "Medium")
    <3>1. Sub(NoFilter, c, risk, FALSE) \in subs'
      BY <1>1, <2>1, <2>3 DEF UnboundConsumers
    <3> QED
      BY <1>10, <3>1 DEF Sub
  <2> QED
    BY <2>2, <2>3
<1>11. \A s \in subs' : StagedIsNoted(s)
  <2> SUFFICES ASSUME NEW s \in fresh PROVE StagedIsNoted(s)
    BY <1>1 DEF ScanInv
  <2>1. CASE \E b \in bound : s = BoundRow(b)
    BY <2>1, <1>7 DEF StagedIsNoted
  <2>2. CASE s \in UnboundConsumers(bound)
    <3>1. PICK c \in consumers :
            s = Sub(NoFilter, c, AtLeast(Assess(c.class, Absent, c.action), "Medium"), FALSE)
      BY <2>2 DEF UnboundConsumers
    <3>2. s.risk = AtLeast(Assess(c.class, Absent, c.action), "Medium")
      BY <3>1 DEF Sub
    <3> QED
      BY <3>2, StagedIsNeverLow DEF StagedIsNoted
  <2>3. CASE s \in UnboundFilters(bound)
    <3>1. PICK f \in filters : s = Sub(f, NoConsumer, "Low", FALSE)
      BY <2>3 DEF UnboundFilters
    <3>2. s.consumer = NoConsumer /\ NoConsumer.class = Absent
      BY <3>1 DEF Sub, NoConsumer
    <3> QED
      BY <3>2 DEF StagedIsNoted
  <2> QED
    BY <2>1, <2>2, <2>3
<1>12. ASSUME NEW i \in 1 .. past', Scanned[i] \notin unread'
       PROVE  (BindingsShown(Scanned[i]) /\ FiltersShown(Scanned[i]) /\ ConsumersShown(Scanned[i]))'
  <2>1. CASE i \in 1 .. past
    BY <2>1, <1>1, <1>12, BehindStays
  <2>2. CASE i = past'
    <3>1. Scanned[i] = Here
      BY <2>2, <1>1, NextIsInOrder
    <3> QED
      BY <3>1, <1>8, <1>9, <1>10
  <2> QED
    BY <2>1, <2>2, <1>1, NextIsInOrder
<1> QED
  BY <1>1, <1>11, <1>12, NextIsInOrder DEF ScanInv, repository

(* A namespace that fails is called unreadable.                            *)
LEMMA ScanFailsKeeps == ScanInv /\ ScanFails => ScanInv'
<1> SUFFICES ASSUME ScanInv, ScanFails PROVE ScanInv'
  OBVIOUS
<1>1. /\ phase \in {"filters", "consumers", "bindings"} /\ NextNamespace
      /\ unread' = unread \cup {Here} /\ UNCHANGED repository /\ UNCHANGED subs
  BY DEF ScanFails
<1>2. ASSUME NEW i \in 1 .. past', Scanned[i] \notin unread'
      PROVE  (BindingsShown(Scanned[i]) /\ FiltersShown(Scanned[i]) /\ ConsumersShown(Scanned[i]))'
  <2>1. i \in 1 .. past
    BY <1>1, <1>2, NextIsInOrder
  <2> QED
    BY <2>1, <1>1, <1>2, BehindStays
<1> QED
  BY <1>1, <1>2, NextIsInOrder DEF ScanInv, repository

LEMMA ReportKeeps == ScanInv /\ Report => ScanInv'
<1> SUFFICES ASSUME ScanInv, Report PROVE ScanInv'
  OBVIOUS
<1>1. /\ phase = "report" /\ phase' \in {"failed", "done"}
      /\ UNCHANGED <<past, filters, consumers, subs, unread>> /\ UNCHANGED repository
  BY DEF Report
<1> QED
  BY <1>1, BehindStays DEF ScanInv, repository

LEMMA ScanStutters == ScanInv /\ UNCHANGED subsVars => ScanInv'
<1> SUFFICES ASSUME ScanInv, UNCHANGED subsVars PROVE ScanInv'
  OBVIOUS
<1>1. UNCHANGED <<past, filters, consumers, subs, unread, phase>> /\ UNCHANGED repository
  BY DEF subsVars, repository
<1>2. FiltersInHand' = FiltersInHand /\ ConsumersInHand' = ConsumersInHand
  BY <1>1 DEF FiltersInHand, ConsumersInHand, OneOfEachName, Ever, Throughout, OwnName, Here,
              repository
<1> QED
  BY <1>1, <1>2, BehindStays DEF ScanInv, repository

(* What is in hand has all that was there throughout, what is done is      *)
(* shown.                                                                  *)
THEOREM ScanInvariant == SubsSpec => []ScanInv
<1>1. SubsInit => ScanInv
  BY ScanBegins
<1>2. ScanInv /\ [SubsNext]_subsVars => ScanInv'
  BY ChangeKeeps, ReadFiltersKeeps, ReadConsumersKeeps, ReadBindingsKeeps, ScanFailsKeeps,
     ReportKeeps, ScanStutters
  DEF SubsNext
<1> QED
  BY <1>1, <1>2, PTL DEF SubsSpec

(* What was there throughout the scan of a namespace that is not called    *)
(* unreadable is in the report, and staged code is never scored Low.       *)
THEOREM WhatIsReadIsReported == SubsSpec => []ReadIsReported
<1>1. ScanInv => ReadIsReported
  <2> SUFFICES ASSUME ScanInv, phase = "done" PROVE ReadIsReported
    BY DEF ReadIsReported
  <2>1. past = Len(Scanned) /\ DOMAIN Scanned = 1 .. past
    BY ScanAssumption DEF ScanInv
  <2>2. \A n \in Read : \E i \in 1 .. past : n = Scanned[i] /\ Scanned[i] \notin unread
    BY <2>1 DEF Read, Spaces
  <2> QED
    BY <2>2 DEF ScanInv, ReadIsReported
<1> QED
  BY <1>1, ScanInvariant, PTL

-----------------------------------------------------------------------------
(*                                Snapshots                                *)

LEMMA InitJoins == SnapInit => SnapInv
BY DEF SnapInit, SnapInv, ProvidersInv, ConnectionsInv, Enriched, RowIsItsOwn

(* What the names of the processes may change: PID 0 has none.             *)
LEMMA NamesKeep == SnapInv /\ (NamesRead \/ NamesFail) => SnapInv'
<1> SUFFICES ASSUME SnapInv, NamesRead \/ NamesFail PROVE SnapInv'
  OBVIOUS
<1>1. /\ step = "names" /\ rows = {}
      /\ UNCHANGED <<request, target, rows, toRead, loads, unreadable>>
      /\ 0 \notin names'
  BY DEF SnapInv, NamesRead, NamesFail
<1>2. CASE request = "providers"
  <2>1. step' = "list"
    BY <1>1, <1>2 DEF NamesRead, NamesFail, Advance, Order
  <2> QED
    BY <1>1, <1>2, <2>1 DEF SnapInv, ProvidersInv, Enriched
<1>3. CASE request = "connections"
  <2>1. step' \in {"tcp", "failed"}
    BY <1>1, <1>3 DEF NamesRead, NamesFail, Advance, Order
  <2>2. answered' \subseteq answered \cup {"names"} /\ answered \subseteq answered'
    BY DEF NamesRead, NamesFail, Answers, Fails
  <2>3. \A e \in target.endpoints : e.proto \in answered' <=> e.proto \in answered
    BY <2>2, TargetAssumption DEF SnapInv
  <2>4. {e \in target.endpoints : e.proto \in answered'} =
        {e \in target.endpoints : e.proto \in answered}
    BY <2>3
  <2> QED
    BY <1>1, <1>3, <2>1, <2>4 DEF SnapInv, ConnectionsInv
<1> QED
  BY <1>2, <1>3 DEF SnapInv

LEMMA ListKeeps == SnapInv /\ (ListRead \/ ListFails) => SnapInv'
<1> SUFFICES ASSUME SnapInv, ListRead \/ ListFails PROVE SnapInv'
  OBVIOUS
<1>1. /\ step = "list" /\ request = "providers" /\ rows = {}
      /\ UNCHANGED <<request, target, names, loads, unreadable>>
  BY DEF SnapInv, ConnectionsInv, ListRead, ListFails
<1>2. CASE ListFails
  <2>1. step' = "failed" /\ rows' = {}
    BY <1>1, <1>2 DEF ListFails
  <2> QED
    BY <1>1, <2>1 DEF SnapInv, ProvidersInv, Enriched
<1>3. CASE ListRead
  <2>1. step' = "models" /\ rows' = {Provider(p) : p \in target.providers} /\ toRead' = Joined
    BY <1>1, <1>3 DEF ListRead, Advance, Order, Joined
  <2>2. \A p \in target.providers :
          Provider(p).of = p /\ RowIsItsOwn(Provider(p)) /\ RowIsWhole(Provider(p))
    BY <1>1 DEF Provider, RowIsItsOwn, RowIsWhole, NameOf, SnapInv
  <2>3. {r.of : r \in rows'} = target.providers
    BY <2>1, <2>2
  <2> QED
    BY <1>1, <2>1, <2>2, <2>3 DEF SnapInv, ProvidersInv, Enriched, Joined
<1> QED
  BY <1>2, <1>3

(* The registrations of one namespace: each of its rows gets its model,    *)
(* and every row stays what it was otherwise.                              *)
LEMMA ModelsReadKeeps ==
  ASSUME SnapInv, NEW n \in toRead, ModelsRead(n)
  PROVE  SnapInv'
<1> DEFINE given(r) == IF r.of.namespace = n /\ r.of.registered
                       THEN [r EXCEPT !.model = r.of.provider] ELSE r
<1>1. /\ step = "models" /\ step' = "models" /\ request = "providers"
      /\ rows' = {given(r) : r \in rows} /\ toRead' = toRead \ {n}
      /\ answered' = answered \cup {n}
      /\ UNCHANGED <<request, target, names, loads, unreadable>>
  BY DEF ModelsRead, Answers, SnapInv, ConnectionsInv
<1>2. ASSUME NEW r \in rows
      PROVE  /\ given(r).of = r.of /\ given(r).pid = r.pid /\ given(r).process = r.process
             /\ RowIsWhole(given(r))
             /\ r.of.namespace = n /\ r.of.registered => given(r).model = r.of.provider
             /\ r.of.namespace # n => given(r) = r
  <2>1. RowIsWhole(r)
    BY <1>1 DEF SnapInv, ProvidersInv
  <2> QED
    BY <2>1 DEF RowIsWhole
<1> HIDE DEF given
<1>3. \A r \in rows' : RowIsItsOwn(r) /\ RowIsWhole(r)
  BY <1>1, <1>2 DEF SnapInv, RowIsItsOwn
<1>4. {r.of : r \in rows'} = target.providers
  BY <1>1, <1>2 DEF SnapInv, ProvidersInv, Enriched
<1>5. ASSUME unreadable = {}, NEW m \in Joined \ toRead'
      PROVE  Modelled(m)'
  <2>1. CASE m = n
    BY <2>1, <1>1, <1>2 DEF Modelled
  <2>2. CASE m # n
    <3>1. Modelled(m)
      BY <2>2, <1>1, <1>5 DEF SnapInv, ProvidersInv, Enriched
    <3> QED
      BY <3>1, <2>2, <1>1, <1>2 DEF Modelled
  <2> QED
    BY <2>1, <2>2
<1> QED
  BY <1>1, <1>3, <1>4, <1>5 DEF SnapInv, ProvidersInv, Enriched, Joined

(* A part that fails is called unreadable.                                 *)
LEMMA FailuresKeep ==
  SnapInv /\ ((\E n \in toRead : ModelsFail(n)) \/ FactFails \/ StatsFail) => SnapInv'
<1> SUFFICES ASSUME SnapInv, (\E n \in toRead : ModelsFail(n)) \/ FactFails \/ StatsFail
             PROVE  SnapInv'
  OBVIOUS
<1>1. /\ step \in {"models", "quota", "cpus", "stats"} /\ request = "providers"
      /\ step' \in {"models", "quota", "cpus", "stats", "done"}
      /\ step' = "models" <=> step = "models"
      /\ step # "models" => toRead' = toRead
      /\ unreadable' # {}
      /\ UNCHANGED <<request, target, names, rows, loads>>
  BY DEF ModelsFail, FactFails, StatsFail, Advance, Order, SnapInv, ConnectionsInv
<1>2. step' # "models" => toRead' = {}
  BY <1>1 DEF SnapInv, ProvidersInv, Enriched
<1> QED
  BY <1>1, <1>2 DEF SnapInv, ProvidersInv, Enriched

LEMMA ModelsEndKeeps == SnapInv /\ ModelsEnd => SnapInv'
<1> SUFFICES ASSUME SnapInv, ModelsEnd PROVE SnapInv'
  OBVIOUS
<1>1. /\ step = "models" /\ step' = "quota" /\ request = "providers" /\ toRead' = {}
      /\ unreadable' = {} => unreadable = {} /\ toRead = {}
      /\ UNCHANGED <<request, target, names, rows, loads, answered>>
  BY DEF ModelsEnd, Advance, Order, SnapInv, ConnectionsInv
<1>2. \A m : Modelled(m) => Modelled(m)'
  BY <1>1 DEF Modelled
<1> QED
  BY <1>1, <1>2 DEF SnapInv, ProvidersInv, Enriched, Joined

LEMMA FactReadKeeps == SnapInv /\ FactRead => SnapInv'
<1> SUFFICES ASSUME SnapInv, FactRead PROVE SnapInv'
  OBVIOUS
<1>1. /\ (step = "quota" /\ step' = "cpus") \/ (step = "cpus" /\ step' = "stats")
      /\ request = "providers" /\ answered' = answered \cup {step}
      /\ UNCHANGED <<request, target, names, rows, toRead, loads, unreadable>>
  BY DEF FactRead, Advance, Order, Answers, SnapInv, ConnectionsInv
<1>2. \A m : Modelled(m) => Modelled(m)'
  BY <1>1 DEF Modelled
<1> QED
  BY <1>1, <1>2 DEF SnapInv, ProvidersInv, Enriched, Joined

(* The counters know every host or the hosts are none; PID 0 is no host.   *)
LEMMA StatsReadKeeps == SnapInv /\ StatsRead => SnapInv'
<1> SUFFICES ASSUME SnapInv, StatsRead PROVE SnapInv'
  OBVIOUS
<1>1. /\ step = "stats" /\ step' = "done" /\ request = "providers"
      /\ answered \subseteq answered'
      /\ UNCHANGED <<request, target, names, rows, toRead, unreadable>>
  BY DEF StatsRead, Advance, Order, Answers, SnapInv, ConnectionsInv
<1>2. loads' = target.counters \cap HostPids
  BY DEF StatsRead
<1>3. 0 \notin HostPids
  BY DEF HostPids
<1>4. \A p \in target.providers : p.pid # 0 => p.pid \in HostPids
  <2> SUFFICES ASSUME NEW p \in target.providers, p.pid # 0 PROVE p.pid \in HostPids
    OBVIOUS
  <2>1. PICK r \in rows : r.of = p
    BY <1>1 DEF SnapInv, ProvidersInv, Enriched
  <2> QED
    BY <2>1 DEF HostPids, SnapInv, RowIsItsOwn
<1>5. \A m : Modelled(m) => Modelled(m)'
  BY <1>1 DEF Modelled
<1> QED
  BY <1>1, <1>2, <1>3, <1>4, <1>5 DEF SnapInv, ProvidersInv, Enriched, Joined

(* The endpoints of a class that answered are rows, and no others are.     *)
LEMMA EndpointsKeep == SnapInv /\ (EndpointsRead \/ EndpointsFail) => SnapInv'
<1> SUFFICES ASSUME SnapInv, EndpointsRead \/ EndpointsFail PROVE SnapInv'
  OBVIOUS
<1>1. /\ step \in {"tcp", "udp"} /\ step' \in {"udp", "done"} /\ request = "connections"
      /\ UNCHANGED <<request, target, names, toRead, loads, unreadable>>
  BY DEF EndpointsRead, EndpointsFail, Advance, Order, SnapInv, ProvidersInv
<1>2. CASE EndpointsFail
  <2>1. UNCHANGED <<rows, answered>>
    BY <1>2 DEF EndpointsFail, Fails
  <2> QED
    BY <1>1, <2>1 DEF SnapInv, ConnectionsInv
<1>3. CASE EndpointsRead
  <2> DEFINE read == {e \in target.endpoints : e.proto = step}
  <2>1. rows' = rows \cup {Connection(e) : e \in read} /\ answered' = answered \cup {step}
    BY <1>3 DEF EndpointsRead, Answers
  <2>2. \A e \in read : Connection(e).of = e /\ RowIsItsOwn(Connection(e))
    BY DEF Connection, RowIsItsOwn, NameOf, SnapInv
  <2>3. {r.of : r \in rows'} = {r.of : r \in rows} \cup read
    BY <2>1, <2>2
  <2>4. {e \in target.endpoints : e.proto \in answered'} =
        {e \in target.endpoints : e.proto \in answered} \cup read
    BY <2>1
  <2>5. \A r \in rows' : RowIsItsOwn(r)
    BY <2>1, <2>2 DEF SnapInv
  <2> QED
    BY <1>1, <2>3, <2>4, <2>5 DEF SnapInv, ConnectionsInv
<1> QED
  BY <1>2, <1>3

LEMMA JoinStutters == SnapInv /\ UNCHANGED joining => SnapInv'
<1> SUFFICES ASSUME SnapInv, UNCHANGED joining PROVE SnapInv'
  OBVIOUS
<1>1. UNCHANGED <<request, target, step, names, rows, toRead, loads, unreadable, answered>>
  BY DEF joining
<1>2. \A m : Modelled(m) => Modelled(m)'
  BY <1>1 DEF Modelled
<1> QED
  BY <1>1, <1>2 DEF SnapInv, ProvidersInv, ConnectionsInv, Enriched, Joined

(* The rows are of the list they are joined to, at every step.             *)
THEOREM SnapInvariant == SnapSpec => []SnapInv
<1>1. SnapInit => SnapInv
  BY InitJoins
<1>2. SnapInv /\ [SnapNext]_snapVars => SnapInv'
  BY NamesKeep, ListKeeps, ModelsReadKeeps, FailuresKeep, ModelsEndKeeps, FactReadKeeps,
     StatsReadKeeps, EndpointsKeep, JoinStutters
  DEF SnapNext, snapVars, Cancel, Expire
<1> QED
  BY <1>1, <1>2, PTL DEF SnapSpec

(* Whatever the joins answer, a report loses no row, puts no name and no   *)
(* load to another PID, and is complete when it says so.                   *)
THEOREM NoJoinLosesRows == SnapSpec => []JoinsLoseNothing
<1>1. SnapInv => JoinsLoseNothing
  <2> SUFFICES ASSUME SnapInv, step = "done" PROVE JoinsLoseNothing
    BY DEF JoinsLoseNothing
  <2>1. {r.of : r \in rows} = Listed
    BY DEF SnapInv, ProvidersInv, ConnectionsInv, Enriched, Listed
  <2>2. ASSUME request = "providers", unreadable = {}
        PROVE  /\ Parts \subseteq answered
               /\ \A p \in target.providers :
                    /\ p.pid \in target.counters \ {0} => p.pid \in loads
                    /\ p.registered /\ p.namespace # Absent =>
                         \E r \in rows : r.of = p /\ r.model = p.provider
    <3>1. \A n \in Joined : Modelled(n)
      BY <2>2 DEF SnapInv, ProvidersInv, Enriched
    <3>2. Parts \subseteq answered
      BY <2>2, <3>1 DEF SnapInv, ProvidersInv, Parts, Modelled
    <3>3. ASSUME NEW p \in target.providers, p.registered, p.namespace # Absent
          PROVE  \E r \in rows : r.of = p /\ r.model = p.provider
      <4>1. PICK r \in rows : r.of = p
        BY <2>2 DEF SnapInv, ProvidersInv, Enriched
      <4>2. p.namespace \in Joined
        BY <3>3 DEF Joined
      <4> QED
        BY <3>1, <3>3, <4>1, <4>2 DEF Modelled
    <3> QED
      BY <2>2, <3>2, <3>3 DEF SnapInv, ProvidersInv
  <2> QED
    BY <2>1, <2>2 DEF JoinsLoseNothing, SnapInv, RowIsItsOwn
<1> QED
  BY <1>1, SnapInvariant, PTL

-----------------------------------------------------------------------------
(*                       The comparison of two tables                      *)

PairsOf(A, B, ignored) ==
  {[a |-> A.rows[i], b |-> row, columns |-> ChangedColumns(A.rows[i], row, ignored)] :
     i \in DOMAIN A.rows, row \in RowsOf(B)}

Differences(A, B, ignored) ==
  [matched : SUBSET DOMAIN A.rows, added : Seq(RowsOf(B)),
   changed : Seq(PairsOf(A, B, ignored)), unchanged : Nat]

(* What a row of B makes of the difference d so far.                       *)
RowStep(A, key, ignored, d, row, e) ==
  LET free == Partner(A, key, row, d.matched) IN
  \/ /\ free = {} /\ e.added = Append(d.added, row)
     /\ e.matched = d.matched /\ e.changed = d.changed /\ e.unchanged = d.unchanged
  \/ \E i \in free :
       /\ \A j \in free : i <= j
       /\ e.matched = d.matched \cup {i} /\ e.added = d.added
       /\ \/ /\ ChangedColumns(A.rows[i], row, ignored) = {}
             /\ e.changed = d.changed /\ e.unchanged = d.unchanged + 1
          \/ /\ ChangedColumns(A.rows[i], row, ignored) # {}
             /\ e.changed = Append(d.changed, [a |-> A.rows[i], b |-> row,
                                    columns |-> ChangedColumns(A.rows[i], row, ignored)])
             /\ e.unchanged = d.unchanged

LEMMA RowsAre ==
  ASSUME NEW A, Ordered(A)
  PROVE  /\ Len(A.rows) \in Nat /\ DOMAIN A.rows = 1 .. Len(A.rows)
         /\ \A i \in DOMAIN A.rows : A.rows[i] \in RowsOf(A)
         /\ IsFiniteSet(DOMAIN A.rows) /\ Cardinality(DOMAIN A.rows) = Len(A.rows)
<1>1. A.rows \in Seq(RowsOf(A))
  BY DEF Ordered
<1>2. \A i \in DOMAIN A.rows : A.rows[i] \in RowsOf(A)
  BY DEF RowsOf
<1> QED
  BY <1>1, <1>2, PositionsAreFinite

LEMMA RowIsMatched ==
  ASSUME NEW A, Ordered(A), NEW B, NEW key, NEW ignored,
         NEW d \in Differences(A, B, ignored), NEW row \in RowsOf(B)
  PROVE  /\ MatchRow(A, key, ignored, d, row) \in Differences(A, B, ignored)
         /\ RowStep(A, key, ignored, d, row, MatchRow(A, key, ignored, d, row))
<1> DEFINE free == Partner(A, key, row, d.matched)
           i == Matched(free)
           moved == ChangedColumns(A.rows[i], row, ignored)
           pair == [a |-> A.rows[i], b |-> row, columns |-> moved]
           e == MatchRow(A, key, ignored, d, row)
           X == SUBSET DOMAIN A.rows
           Y == Seq(RowsOf(B))
           Z == Seq(PairsOf(A, B, ignored))
<1>1. d \in [matched : X, added : Y, changed : Z, unchanged : Nat]
  BY DEF Differences
<1>2. free \in SUBSET DOMAIN A.rows
  BY DEF Partner
<1>3. free # {} => i \in free /\ \A j \in free : i <= j
  <2> SUFFICES ASSUME free # {} PROVE i \in free /\ \A j \in free : i <= j
    OBVIOUS
  <2> HIDE DEF free
  <2>1. First(free) \in free /\ \A j \in free : First(free) <= j
    BY <1>2, RowsAre, FirstIs
  <2> QED
    BY <2>1 DEF Matched
<1>4. e = IF free = {} THEN [d EXCEPT !.added = Append(@, row)]
          ELSE IF moved = {} THEN [d EXCEPT !.matched = @ \cup {i}, !.unchanged = @ + 1]
          ELSE [d EXCEPT !.matched = @ \cup {i}, !.changed = Append(@, pair)]
  BY DEF MatchRow
<1>5. i \in DOMAIN A.rows => pair \in PairsOf(A, B, ignored)
  BY DEF PairsOf
<1>6. RowStep(A, key, ignored, d, row, e) <=>
        \/ /\ free = {} /\ e.added = Append(d.added, row)
           /\ e.matched = d.matched /\ e.changed = d.changed /\ e.unchanged = d.unchanged
        \/ \E j \in free :
             /\ \A k \in free : j <= k
             /\ e.matched = d.matched \cup {j} /\ e.added = d.added
             /\ \/ /\ ChangedColumns(A.rows[j], row, ignored) = {}
                   /\ e.changed = d.changed /\ e.unchanged = d.unchanged + 1
                \/ /\ ChangedColumns(A.rows[j], row, ignored) # {}
                   /\ e.changed = Append(d.changed, [a |-> A.rows[j], b |-> row,
                                          columns |-> ChangedColumns(A.rows[j], row, ignored)])
                   /\ e.unchanged = d.unchanged
  BY DEF RowStep
<1>7. pair = [a |-> A.rows[i], b |-> row, columns |-> ChangedColumns(A.rows[i], row, ignored)]
  OBVIOUS
<1>8. \A s \in Z, x \in PairsOf(A, B, ignored) : Append(s, x) \in Z
  OBVIOUS
<1>9. \A s \in Y : Append(s, row) \in Y
  OBVIOUS
<1> HIDE DEF free, i, X, Y, Z, e
<1>10. CASE free = {}
  <2>1. e = [d EXCEPT !.added = Append(@, row)]
    BY <1>4, <1>10
  <2>2. e \in [matched : X, added : Y, changed : Z, unchanged : Nat]
    BY <1>1, <1>9, <2>1
  <2>3. /\ e.added = Append(d.added, row)
        /\ e.matched = d.matched /\ e.changed = d.changed /\ e.unchanged = d.unchanged
    BY <1>1, <2>1
  <2> QED
    BY <1>6, <1>10, <2>2, <2>3 DEF Differences, X, Y, Z, e
<1>11. CASE free # {} /\ moved = {}
  <2>1. e = [d EXCEPT !.matched = @ \cup {i}, !.unchanged = @ + 1]
    BY <1>4, <1>11
  <2>2. d.matched \cup {i} \in X
    BY <1>1, <1>2, <1>3, <1>11 DEF X
  <2>3. e \in [matched : X, added : Y, changed : Z, unchanged : Nat]
    <3>1. d.unchanged + 1 \in Nat
      BY <1>1
    <3>2. d = [matched |-> d.matched, added |-> d.added, changed |-> d.changed,
               unchanged |-> d.unchanged]
      BY <1>1
    <3>3. e = [matched |-> d.matched \cup {i}, added |-> d.added, changed |-> d.changed,
               unchanged |-> d.unchanged + 1]
      BY <2>1, <3>2
    <3> QED
      BY <1>1, <2>2, <3>1, <3>3
  <2>4. /\ e.added = d.added /\ e.changed = d.changed
        /\ e.matched = d.matched \cup {i} /\ e.unchanged = d.unchanged + 1
    BY <1>1, <2>1
  <2> QED
    BY <1>3, <1>6, <1>11, <2>3, <2>4 DEF Differences, X, Y, Z, e
<1>12. CASE free # {} /\ moved # {}
  <2> HIDE DEF pair
  <2>1. e = [d EXCEPT !.matched = @ \cup {i}, !.changed = Append(@, pair)]
    BY <1>4, <1>12
  <2>2. d.matched \cup {i} \in X /\ pair \in PairsOf(A, B, ignored)
    BY <1>1, <1>2, <1>3, <1>5, <1>12 DEF X
  <2>3. e \in [matched : X, added : Y, changed : Z, unchanged : Nat]
    BY <1>1, <1>8, <2>1, <2>2
  <2>4. /\ e.added = d.added /\ e.changed = Append(d.changed, pair)
        /\ e.matched = d.matched \cup {i} /\ e.unchanged = d.unchanged
    BY <1>1, <2>1
  <2> QED
    BY <1>3, <1>6, <1>7, <1>12, <2>3, <2>4 DEF Differences, X, Y, Z, e
<1> QED
  BY <1>10, <1>11, <1>12

(* The difference so far, after each row of B.                             *)
Matches(A, B, key, ignored, D) ==
  /\ D[0] = NoDifference
  /\ \A n \in 0 .. Len(B.rows) : D[n] \in Differences(A, B, ignored)
  /\ \A n \in 1 .. Len(B.rows) : RowStep(A, key, ignored, D[n - 1], B.rows[n], D[n])

LEMMA MatchingIs ==
  ASSUME NEW A, Ordered(A), NEW B, Ordered(B), NEW key, NEW ignored
  PROVE  Matches(A, B, key, ignored, Matching(A, B, key, ignored))
<1> DEFINE m == Len(B.rows)
           X == Differences(A, B, ignored)
           Turn(d, row) == MatchRow(A, key, ignored, d, row)
           g == [p \in X \X (1 .. m) |-> Turn(p[1], B.rows[p[2]])]
           after == CHOOSE after :
                      after = [n \in 0 .. m |-> IF n = 0 THEN NoDifference
                                                ELSE Turn(after[n - 1], B.rows[n])]
<1>1. m \in Nat /\ \A n \in 1 .. m : B.rows[n] \in RowsOf(B)
  BY RowsAre
<1>2. NoDifference \in X
  <2>1. <<>> \in Seq(RowsOf(B)) /\ <<>> \in Seq(PairsOf(A, B, ignored))
    OBVIOUS
  <2> QED
    BY <2>1 DEF NoDifference, Differences
<1>3. after = Matching(A, B, key, ignored)
  BY DEF Matching
<1>4. \A d \in X, row \in RowsOf(B) : Turn(d, row) \in X /\ RowStep(A, key, ignored, d, row, Turn(d, row))
  BY RowIsMatched
<1> HIDE DEF m, X, Turn
<1>5. g \in [X \X (1 .. m) -> X]
  BY <1>1, <1>4
<1>6. PICK f \in [0 .. m -> X] :
        f[0] = NoDifference /\ \A n \in 1 .. m : f[n] = g[<<f[n - 1], n>>]
  <2> HIDE DEF g
  <2>1. \E f : StepsOf(f, m, X, NoDifference, g)
    BY <1>1, <1>2, <1>5, StepsExist
  <2> QED
    BY <2>1 DEF StepsOf
<1>7. f = [n \in 0 .. m |-> IF n = 0 THEN NoDifference ELSE Turn(f[n - 1], B.rows[n])]
  <2>1. \A n \in 1 .. m : f[n] = Turn(f[n - 1], B.rows[n])
    <3> SUFFICES ASSUME NEW n \in 1 .. m PROVE f[n] = Turn(f[n - 1], B.rows[n])
      OBVIOUS
    <3>1. f[n - 1] \in X
      BY <1>1
    <3> QED
      BY <1>6, <3>1
  <2>2. \A n \in 0 .. m : n # 0 => n \in 1 .. m
    BY <1>1
  <2> QED
    BY <1>6, <2>1, <2>2
<1>8. after = [n \in 0 .. m |-> IF n = 0 THEN NoDifference ELSE Turn(after[n - 1], B.rows[n])]
  BY <1>7
<1> HIDE DEF after, g
<1>9. after[0] = NoDifference /\ \A n \in 1 .. m : after[n] = Turn(after[n - 1], B.rows[n])
  BY <1>1, <1>8
<1>10. \A n \in 0 .. m : after[n] \in X
  <2> DEFINE good == {n \in 0 .. m : after[n] \in X}
  <2>1. 0 \in good
    BY <1>1, <1>2, <1>9
  <2>2. ASSUME NEW n \in 0 .. m, n \in good, n < m PROVE n + 1 \in good
    <3>1. n + 1 \in 1 .. m /\ n + 1 \in 0 .. m /\ (n + 1) - 1 = n
      BY <1>1, <2>2
    <3>2. after[n + 1] = Turn(after[n], B.rows[n + 1])
      BY <1>9, <3>1
    <3> QED
      BY <1>1, <1>4, <2>2, <3>1, <3>2
  <2>3. 0 .. m \subseteq good
    <3> HIDE DEF good
    <3> QED
      BY <1>1, <2>1, <2>2, UpTo
  <2> QED
    BY <2>3
<1>11. ASSUME NEW n \in 1 .. m PROVE RowStep(A, key, ignored, after[n - 1], B.rows[n], after[n])
  <2>1. n - 1 \in 0 .. m
    BY <1>1
  <2> QED
    BY <1>1, <1>4, <1>9, <1>10, <2>1
<1> QED
  BY <1>3, <1>9, <1>10, <1>11 DEF Matches, m, X

(* What is matched is what was compared, and each row of B is in one place.*)
Sums(d, n) ==
  /\ Cardinality(d.matched) = Len(d.changed) + d.unchanged
  /\ Len(d.added) + Len(d.changed) + d.unchanged = n

LEMMA StepSums ==
  ASSUME NEW A, Ordered(A), NEW B, NEW key, NEW ignored,
         NEW d \in Differences(A, B, ignored), NEW e \in Differences(A, B, ignored),
         NEW row, RowStep(A, key, ignored, d, row, e), NEW n \in Nat, Sums(d, n)
  PROVE  Sums(e, n + 1)
<1> DEFINE Y == RowsOf(B)
           Z == PairsOf(A, B, ignored)
<1>1. /\ d.added \in Seq(Y) /\ d.changed \in Seq(Z) /\ d.unchanged \in Nat
      /\ d.matched \in SUBSET DOMAIN A.rows
  BY DEF Differences
<1> HIDE DEF Y, Z
<1>2. Len(d.added) \in Nat /\ Len(d.changed) \in Nat /\ d.unchanged \in Nat
  BY <1>1
<1>3. IsFiniteSet(d.matched) /\ Cardinality(d.matched) \in Nat
  BY <1>1, RowsAre, FS_Subset, FS_CardinalityType
<1>4. /\ Cardinality(d.matched) = Len(d.changed) + d.unchanged
      /\ Len(d.added) + Len(d.changed) + d.unchanged = n
  BY DEF Sums
<1> DEFINE p == Len(d.added)
           q == Len(d.changed)
           r == d.unchanged
<1>5. p + 1 + q + r = n + 1 /\ p + (q + 1) + r = n + 1 /\ p + q + (r + 1) = n + 1
  <2>1. p \in Nat /\ q \in Nat /\ r \in Nat /\ p + q + r = n
    BY <1>2, <1>4
  <2> HIDE DEF p, q, r
  <2> QED
    BY <2>1
<1>6. CASE e.added = Append(d.added, row) /\ e.matched = d.matched
           /\ e.changed = d.changed /\ e.unchanged = d.unchanged
  <2>1. Len(e.added) = Len(d.added) + 1
    <3>1. row \in Y => Len(Append(d.added, row)) = Len(d.added) + 1
      BY <1>1
    <3>2. e.added \in Seq(Y)
      BY DEF Differences, Y
    <3> QED
      BY <1>1, <1>6
  <2>3. Cardinality(e.matched) = Len(e.changed) + e.unchanged
    BY <1>2, <1>4, <1>6, <2>1
  <2>4. Len(e.added) + Len(e.changed) + e.unchanged = n + 1
    BY <1>5, <1>6, <2>1
  <2> QED
    BY <2>3, <2>4 DEF Sums
<1>7. ASSUME NEW i, i \notin d.matched, e.matched = d.matched \cup {i}
      PROVE  Cardinality(e.matched) = Cardinality(d.matched) + 1
  BY <1>3, <1>7, FS_AddElement
<1>8. ASSUME NEW i, i \notin d.matched, e.matched = d.matched \cup {i}, e.added = d.added,
             e.changed = d.changed, e.unchanged = d.unchanged + 1
      PROVE  Sums(e, n + 1)
  <2>1. Cardinality(e.matched) = Cardinality(d.matched) + 1
    BY <1>7, <1>8
  <2>3. Cardinality(e.matched) = Len(e.changed) + e.unchanged
    BY <1>2, <1>3, <1>4, <1>8, <2>1
  <2>4. Len(e.added) + Len(e.changed) + e.unchanged = n + 1
    BY <1>5, <1>8, <2>1
  <2> QED
    BY <2>3, <2>4 DEF Sums
<1>9. ASSUME NEW i, i \notin d.matched, e.matched = d.matched \cup {i}, e.added = d.added,
             NEW x, e.changed = Append(d.changed, x), e.unchanged = d.unchanged
      PROVE  Sums(e, n + 1)
  <2>1. Cardinality(e.matched) = Cardinality(d.matched) + 1
    BY <1>7, <1>9
  <2>2. Len(e.changed) = Len(d.changed) + 1
    BY <1>1, <1>9
  <2>3. Cardinality(e.matched) = Len(e.changed) + e.unchanged
    BY <1>2, <1>3, <1>4, <1>9, <2>1, <2>2
  <2>4. Len(e.added) + Len(e.changed) + e.unchanged = n + 1
    BY <1>5, <1>9, <2>1, <2>2
  <2> QED
    BY <2>3, <2>4 DEF Sums
<1> QED
  BY <1>6, <1>8, <1>9 DEF RowStep, Partner

LEMMA SumsHold ==
  ASSUME NEW A, Ordered(A), NEW B, Ordered(B), NEW key, NEW ignored, NEW D,
         Matches(A, B, key, ignored, D)
  PROVE  \A n \in 0 .. Len(B.rows) : Sums(D[n], n)
<1> DEFINE m == Len(B.rows)
           good == {n \in 0 .. m : Sums(D[n], n)}
<1>1. m \in Nat
  BY RowsAre
<1>2. 0 \in good
  <2>1. Sums(NoDifference, 0)
    BY FS_EmptySet DEF Sums, NoDifference
  <2> QED
    BY <1>1, <2>1 DEF Matches
<1>3. ASSUME NEW n \in 0 .. m, n \in good, n < m PROVE n + 1 \in good
  <2>1. n \in Nat /\ n + 1 \in 1 .. m /\ n + 1 \in 0 .. m /\ (n + 1) - 1 = n
    BY <1>1, <1>3
  <2>2. /\ D[n] \in Differences(A, B, ignored) /\ D[n + 1] \in Differences(A, B, ignored)
        /\ RowStep(A, key, ignored, D[n], B.rows[n + 1], D[n + 1])
    BY <2>1 DEF Matches
  <2>3. Sums(D[n + 1], n + 1)
    BY <1>3, <2>1, <2>2, StepSums
  <2> QED
    BY <2>1, <2>3
<1> HIDE DEF good
<1>4. 0 .. m \subseteq good
  BY <1>1, <1>2, <1>3, UpTo
<1> QED
  BY <1>4 DEF good

OfKey(list, key, k) == {i \in DOMAIN list : KeyOf(list[i], key) = k}

Taken(list, places, key, k) == {i \in places : KeyOf(list[i], key) = k}

(* The rows of B of one key, of the first n, are matched or added, and one *)
(* is added only when no row of A of that key is left.                     *)
Balance(A, B, key, d, n, k) ==
  /\ Cardinality(Taken(A.rows, d.matched, key, k)) + Cardinality(OfKey(d.added, key, k))
       = Cardinality({j \in 1 .. n : KeyOf(B.rows[j], key) = k})
  /\ OfKey(d.added, key, k) # {} => OfKey(A.rows, key, k) \subseteq d.matched

LEMMA StepBalance ==
  ASSUME NEW A, Ordered(A), NEW B, Ordered(B), NEW key, NEW ignored,
         NEW d \in Differences(A, B, ignored), NEW e, NEW n \in Nat, n < Len(B.rows),
         RowStep(A, key, ignored, d, B.rows[n + 1], e), NEW k, Balance(A, B, key, d, n, k)
  PROVE  Balance(A, B, key, e, n + 1, k)
<1> DEFINE row == B.rows[n + 1]
           mine(c) == Taken(A.rows, c.matched, key, k)
           new(c) == OfKey(c.added, key, k)
           seen(l) == {j \in 1 .. l : KeyOf(B.rows[j], key) = k}
           ours == OfKey(A.rows, key, k)
           free == Partner(A, key, row, d.matched)
           size == Len(d.added)
<1>1. /\ d.added \in Seq(RowsOf(B)) /\ row \in RowsOf(B)
      /\ d.matched \in SUBSET DOMAIN A.rows
  BY RowsAre DEF Differences
<1>2. Cardinality(mine(d)) + Cardinality(new(d)) = Cardinality(seen(n)) /\ (new(d) # {} => ours \subseteq d.matched)
  BY DEF Balance
<1>3. IsFiniteSet(mine(d)) /\ Cardinality(mine(d)) \in Nat
  <2>1. IsFiniteSet(DOMAIN A.rows)
    BY RowsAre
  <2>2. mine(d) \in SUBSET DOMAIN A.rows
    BY <1>1 DEF Taken
  <2> QED
    BY <2>1, <2>2, FS_Subset, FS_CardinalityType
<1>4. IsFiniteSet(new(d)) /\ Cardinality(new(d)) \in Nat /\ new(d) \in SUBSET (1 .. size)
  <2>1. IsFiniteSet(DOMAIN d.added) /\ DOMAIN d.added = 1 .. size
    BY <1>1, PositionsAreFinite
  <2>2. new(d) \in SUBSET DOMAIN d.added
    BY DEF OfKey
  <2> QED
    BY <2>1, <2>2, FS_Subset, FS_CardinalityType
<1>5. IsFiniteSet(seen(n)) /\ Cardinality(seen(n)) \in Nat
  <2>1. IsFiniteSet(1 .. n)
    <3>1. 1 \in Int /\ n \in Int
      OBVIOUS
    <3> QED
      BY <3>1, FS_Interval, Zenon
  <2>2. seen(n) \in SUBSET (1 .. n)
    OBVIOUS
  <2> QED
    BY <2>1, <2>2, FS_Subset, FS_CardinalityType
<1>6. /\ KeyOf(row, key) = k => seen(n + 1) = seen(n) \cup {n + 1} /\ n + 1 \notin seen(n)
      /\ KeyOf(row, key) # k => seen(n + 1) = seen(n)
  OBVIOUS
<1>7. KeyOf(row, key) = k => Cardinality(seen(n + 1)) = Cardinality(seen(n)) + 1
  BY <1>5, <1>6, FS_AddElement
<1>8. size \in Nat /\ \A i : i \in DOMAIN Append(d.added, row) <=> i \in DOMAIN d.added \/ i = size + 1
  BY <1>1
<1>9. Append(d.added, row)[size + 1] = row
      /\ \A i \in DOMAIN d.added : Append(d.added, row)[i] = d.added[i]
  BY <1>1
<1>10. size + 1 \notin DOMAIN d.added
  BY <1>1
<1> DEFINE more == Append(d.added, row)
<1>11. /\ KeyOf(row, key) = k => OfKey(more, key, k) = new(d) \cup {size + 1} /\ size + 1 \notin new(d)
       /\ KeyOf(row, key) # k => OfKey(more, key, k) = new(d)
  <2> HIDE DEF more, size, row
  <2> QED
    BY <1>8, <1>9, <1>10 DEF OfKey, more
<1>12. free = {j \in DOMAIN A.rows \ d.matched : KeyOf(A.rows[j], key) = KeyOf(row, key)}
  BY DEF Partner
<1>13. ours = {j \in DOMAIN A.rows : KeyOf(A.rows[j], key) = k}
  BY DEF OfKey
<1>14. CASE free = {} /\ e.added = more /\ e.matched = d.matched
  <2>1. CASE KeyOf(row, key) = k
    <3>1. ours \subseteq d.matched
      BY <1>12, <1>13, <1>14, <2>1
    <3>2. Cardinality(new(e)) = Cardinality(new(d)) + 1
      <4>1. new(e) = new(d) \cup {size + 1} /\ size + 1 \notin new(d)
        BY <1>11, <1>14, <2>1
      <4> HIDE DEF new, size
      <4> QED
        BY <1>4, <4>1, FS_AddElement
    <3>3. mine(e) = mine(d) /\ ours \subseteq e.matched
      BY <1>14, <3>1
    <3>4. Cardinality(mine(e)) + Cardinality(new(e)) = Cardinality(seen(n + 1))
      <4> HIDE DEF mine, new, seen
      <4> QED
        BY <1>2, <1>3, <1>4, <1>5, <1>7, <2>1, <3>2, <3>3
    <3> QED
      BY <3>3, <3>4 DEF Balance
  <2>2. CASE KeyOf(row, key) # k
    <3>1. new(e) = new(d) /\ mine(e) = mine(d) /\ seen(n + 1) = seen(n)
      BY <1>6, <1>11, <1>14, <2>2
    <3> QED
      BY <1>2, <1>14, <3>1 DEF Balance
  <2> QED
    BY <2>1, <2>2
<1>15. ASSUME NEW i \in free, e.matched = d.matched \cup {i}, e.added = d.added
       PROVE  Balance(A, B, key, e, n + 1, k)
  <2>1. i \notin d.matched /\ KeyOf(A.rows[i], key) = KeyOf(row, key) /\ i \in DOMAIN A.rows
    BY <1>12, <1>15
  <2>2. new(e) = new(d) /\ (new(e) # {} => ours \subseteq e.matched)
    BY <1>2, <1>15
  <2>3. CASE KeyOf(row, key) = k
    <3>1. mine(e) = mine(d) \cup {i} /\ i \notin mine(d)
      BY <1>15, <2>1, <2>3 DEF Taken
    <3>2. Cardinality(mine(e)) = Cardinality(mine(d)) + 1
      BY <1>3, <3>1, FS_AddElement
    <3>3. Cardinality(mine(e)) + Cardinality(new(e)) = Cardinality(seen(n + 1))
      <4> HIDE DEF mine, new, seen
      <4> QED
        BY <1>2, <1>3, <1>4, <1>5, <1>7, <2>2, <2>3, <3>2
    <3> QED
      BY <2>2, <3>3 DEF Balance
  <2>4. CASE KeyOf(row, key) # k
    <3>1. mine(e) = mine(d) /\ seen(n + 1) = seen(n)
      BY <1>6, <1>15, <2>1, <2>4 DEF Taken
    <3> QED
      BY <1>2, <2>2, <3>1 DEF Balance
  <2> QED
    BY <2>3, <2>4
<1> QED
  BY <1>14, <1>15 DEF RowStep

LEMMA BalanceHolds ==
  ASSUME NEW A, Ordered(A), NEW B, Ordered(B), NEW key, NEW ignored, NEW D,
         Matches(A, B, key, ignored, D), NEW k
  PROVE  \A n \in 0 .. Len(B.rows) : Balance(A, B, key, D[n], n, k)
<1> DEFINE m == Len(B.rows)
           good == {n \in 0 .. m : Balance(A, B, key, D[n], n, k)}
<1>1. m \in Nat
  BY RowsAre
<1>2. 0 \in good
  <2>1. OfKey(<<>>, key, k) = {} /\ Taken(A.rows, {}, key, k) = {}
        /\ {j \in 1 .. 0 : KeyOf(B.rows[j], key) = k} = {}
    BY DEF OfKey, Taken
  <2>2. Balance(A, B, key, NoDifference, 0, k)
    <3>1. NoDifference.matched = {} /\ NoDifference.added = <<>>
      BY DEF NoDifference
    <3>2. Cardinality({}) = 0
      BY FS_EmptySet
    <3>3. Cardinality(Taken(A.rows, NoDifference.matched, key, k)) = 0
      BY <2>1, <3>1, <3>2
    <3>4. OfKey(NoDifference.added, key, k) = {}
          /\ Cardinality(OfKey(NoDifference.added, key, k)) = 0
      BY <2>1, <3>1, <3>2
    <3>5. Cardinality({j \in 1 .. 0 : KeyOf(B.rows[j], key) = k}) = 0
      BY <2>1, <3>2
    <3> QED
      BY <3>3, <3>4, <3>5 DEF Balance
  <2> QED
    BY <1>1, <2>2 DEF Matches
<1>3. ASSUME NEW n \in 0 .. m, n \in good, n < m PROVE n + 1 \in good
  <2>1. n \in Nat /\ n + 1 \in 1 .. m /\ n + 1 \in 0 .. m /\ (n + 1) - 1 = n
    BY <1>1, <1>3
  <2>2. /\ D[n] \in Differences(A, B, ignored)
        /\ RowStep(A, key, ignored, D[n], B.rows[n + 1], D[n + 1])
    BY <2>1 DEF Matches
  <2>3. Balance(A, B, key, D[n + 1], n + 1, k)
    BY <1>3, <2>1, <2>2, StepBalance
  <2> QED
    BY <2>1, <2>3
<1> HIDE DEF good
<1>4. 0 .. m \subseteq good
  BY <1>1, <1>2, <1>3, UpTo
<1> QED
  BY <1>4 DEF good

(* One machine on both sides comes back identical.                         *)
LEMMA AlikeIsUnchanged ==
  ASSUME NEW A, Ordered(A), NEW B, Ordered(B), NEW key, NEW ignored, NEW D,
         Matches(A, B, key, ignored, D), A.rows = B.rows
  PROVE  \A n \in 0 .. Len(B.rows) :
           D[n].matched = 1 .. n /\ D[n].added = <<>> /\ D[n].changed = <<>>
<1> DEFINE m == Len(B.rows)
           good == {n \in 0 .. m : D[n].matched = 1 .. n /\ D[n].added = <<>> /\ D[n].changed = <<>>}
<1>1. m \in Nat /\ DOMAIN A.rows = 1 .. m
  BY RowsAre
<1>2. 0 \in good
  BY <1>1 DEF Matches, NoDifference
<1>3. ASSUME NEW n \in 0 .. m, n \in good, n < m PROVE n + 1 \in good
  <2> DEFINE d == D[n]
             e == D[n + 1]
             row == B.rows[n + 1]
             free == Partner(A, key, row, d.matched)
  <2>1. n \in Nat /\ n + 1 \in 1 .. m /\ n + 1 \in 0 .. m /\ (n + 1) - 1 = n
    BY <1>1, <1>3
  <2>2. RowStep(A, key, ignored, d, row, e)
    BY <2>1 DEF Matches
  <2>3. d.matched = 1 .. n /\ d.added = <<>> /\ d.changed = <<>>
    BY <1>3
  <2>4. n + 1 \in free /\ \A j \in free : n + 1 <= j
    BY <1>1, <2>1, <2>3 DEF Partner
  <2>5. ChangedColumns(A.rows[n + 1], row, ignored) = {}
    BY DEF ChangedColumns, Present
  <2>6. \A i \in free : (\A j \in free : i <= j) => i = n + 1
    <3> SUFFICES ASSUME NEW i \in free, \A j \in free : i <= j PROVE i = n + 1
      OBVIOUS
    <3>1. i \in 1 .. m
      BY <1>1 DEF Partner
    <3> QED
      BY <1>1, <2>4, <3>1
  <2>7. e.matched = d.matched \cup {n + 1} /\ e.added = d.added /\ e.changed = d.changed
    <3> HIDE DEF d, e, row
    <3> QED
      BY <2>2, <2>4, <2>5, <2>6 DEF RowStep
  <2>8. 1 .. n + 1 = (1 .. n) \cup {n + 1}
    BY <2>1
  <2> QED
    BY <2>1, <2>3, <2>7, <2>8
<1> HIDE DEF good
<1>4. 0 .. m \subseteq good
  BY <1>1, <1>2, <1>3, UpTo
<1> QED
  BY <1>4 DEF good

(* The rows of A of one key that are left.                                 *)
LEMMA LeftOfKey ==
  ASSUME NEW X, NEW list \in Seq(X), NEW gone \in SUBSET DOMAIN list, NEW key, NEW k
  PROVE  /\ Without(list, gone) \in Seq(X)
         /\ Cardinality(gone) \in Nat /\ Len(Without(list, gone)) = Len(list) - Cardinality(gone)
         /\ \A i \in DOMAIN Without(list, gone) : \E j \in DOMAIN list \ gone : Without(list, gone)[i] = list[j]
         /\ Cardinality(OfKey(Without(list, gone), key, k)) \in Nat
         /\ Cardinality(OfKey(list, key, k)) \in Nat
         /\ Cardinality(Taken(list, gone, key, k)) \in Nat
         /\ Cardinality(OfKey(Without(list, gone), key, k)) =
              Cardinality(OfKey(list, key, k)) - Cardinality(Taken(list, gone, key, k))
<1> DEFINE left == Without(list, gone)
           S == OfKey(left, key, k)
           ours == OfKey(list, key, k)
           mine == {i \in gone : KeyOf(list[i], key) = k}
           T == ours \ gone
<1>2. left \in Seq(X) /\ Cardinality(gone) \in Nat /\ Len(left) = Len(list) - Cardinality(gone)
  BY WithoutIs
<1>3. PICK at :
           /\ \A n \in DOMAIN left : at[n] \in DOMAIN list \ gone /\ left[n] = list[at[n]]
           /\ \A m, n \in DOMAIN left : m < n => at[m] < at[n]
           /\ \A i \in DOMAIN list \ gone : \E n \in DOMAIN left : at[n] = i
  BY WithoutIs
<1> HIDE DEF left
<1>4. IsFiniteSet(DOMAIN left) /\ DOMAIN left \in SUBSET Int
  BY <1>2, PositionsAreFinite
<1>5. IsFiniteSet(DOMAIN list) /\ DOMAIN list \in SUBSET Int
  BY PositionsAreFinite
<1>6. IsFiniteSet(S)
  <2>1. S \in SUBSET DOMAIN left
    BY DEF OfKey
  <2> HIDE DEF S
  <2> QED
    BY <1>4, <2>1, FS_Subset
<1>7. IsFiniteSet(ours) /\ IsFiniteSet(mine)
  <2>1. ours \in SUBSET DOMAIN list /\ mine \in SUBSET DOMAIN list
    BY DEF OfKey
  <2> HIDE DEF ours, mine
  <2> QED
    BY <1>5, <2>1, FS_Subset
<1>8. Cardinality(S) \in Nat /\ Cardinality(ours) \in Nat /\ Cardinality(mine) \in Nat
  <2> HIDE DEF S, ours, mine
  <2> QED
    BY <1>6, <1>7, FS_CardinalityType
<1>9. Cardinality(T) = Cardinality(S)
  <2> DEFINE f == [n \in S |-> at[n]]
  <2>1. \A n \in S : n \in DOMAIN left /\ f[n] = at[n] /\ f[n] \in T
    BY <1>3 DEF OfKey
  <2>2. f \in [S -> T]
    <3> HIDE DEF S, T
    <3> QED
      BY <2>1
  <2>3. \A m, n \in S : f[m] = f[n] => m = n
    <3> SUFFICES ASSUME NEW m \in S, NEW n \in S, f[m] = f[n] PROVE m = n
      OBVIOUS
    <3>1. m \in Int /\ n \in Int /\ m \in DOMAIN left /\ n \in DOMAIN left /\ at[m] = at[n]
      BY <1>4, <2>1
    <3>2. at[m] \in Int /\ at[n] \in Int
      BY <1>3, <1>5, <3>1
    <3>3. (m < n => at[m] < at[n]) /\ (n < m => at[n] < at[m])
      BY <1>3, <3>1
    <3> HIDE DEF f, S
    <3> QED
      BY <3>1, <3>2, <3>3
  <2>4. \A i \in T : \E n \in S : f[n] = i
    <3> SUFFICES ASSUME NEW i \in T PROVE \E n \in S : f[n] = i
      OBVIOUS
    <3>1. i \in DOMAIN list \ gone /\ KeyOf(list[i], key) = k
      BY DEF OfKey
    <3>2. PICK n \in DOMAIN left : at[n] = i
      BY <1>3, <3>1
    <3>3. n \in S
      BY <1>3, <3>1, <3>2 DEF OfKey
    <3> QED
      BY <2>1, <3>2, <3>3
  <2> HIDE DEF f, S, T
  <2> QED
    BY <1>6, <2>2, <2>3, <2>4, SameSize
<1>10. Cardinality(ours \ gone) = Cardinality(ours) - Cardinality(ours \cap gone)
  <2> HIDE DEF ours
  <2> QED
    BY <1>7, FS_Difference
<1>11. ours \cap gone = mine
  BY DEF OfKey
<1>12. \A i \in DOMAIN left : \E j \in DOMAIN list \ gone : left[i] = list[j]
  BY <1>3
<1> HIDE DEF S, ours, mine
<1>14. Cardinality(S) = Cardinality(ours) - Cardinality(mine)
  BY <1>9, <1>10, <1>11
<1> QED
  BY <1>2, <1>8, <1>12, <1>14 DEF left, S, ours, mine, Taken

Over(n, m) == IF n > m THEN n - m ELSE 0

(* Of each key, only the rows one side has more of are reported as its own.*)
LEMMA SurplusIsReported ==
  ASSUME NEW A, Ordered(A), NEW B, Ordered(B), NEW key, NEW ignored, NEW D,
         Matches(A, B, key, ignored, D), NEW d, d = D[Len(B.rows)], NEW k
  PROVE  /\ Cardinality(OfKey(d.added, key, k)) =
              Over(Cardinality(OfKey(B.rows, key, k)), Cardinality(OfKey(A.rows, key, k)))
         /\ Cardinality(OfKey(Left(A, d.matched), key, k)) =
              Over(Cardinality(OfKey(A.rows, key, k)), Cardinality(OfKey(B.rows, key, k)))
<1> DEFINE m == Len(B.rows)
           mine == Taken(A.rows, d.matched, key, k)
           ours == OfKey(A.rows, key, k)
           new == OfKey(d.added, key, k)
           ca == Cardinality(ours)
           cb == Cardinality(OfKey(B.rows, key, k))
           cm == Cardinality(mine)
           cn == Cardinality(new)
           cl == Cardinality(OfKey(Left(A, d.matched), key, k))
<1>1. m \in Nat /\ DOMAIN B.rows = 1 .. m /\ m \in 0 .. m
  BY RowsAre
<1>2. d \in Differences(A, B, ignored)
  BY <1>1 DEF Matches
<1>3. d.matched \in SUBSET DOMAIN A.rows /\ d.added \in Seq(RowsOf(B))
  BY <1>2 DEF Differences
<1>4. Balance(A, B, key, d, m, k)
  BY <1>1, BalanceHolds
<1>5. OfKey(B.rows, key, k) = {j \in 1 .. m : KeyOf(B.rows[j], key) = k}
  BY <1>1 DEF OfKey
<1>6. cm + cn = cb /\ (new # {} => ours \subseteq d.matched)
  BY <1>4, <1>5 DEF Balance
<1>7. ca \in Nat /\ cm \in Nat /\ cl \in Nat /\ cl = ca - cm
  BY SMTT(30), ZenonT(30), <1>3, LeftOfKey DEF Ordered, Left
<1>8. IsFiniteSet(new) /\ cn \in Nat
  <2>1. IsFiniteSet(DOMAIN d.added)
    BY <1>3, PositionsAreFinite
  <2>2. new \in SUBSET DOMAIN d.added
    BY DEF OfKey
  <2> HIDE DEF new
  <2> QED
    BY <2>1, <2>2, FS_Subset, FS_CardinalityType
<1>9. cn # 0 => cm = ca
  <2> SUFFICES ASSUME cn # 0 PROVE cm = ca
    OBVIOUS
  <2>1. new # {}
    BY <1>8, FS_EmptySet
  <2>2. ours \subseteq d.matched
    BY <1>6, <2>1
  <2>3. mine = ours
    BY <1>3, <2>2 DEF OfKey, Taken
  <2> QED
    BY <2>3
<1> HIDE DEF ca, cb, cm, cn, cl, new, mine, ours
<1>10. cn = Over(cb, ca) /\ cl = Over(ca, cb)
  BY <1>6, <1>7, <1>8, <1>9 DEF Over
<1> QED
  BY <1>10 DEF ca, cb, cn, cl, new, ours

-----------------------------------------------------------------------------
(*                        The labels of unique keys                        *)

Unique(list, key) ==
  \A i, j \in DOMAIN list : KeyOf(list[i], key) = KeyOf(list[j], key) => i = j

SignOf(A, row, key, ignored) ==
  LET others == OfKey(A.rows, key, KeyOf(row, key)) IN
  IF others = {} THEN "OnlyB"
  ELSE IF \E i \in others : ChangedColumns(A.rows[i], row, ignored) = {} THEN "Same"
  ELSE "Changed"

SignsOf(A, B, key, ignored) == [j \in 1 .. Len(B.rows) |-> SignOf(A, B.rows[j], key, ignored)]

(* The rows that B has of the changed ones.                                *)
ChangedIn(d) == [x \in DOMAIN d.changed |-> d.changed[x].b]

(* What a row of that sign makes of the difference.                        *)
Told(sign, d, row, e) ==
  \/ sign = "OnlyB" /\ e.added = Append(d.added, row) /\ e.changed = d.changed
  \/ sign = "Same" /\ e.added = d.added /\ e.changed = d.changed
  \/ /\ sign = "Changed" /\ e.added = d.added
     /\ \E pair : pair.b = row /\ e.changed = Append(d.changed, pair)

(* What is matched has the key of a row of B that came before.             *)
MatchedBefore(A, B, key, d, n) ==
  \A i \in d.matched : \E j \in 1 .. n : KeyOf(B.rows[j], key) = KeyOf(A.rows[i], key)

LEMMA RowIsTold ==
  ASSUME NEW A, Ordered(A), NEW B, Ordered(B), NEW key, NEW ignored,
         Unique(A.rows, key), Unique(B.rows, key),
         NEW d \in Differences(A, B, ignored), NEW e, NEW n \in Nat, n < Len(B.rows),
         RowStep(A, key, ignored, d, B.rows[n + 1], e), MatchedBefore(A, B, key, d, n)
  PROVE  /\ Told(SignsOf(A, B, key, ignored)[n + 1], d, B.rows[n + 1], e)
         /\ MatchedBefore(A, B, key, e, n + 1)
<1> DEFINE row == B.rows[n + 1]
           free == Partner(A, key, row, d.matched)
           others == OfKey(A.rows, key, KeyOf(row, key))
           sign == SignOf(A, row, key, ignored)
<1>1. n + 1 \in 1 .. Len(B.rows) /\ DOMAIN B.rows = 1 .. Len(B.rows)
  BY RowsAre
<1>2. SignsOf(A, B, key, ignored)[n + 1] = sign
  BY <1>1 DEF SignsOf
<1>3. free = others
  <2>1. ASSUME NEW i \in others PROVE i \notin d.matched
    <3>1. SUFFICES ASSUME i \in d.matched PROVE FALSE
      OBVIOUS
    <3>2. PICK j \in 1 .. n : KeyOf(B.rows[j], key) = KeyOf(A.rows[i], key)
      BY <3>1 DEF MatchedBefore
    <3>3. KeyOf(B.rows[j], key) = KeyOf(row, key)
      BY <3>2 DEF OfKey
    <3>4. j \in DOMAIN B.rows /\ n + 1 \in DOMAIN B.rows
      BY <1>1
    <3>5. j = n + 1
      BY <3>3, <3>4 DEF Unique
    <3> QED
      BY <3>5
  <2> QED
    BY <2>1 DEF Partner, OfKey
<1>4. \A i, j \in others : i = j
  BY DEF OfKey, Unique
<1>5. \A i \in others : i \in DOMAIN A.rows /\ KeyOf(A.rows[i], key) = KeyOf(row, key)
  BY DEF OfKey
<1>6. sign = IF others = {} THEN "OnlyB"
             ELSE IF \E i \in others : ChangedColumns(A.rows[i], row, ignored) = {} THEN "Same"
             ELSE "Changed"
  BY DEF SignOf
<1>7. 1 .. n + 1 = (1 .. n) \cup {n + 1}
  OBVIOUS
<1> HIDE DEF free, others, sign, row
<1>8. CASE free = {} /\ e.added = Append(d.added, row)
           /\ e.matched = d.matched /\ e.changed = d.changed /\ e.unchanged = d.unchanged
  <2>1. Told(sign, d, row, e)
    BY <1>3, <1>6, <1>8 DEF Told
  <2>2. MatchedBefore(A, B, key, e, n + 1)
    BY <1>7, <1>8 DEF MatchedBefore
  <2> QED
    BY <1>2, <2>1, <2>2 DEF row
<1>9. ASSUME NEW i \in free, e.matched = d.matched \cup {i}, e.added = d.added,
             \/ /\ ChangedColumns(A.rows[i], row, ignored) = {}
                /\ e.changed = d.changed
             \/ /\ ChangedColumns(A.rows[i], row, ignored) # {}
                /\ e.changed = Append(d.changed, [a |-> A.rows[i], b |-> row,
                                       columns |-> ChangedColumns(A.rows[i], row, ignored)])
      PROVE  Told(sign, d, row, e) /\ MatchedBefore(A, B, key, e, n + 1)
  <2>1. others = {i}
    BY <1>3, <1>4, <1>9
  <2>2. ASSUME ChangedColumns(A.rows[i], row, ignored) = {}, e.changed = d.changed
        PROVE  Told(sign, d, row, e)
    <3>1. sign = "Same"
      BY <1>6, <2>1, <2>2
    <3> QED
      BY <1>9, <2>2, <3>1 DEF Told
  <2> DEFINE pair == [a |-> A.rows[i], b |-> row,
                      columns |-> ChangedColumns(A.rows[i], row, ignored)]
  <2>3. ASSUME ChangedColumns(A.rows[i], row, ignored) # {}, e.changed = Append(d.changed, pair)
        PROVE  Told(sign, d, row, e)
    <3>1. pair.b = row
      OBVIOUS
    <3>2. sign = "Changed"
      BY <1>6, <2>1, <2>3
    <3> HIDE DEF pair
    <3> QED
      BY <1>9, <2>3, <3>1, <3>2 DEF Told
  <2>4. KeyOf(B.rows[n + 1], key) = KeyOf(A.rows[i], key)
    BY <1>5, <2>1 DEF row
  <2>5. MatchedBefore(A, B, key, e, n + 1)
    BY <1>7, <1>9, <2>4 DEF MatchedBefore
  <2> QED
    BY <1>9, <2>2, <2>3, <2>5
<1>10. \/ /\ free = {} /\ e.added = Append(d.added, row)
          /\ e.matched = d.matched /\ e.changed = d.changed /\ e.unchanged = d.unchanged
       \/ \E i \in free :
            /\ \A j \in free : i <= j
            /\ e.matched = d.matched \cup {i} /\ e.added = d.added
            /\ \/ /\ ChangedColumns(A.rows[i], row, ignored) = {}
                  /\ e.changed = d.changed /\ e.unchanged = d.unchanged + 1
               \/ /\ ChangedColumns(A.rows[i], row, ignored) # {}
                  /\ e.changed = Append(d.changed, [a |-> A.rows[i], b |-> row,
                                         columns |-> ChangedColumns(A.rows[i], row, ignored)])
                  /\ e.unchanged = d.unchanged
  BY DEF RowStep, free, row
<1> QED
  BY <1>2, <1>8, <1>9, <1>10 DEF row

(* Each row is told by its sign.                                           *)
AreTold(A, B, key, ignored, D) ==
  LET signs == SignsOf(A, B, key, ignored) IN
  \A n \in 1 .. Len(B.rows) : Told(signs[n], D[n - 1], B.rows[n], D[n])

LEMMA RowsAreTold ==
  ASSUME NEW A, Ordered(A), NEW B, Ordered(B), NEW key, NEW ignored, NEW D,
         Unique(A.rows, key), Unique(B.rows, key), Matches(A, B, key, ignored, D)
  PROVE  AreTold(A, B, key, ignored, D)
<1> DEFINE m == Len(B.rows)
           good == {n \in 0 .. m : MatchedBefore(A, B, key, D[n], n)}
           signs == SignsOf(A, B, key, ignored)
<1>1. m \in Nat
  BY RowsAre
<1>2. 0 \in good
  <2>1. NoDifference.matched = {}
    BY DEF NoDifference
  <2> QED
    BY <1>1, <2>1 DEF Matches, MatchedBefore
<1>3. ASSUME NEW n \in 0 .. m, n \in good, n < m
      PROVE n + 1 \in good /\ Told(signs[n + 1], D[n], B.rows[n + 1], D[n + 1])
  <2>1. n \in Nat /\ n + 1 \in 1 .. m /\ n + 1 \in 0 .. m /\ (n + 1) - 1 = n
    BY <1>1, <1>3
  <2>2. /\ D[n] \in Differences(A, B, ignored)
        /\ RowStep(A, key, ignored, D[n], B.rows[n + 1], D[n + 1])
    BY <2>1 DEF Matches
  <2>3. MatchedBefore(A, B, key, D[n + 1], n + 1)
        /\ Told(signs[n + 1], D[n], B.rows[n + 1], D[n + 1])
    BY <1>3, <2>1, <2>2, RowIsTold
  <2> QED
    BY <2>1, <2>3
<1> HIDE DEF good, signs
<1>4. 0 .. m \subseteq good
  BY <1>1, <1>2, <1>3, UpTo
<1>5. ASSUME NEW n \in 1 .. m PROVE Told(signs[n], D[n - 1], B.rows[n], D[n])
  <2>1. n - 1 \in 0 .. m /\ n - 1 < m /\ (n - 1) + 1 = n
    BY <1>1
  <2> DEFINE l == n - 1
  <2>2. l \in 0 .. m /\ l < m /\ l + 1 = n /\ l \in good
    BY <1>4, <2>1
  <2> HIDE DEF l
  <2>3. Told(signs[l + 1], D[l], B.rows[l + 1], D[l + 1])
    BY <1>3, <2>2
  <2> QED
    BY <2>2, <2>3 DEF l
<1> QED
  BY <1>5 DEF AreTold, m, signs

(* A list after each row, which the rows of one sign enter.                *)
Entered(sign, want, s, row, t) == IF sign = want THEN t = Append(s, row) ELSE t = s

Entries(S, list, signs, want) ==
  /\ S[0] = <<>>
  /\ \A n \in 1 .. Len(list) : Entered(signs[n], want, S[n - 1], list[n], S[n])

(* A list of the rows of one sign, of the first n, each in it once.        *)
Lists(s, list, signs, want, n) ==
  /\ \A x \in DOMAIN s : \E j \in 1 .. n : signs[j] = want /\ s[x] = list[j]
  /\ \A j \in 1 .. n : signs[j] = want => \E x \in DOMAIN s : s[x] = list[j]
  /\ \A x, y \in DOMAIN s : s[x] = s[y] => x = y

Begins(s, t) == Len(s) <= Len(t) /\ \A x \in 1 .. Len(s) : t[x] = s[x]

Distinct(list) == \A i, j \in DOMAIN list : list[i] = list[j] => i = j

LEMMA EntryIsListed ==
  ASSUME NEW R, NEW list \in Seq(R), Distinct(list), NEW signs, NEW want,
         NEW n \in Nat, n < Len(list), NEW s \in Seq(R), Lists(s, list, signs, want, n),
         NEW t, Entered(signs[n + 1], want, s, list[n + 1], t)
  PROVE  Lists(t, list, signs, want, n + 1)
<1> DEFINE row == list[n + 1]
<1>1. 1 .. n + 1 = (1 .. n) \cup {n + 1} /\ n + 1 \in DOMAIN list
      /\ \A j \in 1 .. n : j \in DOMAIN list /\ j # n + 1
  OBVIOUS
<1>2. CASE signs[n + 1] # want
  BY <1>1, <1>2 DEF Lists, Entered
<1>3. CASE signs[n + 1] = want
  <2>1. t = Append(s, row)
    BY <1>3 DEF Entered
  <2>2. row \in R
    BY <1>1
  <2> HIDE DEF row
  <2>3. /\ \A x : x \in DOMAIN t <=> x \in DOMAIN s \/ x = Len(s) + 1
        /\ Len(s) + 1 \notin DOMAIN s /\ t[Len(s) + 1] = row
        /\ \A x \in DOMAIN s : t[x] = s[x]
    BY <2>1, <2>2
  <2> DEFINE l == Len(s) + 1
  <2> HIDE DEF l
  <2>4. /\ \A x : x \in DOMAIN t <=> x \in DOMAIN s \/ x = l
        /\ l \notin DOMAIN s /\ t[l] = row
        /\ \A x \in DOMAIN s : t[x] = s[x]
    BY <2>3 DEF l
  <2>5. \A x \in DOMAIN s : \E j \in 1 .. n : signs[j] = want /\ s[x] = list[j]
    BY DEF Lists
  <2>6. \A j \in 1 .. n : signs[j] = want => \E x \in DOMAIN s : s[x] = list[j]
    BY DEF Lists
  <2>7. \A x, y \in DOMAIN s : s[x] = s[y] => x = y
    BY DEF Lists
  <2>8. \A x \in DOMAIN t : \E j \in 1 .. n + 1 : signs[j] = want /\ t[x] = list[j]
    <3> SUFFICES ASSUME NEW x \in DOMAIN t
                 PROVE \E j \in 1 .. n + 1 : signs[j] = want /\ t[x] = list[j]
      OBVIOUS
    <3>1. CASE x \in DOMAIN s
      BY <1>1, <2>4, <2>5, <3>1
    <3>2. CASE x = l
      BY <1>1, <1>3, <2>4, <3>2 DEF row
    <3> QED
      BY <2>4, <3>1, <3>2
  <2>9. \A j \in 1 .. n + 1 : signs[j] = want => \E x \in DOMAIN t : t[x] = list[j]
    <3> SUFFICES ASSUME NEW j \in 1 .. n + 1, signs[j] = want
                 PROVE \E x \in DOMAIN t : t[x] = list[j]
      OBVIOUS
    <3>1. CASE j \in 1 .. n
      <4>1. PICK x \in DOMAIN s : s[x] = list[j]
        BY <2>6, <3>1
      <4> QED
        BY <2>4, <4>1
    <3>2. CASE j = n + 1
      BY <2>4, <3>2 DEF row
    <3> QED
      BY <1>1, <3>1, <3>2
  <2>10. \A x \in DOMAIN s : s[x] # row
    <3> SUFFICES ASSUME NEW x \in DOMAIN s, s[x] = row PROVE FALSE
      OBVIOUS
    <3>1. PICK j \in 1 .. n : s[x] = list[j]
      BY <2>5
    <3> QED
      BY <1>1, <3>1 DEF Distinct, row
  <2>11. \A x, y \in DOMAIN t : t[x] = t[y] => x = y
    BY <2>4, <2>7, <2>10
  <2> QED
    BY <2>8, <2>9, <2>11 DEF Lists
<1> QED
  BY <1>2, <1>3

LEMMA BeginningGrows ==
  ASSUME NEW R, NEW s \in Seq(R), NEW t \in Seq(R), NEW u \in Seq(R), NEW row \in R,
         Begins(s, t), u = t \/ u = Append(t, row)
  PROVE  Begins(s, u)
<1>1. CASE u = t
  BY <1>1
<1>2. CASE u = Append(t, row)
  <2>1. Len(u) = Len(t) + 1 /\ \A x \in 1 .. Len(t) : u[x] = t[x]
    BY <1>2
  <2>2. Len(s) \in Nat /\ Len(t) \in Nat
    OBVIOUS
  <2> QED
    BY <2>1, <2>2 DEF Begins
<1> QED
  BY <1>1, <1>2

(* The cursor into the list in the end is at a row exactly if the row is   *)
(* of its sign.                                                            *)
AtItsRow(S, list, signs, want) ==
  LET m == Len(list) IN
  \A n \in 0 .. m : n < m =>
    /\ signs[n + 1] = want <=> Len(S[n]) + 1 <= Len(S[m]) /\ S[m][Len(S[n]) + 1] = list[n + 1]
    /\ Len(S[n + 1]) = IF signs[n + 1] = want THEN Len(S[n]) + 1 ELSE Len(S[n])

LEMMA CursorIsAtItsRow ==
  ASSUME NEW R, NEW list \in Seq(R), Distinct(list), NEW signs, NEW want,
         NEW S \in [0 .. Len(list) -> Seq(R)], Entries(S, list, signs, want)
  PROVE  /\ Lists(S[Len(list)], list, signs, want, Len(list))
         /\ AtItsRow(S, list, signs, want)
<1> DEFINE m == Len(list)
           good == {n \in 0 .. m : Lists(S[n], list, signs, want, n)
                                   /\ \A k \in 0 .. n : Begins(S[k], S[n])}
<1>1. m \in Nat /\ \A n \in 0 .. m : S[n] \in Seq(R)
  OBVIOUS
<1>2. 0 \in good
  <2>1. Lists(<<>>, list, signs, want, 0)
    BY DEF Lists
  <2>2. \A k \in 0 .. 0 : k = 0
    OBVIOUS
  <2>3. Begins(S[0], S[0])
    BY <1>1 DEF Begins
  <2> QED
    BY <1>1, <2>1, <2>2, <2>3 DEF Entries
<1>3. ASSUME NEW n \in 0 .. m, n < m PROVE Entered(signs[n + 1], want, S[n], list[n + 1], S[n + 1])
  <2>1. n + 1 \in 1 .. m /\ (n + 1) - 1 = n
    BY <1>1, <1>3
  <2> QED
    BY <2>1 DEF Entries
<1>4. ASSUME NEW n \in 0 .. m, n \in good, n < m PROVE n + 1 \in good
  <2>1. n \in Nat /\ n + 1 \in 0 .. m /\ list[n + 1] \in R /\ 0 .. n + 1 = (0 .. n) \cup {n + 1}
    BY <1>1, <1>4
  <2>2. Lists(S[n + 1], list, signs, want, n + 1)
    BY <1>1, <1>3, <1>4, <2>1, EntryIsListed
  <2>3. S[n + 1] = S[n] \/ S[n + 1] = Append(S[n], list[n + 1])
    BY <1>3, <1>4 DEF Entered
  <2>4. ASSUME NEW k \in 0 .. n PROVE Begins(S[k], S[n + 1])
    <3>1. S[k] \in Seq(R) /\ S[n] \in Seq(R) /\ S[n + 1] \in Seq(R) /\ Begins(S[k], S[n])
      BY <1>1, <1>4, <2>1
    <3> QED
      BY <2>1, <2>3, <3>1, BeginningGrows
  <2>5. Begins(S[n + 1], S[n + 1])
    BY <1>1, <2>1 DEF Begins
  <2> QED
    BY <2>1, <2>2, <2>4, <2>5
<1> HIDE DEF good
<1>5. 0 .. m \subseteq good
  BY <1>1, <1>2, <1>4, UpTo
<1>6. Lists(S[m], list, signs, want, m) /\ \A n \in 0 .. m : Begins(S[n], S[m])
  BY <1>1, <1>5 DEF good
<1>7. ASSUME NEW n \in 0 .. m, n < m
      PROVE  /\ signs[n + 1] = want <=> Len(S[n]) + 1 <= Len(S[m]) /\ S[m][Len(S[n]) + 1] = list[n + 1]
             /\ Len(S[n + 1]) = IF signs[n + 1] = want THEN Len(S[n]) + 1 ELSE Len(S[n])
  <2> DEFINE c == Len(S[n]) + 1
             F == S[m]
  <2>1. S[n] \in Seq(R) /\ F \in Seq(R) /\ n + 1 \in 0 .. m /\ n + 1 \in DOMAIN list
        /\ list[n + 1] \in R
        /\ c \in Nat /\ c >= 1 /\ Len(F) \in Nat /\ S[n + 1] \in Seq(R)
    BY <1>1, <1>7
  <2>2. CASE signs[n + 1] = want
    <3>1. S[n + 1] = Append(S[n], list[n + 1])
      BY <1>3, <1>7, <2>2 DEF Entered
    <3>2. Len(S[n + 1]) = c /\ S[n + 1][c] = list[n + 1]
      BY <2>1, <3>1
    <3>3. Len(S[n + 1]) <= Len(F) /\ \A x \in 1 .. Len(S[n + 1]) : F[x] = S[n + 1][x]
      BY <1>6, <2>1 DEF Begins
    <3>4. c \in 1 .. Len(S[n + 1])
      BY <2>1, <3>2
    <3> QED
      BY <2>2, <3>2, <3>3, <3>4
  <2>3. CASE signs[n + 1] # want
    <3>1. S[n + 1] = S[n]
      BY <1>3, <1>7, <2>3 DEF Entered
    <3>2. ASSUME c <= Len(F), F[c] = list[n + 1] PROVE FALSE
      <4>1. c \in DOMAIN F
        BY <2>1, <3>2
      <4>2. PICK j \in 1 .. m : signs[j] = want /\ F[c] = list[j]
        <5> HIDE DEF c, F, m
        <5> QED
          BY <1>6, <4>1 DEF Lists, F
      <4>3. j = n + 1
        <5>1. j \in DOMAIN list /\ list[j] = list[n + 1]
          BY <3>2, <4>2
        <5> HIDE DEF c, F, m
        <5> QED
          BY <2>1, <5>1 DEF Distinct
      <4> QED
        BY <2>3, <4>2, <4>3
    <3> QED
      BY <2>3, <3>1, <3>2
  <2> QED
    BY <2>2, <2>3
<1> QED
  BY <1>6, <1>7 DEF AtItsRow

(* What is added and what is changed, after each row of B.                 *)
AddedTo(B, D) == [n \in 0 .. Len(B.rows) |-> D[n].added]

ChangedTo(B, D) == [n \in 0 .. Len(B.rows) |-> ChangedIn(D[n])]

LEMMA ChangedInIs ==
  ASSUME NEW A, NEW B, NEW ignored, NEW d \in Differences(A, B, ignored)
  PROVE  /\ ChangedIn(d) \in Seq(RowsOf(B)) /\ Len(ChangedIn(d)) = Len(d.changed)
         /\ \A x \in DOMAIN d.changed : d.changed[x].b \in RowsOf(B)
<1>1. d.changed \in Seq(PairsOf(A, B, ignored))
  BY DEF Differences
<1>2. \A p \in PairsOf(A, B, ignored) : p.b \in RowsOf(B)
  BY DEF PairsOf
<1> DEFINE P == PairsOf(A, B, ignored)
           R == RowsOf(B)
<1> HIDE DEF P, R
<1>3. d.changed \in Seq(P) /\ \A p \in P : p.b \in R
  BY <1>1, <1>2 DEF P, R
<1>4. \A x \in DOMAIN d.changed : d.changed[x].b \in R
  BY <1>3
<1>5. ChangedIn(d) \in Seq(R) /\ Len(ChangedIn(d)) = Len(d.changed)
  BY <1>3, <1>4 DEF ChangedIn
<1> QED
  BY <1>4, <1>5 DEF R

LEMMA ChangedRowEnters ==
  ASSUME NEW P, NEW R, \A p \in P : p.b \in R, NEW d, d.changed \in Seq(P), NEW pair,
         NEW e, e.changed = Append(d.changed, pair), e.changed \in Seq(P)
  PROVE  ChangedIn(e) = Append(ChangedIn(d), pair.b)
<1> DEFINE s == d.changed
           l == Len(s)
           f == ChangedIn(e)
           g == Append(ChangedIn(d), pair.b)
<1>1. l \in Nat /\ DOMAIN s = 1 .. l
  OBVIOUS
<1>2. Len(e.changed) = l + 1 /\ e.changed[l + 1] = pair /\ \A x \in 1 .. l : e.changed[x] = s[x]
  OBVIOUS
<1>3. DOMAIN e.changed = 1 .. l + 1
  BY <1>2
<1>4. \A x \in 1 .. l : s[x].b \in R
  BY <1>1
<1>5. e.changed[l + 1] \in P
  BY <1>1, <1>3
<1>6. pair.b \in R
  BY <1>2, <1>5
<1>7. f = [x \in 1 .. l + 1 |-> e.changed[x].b]
  BY <1>3 DEF ChangedIn
<1>8. ChangedIn(d) = [x \in 1 .. l |-> s[x].b]
  BY <1>1 DEF ChangedIn
<1>9. ChangedIn(d) \in Seq(R) /\ Len(ChangedIn(d)) = l
  BY <1>1, <1>4, <1>8
<1>10. Len(g) = l + 1 /\ g \in Seq(R) /\ g[l + 1] = pair.b
       /\ \A x \in 1 .. l : g[x] = ChangedIn(d)[x]
  BY <1>1, <1>6, <1>9
<1> HIDE DEF f, g, l
<1>11. f \in Seq(R) /\ Len(f) = l + 1
  <2>1. \A x \in 1 .. l + 1 : e.changed[x].b \in R
    <3>1. \A x \in DOMAIN e.changed : e.changed[x] \in P
      OBVIOUS
    <3> QED
      BY <1>3, <3>1
  <2> QED
    BY <1>1, <1>7, <2>1
<1>12. \A x \in 1 .. l + 1 : f[x] = g[x]
  <2> SUFFICES ASSUME NEW x \in 1 .. l + 1 PROVE f[x] = g[x]
    OBVIOUS
  <2>1. CASE x = l + 1
    BY <1>1, <1>2, <1>7, <1>10, <2>1
  <2>2. CASE x \in 1 .. l
    BY <1>1, <1>2, <1>7, <1>8, <1>10, <2>2
  <2> QED
    BY <1>1, <2>1, <2>2
<1>13. f = g
  BY <1>10, <1>11, <1>12, SeqEqual
<1> QED
  BY <1>13 DEF f, g

LEMMA TablesAreEntered ==
  ASSUME NEW A, Ordered(A), NEW B, Ordered(B), NEW key, NEW ignored, NEW D,
         Unique(A.rows, key), Unique(B.rows, key), Matches(A, B, key, ignored, D)
  PROVE  /\ AddedTo(B, D) \in [0 .. Len(B.rows) -> Seq(RowsOf(B))]
         /\ Entries(AddedTo(B, D), B.rows, SignsOf(A, B, key, ignored), "OnlyB")
         /\ ChangedTo(B, D) \in [0 .. Len(B.rows) -> Seq(RowsOf(B))]
         /\ Entries(ChangedTo(B, D), B.rows, SignsOf(A, B, key, ignored), "Changed")
         /\ Distinct(B.rows)
<1> DEFINE m == Len(B.rows)
           signs == SignsOf(A, B, key, ignored)
<1>1. m \in Nat
  BY RowsAre
<1>2. \A n \in 0 .. m : D[n] \in Differences(A, B, ignored)
  BY DEF Matches
<1>3. \A n \in 0 .. m : D[n].added \in Seq(RowsOf(B)) /\ ChangedIn(D[n]) \in Seq(RowsOf(B))
  <2> SUFFICES ASSUME NEW n \in 0 .. m
               PROVE D[n].added \in Seq(RowsOf(B)) /\ ChangedIn(D[n]) \in Seq(RowsOf(B))
    OBVIOUS
  <2>1. D[n] \in Differences(A, B, ignored)
    BY <1>2
  <2>2. D[n].added \in Seq(RowsOf(B))
    BY <2>1 DEF Differences
  <2> QED
    BY <2>1, <2>2, ChangedInIs
<1>4. D[0].added = <<>> /\ ChangedIn(D[0]) = <<>>
  BY DEF Matches, NoDifference, ChangedIn
<1>5. \A n \in 1 .. m : Told(signs[n], D[n - 1], B.rows[n], D[n])
  BY RowsAreTold DEF AreTold
<1>6. ASSUME NEW n \in 1 .. m
      PROVE  /\ Entered(signs[n], "OnlyB", D[n - 1].added, B.rows[n], D[n].added)
             /\ Entered(signs[n], "Changed", ChangedIn(D[n - 1]), B.rows[n], ChangedIn(D[n]))
  <2> DEFINE d == D[n - 1]
             e == D[n]
             row == B.rows[n]
             sign == signs[n]
  <2>1. d \in Differences(A, B, ignored) /\ e \in Differences(A, B, ignored)
        /\ Told(sign, d, row, e)
    BY <1>1, <1>2, <1>5
  <2>2. \A p \in PairsOf(A, B, ignored) : p.b \in RowsOf(B)
    BY DEF PairsOf
  <2>3. d.changed \in Seq(PairsOf(A, B, ignored)) /\ e.changed \in Seq(PairsOf(A, B, ignored))
    BY <2>1 DEF Differences
  <2> HIDE DEF d, e, row, sign
  <2>4. ASSUME NEW pair, pair.b = row, e.changed = Append(d.changed, pair)
        PROVE  ChangedIn(e) = Append(ChangedIn(d), row)
    <3> DEFINE P == PairsOf(A, B, ignored)
               R == RowsOf(B)
    <3>1. (\A p \in P : p.b \in R) /\ d.changed \in Seq(P) /\ e.changed \in Seq(P)
      BY <2>2, <2>3
    <3> HIDE DEF P, R
    <3>2. ChangedIn(e) = Append(ChangedIn(d), pair.b)
      BY <2>4, <3>1, ChangedRowEnters
    <3> QED
      BY <2>4, <3>2
  <2>5. e.changed = d.changed => ChangedIn(e) = ChangedIn(d)
    BY DEF ChangedIn
  <2>6. Entered(sign, "OnlyB", d.added, row, e.added)
    BY <2>1 DEF Told, Entered
  <2>7. Entered(sign, "Changed", ChangedIn(d), row, ChangedIn(e))
    BY <2>1, <2>4, <2>5 DEF Told, Entered
  <2> QED
    BY <2>6, <2>7 DEF d, e, row, sign
<1>7. \A n \in 1 .. m : n \in 0 .. m /\ n - 1 \in 0 .. m
  BY <1>1
<1>8. Distinct(B.rows)
  BY DEF Distinct, Unique
<1> HIDE DEF signs, m
<1>9. AddedTo(B, D) = [n \in 0 .. m |-> D[n].added]
      /\ ChangedTo(B, D) = [n \in 0 .. m |-> ChangedIn(D[n])]
  BY DEF AddedTo, ChangedTo, m
<1>10. Entries(AddedTo(B, D), B.rows, signs, "OnlyB")
  BY <1>1, <1>4, <1>6, <1>7, <1>9 DEF Entries, m
<1>11. Entries(ChangedTo(B, D), B.rows, signs, "Changed")
  BY <1>1, <1>4, <1>6, <1>7, <1>9 DEF Entries, m
<1> QED
  BY <1>3, <1>8, <1>9, <1>10, <1>11 DEF m, signs

Signs == {"OnlyB", "Changed", "Same"}

Cursors == [ai : Nat, ci : Nat, signs : Seq(Signs)]

(* The cursors, after each row of B.                                       *)
Labelled(list, d, L) ==
  /\ L[0] = [ai |-> 1, ci |-> 1, signs |-> <<>>]
  /\ \A n \in 0 .. Len(list) : L[n] \in Cursors
  /\ \A n \in 1 .. Len(list) : L[n] = LabelRow(d, L[n - 1], list[n])

LEMMA RowIsLabelled ==
  ASSUME NEW d, NEW acc \in Cursors, NEW row
  PROVE  LabelRow(d, acc, row) \in Cursors
<1>1. Append(acc.signs, "OnlyB") \in Seq(Signs) /\ Append(acc.signs, "Changed") \in Seq(Signs)
      /\ Append(acc.signs, "Same") \in Seq(Signs)
  BY DEF Cursors, Signs
<1>2. acc.ai + 1 \in Nat /\ acc.ci + 1 \in Nat
  BY DEF Cursors
<1> DEFINE S == Seq(Signs)
           i == acc.ai + 1
           j == acc.ci + 1
           s == Append(acc.signs, "OnlyB")
           t == Append(acc.signs, "Changed")
           u == Append(acc.signs, "Same")
           e == LabelRow(d, acc, row)
<1>3. acc \in [ai : Nat, ci : Nat, signs : S]
  BY DEF Cursors
<1>4. \/ e = [acc EXCEPT !.ai = i, !.signs = s]
      \/ e = [acc EXCEPT !.ci = j, !.signs = t]
      \/ e = [acc EXCEPT !.signs = u]
  BY DEF LabelRow
<1>5. s \in S /\ t \in S /\ u \in S /\ i \in Nat /\ j \in Nat
  BY <1>1, <1>2
<1> HIDE DEF S, i, j, s, t, u, e
<1>6. [acc EXCEPT !.ai = i, !.signs = s] \in [ai : Nat, ci : Nat, signs : S]
  BY <1>3, <1>5
<1>7. [acc EXCEPT !.ci = j, !.signs = t] \in [ai : Nat, ci : Nat, signs : S]
  BY <1>3, <1>5
<1>8. [acc EXCEPT !.signs = u] \in [ai : Nat, ci : Nat, signs : S]
  BY <1>3, <1>5
<1>9. e \in [ai : Nat, ci : Nat, signs : S]
  BY <1>4, <1>6, <1>7, <1>8
<1> QED
  BY <1>9 DEF Cursors, S, e

LEMMA LabelsAre ==
  ASSUME NEW R, NEW list \in Seq(R), NEW d
  PROVE  Labelled(list, d, Labels(list, d))
<1> DEFINE m == Len(list)
           X == Cursors
           start == [ai |-> 1, ci |-> 1, signs |-> <<>>]
           Turn(acc, row) == LabelRow(d, acc, row)
           g == [p \in X \X (1 .. m) |-> Turn(p[1], list[p[2]])]
           after == CHOOSE after :
                      after = [n \in 0 .. m |-> IF n = 0 THEN start ELSE Turn(after[n - 1], list[n])]
<1>1. m \in Nat
  OBVIOUS
<1>2. start \in X
  <2>1. <<>> \in Seq(Signs)
    OBVIOUS
  <2> QED
    BY <2>1 DEF Cursors
<1>3. after = Labels(list, d)
  BY DEF Labels
<1>4. \A acc \in X : \A row : Turn(acc, row) \in X
  BY RowIsLabelled
<1> HIDE DEF m, X, Turn, start
<1>5. g \in [X \X (1 .. m) -> X]
  BY <1>1, <1>4
<1>6. PICK f \in [0 .. m -> X] : f[0] = start /\ \A n \in 1 .. m : f[n] = g[<<f[n - 1], n>>]
  <2> HIDE DEF g
  <2>1. \E f : StepsOf(f, m, X, start, g)
    BY <1>1, <1>2, <1>5, StepsExist
  <2> QED
    BY <2>1 DEF StepsOf
<1>7. f = [n \in 0 .. m |-> IF n = 0 THEN start ELSE Turn(f[n - 1], list[n])]
  <2>1. \A n \in 1 .. m : f[n] = Turn(f[n - 1], list[n])
    <3> SUFFICES ASSUME NEW n \in 1 .. m PROVE f[n] = Turn(f[n - 1], list[n])
      OBVIOUS
    <3>1. f[n - 1] \in X
      BY <1>1
    <3> QED
      BY <1>6, <3>1
  <2>2. \A n \in 0 .. m : n # 0 => n \in 1 .. m
    BY <1>1
  <2> QED
    BY <1>6, <2>1, <2>2
<1>8. after = [n \in 0 .. m |-> IF n = 0 THEN start ELSE Turn(after[n - 1], list[n])]
  BY <1>7
<1> HIDE DEF after, g
<1>9. after[0] = start /\ \A n \in 1 .. m : after[n] = Turn(after[n - 1], list[n])
  BY <1>1, <1>8
<1>10. \A n \in 0 .. m : after[n] \in X
  <2> DEFINE good == {n \in 0 .. m : after[n] \in X}
  <2>1. 0 \in good
    BY <1>1, <1>2, <1>9
  <2>2. ASSUME NEW n \in 0 .. m, n \in good, n < m PROVE n + 1 \in good
    <3>1. n + 1 \in 1 .. m /\ n + 1 \in 0 .. m /\ (n + 1) - 1 = n
      BY <1>1, <2>2
    <3>2. after[n + 1] = Turn(after[n], list[n + 1])
      BY <1>9, <3>1
    <3> QED
      BY <1>4, <2>2, <3>1, <3>2
  <2>3. 0 .. m \subseteq good
    <3> HIDE DEF good
    <3> QED
      BY <1>1, <2>1, <2>2, UpTo
  <2> QED
    BY <2>3
<1> QED
  BY <1>3, <1>9, <1>10 DEF Labelled, m, X, start, Turn

(* The lists that the cursors go through are those of the difference d.    *)
CursorsOf(R, list, signs, S, T, d, P) ==
  /\ list \in Seq(R) /\ signs \in [1 .. Len(list) -> Signs]
  /\ S \in [0 .. Len(list) -> Seq(R)] /\ AtItsRow(S, list, signs, "OnlyB")
  /\ T \in [0 .. Len(list) -> Seq(R)] /\ AtItsRow(T, list, signs, "Changed")
  /\ S[0] = <<>> /\ T[0] = <<>>
  /\ d.added = S[Len(list)] /\ ChangedIn(d) = T[Len(list)] /\ d.changed \in Seq(P)

(* The label of each row is its sign, when both cursors stop at the rows   *)
(* of theirs only.                                                         *)
LEMMA LabelsAreSigns ==
  ASSUME NEW R, NEW list, NEW signs, NEW S, NEW T, NEW d, NEW P,
         CursorsOf(R, list, signs, S, T, d, P)
  PROVE  \A n \in 1 .. Len(list) : LabelBRows(list, d)[n] = signs[n]
<1> DEFINE m == Len(list)
           L == Labels(list, d)
           Stops(n) == /\ L[n].ai = Len(S[n]) + 1 /\ L[n].ci = Len(T[n]) + 1
                      /\ Len(L[n].signs) = n /\ \A j \in 1 .. n : L[n].signs[j] = signs[j]
           good == {n \in 0 .. m : Stops(n)}
<1>1. /\ list \in Seq(R) /\ AtItsRow(S, list, signs, "OnlyB")
      /\ AtItsRow(T, list, signs, "Changed")
      /\ S[0] = <<>> /\ T[0] = <<>>
      /\ d.added = S[m] /\ ChangedIn(d) = T[m] /\ d.changed \in Seq(P)
  BY DEF CursorsOf
<1>2. m \in Nat /\ \A n \in 1 .. m : signs[n] \in Signs
  BY DEF CursorsOf
<1>3. \A n \in 0 .. m : Len(S[n]) \in Nat /\ Len(T[n]) \in Nat
  BY DEF CursorsOf
<1>4. /\ L[0] = [ai |-> 1, ci |-> 1, signs |-> <<>>]
      /\ \A n \in 0 .. m : L[n] \in Cursors
      /\ \A n \in 1 .. m : L[n] = LabelRow(d, L[n - 1], list[n])
  BY <1>1, LabelsAre DEF Labelled
<1> HIDE DEF L
<1>5. 0 \in good
  BY <1>1, <1>2, <1>4
<1>6. ASSUME NEW n \in 0 .. m, n \in good, n < m PROVE n + 1 \in good
  <2> DEFINE acc == L[n]
             row == list[n + 1]
             sign == signs[n + 1]
             e == L[n + 1]
             isNew == acc.ai <= Len(d.added) /\ d.added[acc.ai] = row
             isChanged == acc.ci <= Len(d.changed) /\ d.changed[acc.ci].b = row
  <2>1. n \in Nat /\ n + 1 \in 1 .. m /\ n + 1 \in 0 .. m /\ (n + 1) - 1 = n
    BY <1>2, <1>6
  <2>2. Stops(n) /\ acc \in Cursors /\ e = LabelRow(d, acc, row)
    BY <1>4, <1>6, <2>1
  <2>3. /\ sign = "OnlyB" <=> Len(S[n]) + 1 <= Len(S[m]) /\ S[m][Len(S[n]) + 1] = row
        /\ Len(S[n + 1]) = IF sign = "OnlyB" THEN Len(S[n]) + 1 ELSE Len(S[n])
    BY <1>1, <1>6 DEF AtItsRow
  <2>4. /\ sign = "Changed" <=> Len(T[n]) + 1 <= Len(T[m]) /\ T[m][Len(T[n]) + 1] = row
        /\ Len(T[n + 1]) = IF sign = "Changed" THEN Len(T[n]) + 1 ELSE Len(T[n])
    BY <1>1, <1>6 DEF AtItsRow
  <2>5. isNew <=> sign = "OnlyB"
    BY <1>1, <2>2, <2>3
  <2>6. isChanged <=> sign = "Changed"
    <3>1. Len(T[m]) = Len(d.changed) /\ Len(d.changed) \in Nat
          /\ DOMAIN d.changed = 1 .. Len(d.changed)
      BY <1>1 DEF ChangedIn
    <3>2. \A x \in 1 .. Len(d.changed) : T[m][x] = d.changed[x].b
      BY <1>1, <3>1 DEF ChangedIn
    <3>3. acc.ci = Len(T[n]) + 1 /\ acc.ci \in Nat /\ acc.ci >= 1
      BY <1>3, <2>1, <2>2
    <3>4. acc.ci <= Len(d.changed) => T[m][acc.ci] = d.changed[acc.ci].b
      BY <3>1, <3>2, <3>3
    <3> QED
      BY <2>4, <3>1, <3>3, <3>4
  <2>7. sign \in Signs
    BY <1>2, <2>1
  <2>8. e = IF isNew THEN [acc EXCEPT !.ai = @ + 1, !.signs = Append(@, "OnlyB")]
            ELSE IF isChanged THEN [acc EXCEPT !.ci = @ + 1, !.signs = Append(@, "Changed")]
            ELSE [acc EXCEPT !.signs = Append(@, "Same")]
    BY <2>2 DEF LabelRow
  <2> HIDE DEF isNew, isChanged, sign, e, acc, row
  <2>9. /\ e.signs = Append(acc.signs, sign)
        /\ e.ai = IF sign = "OnlyB" THEN acc.ai + 1 ELSE acc.ai
        /\ e.ci = IF sign = "Changed" THEN acc.ci + 1 ELSE acc.ci
    BY <2>2, <2>5, <2>6, <2>7, <2>8 DEF Cursors, Signs
  <2>10. e.ai = Len(S[n + 1]) + 1 /\ e.ci = Len(T[n + 1]) + 1
    BY <2>2, <2>3, <2>4, <2>9 DEF acc
  <2>11. Len(e.signs) = n + 1 /\ \A j \in 1 .. n + 1 : e.signs[j] = signs[j]
    <3>1. acc.signs \in Seq(Signs) /\ Len(acc.signs) = n
          /\ \A j \in 1 .. n : acc.signs[j] = signs[j]
      BY <2>2 DEF Cursors, acc
    <3>2. Len(e.signs) = n + 1 /\ e.signs[n + 1] = sign
          /\ \A j \in 1 .. n : e.signs[j] = acc.signs[j]
      BY <2>1, <2>7, <2>9, <3>1
    <3>3. 1 .. n + 1 = (1 .. n) \cup {n + 1}
      BY <2>1
    <3> QED
      BY <3>1, <3>2, <3>3 DEF sign
  <2> QED
    BY <2>1, <2>10, <2>11 DEF e
<1>7. 0 .. m \subseteq good
  <2> HIDE DEF good
  <2> QED
    BY <1>2, <1>5, <1>6, UpTo
<1>8. Stops(m)
  <2>1. m \in good
    <3> HIDE DEF m, good
    <3> QED
      BY <1>2, <1>7
  <2> QED
    BY <2>1
<1> QED
  BY <1>8 DEF LabelBRows, L

-----------------------------------------------------------------------------
(*                     The lines of the exported file                      *)

Places(s, r) == {x \in DOMAIN s : s[x] = r}

(* A row is in a list of the rows of its sign once, and in no other.       *)
LEMMA ListedOnce ==
  ASSUME NEW R, NEW list \in Seq(R), Distinct(list), NEW signs, NEW want,
         NEW s, Lists(s, list, signs, want, Len(list)), NEW i \in 1 .. Len(list)
  PROVE  Cardinality(Places(s, list[i])) = IF signs[i] = want THEN 1 ELSE 0
<1> DEFINE hits == Places(s, list[i])
           m == Len(list)
<1>1. DOMAIN list = 1 .. m /\ i \in 1 .. m
  OBVIOUS
<1> HIDE DEF m
<1>2. CASE signs[i] = want
  <2>1. PICK x \in DOMAIN s : s[x] = list[i]
    BY <1>1, <1>2 DEF Lists, m
  <2>2. hits = {x}
    BY <2>1 DEF Lists, Places
  <2>3. Cardinality({x}) = 1
    BY FS_Singleton
  <2> QED
    BY <1>2, <2>2, <2>3
<1>3. CASE signs[i] # want
  <2>1. ASSUME NEW x \in hits PROVE FALSE
    <3>1. x \in DOMAIN s /\ s[x] = list[i]
      BY <2>1 DEF Places
    <3>2. PICK j \in 1 .. m : signs[j] = want /\ s[x] = list[j]
      BY <3>1 DEF Lists, m
    <3>3. j = i
      BY <1>1, <3>1, <3>2 DEF Distinct
    <3> QED
      BY <1>3, <3>2, <3>3
  <2>2. hits = {}
    BY <2>1
  <2>3. Cardinality({}) = 0
    BY FS_EmptySet
  <2> QED
    BY <1>3, <2>2, <2>3
<1> QED
  BY <1>2, <1>3

(* The lines of side B with a row.                                         *)
Hits(lines, row) == {k \in DOMAIN lines : lines[k].side = "B" /\ lines[k].row = row}

LEMMA HitsAreFinite ==
  ASSUME NEW X, NEW s \in Seq(X), NEW row
  PROVE  IsFiniteSet(Hits(s, row)) /\ Cardinality(Hits(s, row)) \in Nat
<1>1. IsFiniteSet(DOMAIN s)
  BY PositionsAreFinite
<1>2. Hits(s, row) \in SUBSET DOMAIN s
  BY DEF Hits
<1> QED
  BY <1>1, <1>2, FS_Subset, FS_CardinalityType

LEMMA HitsAdd ==
  ASSUME NEW X, NEW s \in Seq(X), NEW t \in Seq(X), NEW row
  PROVE  Cardinality(Hits(s \o t, row)) = Cardinality(Hits(s, row)) + Cardinality(Hits(t, row))
<1> DEFINE l == Len(s)
           all == s \o t
           S == Hits(s, row)
           T == Hits(t, row)
           f == [k \in T |-> k + l]
           U == {k \in DOMAIN all : k > l /\ all[k].side = "B" /\ all[k].row = row}
<1>1. l \in Nat /\ Len(t) \in Nat /\ Len(all) = l + Len(t) /\ all \in Seq(X)
  OBVIOUS
<1>2. DOMAIN s = 1 .. l /\ DOMAIN t = 1 .. Len(t) /\ DOMAIN all = 1 .. l + Len(t)
  BY <1>1
<1>3. (\A k \in 1 .. l : all[k] = s[k]) /\ \A k \in 1 .. Len(t) : all[k + l] = t[k]
  BY <1>1
<1> HIDE DEF all, l
<1>4. Hits(all, row) = S \cup U
  <2>1. ASSUME NEW k PROVE k \in Hits(all, row) <=> k \in S \/ k \in U
    BY <1>1, <1>2, <1>3 DEF Hits
  <2> QED
    BY <2>1
<1>5. S \cap U = {}
  BY <1>1, <1>2 DEF Hits
<1>6. IsFiniteSet(S) /\ IsFiniteSet(T) /\ Cardinality(S) \in Nat /\ Cardinality(T) \in Nat
  BY HitsAreFinite
<1>7. IsFiniteSet(U) /\ Cardinality(U) = Cardinality(T)
  <2>1. ASSUME NEW k \in T PROVE k + l \in U
    BY <1>1, <1>2, <1>3 DEF Hits
  <2>2. f \in [T -> U]
    <3> HIDE DEF T, U
    <3> QED
      BY <2>1
  <2>3. \A i, j \in T : f[i] = f[j] => i = j
    BY <1>1, <1>2 DEF Hits
  <2>4. ASSUME NEW k \in U PROVE \E i \in T : f[i] = k
    <3> DEFINE i == k - l
    <3>1. i \in 1 .. Len(t) /\ i + l = k
      BY <1>1, <1>2
    <3>2. i \in T
      BY <1>2, <1>3, <3>1 DEF Hits
    <3> QED
      BY <3>1, <3>2
  <2> HIDE DEF f, T, U
  <2> QED
    BY <1>6, <2>2, <2>3, <2>4, SameSize
<1> HIDE DEF S, T, U
<1>8. Cardinality(S \cup U) = Cardinality(S) + Cardinality(U) - Cardinality(S \cap U)
  BY <1>6, <1>7, FS_Union
<1>9. Cardinality({}) = 0
  BY FS_EmptySet
<1>10. Cardinality(Hits(all, row)) = Cardinality(S) + Cardinality(T)
  <2> DEFINE p == Cardinality(S)
             q == Cardinality(T)
  <2>1. p \in Nat /\ q \in Nat
    BY <1>6
  <2>2. Cardinality(Hits(all, row)) = p + q - 0
    BY <1>4, <1>5, <1>7, <1>8, <1>9
  <2> HIDE DEF p, q
  <2>3. Cardinality(Hits(all, row)) = p + q
    BY <2>1, <2>2
  <2> QED
    BY <2>3 DEF p, q
<1> QED
  BY <1>10 DEF all, S, T

LineOf(sign, w, row) == [sign |-> sign, side |-> w, row |-> row]

LinesOver(R) == {LineOf(sign, w, row) : sign \in Signs \cup {"OnlyA"}, w \in {"A", "B"}, row \in R}

(* The lines of a list on one side, and of the changed rows on both.       *)
EachOn(list, sign, w) == [i \in DOMAIN list |-> LineOf(sign, w, list[i])]

Pairwise(changed) ==
  [i \in 1 .. 2 * Len(changed) |->
     IF i % 2 = 1 THEN LineOf("Changed", "A", changed[(i + 1) \div 2].a)
     ELSE LineOf("Changed", "B", changed[i \div 2].b)]

BesideA(changed) == [x \in DOMAIN changed |-> changed[x].b]

OverRows(P, R) == \A p \in P : p.a \in R /\ p.b \in R

LEMMA EachIs ==
  ASSUME NEW R, NEW list \in Seq(R), NEW sign \in Signs \cup {"OnlyA"}, NEW w \in {"A", "B"}, NEW row
  PROVE  /\ EachOn(list, sign, w) \in Seq(LinesOver(R))
         /\ Hits(EachOn(list, sign, w), row) =
              IF w = "B" THEN Places(list, row) ELSE {}
<1>1. ASSUME NEW x \in DOMAIN list PROVE LineOf(sign, w, list[x]) \in LinesOver(R)
  <2> DEFINE r == list[x]
  <2>1. r \in R
    OBVIOUS
  <2> HIDE DEF r
  <2>2. LineOf(sign, w, r) \in LinesOver(R)
    BY <2>1, SMTT(60) DEF LinesOver
  <2> QED
    BY <2>2 DEF r
<1> DEFINE X == LinesOver(R)
           l == Len(list)
           f == [i \in 1 .. l |-> LineOf(sign, w, list[i])]
<1>2. l \in Nat /\ DOMAIN list = 1 .. l
  OBVIOUS
<1>3. f = EachOn(list, sign, w)
  BY <1>2 DEF EachOn
<1>4. f \in Seq(X)
  <2> HIDE DEF l, X
  <2>1. \A x \in 1 .. l : LineOf(sign, w, list[x]) \in X
    BY <1>1, <1>2 DEF X
  <2> HIDE DEF LineOf
  <2> QED
    BY <1>2, <2>1
<1>5. \A x \in 1 .. l : f[x].side = w /\ f[x].row = list[x]
  BY DEF LineOf
<1>6. DOMAIN f = 1 .. l
  OBVIOUS
<1> HIDE DEF f
<1>7. Hits(f, row) = IF w = "B" THEN Places(list, row) ELSE {}
  BY <1>2, <1>5, <1>6 DEF Hits, Places
<1> QED
  BY <1>3, <1>4, <1>7

LEMMA Halves ==
  /\ \A k \in Nat : k % 2 # 1 => k = 2 * (k \div 2) /\ k \div 2 \in Nat
  /\ \A x \in Nat : (2 * x) % 2 = 0 /\ (2 * x) \div 2 = x
  /\ \A k \in Nat : k % 2 = 1 => (k + 1) \div 2 \in Nat /\ 2 * ((k + 1) \div 2) = k + 1
OBVIOUS

LEMMA PairwiseIs ==
  ASSUME NEW R, NEW P, OverRows(P, R), NEW changed \in Seq(P), NEW row
  PROVE  /\ Pairwise(changed) \in Seq(LinesOver(R))
         /\ Cardinality(Hits(Pairwise(changed), row)) =
              Cardinality(Places(BesideA(changed), row))
<1> DEFINE l == Len(changed)
           X == LinesOver(R)
           f == Pairwise(changed)
           T == {x \in DOMAIN changed : changed[x].b = row}
           S == Hits(f, row)
           g == [x \in T |-> 2 * x]
<1>1. l \in Nat /\ DOMAIN changed = 1 .. l
  OBVIOUS
<1>2. \A x \in 1 .. l : /\ LineOf("Changed", "A", changed[x].a) \in X
                        /\ LineOf("Changed", "B", changed[x].b) \in X
  <2>1. \A x \in 1 .. l : changed[x].a \in R /\ changed[x].b \in R
    BY <1>1 DEF OverRows
  <2>2. "Changed" \in Signs \cup {"OnlyA"} /\ "A" \in {"A", "B"} /\ "B" \in {"A", "B"}
    BY DEF Signs
  <2> QED
    BY <2>1, <2>2 DEF LinesOver
<1>3. \A k \in 1 .. 2 * l : /\ k % 2 = 1 => (k + 1) \div 2 \in 1 .. l
                            /\ k % 2 # 1 => k \div 2 \in 1 .. l /\ k = 2 * (k \div 2)
  BY <1>1, Halves
<1>4. f = [k \in 1 .. 2 * l |-> IF k % 2 = 1 THEN LineOf("Changed", "A", changed[(k + 1) \div 2].a)
                                ELSE LineOf("Changed", "B", changed[k \div 2].b)]
  BY DEF Pairwise
<1> HIDE DEF l, f
<1>5. \A k \in 1 .. 2 * l : f[k] \in X
  <2> SUFFICES ASSUME NEW k \in 1 .. 2 * l PROVE f[k] \in X
    OBVIOUS
  <2>1. CASE k % 2 = 1
    <3>1. (k + 1) \div 2 \in 1 .. l /\ f[k] = LineOf("Changed", "A", changed[(k + 1) \div 2].a)
      BY <1>3, <1>4, <2>1
    <3> HIDE DEF X
    <3> QED
      BY <1>2, <3>1
  <2>2. CASE k % 2 # 1
    <3>1. k \div 2 \in 1 .. l /\ f[k] = LineOf("Changed", "B", changed[k \div 2].b)
      BY <1>3, <1>4, <2>2
    <3> HIDE DEF X
    <3> QED
      BY <1>2, <3>1
  <2> QED
    BY <2>1, <2>2
<1>6. f \in Seq(X)
  <2>1. 2 * l \in Nat /\ DOMAIN f = 1 .. 2 * l
    BY <1>1, <1>4
  <2>2. f = [k \in 1 .. 2 * l |-> f[k]]
    BY <1>4
  <2> HIDE DEF X
  <2> QED
    BY <1>5, <2>1, <2>2
<1>7. \A k \in 1 .. 2 * l :
        /\ k % 2 = 1 => f[k].side = "A"
        /\ k % 2 # 1 => f[k].side = "B" /\ f[k].row = changed[k \div 2].b
  BY <1>4 DEF LineOf
<1>8. DOMAIN f = 1 .. 2 * l
  BY <1>4
<1>9. IsFiniteSet(T)
  <2>1. IsFiniteSet(DOMAIN changed)
    BY PositionsAreFinite
  <2>2. T \in SUBSET DOMAIN changed
    OBVIOUS
  <2> HIDE DEF T
  <2> QED
    BY <2>1, <2>2, FS_Subset
<1>10. Cardinality(S) = Cardinality(T)
  <2>1. ASSUME NEW x \in T PROVE 2 * x \in S
    <3>1. x \in 1 .. l /\ changed[x].b = row /\ x \in Nat
      BY <1>1
    <3>2. 2 * x \in 1 .. 2 * l
      BY <1>1, <3>1
    <3>3. (2 * x) % 2 = 0 /\ (2 * x) \div 2 = x
      BY <3>1, Halves
    <3>4. f[2 * x].side = "B" /\ f[2 * x].row = changed[x].b
      BY <1>7, <3>2, <3>3
    <3> QED
      BY <1>8, <3>1, <3>2, <3>4 DEF Hits
  <2>2. g \in [T -> S]
    <3> HIDE DEF T, S
    <3> QED
      BY <2>1
  <2>3. \A i, j \in T : g[i] = g[j] => i = j
    BY <1>1
  <2>4. ASSUME NEW k \in S PROVE \E x \in T : g[x] = k
    <3>1. k \in 1 .. 2 * l /\ f[k].side = "B" /\ f[k].row = row
      BY <1>8 DEF Hits
    <3>2. k % 2 # 1
      BY <1>7, <3>1
    <3>3. k \div 2 \in 1 .. l /\ k = 2 * (k \div 2) /\ changed[k \div 2].b = row
      BY <1>3, <1>7, <3>1, <3>2
    <3>4. k \div 2 \in T
      BY <1>1, <3>3
    <3> QED
      BY <3>3, <3>4
  <2> HIDE DEF g, S, T
  <2> QED
    BY <1>9, <2>2, <2>3, <2>4, SameSize
<1>11. Places(BesideA(changed), row) = T
  BY DEF Places, BesideA
<1> QED
  BY <1>6, <1>10, <1>11 DEF f

(* What is drawn: the rows of one side with their signs, and what only the *)
(* other has.                                                              *)
Drawn(R) == [sign : Signs \cup {"OnlyA"}, row : R]

DrawnOf(lines, list, signs, removed) ==
  /\ Len(lines) = Len(list) + Len(removed)
  /\ \A i \in 1 .. Len(list) : lines[i] = [sign |-> signs[i], row |-> list[i]]
  /\ \A i \in 1 .. Len(removed) : lines[Len(list) + i] = [sign |-> "OnlyA", row |-> removed[i]]

SameOf(lines) == Without(lines, {i \in DOMAIN lines : lines[i].sign # "Same"})

RowsIn(lines) == [i \in DOMAIN lines |-> lines[i].row]

LEMMA SameAreListed ==
  ASSUME NEW R, NEW list \in Seq(R), Distinct(list), NEW removed \in Seq(R), NEW signs,
         NEW lines \in Seq(Drawn(R)), DrawnOf(lines, list, signs, removed)
  PROVE  /\ RowsIn(SameOf(lines)) \in Seq(R)
         /\ Lists(RowsIn(SameOf(lines)), list, signs, "Same", Len(list))
<1> DEFINE gone == {i \in DOMAIN lines : lines[i].sign # "Same"}
           same == Without(lines, gone)
           m == Len(list)
           Y == Drawn(R)
<1>1. m \in Nat /\ Len(removed) \in Nat /\ DOMAIN lines = 1 .. m + Len(removed)
      /\ DOMAIN list = 1 .. m
  BY DEF DrawnOf
<1>2. gone \in SUBSET DOMAIN lines
  OBVIOUS
<1>3. \A y \in Y : y.row \in R
  BY DEF Drawn
<1> HIDE DEF Y, gone, same
<1>4. lines \in Seq(Y)
  BY DEF Y
<1>5. same \in Seq(Y)
  BY <1>2, <1>4, WithoutIs DEF same
<1>6. PICK at :
        /\ \A n \in DOMAIN same : at[n] \in DOMAIN lines \ gone /\ same[n] = lines[at[n]]
        /\ \A k, n \in DOMAIN same : k < n => at[k] < at[n]
        /\ \A i \in DOMAIN lines \ gone : \E n \in DOMAIN same : at[n] = i
  BY <1>2, <1>4, WithoutIs DEF same
<1>7. RowsIn(same) \in Seq(R)
  <2>1. \A n \in DOMAIN same : same[n].row \in R
    BY <1>3, <1>5
  <2>2. Len(same) \in Nat /\ DOMAIN same = 1 .. Len(same)
    BY <1>5
  <2> QED
    BY <2>1, <2>2 DEF RowsIn
<1>8. \A i \in DOMAIN lines \ gone : i \in 1 .. m /\ signs[i] = "Same" /\ lines[i].row = list[i]
  <2> SUFFICES ASSUME NEW i \in DOMAIN lines \ gone
               PROVE i \in 1 .. m /\ signs[i] = "Same" /\ lines[i].row = list[i]
    OBVIOUS
  <2>1. lines[i].sign = "Same"
    BY DEF gone
  <2>2. i \in 1 .. m
    <3>1. SUFFICES ASSUME i \notin 1 .. m PROVE FALSE
      OBVIOUS
    <3> DEFINE j == i - m
    <3>2. j \in 1 .. Len(removed) /\ m + j = i
      BY <1>1, <3>1
    <3> HIDE DEF j
    <3>3. lines[i] = [sign |-> "OnlyA", row |-> removed[j]]
      BY <3>2 DEF DrawnOf
    <3> QED
      BY <2>1, <3>3
  <2>3. lines[i] = [sign |-> signs[i], row |-> list[i]]
    BY <2>2 DEF DrawnOf
  <2> QED
    BY <2>1, <2>2, <2>3
<1>9. \A i \in 1 .. m : signs[i] = "Same" => i \in DOMAIN lines \ gone
  <2> SUFFICES ASSUME NEW i \in 1 .. m, signs[i] = "Same" PROVE i \in DOMAIN lines \ gone
    OBVIOUS
  <2>1. lines[i] = [sign |-> signs[i], row |-> list[i]]
    BY DEF DrawnOf
  <2> QED
    BY <1>1, <2>1 DEF gone
<1> DEFINE s == RowsIn(same)
<1>10. DOMAIN s = DOMAIN same /\ \A n \in DOMAIN same : s[n] = lines[at[n]].row
  BY <1>6 DEF RowsIn
<1> HIDE DEF s
<1>11. \A n \in DOMAIN s : at[n] \in 1 .. m /\ signs[at[n]] = "Same" /\ s[n] = list[at[n]]
  BY <1>6, <1>8, <1>10
<1>12. \A j \in 1 .. m : signs[j] = "Same" => \E n \in DOMAIN s : s[n] = list[j]
  BY <1>6, <1>9, <1>10, <1>11
<1>13. \A k, n \in DOMAIN s : s[k] = s[n] => k = n
  <2> SUFFICES ASSUME NEW k \in DOMAIN s, NEW n \in DOMAIN s, s[k] = s[n] PROVE k = n
    OBVIOUS
  <2>1. at[k] = at[n] /\ at[k] \in Int
    BY <1>1, <1>11 DEF Distinct
  <2>2. k \in Int /\ n \in Int
    BY <1>5, <1>10
  <2>3. (k < n => at[k] < at[n]) /\ (n < k => at[n] < at[k])
    BY <1>6, <1>10
  <2> QED
    BY <2>1, <2>2, <2>3
<1>14. Lists(s, list, signs, "Same", m)
  BY <1>11, <1>12, <1>13 DEF Lists
<1> QED
  BY <1>7, <1>14 DEF s, same, gone, SameOf

-----------------------------------------------------------------------------
(*                        The view of what was answered                    *)

LEMMA DifferenceIs ==
  ASSUME NEW A, Ordered(A), NEW B, Ordered(B), NEW keys, NEW ignored,
         NEW key, key = EffectiveKey(A, B, keys, ignored), NEW D, D = Matching(A, B, key, ignored),
         NEW d, d = D[Len(B.rows)], NEW f, f = DiffTables(A, B, keys, ignored)
  PROVE  /\ Matches(A, B, key, ignored, D) /\ d \in Differences(A, B, ignored)
         /\ f.added = d.added /\ f.changed = d.changed /\ f.unchanged = d.unchanged
         /\ f.removed = Left(A, d.matched) /\ ChangedIn(f) = ChangedIn(d)
<1>1. Matches(A, B, key, ignored, D)
  BY MatchingIs
<1>2. Len(B.rows) \in 0 .. Len(B.rows)
  BY RowsAre
<1>3. d \in Differences(A, B, ignored)
  BY <1>1, <1>2 DEF Matches
<1>4. /\ f.added = d.added /\ f.changed = d.changed /\ f.unchanged = d.unchanged
      /\ f.removed = Left(A, d.matched)
  BY DEF DiffTables
<1>5. ChangedIn(f) = ChangedIn(d)
  BY <1>4 DEF ChangedIn
<1> QED
  BY <1>1, <1>3, <1>4, <1>5

(* With unique keys, the labels are the signs.                             *)
LEMMA UniqueKeysAreTold ==
  ASSUME NEW A, Ordered(A), NEW B, Ordered(B), NEW keys, NEW ignored,
         NEW key, key = EffectiveKey(A, B, keys, ignored), Unique(A.rows, key), Unique(B.rows, key),
         NEW f, f = DiffTables(A, B, keys, ignored), NEW signs, signs = SignsOf(A, B, key, ignored)
  PROVE  /\ Distinct(B.rows) /\ \A n \in 1 .. Len(B.rows) : signs[n] \in Signs
         /\ Lists(f.added, B.rows, signs, "OnlyB", Len(B.rows))
         /\ Lists(ChangedIn(f), B.rows, signs, "Changed", Len(B.rows))
         /\ \A n \in 1 .. Len(B.rows) : LabelBRows(B.rows, f)[n] = signs[n]
<1> DEFINE D == Matching(A, B, key, ignored)
           m == Len(B.rows)
           d == D[m]
           S == AddedTo(B, D)
           T == ChangedTo(B, D)
           R == RowsOf(B)
<1>1. m \in Nat /\ B.rows \in Seq(R) /\ m \in 0 .. m
  BY RowsAre DEF Ordered
<1>2. /\ Matches(A, B, key, ignored, D) /\ d \in Differences(A, B, ignored)
      /\ f.added = d.added /\ f.changed = d.changed /\ ChangedIn(f) = ChangedIn(d)
  BY DifferenceIs
<1> HIDE DEF D, m
<1>3. /\ S \in [0 .. m -> Seq(R)] /\ Entries(S, B.rows, signs, "OnlyB")
      /\ T \in [0 .. m -> Seq(R)] /\ Entries(T, B.rows, signs, "Changed")
      /\ Distinct(B.rows)
  BY <1>2, TablesAreEntered DEF m
<1>4. S[m] = f.added /\ T[m] = ChangedIn(f)
  BY <1>1, <1>2 DEF AddedTo, ChangedTo, m
<1> HIDE DEF S, T, R
<1>5. Lists(S[m], B.rows, signs, "OnlyB", m) /\ AtItsRow(S, B.rows, signs, "OnlyB")
  BY <1>1, <1>3, CursorIsAtItsRow DEF m
<1>6. Lists(T[m], B.rows, signs, "Changed", m) /\ AtItsRow(T, B.rows, signs, "Changed")
  BY <1>1, <1>3, CursorIsAtItsRow DEF m
<1>7. \A n \in 1 .. m : signs[n] \in Signs
  BY DEF SignsOf, SignOf, Signs, m
<1>8. signs \in [1 .. m -> Signs]
  BY <1>7 DEF SignsOf, m
<1>9. S[0] = <<>> /\ T[0] = <<>>
  BY <1>3 DEF Entries
<1>10. f.changed \in Seq(PairsOf(A, B, ignored))
  BY <1>2 DEF Differences
<1>11. \A n \in 1 .. m : LabelBRows(B.rows, f)[n] = signs[n]
  <2> DEFINE P == PairsOf(A, B, ignored)
             list == B.rows
  <2>1. f.changed \in Seq(P)
    BY <1>10
  <2>2. CursorsOf(R, list, signs, S, T, f, P)
    BY <1>1, <1>3, <1>4, <1>5, <1>6, <1>8, <1>9, <2>1 DEF CursorsOf, m
  <2> HIDE DEF P, list
  <2>3. \A n \in 1 .. Len(list) : LabelBRows(list, f)[n] = signs[n]
    BY <2>2, LabelsAreSigns
  <2> QED
    BY <2>3 DEF list, m
<1> QED
  BY <1>3, <1>4, <1>5, <1>6, <1>7, <1>11 DEF m

LEMMA ViewIs ==
  ASSUME TableInv, view.built
  PROVE  /\ Ordered(sideA) /\ Ordered(sideB)
         /\ view.diff = DiffTables(sideA, sideB, view.keys, view.ignored)
         /\ view.lines = Lines(view.diff)
         /\ view.keys = ResolveKeys(keyOverride).keys /\ view.source = ResolveKeys(keyOverride).source
         /\ view.ignored = ResolveIgnores(DisplayColumns(view.keys), view.keys, ignoreOverride)
<1> DEFINE key == ResolveKeys(keyOverride)
           ignored == ResolveIgnores(DisplayColumns(key.keys), key.keys, ignoreOverride)
<1>1. Ordered(sideA) /\ Ordered(sideB) /\ view = BuildView(key, ignored)
  BY DEF TableInv
<1> HIDE DEF key, ignored
<1>2. /\ view.keys = key.keys /\ view.source = key.source /\ view.ignored = ignored
      /\ view.diff = DiffTables(sideA, sideB, key.keys, ignored) /\ view.lines = Lines(view.diff)
  BY <1>1 DEF BuildView
<1> QED
  BY <1>1, <1>2 DEF key, ignored

IsTuple(u, n) == u = [i \in 1 .. n |-> u[i]]

LEMMA TupleIs ==
  ASSUME NEW X, NEW n \in Nat, NEW u, IsTuple(u, n), \A i \in 1 .. n : u[i] \in X
  PROVE  u \in Seq(X) /\ Len(u) = n
<1>1. u \in [1 .. n -> X]
  BY DEF IsTuple
<1> QED
  BY <1>1

LEMMA LinesAre ==
  ASSUME NEW d, NEW S, d.removed \in Seq(S), NEW R, sideB.rows \in Seq(R)
  PROVE  /\ Len(Lines(d)) = Len(sideB.rows) + Len(d.removed)
         /\ IsTuple(Lines(d), Len(sideB.rows) + Len(d.removed))
         /\ \A i \in 1 .. Len(sideB.rows) :
              Lines(d)[i] = [sign |-> LabelBRows(sideB.rows, d)[i], row |-> sideB.rows[i]]
         /\ \A i \in 1 .. Len(d.removed) :
              Lines(d)[Len(sideB.rows) + i] = [sign |-> "OnlyA", row |-> d.removed[i]]
<1> DEFINE list == sideB.rows
           m == Len(list)
           l == Len(d.removed)
           signs == LabelBRows(list, d)
           s == [i \in 1 .. m |-> [sign |-> signs[i], row |-> list[i]]]
           t == [i \in 1 .. l |-> [sign |-> "OnlyA", row |-> d.removed[i]]]
           X == {s[i] : i \in 1 .. m} \cup {t[i] : i \in 1 .. l}
<1>1. m \in Nat /\ l \in Nat /\ DOMAIN list = 1 .. m /\ DOMAIN d.removed = 1 .. l
  OBVIOUS
<1> HIDE DEF m, l
<1>2. Lines(d) = s \o t
  BY <1>1 DEF Lines
<1>3. DOMAIN s = 1 .. m /\ DOMAIN t = 1 .. l /\ s = [i \in 1 .. m |-> s[i]]
      /\ t = [i \in 1 .. l |-> t[i]]
  OBVIOUS
<1>4. /\ \A i \in 1 .. m : s[i] = [sign |-> signs[i], row |-> list[i]]
      /\ \A i \in 1 .. l : t[i] = [sign |-> "OnlyA", row |-> d.removed[i]]
  OBVIOUS
<1>5. (\A i \in 1 .. m : s[i] \in X) /\ \A i \in 1 .. l : t[i] \in X
  OBVIOUS
<1> HIDE DEF s, t, X, signs
<1>6. s \in Seq(X) /\ t \in Seq(X) /\ Len(s) = m /\ Len(t) = l
  <2>1. IsTuple(s, m) /\ IsTuple(t, l)
    BY <1>3 DEF IsTuple
  <2> QED
    BY <1>1, <1>5, <2>1, TupleIs
<1>7. /\ Len(s \o t) = m + l /\ \A i \in 1 .. m : (s \o t)[i] = s[i]
      /\ \A i \in 1 .. l : (s \o t)[m + i] = t[i]
  <2>1. /\ Len(s \o t) = Len(s) + Len(t) /\ \A i \in 1 .. Len(s) : (s \o t)[i] = s[i]
        /\ \A i \in 1 .. Len(t) : (s \o t)[Len(s) + i] = t[i]
    <3>1. s \in Seq(X) /\ t \in Seq(X)
      BY <1>6
    <3> QED
      BY <3>1
  <2> DEFINE all == s \o t
  <2> HIDE DEF all
  <2> QED
    BY <1>6, <2>1 DEF all
<1>8. IsTuple(Lines(d), m + l)
  <2> DEFINE all == s \o t
  <2>1. all \in Seq(X)
    BY <1>6
  <2>2. Len(all) = m + l
    BY <1>7
  <2> HIDE DEF all
  <2>3. all = [n \in 1 .. m + l |-> all[n]]
    BY <2>1, <2>2
  <2> QED
    BY <1>2, <2>3 DEF all, IsTuple
<1> QED
  BY <1>2, <1>4, <1>7, <1>8 DEF m, l, signs

LEMMA RowsAreAccounted == TableInv => EveryRowIsAccounted
<1> SUFFICES ASSUME TableInv, view.built PROVE EveryRowIsAccounted
  BY DEF EveryRowIsAccounted
<1> DEFINE A == sideA
           B == sideB
           ignored == view.ignored
           f == view.diff
           key == KeyInUse
           D == Matching(A, B, key, ignored)
           m == Len(B.rows)
           d == D[m]
<1>1. /\ Ordered(A) /\ Ordered(B) /\ f = DiffTables(A, B, view.keys, ignored)
      /\ view.lines = Lines(f)
  BY ViewIs
<1>2. key = EffectiveKey(A, B, view.keys, ignored)
  BY DEF KeyInUse
<1> HIDE DEF A, B, ignored, f, key
<1>3. /\ Matches(A, B, key, ignored, D) /\ d \in Differences(A, B, ignored)
      /\ f.added = d.added /\ f.changed = d.changed /\ f.unchanged = d.unchanged
      /\ f.removed = Left(A, d.matched)
  BY <1>1, <1>2, DifferenceIs
<1>4. m \in Nat /\ m \in 0 .. m /\ Len(A.rows) \in Nat
  BY <1>1, RowsAre
<1> HIDE DEF D
<1>5. Sums(d, m)
  BY <1>1, <1>3, <1>4, SumsHold
<1> HIDE DEF m, d
<1>6. d.matched \in SUBSET DOMAIN A.rows /\ d.added \in Seq(RowsOf(B))
      /\ Len(d.changed) \in Nat /\ d.unchanged \in Nat
  <2>1. d.changed \in Seq(PairsOf(A, B, ignored))
    BY <1>3 DEF Differences
  <2>2. Len(d.changed) \in Nat
    BY <2>1
  <2> QED
    BY <1>3, <2>2 DEF Differences
<1>7. /\ f.removed \in Seq(RowsOf(A)) /\ Cardinality(d.matched) \in Nat
      /\ Len(f.removed) = Len(A.rows) - Cardinality(d.matched)
  <2>1. A.rows \in Seq(RowsOf(A))
    BY <1>1 DEF Ordered
  <2>2. Left(A, d.matched) = Without(A.rows, d.matched)
    BY DEF Left
  <2> DEFINE X == RowsOf(A)
             list == A.rows
  <2> HIDE DEF X, list
  <2>3. list \in Seq(X) /\ d.matched \in SUBSET DOMAIN list
    BY <1>6, <2>1 DEF X, list
  <2>4. /\ Without(list, d.matched) \in Seq(X) /\ Cardinality(d.matched) \in Nat
        /\ Len(Without(list, d.matched)) = Len(list) - Cardinality(d.matched)
    BY <2>3, WithoutIs
  <2> QED
    BY <1>3, <2>2, <2>4 DEF X, list
<1>8. /\ Cardinality(d.matched) = Len(f.changed) + f.unchanged
      /\ Len(f.added) + Len(f.changed) + f.unchanged = m
  BY <1>3, <1>5 DEF Sums
<1>9. Len(f.removed) + Len(f.changed) + f.unchanged = Len(A.rows)
  <2> DEFINE q == Len(f.changed)
             r == f.unchanged
             a == Len(A.rows)
             c == Cardinality(d.matched)
             x == Len(f.removed)
  <2>1. x = a - c /\ c = q + r /\ q \in Nat /\ r \in Nat /\ a \in Nat
    BY <1>3, <1>4, <1>6, <1>7, <1>8
  <2> HIDE DEF q, r, a, c, x
  <2>2. x + q + r = a
    BY <2>1
  <2> QED
    BY <2>2 DEF q, r, a, x
<1>10. ASSUME NEW k
       PROVE  /\ Cardinality(With(f.added, k)) = Surplus(B.rows, A.rows, k)
              /\ Cardinality(With(f.removed, k)) = Surplus(A.rows, B.rows, k)
  <2>1. \A list : With(list, k) = OfKey(list, key, k)
    BY DEF With, OfKey, key
  <2>2. /\ Surplus(B.rows, A.rows, k) =
             Over(Cardinality(OfKey(B.rows, key, k)), Cardinality(OfKey(A.rows, key, k)))
        /\ Surplus(A.rows, B.rows, k) =
             Over(Cardinality(OfKey(A.rows, key, k)), Cardinality(OfKey(B.rows, key, k)))
    BY <2>1 DEF Surplus, Over
  <2>3. d = D[Len(B.rows)]
    BY DEF d, m
  <2>4. /\ Cardinality(OfKey(d.added, key, k)) =
             Over(Cardinality(OfKey(B.rows, key, k)), Cardinality(OfKey(A.rows, key, k)))
        /\ Cardinality(OfKey(Left(A, d.matched), key, k)) =
             Over(Cardinality(OfKey(A.rows, key, k)), Cardinality(OfKey(B.rows, key, k)))
    BY <1>1, <1>3, <2>3, SurplusIsReported
  <2> QED
    BY <1>3, <2>1, <2>2, <2>4
<1>11. Len(view.lines) = m + Len(f.removed)
  <2>1. B.rows \in Seq(RowsOf(B))
    BY <1>1 DEF Ordered
  <2> QED
    BY <1>1, <1>7, <2>1, LinesAre DEF B, m
<1>12. A.rows = B.rows => f.added = <<>> /\ f.changed = <<>>
  BY <1>1, <1>3, <1>4, AlikeIsUnchanged DEF d, m
<1> QED
  BY <1>8, <1>9, <1>10, <1>11, <1>12 DEF EveryRowIsAccounted, A, B, f, m, key

LEMMA FileIs ==
  CsvLines = ((Pairwise(view.diff.changed) \o EachOn(view.diff.added, "OnlyB", "B"))
                \o EachOn(view.diff.removed, "OnlyA", "A"))
               \o EachOn(RowsIn(SameOf(view.lines)), "Same", "B")
<1> DEFINE same == SameOf(view.lines)
<1>1. SameOf(view.lines) = Without(view.lines, {i \in DOMAIN view.lines : view.lines[i].sign # "Same"})
  BY DEF SameOf
<1> HIDE DEF same
<1>2. EachOn(RowsIn(same), "Same", "B") = [i \in DOMAIN same |-> LineOf("Same", "B", same[i].row)]
  BY DEF EachOn, RowsIn
<1> QED
  BY <1>1, <1>2 DEF CsvLines, EachOn, LineOf, Pairwise, same

(* The lists of a difference that a file is written of.                    *)
FileOf(A, B, ignored, f, signs, same) ==
  /\ Ordered(A) /\ Ordered(B) /\ Distinct(B.rows)
  /\ f.changed \in Seq(PairsOf(A, B, ignored)) /\ f.added \in Seq(RowsOf(B))
  /\ f.removed \in Seq(RowsOf(A)) /\ same \in Seq(RowsOf(A) \cup RowsOf(B))
  /\ signs \in [1 .. Len(B.rows) -> Signs]
  /\ Lists(f.added, B.rows, signs, "OnlyB", Len(B.rows))
  /\ Lists(ChangedIn(f), B.rows, signs, "Changed", Len(B.rows))
  /\ Lists(same, B.rows, signs, "Same", Len(B.rows))

(* Each row of B is in the file once.                                      *)
LEMMA RowIsInTheFileOnce ==
  ASSUME NEW A, NEW B, NEW ignored, NEW f, NEW signs, NEW same,
         FileOf(A, B, ignored, f, signs, same), NEW i \in 1 .. Len(B.rows)
  PROVE  Cardinality(Hits(((Pairwise(f.changed) \o EachOn(f.added, "OnlyB", "B"))
                             \o EachOn(f.removed, "OnlyA", "A")) \o EachOn(same, "Same", "B"),
                          B.rows[i])) = 1
<1> DEFINE list == B.rows
           row == list[i]
           R == RowsOf(A) \cup RowsOf(B)
           P == PairsOf(A, B, ignored)
           X == LinesOver(R)
           c == Pairwise(f.changed)
           a == EachOn(f.added, "OnlyB", "B")
           b == EachOn(f.removed, "OnlyA", "A")
           z == EachOn(same, "Same", "B")
           N(s) == Cardinality(Hits(s, row))
<1>1. /\ Ordered(B) /\ Distinct(list) /\ signs \in [1 .. Len(list) -> Signs]
      /\ f.changed \in Seq(P) /\ f.added \in Seq(RowsOf(B))
      /\ f.removed \in Seq(RowsOf(A)) /\ same \in Seq(R)
      /\ Lists(f.added, list, signs, "OnlyB", Len(list))
      /\ Lists(ChangedIn(f), list, signs, "Changed", Len(list))
      /\ Lists(same, list, signs, "Same", Len(list))
  BY DEF FileOf
<1>2. OverRows(P, R)
  BY DEF PairsOf, RowsOf, OverRows
<1>3. f.added \in Seq(R) /\ f.removed \in Seq(R) /\ same \in Seq(R) /\ list \in Seq(RowsOf(B))
  BY <1>1 DEF Ordered
<1>4. "OnlyB" \in Signs \cup {"OnlyA"} /\ "OnlyA" \in Signs \cup {"OnlyA"}
      /\ "Same" \in Signs \cup {"OnlyA"}
  BY DEF Signs
<1>5. signs[i] \in Signs /\ i \in 1 .. Len(list)
  BY <1>1
<1> HIDE DEF R, P, list
<1>6. c \in Seq(X) /\ N(c) = IF signs[i] = "Changed" THEN 1 ELSE 0
  <2>1. f.changed \in Seq(P)
    BY <1>1
  <2>2. c \in Seq(X) /\ N(c) = Cardinality(Places(BesideA(f.changed), row))
    BY <1>2, <2>1, PairwiseIs
  <2>3. BesideA(f.changed) = ChangedIn(f)
    BY DEF ChangedIn, BesideA
  <2>4. Cardinality(Places(ChangedIn(f), list[i])) = IF signs[i] = "Changed" THEN 1 ELSE 0
    BY <1>1, <1>3, <1>5, ListedOnce
  <2> QED
    BY <2>2, <2>3, <2>4
<1>7. a \in Seq(X) /\ N(a) = IF signs[i] = "OnlyB" THEN 1 ELSE 0
  <2>1. a \in Seq(X) /\ Hits(a, row) = Places(f.added, row)
    BY <1>3, <1>4, EachIs
  <2>2. Cardinality(Places(f.added, list[i])) = IF signs[i] = "OnlyB" THEN 1 ELSE 0
    BY <1>1, <1>3, <1>5, ListedOnce
  <2> QED
    BY <2>1, <2>2
<1>8. b \in Seq(X) /\ N(b) = 0
  <2>1. b \in Seq(X) /\ Hits(b, row) = {}
    <3>1. "A" \in {"A", "B"} /\ "A" # "B"
      OBVIOUS
    <3> QED
      BY <1>3, <1>4, <3>1, EachIs
  <2>2. Cardinality({}) = 0
    BY FS_EmptySet
  <2> QED
    BY <2>1, <2>2
<1>9. z \in Seq(X) /\ N(z) = IF signs[i] = "Same" THEN 1 ELSE 0
  <2>1. z \in Seq(X) /\ Hits(z, row) = Places(same, row)
    BY <1>3, <1>4, EachIs
  <2>2. Cardinality(Places(same, list[i])) = IF signs[i] = "Same" THEN 1 ELSE 0
    BY <1>1, <1>3, <1>5, ListedOnce
  <2> QED
    BY <2>1, <2>2
<1>10. N(((c \o a) \o b) \o z) = N(c) + N(a) + N(b) + N(z)
  <2> HIDE DEF c, a, b, z, X, row
  <2>1. c \o a \in Seq(X) /\ (c \o a) \o b \in Seq(X)
    BY <1>6, <1>7, <1>8
  <2>2. N(c \o a) = N(c) + N(a)
    BY <1>6, <1>7, HitsAdd
  <2>3. N((c \o a) \o b) = N(c \o a) + N(b)
    BY <1>8, <2>1, HitsAdd
  <2>4. N(((c \o a) \o b) \o z) = N((c \o a) \o b) + N(z)
    BY <1>9, <2>1, HitsAdd
  <2> QED
    BY <2>2, <2>3, <2>4
<1> HIDE DEF N, c, a, b, z
<1>11. N(((c \o a) \o b) \o z) = 1
  BY <1>5, <1>6, <1>7, <1>8, <1>9, <1>10 DEF Signs
<1> QED
  BY <1>11 DEF N, c, a, b, z, list

LEMMA KeysAreUsable ==
  ASSUME TableInv, view.built
  PROVE  /\ view.source # "manual" => view.keys \subseteq sideA.columns \cap sideB.columns
         /\ view.source # "manual" /\ ignoreOverride = Derived => view.keys \cap view.ignored = {}
<1>1. /\ view.keys = ResolveKeys(keyOverride).keys
      /\ view.source = ResolveKeys(keyOverride).source
      /\ view.ignored = ResolveIgnores(DisplayColumns(view.keys), view.keys, ignoreOverride)
  BY ViewIs
<1>2. view.source # "manual" => view.keys \subseteq sideA.columns \cap sideB.columns
  BY <1>1 DEF ResolveKeys
<1>3. ignoreOverride = Derived => view.keys \cap view.ignored = {}
  BY <1>1 DEF ResolveIgnores
<1> QED
  BY <1>2, <1>3

LEMMA RowsAreLabelled == TableInv => KeyedRowsAreLabelled
<1> SUFFICES ASSUME TableInv, view.built PROVE KeyedRowsAreLabelled
  BY DEF KeyedRowsAreLabelled
<1> DEFINE A == sideA
           B == sideB
           ignored == view.ignored
           f == view.diff
           key == KeyInUse
           signs == SignsOf(A, B, key, ignored)
           m == Len(B.rows)
<1>1. /\ Ordered(A) /\ Ordered(B) /\ f = DiffTables(A, B, view.keys, ignored)
      /\ view.lines = Lines(f)
  BY ViewIs
<1>2. key = EffectiveKey(A, B, view.keys, ignored)
  BY DEF KeyInUse
<1>3. ASSUME UniqueKeys(sideA.rows), UniqueKeys(sideB.rows), NEW i \in DOMAIN sideB.rows
      PROVE  /\ view.lines[i].sign = SignByKey(sideB.rows[i])
             /\ Cardinality({k \in DOMAIN CsvLines :
                               CsvLines[k].side = "B" /\ CsvLines[k].row = sideB.rows[i]}) = 1
  <2>1. Unique(A.rows, key) /\ Unique(B.rows, key)
    BY <1>3 DEF UniqueKeys, Unique
  <2>2. SignByKey(sideB.rows[i]) = SignOf(A, B.rows[i], key, ignored)
    BY DEF SignByKey, SignOf, With, OfKey
  <2>3. DOMAIN B.rows = 1 .. m /\ m \in Nat /\ i \in 1 .. m
    BY <1>1, RowsAre
  <2>4. signs[i] = SignOf(A, B.rows[i], key, ignored)
    BY <2>3 DEF SignsOf
  <2> DEFINE D == Matching(A, B, key, ignored)
             d == D[m]
  <2>5. /\ Matches(A, B, key, ignored, D) /\ d \in Differences(A, B, ignored)
        /\ f.added = d.added /\ f.changed = d.changed /\ f.removed = Left(A, d.matched)
    BY <1>1, <1>2, DifferenceIs
  <2> HIDE DEF A, B, ignored, f, key, D
  <2>6. /\ f.added \in Seq(RowsOf(B)) /\ f.changed \in Seq(PairsOf(A, B, ignored))
        /\ d.matched \in SUBSET DOMAIN A.rows
    BY <2>5 DEF Differences
  <2>7. f.removed \in Seq(RowsOf(A))
    <3> DEFINE X == RowsOf(A)
               list == A.rows
    <3>1. list \in Seq(X) /\ d.matched \in SUBSET DOMAIN list
      BY <1>1, <2>6 DEF Ordered
    <3> HIDE DEF X, list, d
    <3>2. Without(list, d.matched) \in Seq(X)
      BY <3>1, WithoutIs
    <3> QED
      BY <2>5, <3>2 DEF Left, X, list
  <2> HIDE DEF d, signs, m
  <2>8. /\ Distinct(B.rows) /\ \A n \in 1 .. m : signs[n] \in Signs
        /\ Lists(f.added, B.rows, signs, "OnlyB", m)
        /\ Lists(ChangedIn(f), B.rows, signs, "Changed", m)
        /\ \A n \in 1 .. m : LabelBRows(B.rows, f)[n] = signs[n]
    BY <1>1, <1>2, <2>1, UniqueKeysAreTold DEF signs, m
  <2>9. signs \in [1 .. m -> Signs]
    BY <2>8 DEF signs, SignsOf, m
  <2> DEFINE R == RowsOf(A) \cup RowsOf(B)
             lines == view.lines
             labels == LabelBRows(B.rows, f)
  <2>10. B.rows \in Seq(RowsOf(B)) /\ B.rows \in Seq(R) /\ f.removed \in Seq(R)
    BY <1>1, <2>7 DEF Ordered
  <2>11. /\ Len(lines) = m + Len(f.removed)
         /\ IsTuple(lines, m + Len(f.removed))
         /\ \A n \in 1 .. m : lines[n] = [sign |-> labels[n], row |-> B.rows[n]]
         /\ \A n \in 1 .. Len(f.removed) : lines[m + n] = [sign |-> "OnlyA", row |-> f.removed[n]]
    BY SMTT(30), ZenonT(30), <1>1, <2>7, <2>10, LinesAre DEF B, m
  <2>12. \A n \in 1 .. m : lines[n] = [sign |-> signs[n], row |-> B.rows[n]]
    BY <2>8, <2>11
  <2>13. view.lines[i].sign = SignByKey(sideB.rows[i])
    <3>1. lines[i] = [sign |-> signs[i], row |-> B.rows[i]]
      BY <2>3, <2>12
    <3>2. lines[i].sign = signs[i]
      BY <3>1
    <3> QED
      BY <2>2, <2>4, <3>2
  <2>14. DrawnOf(lines, B.rows, signs, f.removed)
    BY <2>11, <2>12 DEF DrawnOf, m
  <2> HIDE DEF R
  <2>15. lines \in Seq(Drawn(R))
    <3> DEFINE l == Len(f.removed)
    <3>1. l \in Nat /\ DOMAIN f.removed = 1 .. l
      BY <2>10
    <3>2. ASSUME NEW n \in 1 .. m PROVE lines[n] \in Drawn(R)
      <4>1. B.rows[n] \in R /\ signs[n] \in Signs
            /\ lines[n] = [sign |-> signs[n], row |-> B.rows[n]]
        BY <2>3, <2>8, <2>10, <2>12
      <4> QED
        BY <4>1 DEF Drawn
    <3>3. ASSUME NEW n \in 1 .. l PROVE lines[m + n] \in Drawn(R)
      <4>1. f.removed[n] \in R /\ lines[m + n] = [sign |-> "OnlyA", row |-> f.removed[n]]
        BY <2>10, <2>11, <3>1
      <4> QED
        BY <4>1 DEF Drawn
    <3> HIDE DEF l
    <3>4. \A n \in 1 .. m + l : lines[n] \in Drawn(R)
      <4> SUFFICES ASSUME NEW n \in 1 .. m + l, n \notin 1 .. m PROVE lines[n] \in Drawn(R)
        BY <3>2
      <4> DEFINE k == n - m
      <4>1. k \in 1 .. l /\ m + k = n
        BY <2>3, <3>1
      <4> QED
        BY <3>3, <4>1
    <3>5. IsTuple(lines, m + l)
      BY <2>11 DEF l
    <3>6. m + l \in Nat
      BY <2>3, <3>1
    <3> QED
      BY <3>4, <3>5, <3>6, TupleIs
  <2> DEFINE same == RowsIn(SameOf(lines))
  <2>16. same \in Seq(R) /\ Lists(same, B.rows, signs, "Same", m)
    <3> DEFINE list == B.rows
    <3>1. /\ list \in Seq(R) /\ Distinct(list) /\ f.removed \in Seq(R)
          /\ lines \in Seq(Drawn(R)) /\ DrawnOf(lines, list, signs, f.removed)
      BY <2>8, <2>10, <2>14, <2>15
    <3> HIDE DEF list, lines
    <3> QED
      BY <3>1, SameAreListed DEF list, m
  <2>17. CsvLines = ((Pairwise(f.changed) \o EachOn(f.added, "OnlyB", "B"))
                       \o EachOn(f.removed, "OnlyA", "A")) \o EachOn(same, "Same", "B")
    BY FileIs DEF f
  <2> HIDE DEF same, lines
  <2>18. Cardinality(Hits(CsvLines, B.rows[i])) = 1
    <3>1. FileOf(A, B, ignored, f, signs, same)
      BY <1>1, <2>6, <2>7, <2>8, <2>9, <2>16 DEF FileOf, m, R
    <3> QED
      BY <2>3, <2>17, <3>1, RowIsInTheFileOnce DEF m
  <2> QED
    BY <2>13, <2>18 DEF Hits, B
<1> QED
  BY <1>3, KeysAreUsable DEF KeyedRowsAreLabelled

(* The view is the one of what was answered and what was picked.           *)
THEOREM TableInvariant == TableSpec => []TableInv
<1>1. TableInit => TableInv
  <2> SUFFICES ASSUME TableInit PROVE TableInv
    OBVIOUS
  <2>1. PICK pair \in TablePairs : sideA = pair[1] /\ sideB = pair[2]
    BY DEF TableInit
  <2>2. Ordered(sideA) /\ Ordered(sideB)
    BY <2>1, TableAssumption
  <2>3. view.built = FALSE
    BY DEF TableInit, NoView
  <2> QED
    BY <2>2, <2>3 DEF TableInv
<1>2. TableInv /\ [TableNext]_tableVars => TableInv'
  <2> SUFFICES ASSUME TableInv, [TableNext]_tableVars PROVE TableInv'
    OBVIOUS
  <2>1. Ordered(sideA) /\ Ordered(sideB)
    BY DEF TableInv
  <2>2. ASSUME view' = NoView, sideA' = sideA, sideB' = sideB PROVE TableInv'
    <3>1. view'.built = FALSE
      BY <2>2 DEF NoView
    <3>2. Ordered(sideA') /\ Ordered(sideB')
      BY <2>1, <2>2
    <3> QED
      BY <3>1, <3>2 DEF TableInv, Ordered, RowsOf
  <2> DEFINE key == ResolveKeys(keyOverride)
             ignored == ResolveIgnores(DisplayColumns(key.keys), key.keys, ignoreOverride)
  <2>3. ASSUME UNCHANGED <<sideA, sideB, keyOverride, ignoreOverride>>,
               view'.built => view' = BuildView(key, ignored)
        PROVE  TableInv'
    <3>1. \A keys : DisplayColumns(keys)' = DisplayColumns(keys)
      BY <2>3 DEF DisplayColumns
    <3>2. ResolveKeys(keyOverride)' = ResolveKeys(keyOverride)
      BY <2>3 DEF ResolveKeys
    <3>3. \A k, i : BuildView(k, i)' = BuildView(k, i)
      BY <2>3 DEF BuildView, Lines, Sound
    <3>4. key' = key /\ ignored' = ignored
      BY <2>3, <3>1, <3>2 DEF ResolveIgnores
    <3>5. Ordered(sideA') /\ Ordered(sideB')
      BY <2>1, <2>3
    <3> QED
      BY <2>3, <3>3, <3>4, <3>5 DEF TableInv
  <2>4. CASE Rebuild
    BY <2>3, <2>4 DEF Rebuild
  <2>5. CASE IgnoreOneSided \/ PickKey \/ PickIgnored
    BY <2>2, <2>5 DEF IgnoreOneSided, PickKey, PickIgnored
  <2>6. view.built => view = BuildView(key, ignored)
    BY DEF TableInv
  <2>7. CASE Accept
    BY <2>3, <2>6, <2>7 DEF Accept
  <2>8. CASE UNCHANGED tableVars
    BY <2>3, <2>6, <2>8 DEF tableVars
  <2> QED
    BY <2>4, <2>5, <2>7, <2>8 DEF TableNext
<1> QED
  BY <1>1, <1>2, PTL DEF TableSpec

(* Whatever two sides answer and whatever keys and columns are picked, no  *)
(* row of the compared tables is lost or counted twice, and where the key  *)
(* tells the rows apart, each is drawn and exported under its own sign.    *)
THEOREM RowsStayAccounted == TableSpec => []TablesAreAccounted
<1>1. TableInv => TablesAreAccounted
  BY RowsAreAccounted, RowsAreLabelled DEF TablesAreAccounted
<1> QED
  BY <1>1, TableInvariant, PTL
=============================================================================
