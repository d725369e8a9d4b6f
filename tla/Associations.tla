---------------------------- MODULE Associations ---------------------------
(***************************************************************************)
(* Associations { class }: every relationship a class takes part in.      *)
(* REFERENCES OF does not walk the derivation chain, so the worker asks it *)
(* once for the class and once for each ancestor, under one budget and one *)
(* cancellation flag, with ASSOCIATORS OF beside it as a cross-check whose *)
(* failure and whose completion are both dropped.                          *)
(***************************************************************************)
EXTENDS Budget, Fields, Naturals, Sequences

CONSTANTS
  Ancestors,   (* the class asked about, then its ancestors, nearest first *)
  Defs,        (* association classes: [class, ends], ends a set of        *)
               (* <<role, class it points at>>, those that could be read   *)
  Returned     (* for each class the Defs that REFERENCES OF it returns    *)

ASSUME AssocAssumption ==
  /\ Ancestors \in Seq(DOMAIN Returned) /\ Ancestors # <<>>
  /\ Returned \in [DOMAIN Returned -> SUBSET Defs]
  /\ \A d \in Defs : \A e \in d.ends : e = <<e[1], e[2]>>

VARIABLES
  lineage,     (* the classes to ask about                                 *)
  asked,       (* how many of them have been asked about                   *)
  out,         (* the rows so far                                          *)
  endpoints,   (* the classes ASSOCIATORS OF named                         *)
  completion,  (* why the rows are as few as they are                      *)
  stage        (* where class_associations() is                            *)

answer == <<lineage, asked, out, endpoints, completion>>
asking == <<answer, stage>>
assocVars == <<flags, asking>>

Row(def, role, target, note) ==
  [assoc |-> def.class, role |-> role, target |-> target, note |-> note]

Ours(def, subject) == {e \in def.ends : e[2] = subject}

(* The ends that are not the subject's own role; a lone end is its own far *)
(* end.                                                                    *)
FarEnds(def, role) ==
  LET others == {e \in def.ends : e[1] # role}
  IN  IF others = {} THEN {e \in def.ends : e[1] = role} ELSE others

(* assoc_rows(): one row for each of our roles and each end across from    *)
(* it; an association none of whose ends names us keeps all its ends.      *)
AssocRows(def, subject, inherited) ==
  IF Ours(def, subject) = {}
  THEN {Row(def, e[1], e[2], <<inherited, "role not resolved">>) : e \in def.ends}
  ELSE {Row(def, p[1][1], p[2][2],
            <<inherited, IF p[2][2] = subject THEN "self-referencing" ELSE Absent>>) :
              p \in {p \in Ours(def, subject) \X def.ends : p[2] \in FarEnds(def, p[1][1])}}

OnlyAssociators(target) ==
  [assoc |-> Absent, role |-> Absent, target |-> target,
   note |-> <<Absent, "reported by ASSOCIATORS OF only">>]

Subject == lineage[asked + 1]

(* What ASSOCIATORS OF names: the far ends of the same associations.       *)
Neighbours(subject) ==
  {e[2] : e \in UNION {d.ends : d \in {d \in Returned[subject] :
                        \E o \in Ours(d, subject) : d.ends # {o}}}} \ {subject}

AssocInit ==
  /\ lineage = <<>> /\ asked = 0 /\ out = {} /\ endpoints = {}
  /\ completion = "complete" /\ stage = "lineage"
  /\ FlagsDown

(* get_object(class) gives __DERIVATION; when it fails, or the property    *)
(* cannot be read, the class stands alone and nothing is said.             *)
ReadLineage ==
  /\ stage = "lineage"
  /\ lineage' \in {Ancestors, <<Head(Ancestors)>>}
  /\ stage' = "next"
  /\ UNCHANGED <<asked, out, endpoints, completion, flags>>

(* The head of the loop: a spent budget, then a cancel, end it.            *)
EndEarly ==
  /\ stage = "next" /\ asked < Len(lineage)
  /\ \/ late /\ completion' = "timedout"
     \/ ~late /\ cancel /\ completion' = "cancelled"
  /\ stage' = "merge"
  /\ UNCHANGED <<lineage, asked, out, endpoints, flags>>

NextSubject ==
  /\ stage = "next" /\ asked < Len(lineage) /\ ~late /\ ~cancel
  /\ stage' = "references"
  /\ UNCHANGED <<answer, flags>>

NotedNever(c) == completion

(* The first incomplete drain gives the report its completion.             *)
Noted(c) == IF c # "complete" /\ completion = "complete" THEN c ELSE completion

(* REFERENCES OF, drained whole or cut short.                              *)
References ==
  /\ stage = "references"
  /\ \E c \in Completions, got \in SUBSET Returned[Subject] :
       /\ MayEnd(c)
       /\ c = "complete" => got = Returned[Subject]
       /\ completion' = Noted(c)
       /\ out' = out \cup UNION {AssocRows(d, Subject, IF asked = 0 THEN Absent ELSE Subject) :
                                   d \in got}
  /\ stage' = "associators"
  /\ UNCHANGED <<lineage, asked, endpoints, flags>>

(* ASSOCIATORS OF: what came is kept; an error or a cut is not told.       *)
Associators ==
  /\ stage = "associators"
  /\ \E got \in SUBSET Neighbours(Subject) : endpoints' = endpoints \cup got
  /\ asked' = asked + 1
  /\ stage' = "next"
  /\ UNCHANGED <<lineage, out, completion, flags>>

(* Either query may be refused, and the drain of the first may fail: that  *)
(* fails the request.                                                      *)
Refused ==
  /\ stage \in {"references", "associators"}
  /\ stage' = "failed"
  /\ UNCHANGED <<answer, flags>>

Merge ==
  /\ stage = "merge" \/ (stage = "next" /\ asked = Len(lineage))
  /\ out' = out \cup {OnlyAssociators(e) : e \in {e \in endpoints : \A r \in out : r.target # e}}
  /\ stage' = "done"
  /\ UNCHANGED <<lineage, asked, endpoints, completion, flags>>

Asks ==
  ReadLineage \/ EndEarly \/ NextSubject \/ References \/ Associators \/ Refused \/ Merge

AssocNext == Asks \/ ((RaiseFlag \/ BudgetSpent) /\ UNCHANGED asking)

AssocSpec == AssocInit /\ [][AssocNext]_assocVars

-----------------------------------------------------------------------------
Shown(def, subject) ==
  \E r \in out : r.assoc = def.class /\ \E e \in def.ends :
     r.target = e[2] /\ (r.role = e[1] \/ <<r.role, subject>> \in def.ends)

(* What REFERENCES OF a class returns that has an end to be shown.         *)
Related(class) == {d \in Returned[class] : d.ends # {}}

(* A report that calls itself complete has a row for every association of  *)
(* every class in the lineage it walked -- an association of which no end  *)
(* could be read has none -- and every row is an end of a real association *)
(* or a class the cross-check named.                                       *)
CompleteIsWhole ==
  stage = "done" =>
    /\ completion = "complete" =>
         \A i \in 1..Len(lineage) : \A d \in Related(lineage[i]) : Shown(d, lineage[i])
    /\ \A r \in out : \/ r.assoc = Absent /\ r.target \in endpoints
                      \/ \E d \in Defs : r.assoc = d.class /\ \E e \in d.ends : r.target = e[2]
    /\ \A e \in endpoints : \E r \in out : r.target = e

(* The inductive invariant behind it: the loop is at one class of the      *)
(* lineage, what is behind it is shown unless the completion says that it  *)
(* may not be, and no row is made up.                                      *)
Behind == 1 .. (IF stage = "associators" THEN asked + 1 ELSE asked)

RowIsGenuine(r) ==
  \/ r.assoc = Absent /\ r.target \in endpoints
  \/ \E d \in Defs : r.assoc = d.class /\ \E e \in d.ends : r.target = e[2]

AssocInv ==
  /\ lineage \in Seq(DOMAIN Returned) /\ asked \in 0 .. Len(lineage)
  /\ completion \in Completions
  /\ stage \in {"lineage", "next", "references", "associators", "merge", "done", "failed"}
  /\ stage = "lineage" => asked = 0
  /\ stage \in {"references", "associators"} => asked < Len(lineage)
  /\ stage = "merge" => completion # "complete"
  /\ stage = "done" /\ completion = "complete" => asked = Len(lineage)
  /\ completion = "complete" =>
       \A i \in Behind : \A d \in Related(lineage[i]) : Shown(d, lineage[i])
  /\ \A r \in out : RowIsGenuine(r)
  /\ stage = "done" => \A e \in endpoints : \E r \in out : r.target = e

(* "Every relationship `class` takes part in, inherited ones included"     *)
(* (worker.rs:1483): what class_associations() says it answers.            *)
InheritedIncluded ==
  stage = "done" /\ completion = "complete" =>
    \A i \in 1..Len(Ancestors) : \A d \in Related(Ancestors[i]) : Shown(d, Ancestors[i])
=============================================================================
