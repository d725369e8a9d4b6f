------------------------------- MODULE EventQuery -------------------------------
(***************************************************************************)
(* What the Events view reads out of a notification query and writes into  *)
(* it, and how it puts an event on one line (views/events.rs).             *)
(*                                                                         *)
(* tokens() scans the text into words and the contents of quoted literals; *)
(* a query is here the sequence of those tokens.                           *)
(***************************************************************************)
EXTENDS Retain

CONSTANTS
  Numbers,     (* the tokens that parse as an interval                     *)
  Intrinsic,   (* the classes is_intrinsic() accepts                       *)
  Preferred    (* SUMMARY_FIRST, in its order                              *)

NoToken == "none"

(* A token.                                                                *)
Tok(t) == [text |-> t, quoted |-> FALSE]
Literal(t) == [text |-> t, quoted |-> TRUE]

IsQuery(q) ==
  /\ q \in Seq({q[i] : i \in DOMAIN q})
  /\ \A i \in DOMAIN q : q[i] = Tok(q[i].text) \/ q[i] = Literal(q[i].text)

(* An event is a sequence of pairs [half, field, value], half being        *)
(* "previous", "target" or "top"; a property of a half is delivered once.  *)
IsDelivery(p) ==
  /\ p \in Seq({p[i] : i \in DOMAIN p})
  /\ \A i, j \in DOMAIN p : p[i].half = p[j].half /\ p[i].field = p[j].field => i = j

(* A word of the language is neither a number nor the name of an intrinsic *)
(* class.                                                                  *)
Words == {"from", "within", "isa", NoToken}

ASSUME EventAssumption ==
  /\ Words \cap (Numbers \cup Intrinsic) = {}
  /\ Preferred \in Seq({Preferred[p] : p \in DOMAIN Preferred})

-----------------------------------------------------------------------------
(* keyword_at(): 0 when there is none.                                     *)
KeywordAt(q, k) ==
  LET places == {i \in DOMAIN q : q[i] = Tok(k)}
  IN IF places = {} THEN 0 ELSE First(places)

(* after_keyword().                                                        *)
AfterKeyword(q, k) ==
  LET at == KeywordAt(q, k)
  IN IF at # 0 /\ at < Len(q) THEN q[at + 1].text ELSE NoToken

EventClassOf(q) == AfterKeyword(q, "from")
WatchedClassOf(q) == AfterKeyword(q, "isa")
SubjectOf(q) == IF WatchedClassOf(q) # NoToken THEN WatchedClassOf(q) ELSE EventClassOf(q)

(* within_of().                                                            *)
WithinOf(q) == LET n == AfterKeyword(q, "within") IN IF n \in Numbers THEN n ELSE NoToken

AcceptsWithin(q) == WithinOf(q) # NoToken \/ EventClassOf(q) \in Intrinsic

(* Mutant of Injected: the naive one, which appends a missing clause.      *)
InjectedAtEnd(q, n) ==
  IF KeywordAt(q, "within") = 0 THEN q \o <<Tok("within"), Tok(n)>>
  ELSE [q EXCEPT ![KeywordAt(q, "within") + 1] = Tok(n)]

(* A token comes to stand at place i.                                      *)
Inserted(q, i, t) ==
  [k \in 1 .. Len(q) + 1 |-> IF k < i THEN q[k] ELSE IF k = i THEN t ELSE q[k - 1]]

(* There is no clause, and the class it would stand behind is in quotes.   *)
ClassIsQuoted(q) ==
  LET from == KeywordAt(q, "from")
  IN KeywordAt(q, "within") = 0 /\ from # 0 /\ from < Len(q) /\ q[from + 1].quoted

(* inject_within().                                                        *)
Injected(q, n) ==
  LET at == KeywordAt(q, "within")
      from == KeywordAt(q, "from")
      number == at < Len(q) /\ ~q[at + 1].quoted /\ q[at + 1].text \in Numbers
  IN IF at # 0 THEN IF number THEN [q EXCEPT ![at + 1] = Tok(n)] ELSE Inserted(q, at + 1, Tok(n))
     ELSE IF from = 0 \/ from >= Len(q) THEN q
     ELSE IF ClassIsQuoted(q)          (* the clause lands inside the literal *)
     THEN [q EXCEPT ![from + 1] = Literal("literal and clause")]
     ELSE Inserted(Inserted(q, from + 2, Tok("within")), from + 3, Tok(n))

(* What the interval field promises: wherever it accepts a number, the     *)
(* query then carries that number as its interval, and still subscribes to *)
(* the same events of the same class.  (Not so where the clause would have *)
(* to go behind a class in quotes, which WMI does not take either.)        *)
FieldIsWritten(q, n) ==
  LET written == Injected(q, n)
  IN AcceptsWithin(q) /\ ~ClassIsQuoted(q) =>
       /\ WithinOf(written) = n
       /\ EventClassOf(written) = EventClassOf(q)
       /\ WatchedClassOf(written) = WatchedClassOf(q)

-----------------------------------------------------------------------------
(* The kind of an event and its summary.                                   *)

(* kind_of().                                                              *)
KindOf(class, p) ==
  CASE class = "creation" -> "Creation"
    [] class = "modification" -> "Modification"
    [] class = "deletion" -> "Deletion"
    [] class = "operation" ->
         IF \E i \in DOMAIN p : p[i].half = "previous" THEN "Modification" ELSE "Operation"
    [] OTHER -> "Extrinsic"

(* The old value of a property whose new one was delivered as well.        *)
Folded(p) ==
  {i \in DOMAIN p : p[i].half = "previous"
     /\ \E j \in DOMAIN p : p[j].half = "target" /\ p[j].field = p[i].field}

(* A pair as a field of the summary, with the old value if there is one.   *)
Field(p, pair) ==
  LET was == pair.half = "previous"
      old == {p[i].value : i \in {i \in DOMAIN p : p[i].half = "previous" /\ p[i].field = pair.field}}
  IN [name |-> pair.field, was |-> was, values |-> {pair.value} \cup IF was THEN {} ELSE old]

(* summary_fields(): the two halves of a modification in one field.        *)
SummaryFields(p) ==
  LET left == Without(p, Folded(p)) IN [i \in DOMAIN left |-> Field(p, left[i])]

(* Mutant of Kept: the fields in the order they were delivered.            *)
KeptInOrder(fields, limit) == SubSeq(fields, 1, IF Len(fields) < limit THEN Len(fields) ELSE limit)

(* The field a preferred name stands for: position(), so the first.        *)
Leading(fields, name) ==
  {i \in DOMAIN fields : fields[i].name = name /\ ~fields[i].was
     /\ \A j \in 1 .. (i - 1) : fields[j].name # name \/ fields[j].was}

(* Where a field comes: the preferred ones in their order, then the others.*)
Place(fields, i) ==
  LET names == {p \in DOMAIN Preferred : i \in Leading(fields, Preferred[p])}
  IN IF names # {} THEN First(names) ELSE Len(Preferred) + i

(* summarize(): the fields that identify, then the others, up to a limit.  *)
Kept(fields, limit) ==
  LET upTo == [i \in DOMAIN fields |->
                 {j \in DOMAIN fields : Place(fields, j) <= Place(fields, i)}]
  IN SubSeq(Arranged(fields, upTo), 1, IF Len(fields) < limit THEN Len(fields) ELSE limit)

IsNamed(field) == ~field.was /\ \E p \in DOMAIN Preferred : field.name = Preferred[p]

(* A line leads with what the event is about whenever a delivered field    *)
(* names it, holds every value that was delivered, and tells the old value *)
(* of a changed field together with the new one and not by itself.         *)
SummaryIdentifies(p, limit) ==
  LET fields == SummaryFields(p)
      line == Kept(fields, limit)
  IN /\ (\E i \in DOMAIN fields : IsNamed(fields[i])) => line # <<>> /\ IsNamed(line[1])
     /\ \A i, j \in DOMAIN p :
          p[i].half = "previous" /\ p[j].half = "target" /\ p[i].field = p[j].field =>
            /\ \E f \in DOMAIN fields : fields[f].values = {p[i].value, p[j].value}
            /\ \A f \in DOMAIN fields : fields[f].name = p[i].field => ~fields[f].was
     /\ \A i \in DOMAIN p : \E f \in DOMAIN fields : p[i].value \in fields[f].values

=============================================================================
