----------------------------- MODULE ViewsProofs -----------------------------
(***************************************************************************)
(* Two views that keep state of their own.                                 *)
(*                                                                         *)
(* The comparison, for any targets, questions and numbers of runs: both    *)
(* sides and the view built from them are of one run.                      *)
(*                                                                         *)
(* The configuration and its file, for any old file and imports: with      *)
(* nothing left to write, and unless the last write failed, the file holds *)
(* what the window shows.  Every step saves, saves later, changes nothing  *)
(* of the configuration or moves a job along; the invariant FileInv of     *)
(* Library says where the last write then is: at the end of the queue, in  *)
(* the hands of the IO thread, or in the file.                             *)
(***************************************************************************)
EXTENDS Compare, Library, RetainProofs, SequenceTheorems

-----------------------------------------------------------------------------
(*                         The registry of workers                         *)

LEMMA RegistryIs ==
  ASSUME NEW reg \in Registries
  PROVE  /\ reg = [open |-> reg.open, asked |-> reg.asked, answered |-> reg.answered]
         /\ reg.open \in SUBSET Targets
         /\ reg.asked \in [Targets -> Seq(Question)] /\ reg.answered \in [Targets -> Seq(Reply)]
BY DEF Registries

LEMMA AskIs ==
  ASSUME NEW reg \in Registries, NEW t \in Targets, NEW m \in Question
  PROVE  /\ Ask(reg, t, m) \in Registries
         /\ Ask(reg, t, m).open = reg.open /\ Ask(reg, t, m).answered = reg.answered
         /\ Ask(reg, t, m).asked = [reg.asked EXCEPT ![t] = Append(reg.asked[t], m)]
<1> DEFINE line == Append(reg.asked[t], m)
<1>1. line \in Seq(Question)
  BY RegistryIs
<1> HIDE DEF line
<1>2. [reg.asked EXCEPT ![t] = line] \in [Targets -> Seq(Question)]
  BY <1>1, RegistryIs
<1>3. Ask(reg, t, m) = [reg EXCEPT !.asked[t] = line]
  BY DEF Ask, line
<1>4. [reg EXCEPT !.asked[t] = line] =
        [open |-> reg.open, asked |-> [reg.asked EXCEPT ![t] = line], answered |-> reg.answered]
  <2>1. reg = [open |-> reg.open, asked |-> reg.asked, answered |-> reg.answered]
    BY RegistryIs
  <2> DEFINE o == reg.open
             a == reg.asked
             b == reg.answered
  <2> HIDE DEF o, a, b
  <2>2. reg = [open |-> o, asked |-> a, answered |-> b]
    BY <2>1 DEF o, a, b
  <2>3. [reg EXCEPT !.asked[t] = line] =
        [open |-> o, asked |-> [a EXCEPT ![t] = line], answered |-> b]
    BY <2>2
  <2> QED
    BY <2>3 DEF o, a, b
<1> QED
  BY <1>2, <1>3, <1>4, RegistryIs DEF Registries, line

LEMMA AnswerIs ==
  ASSUME NEW reg \in Registries, NEW t \in Targets, NEW m \in Reply, reg.asked[t] # <<>>
  PROVE  /\ AnswerOldest(reg, t, m) \in Registries
         /\ AnswerOldest(reg, t, m).open = reg.open
         /\ AnswerOldest(reg, t, m).asked = [reg.asked EXCEPT ![t] = Tail(reg.asked[t])]
         /\ AnswerOldest(reg, t, m).answered = [reg.answered EXCEPT ![t] = Append(reg.answered[t], m)]
<1> DEFINE line == Tail(reg.asked[t])
           told == Append(reg.answered[t], m)
<1>1. line \in Seq(Question) /\ told \in Seq(Reply)
  BY RegistryIs
<1> HIDE DEF line, told
<1>2. /\ [reg.asked EXCEPT ![t] = line] \in [Targets -> Seq(Question)]
      /\ [reg.answered EXCEPT ![t] = told] \in [Targets -> Seq(Reply)]
  BY <1>1, RegistryIs
<1>3. AnswerOldest(reg, t, m) =
        [open |-> reg.open, asked |-> [reg.asked EXCEPT ![t] = line],
         answered |-> [reg.answered EXCEPT ![t] = told]]
  BY DEF AnswerOldest, line, told
<1> QED
  BY <1>2, <1>3, RegistryIs DEF Registries, line, told

LEMMA EmptiedIs ==
  ASSUME NEW reg \in Registries
  PROVE  /\ Emptied(reg) \in Registries
         /\ Emptied(reg).open = reg.open /\ Emptied(reg).asked = reg.asked
         /\ Emptied(reg).answered = [t \in Targets |-> <<>>]
<1>1. [t \in Targets |-> <<>>] \in [Targets -> Seq(Reply)]
  OBVIOUS
<1>2. Emptied(reg) =
        [open |-> reg.open, asked |-> reg.asked, answered |-> [t \in Targets |-> <<>>]]
  BY RegistryIs DEF Emptied
<1> QED
  BY <1>1, <1>2, RegistryIs DEF Registries

(* One more request in a line.                                             *)
LEMMA LongerLine ==
  ASSUME NEW S, NEW line \in Seq(S), NEW m \in S
  PROVE  /\ DOMAIN line = 1 .. Len(line) /\ Len(line) \in Nat
         /\ DOMAIN Append(line, m) = 1 .. (Len(line) + 1)
         /\ \A i \in 1 .. Len(line) : Append(line, m)[i] = line[i]
         /\ Append(line, m)[Len(line) + 1] = m
OBVIOUS

LEMMA ShorterLine ==
  ASSUME NEW S, NEW line \in Seq(S), line # <<>>
  PROVE  /\ DOMAIN line = 1 .. Len(line) /\ Len(line) \in Nat \ {0} /\ Head(line) = line[1]
         /\ DOMAIN Tail(line) = 1 .. (Len(line) - 1)
         /\ \A i \in 1 .. (Len(line) - 1) : Tail(line)[i] = line[i + 1]
OBVIOUS

LEMMA AskKeepsIds ==
  ASSUME NEW reg \in Registries, NEW t \in Targets, NEW m \in Question, NEW s, NEW question,
         IdsAreItsOwn(reg, s, question),
         m.id = s.connect => m.op = "SetHost",
         m.id = s.query => m.op = "Query" /\ m.question = question
  PROVE  IdsAreItsOwn(Ask(reg, t, m), s, question)
<1> DEFINE new == Ask(reg, t, m)
<1>1. new.answered = reg.answered /\ new.asked = [reg.asked EXCEPT ![t] = Append(reg.asked[t], m)]
  BY AskIs
<1>2. reg.asked \in [Targets -> Seq(Question)]
  BY DEF Registries
<1>3. ASSUME NEW u \in Targets, NEW i \in DOMAIN new.asked[u]
      PROVE  new.asked[u][i] = m \/ (i \in DOMAIN reg.asked[u] /\ new.asked[u][i] = reg.asked[u][i])
  <2>1. CASE u = t
    <3>1. new.asked[u] = Append(reg.asked[u], m) /\ reg.asked[u] \in Seq(Question)
      BY <1>1, <1>2, <2>1
    <3> QED
      BY <3>1, LongerLine
  <2>2. CASE u # t
    BY <1>1, <1>2, <2>2
  <2> QED
    BY <2>1, <2>2
<1> HIDE DEF new
<1>4. ASSUME NEW u \in Targets, NEW i \in DOMAIN new.asked[u]
      PROVE  /\ new.asked[u][i].id = s.connect => new.asked[u][i].op = "SetHost"
             /\ new.asked[u][i].id = s.query =>
                  new.asked[u][i].op = "Query" /\ new.asked[u][i].question = question
  <2>1. CASE new.asked[u][i] = m
    BY <2>1
  <2>2. CASE i \in DOMAIN reg.asked[u] /\ new.asked[u][i] = reg.asked[u][i]
    BY <2>2 DEF IdsAreItsOwn
  <2> QED
    BY <1>3, <2>1, <2>2
<1>5. ASSUME NEW u \in Targets, NEW i \in DOMAIN new.answered[u]
      PROVE  /\ new.answered[u][i].id = s.connect => new.answered[u][i].op \in {"HostConnected", "Error"}
             /\ new.answered[u][i].id = s.query =>
                  \/ new.answered[u][i].op = "Error"
                  \/ /\ new.answered[u][i].op = "QueryResult"
                     /\ new.answered[u][i].result.question = question
  BY <1>1 DEF IdsAreItsOwn
<1>6. IdsAreItsOwn(new, s, question)
  BY SMTT(30), ZenonT(30), <1>4, <1>5 DEF IdsAreItsOwn
<1> QED
  BY <1>6 DEF new

LEMMA AskKeepsOrder ==
  ASSUME NEW reg \in Registries, NEW t \in Targets, NEW m \in Question, NEW s,
         ConnectComesFirst(reg, s),
         m.id = s.query => \/ Told(reg, t, s.connect)
                           \/ \E j \in DOMAIN reg.asked[t] : reg.asked[t][j].id = s.connect
  PROVE  ConnectComesFirst(Ask(reg, t, m), s)
<1> DEFINE new == Ask(reg, t, m)
<1>1. new.answered = reg.answered /\ new.asked = [reg.asked EXCEPT ![t] = Append(reg.asked[t], m)]
  BY AskIs
<1>2. reg.asked \in [Targets -> Seq(Question)]
  BY DEF Registries
<1>3. \A u, id : Told(new, u, id) <=> Told(reg, u, id)
  BY <1>1 DEF Told
<1>4. ASSUME s.connect # 0, NEW u \in Targets, NEW i \in DOMAIN new.asked[u], new.asked[u][i].id = s.query
      PROVE  Told(reg, u, s.connect) \/ \E j \in 1 .. (i - 1) : new.asked[u][j].id = s.connect
  <2>1. CASE u = t
    <3>1. new.asked[u] = Append(reg.asked[u], m) /\ reg.asked[u] \in Seq(Question)
      BY <1>1, <1>2, <2>1
    <3>2. /\ DOMAIN reg.asked[u] = 1 .. Len(reg.asked[u]) /\ Len(reg.asked[u]) \in Nat
          /\ DOMAIN new.asked[u] = 1 .. (Len(reg.asked[u]) + 1)
          /\ \A j \in 1 .. Len(reg.asked[u]) : new.asked[u][j] = reg.asked[u][j]
          /\ new.asked[u][Len(reg.asked[u]) + 1] = m
      BY <3>1, LongerLine
    <3>3. CASE i \in DOMAIN reg.asked[u]
      <4>1. Told(reg, u, s.connect) \/ \E j \in 1 .. (i - 1) : reg.asked[u][j].id = s.connect
        BY <1>4, <3>2, <3>3 DEF ConnectComesFirst
      <4>2. i \in 1 .. Len(reg.asked[u])
        BY <3>2, <3>3
      <4>3. \A j \in 1 .. (i - 1) : new.asked[u][j] = reg.asked[u][j]
        BY <3>2, <4>2
      <4> HIDE DEF new
      <4> QED
        BY <4>1, <4>3
    <3>4. CASE i = Len(reg.asked[u]) + 1
      <4>1. Told(reg, u, s.connect) \/ \E j \in DOMAIN reg.asked[u] : reg.asked[u][j].id = s.connect
        BY <1>4, <2>1, <3>2, <3>4
      <4> QED
        BY SMTT(30), ZenonT(30), <3>2, <3>4, <4>1
    <3> QED
      BY <3>2, <3>3, <3>4
  <2>2. CASE u # t
    <3>1. new.asked[u] = reg.asked[u]
      BY <1>1, <1>2, <2>2
    <3> QED
      BY <1>4, <3>1 DEF ConnectComesFirst
  <2> QED
    BY <2>1, <2>2
<1> HIDE DEF new
<1>5. ConnectComesFirst(new, s)
  BY <1>3, <1>4, Zenon DEF ConnectComesFirst
<1> QED
  BY <1>5 DEF new

LEMMA AskKeepsBound ==
  ASSUME NEW reg \in Registries, NEW t \in reg.open, NEW m \in Question, NEW n \in Nat, NEW k \in Nat,
         IdsAreGiven(reg, n), n <= k, m.id \in 1 .. k
  PROVE  IdsAreGiven(Ask(reg, t, m), k)
<1> DEFINE new == Ask(reg, t, m)
<1>0. t \in Targets
  BY DEF Registries
<1>1. /\ new.answered = reg.answered /\ new.open = reg.open
      /\ new.asked = [reg.asked EXCEPT ![t] = Append(reg.asked[t], m)]
  BY <1>0, AskIs
<1>2. reg.asked \in [Targets -> Seq(Question)]
  BY DEF Registries
<1>3. ASSUME NEW u \in Targets, NEW i \in DOMAIN new.asked[u]
      PROVE  new.asked[u][i].id \in 1 .. k
  <2>1. CASE u = t
    <3>1. new.asked[u] = Append(reg.asked[u], m) /\ reg.asked[u] \in Seq(Question)
      BY <1>1, <1>2, <2>1
    <3>2. new.asked[u][i] = m \/ (i \in DOMAIN reg.asked[u] /\ new.asked[u][i] = reg.asked[u][i])
      BY <3>1, LongerLine
    <3> QED
      BY <3>2 DEF IdsAreGiven
  <2>2. CASE u # t
    <3>1. new.asked[u] = reg.asked[u]
      BY <1>1, <1>2, <2>2
    <3> QED
      BY <3>1 DEF IdsAreGiven
  <2> QED
    BY <2>1, <2>2
<1>4. ASSUME NEW u \in Targets \ reg.open PROVE new.asked[u] = <<>>
  BY <1>1, <1>2 DEF IdsAreGiven
<1> HIDE DEF new
<1>5. ASSUME NEW u \in Targets, NEW i \in DOMAIN new.answered[u]
      PROVE  new.answered[u][i].id \in 1 .. k
  BY <1>1 DEF IdsAreGiven
<1>6. ASSUME NEW u \in Targets \ new.open PROVE new.asked[u] = <<>> /\ new.answered[u] = <<>>
  BY <1>1, <1>4 DEF IdsAreGiven
<1>7. IdsAreGiven(new, k)
  BY <1>3, <1>5, <1>6 DEF IdsAreGiven
<1> QED
  BY <1>7 DEF new

(* Opening adds a target and changes no line; it then asks for a connect.  *)
LEMMA OpenIs ==
  ASSUME NEW reg \in Registries, NEW t \in Targets, NEW id \in Nat
  PROVE  \E wider \in Registries :
           /\ wider.open = reg.open \cup {t}
           /\ wider.asked = reg.asked /\ wider.answered = reg.answered
           /\ Open(reg, t, id) = Ask(wider, t, [id |-> id, op |-> "SetHost"])
<1> DEFINE wider == [open |-> reg.open \cup {t}, asked |-> reg.asked, answered |-> reg.answered]
<1>1. wider \in Registries
  BY RegistryIs DEF Registries
<1>2. wider = [reg EXCEPT !.open = reg.open \cup {t}]
  <2>1. reg = [open |-> reg.open, asked |-> reg.asked, answered |-> reg.answered]
    BY RegistryIs
  <2> DEFINE o == reg.open
             a == reg.asked
             b == reg.answered
  <2> HIDE DEF o, a, b
  <2>2. reg = [open |-> o, asked |-> a, answered |-> b]
    BY <2>1 DEF o, a, b
  <2>3. [reg EXCEPT !.open = o \cup {t}] = [open |-> o \cup {t}, asked |-> a, answered |-> b]
    BY <2>2
  <2> QED
    BY <2>3 DEF o, a, b
<1>3. Open(reg, t, id) = Ask(wider, t, [id |-> id, op |-> "SetHost"])
  BY <1>2 DEF Open
<1>4. wider.open = reg.open \cup {t} /\ wider.asked = reg.asked /\ wider.answered = reg.answered
  OBVIOUS
<1> HIDE DEF wider
<1> QED
  BY <1>1, <1>3, <1>4

LEMMA SameLines ==
  ASSUME NEW reg \in Registries, NEW new \in Registries,
         new.asked = reg.asked, new.answered = reg.answered
  PROVE  /\ \A n : IdsAreGiven(reg, n) /\ reg.open \subseteq new.open => IdsAreGiven(new, n)
         /\ \A s, question : IdsAreItsOwn(reg, s, question) => IdsAreItsOwn(new, s, question)
         /\ \A s : ConnectComesFirst(reg, s) => ConnectComesFirst(new, s)
<1>1. \A n : IdsAreGiven(reg, n) /\ reg.open \subseteq new.open => IdsAreGiven(new, n)
  BY DEF IdsAreGiven
<1>2. ASSUME NEW s, NEW question, IdsAreItsOwn(reg, s, question)
      PROVE  IdsAreItsOwn(new, s, question)
  <2>1. \A t \in Targets : \A i \in DOMAIN new.asked[t] :
          /\ new.asked[t][i].id = s.connect => new.asked[t][i].op = "SetHost"
          /\ new.asked[t][i].id = s.query =>
               new.asked[t][i].op = "Query" /\ new.asked[t][i].question = question
    BY <1>2 DEF IdsAreItsOwn
  <2>2. ASSUME NEW t \in Targets, NEW i \in DOMAIN new.answered[t]
        PROVE  /\ new.answered[t][i].id = s.connect => new.answered[t][i].op \in {"HostConnected", "Error"}
               /\ new.answered[t][i].id = s.query =>
                    \/ new.answered[t][i].op = "Error"
                    \/ /\ new.answered[t][i].op = "QueryResult"
                       /\ new.answered[t][i].result.question = question
    BY <1>2 DEF IdsAreItsOwn
  <2> QED
    BY <2>1, <2>2, Zenon DEF IdsAreItsOwn
<1>3. \A s : ConnectComesFirst(reg, s) => ConnectComesFirst(new, s)
  BY DEF ConnectComesFirst, Told
<1> QED
  BY <1>1, <1>2, <1>3

(* Ids that were never given out are nobody else's.                        *)
LEMMA FreshIds ==
  ASSUME NEW reg \in Registries, NEW n \in Nat, IdsAreGiven(reg, n), NEW s, NEW question,
         s.connect = 0 \/ s.connect = n + 1,
         s.query = n + 1 \/ s.query = n + 2
  PROVE  IdsAreItsOwn(reg, s, question) /\ ConnectComesFirst(reg, s)
<1>1. /\ \A t \in Targets : \A i \in DOMAIN reg.asked[t] :
           reg.asked[t][i].id # s.connect /\ reg.asked[t][i].id # s.query
      /\ \A t \in Targets : \A i \in DOMAIN reg.answered[t] :
           reg.answered[t][i].id # s.connect /\ reg.answered[t][i].id # s.query
  BY DEF IdsAreGiven
<1>2. IdsAreItsOwn(reg, s, question)
  BY <1>1, Zenon DEF IdsAreItsOwn
<1>3. \A t \in Targets : ~Told(reg, t, s.query)
  BY <1>1 DEF Told
<1>4. s.query # 0
  OBVIOUS
<1>5. ConnectComesFirst(reg, s)
  BY <1>1, <1>3, <1>4, Zenon DEF ConnectComesFirst
<1> QED
  BY <1>2, <1>5

Fits(m, reply) ==
  /\ reply.id = m.id
  /\ m.op = "SetHost" => reply.op \in {"HostConnected", "Error"}
  /\ m.op = "Query" => \/ reply.op = "Error"
                       \/ reply.op = "QueryResult" /\ reply.result.question = m.question

LEMMA AnswerKeeps ==
  ASSUME NEW reg \in Registries, NEW t \in Targets, reg.asked[t] # <<>>,
         NEW m \in Reply, Fits(reg.asked[t][1], m)
  PROVE  /\ \A n : IdsAreGiven(reg, n) => IdsAreGiven(AnswerOldest(reg, t, m), n)
         /\ \A s, question :
              IdsAreItsOwn(reg, s, question) => IdsAreItsOwn(AnswerOldest(reg, t, m), s, question)
         /\ \A s : ConnectComesFirst(reg, s) => ConnectComesFirst(AnswerOldest(reg, t, m), s)
<1> DEFINE new == AnswerOldest(reg, t, m)
           asked == reg.asked[t]
           told == reg.answered[t]
<1>1. /\ new.open = reg.open
      /\ new.asked = [reg.asked EXCEPT ![t] = Tail(asked)]
      /\ new.answered = [reg.answered EXCEPT ![t] = Append(told, m)]
  BY SMTT(30), ZenonT(30), AnswerIs
<1>2. reg.asked \in [Targets -> Seq(Question)] /\ reg.answered \in [Targets -> Seq(Reply)]
  BY RegistryIs
<1>3. /\ DOMAIN asked = 1 .. Len(asked) /\ Len(asked) \in Nat \ {0}
      /\ DOMAIN Tail(asked) = 1 .. (Len(asked) - 1)
      /\ \A i \in 1 .. (Len(asked) - 1) : Tail(asked)[i] = asked[i + 1]
  <2>1. asked \in Seq(Question)
    BY <1>2
  <2> HIDE DEF asked
  <2> QED
    BY <2>1, ShorterLine DEF asked
<1>4. /\ DOMAIN told = 1 .. Len(told) /\ Len(told) \in Nat
      /\ DOMAIN Append(told, m) = 1 .. (Len(told) + 1)
      /\ \A i \in 1 .. Len(told) : Append(told, m)[i] = told[i]
      /\ Append(told, m)[Len(told) + 1] = m
  <2>1. told \in Seq(Reply)
    BY <1>2
  <2> HIDE DEF told
  <2> QED
    BY <2>1, LongerLine
<1>5. new.asked[t] = Tail(asked) /\ new.answered[t] = Append(told, m)
  BY <1>1, <1>2
<1>6. \A u \in Targets \ {t} : new.asked[u] = reg.asked[u] /\ new.answered[u] = reg.answered[u]
  BY <1>1, <1>2
<1> HIDE DEF new
<1>7. \A u \in Targets : \A i \in DOMAIN new.asked[u] :
        \/ i \in DOMAIN reg.asked[u] /\ new.asked[u][i] = reg.asked[u][i]
        \/ u = t /\ i + 1 \in DOMAIN reg.asked[u] /\ new.asked[u][i] = reg.asked[u][i + 1]
  <2> SUFFICES ASSUME NEW u \in Targets, NEW i \in DOMAIN new.asked[u]
               PROVE  \/ i \in DOMAIN reg.asked[u] /\ new.asked[u][i] = reg.asked[u][i]
                      \/ u = t /\ i + 1 \in DOMAIN reg.asked[u] /\ new.asked[u][i] = reg.asked[u][i + 1]
    OBVIOUS
  <2>1. CASE u = t
    BY <2>1, <1>3, <1>5
  <2>2. CASE u # t
    BY <2>2, <1>6
  <2> QED
    BY <2>1, <2>2
<1>8. \A u \in Targets : \A i \in DOMAIN new.answered[u] :
        \/ i \in DOMAIN reg.answered[u] /\ new.answered[u][i] = reg.answered[u][i]
        \/ u = t /\ new.answered[u][i] = m
  <2> SUFFICES ASSUME NEW u \in Targets, NEW i \in DOMAIN new.answered[u]
               PROVE  \/ i \in DOMAIN reg.answered[u] /\ new.answered[u][i] = reg.answered[u][i]
                      \/ u = t /\ new.answered[u][i] = m
    OBVIOUS
  <2>1. CASE u = t
    BY <2>1, <1>4, <1>5
  <2>2. CASE u # t
    BY <2>2, <1>6
  <2> QED
    BY <2>1, <2>2
<1>9. 1 \in DOMAIN asked
  BY <1>3
<1>10. ASSUME NEW n, IdsAreGiven(reg, n) PROVE IdsAreGiven(new, n)
  <2>1. t \in reg.open
    BY <1>10 DEF IdsAreGiven
  <2>2. \A u \in Targets \ new.open : new.asked[u] = <<>> /\ new.answered[u] = <<>>
    BY <1>1, <1>6, <1>10, <2>1 DEF IdsAreGiven
  <2>3. m.id \in 1 .. n
    BY <1>9, <1>10 DEF IdsAreGiven, Fits
  <2>4. \A u \in Targets : \A i \in DOMAIN new.asked[u] : new.asked[u][i].id \in 1 .. n
    BY SMTT(30), ZenonT(30), <1>7, <1>10 DEF IdsAreGiven
  <2>5. \A u \in Targets : \A i \in DOMAIN new.answered[u] : new.answered[u][i].id \in 1 .. n
    BY <1>8, <1>10, <2>3, Zenon DEF IdsAreGiven
  <2> QED
    BY <2>2, <2>4, <2>5, Zenon DEF IdsAreGiven
<1>11. ASSUME NEW s, NEW question, IdsAreItsOwn(reg, s, question)
       PROVE  IdsAreItsOwn(new, s, question)
  <2>1. ASSUME NEW u \in Targets, NEW i \in DOMAIN new.asked[u]
        PROVE  /\ new.asked[u][i].id = s.connect => new.asked[u][i].op = "SetHost"
               /\ new.asked[u][i].id = s.query =>
                    new.asked[u][i].op = "Query" /\ new.asked[u][i].question = question
    <3>1. PICK j \in DOMAIN reg.asked[u] : new.asked[u][i] = reg.asked[u][j]
      BY <1>7, <2>1, Zenon
    <3> QED
      BY <1>11, <3>1 DEF IdsAreItsOwn
  <2>2. ASSUME NEW u \in Targets, NEW i \in DOMAIN new.answered[u]
        PROVE  /\ new.answered[u][i].id = s.connect => new.answered[u][i].op \in {"HostConnected", "Error"}
               /\ new.answered[u][i].id = s.query =>
                    \/ new.answered[u][i].op = "Error"
                    \/ /\ new.answered[u][i].op = "QueryResult"
                       /\ new.answered[u][i].result.question = question
    <3>1. CASE i \in DOMAIN reg.answered[u] /\ new.answered[u][i] = reg.answered[u][i]
      BY <1>11, <3>1 DEF IdsAreItsOwn
    <3>2. CASE u = t /\ new.answered[u][i] = m
      <4>1. /\ asked[1].id = s.connect => asked[1].op = "SetHost"
            /\ asked[1].id = s.query => asked[1].op = "Query" /\ asked[1].question = question
        BY <1>9, <1>11 DEF IdsAreItsOwn
      <4> QED
        BY <3>2, <4>1 DEF Fits
    <3> QED
      BY <1>8, <3>1, <3>2, Zenon
  <2> QED
    BY <2>1, <2>2, Zenon DEF IdsAreItsOwn
<1>12. ASSUME NEW s, ConnectComesFirst(reg, s) PROVE ConnectComesFirst(new, s)
  <2> SUFFICES ASSUME s.connect # 0
               PROVE  /\ s.query # 0
                      /\ \A u \in Targets :
                           /\ Told(new, u, s.query) => Told(new, u, s.connect)
                           /\ \A i \in DOMAIN new.asked[u] : new.asked[u][i].id = s.query =>
                                \/ Told(new, u, s.connect)
                                \/ \E j \in 1 .. (i - 1) : new.asked[u][j].id = s.connect
    BY Zenon DEF ConnectComesFirst
  <2>1. s.query # 0
    BY <1>12 DEF ConnectComesFirst
  <2>2. \A u \in Targets \ {t} : \A id : Told(new, u, id) <=> Told(reg, u, id)
    BY <1>6 DEF Told
  <2>3. \A id : Told(new, t, id) <=> Told(reg, t, id) \/ id = asked[1].id
    <3>1. \A id : Told(reg, t, id) => Told(new, t, id)
      BY <1>4, <1>5 DEF Told
    <3>2. Told(new, t, asked[1].id)
      BY <1>4, <1>5 DEF Told, Fits
    <3>3. \A id : Told(new, t, id) => Told(reg, t, id) \/ id = asked[1].id
      BY <1>8 DEF Told, Fits
    <3> QED
      BY <3>1, <3>2, <3>3
  <2>4. ASSUME NEW u \in Targets, u # t
        PROVE  /\ Told(new, u, s.query) => Told(new, u, s.connect)
               /\ \A i \in DOMAIN new.asked[u] : new.asked[u][i].id = s.query =>
                    \/ Told(new, u, s.connect)
                    \/ \E j \in 1 .. (i - 1) : new.asked[u][j].id = s.connect
    <3>1. new.asked[u] = reg.asked[u]
      BY <1>6, <2>4
    <3> QED
      BY <1>12, <2>2, <2>4, <3>1 DEF ConnectComesFirst
  <2>5. Told(new, t, s.query) => Told(new, t, s.connect)
    <3>1. CASE Told(reg, t, s.query)
      BY <1>12, <2>3, <3>1 DEF ConnectComesFirst
    <3>2. CASE s.query = asked[1].id
      <4>1. Told(reg, t, s.connect) \/ \E j \in 1 .. (1 - 1) : asked[j].id = s.connect
        BY <1>9, <1>12, <3>2, Zenon DEF ConnectComesFirst
      <4>2. Told(reg, t, s.connect)
        BY <4>1
      <4> QED
        BY <2>3, <4>2
    <3> QED
      BY <2>3, <3>1, <3>2
  <2>6. ASSUME NEW i \in DOMAIN new.asked[t], new.asked[t][i].id = s.query
        PROVE  Told(new, t, s.connect) \/ \E j \in 1 .. (i - 1) : new.asked[t][j].id = s.connect
    <3>1. i \in 1 .. (Len(asked) - 1) /\ i + 1 \in DOMAIN asked /\ asked[i + 1].id = s.query
      BY <1>3, <1>5, <2>6
    <3>2. Told(reg, t, s.connect) \/ \E j \in 1 .. ((i + 1) - 1) : asked[j].id = s.connect
      BY <1>12, <3>1, Zenon DEF ConnectComesFirst
    <3>3. ASSUME NEW j \in 1 .. ((i + 1) - 1), asked[j].id = s.connect, j # 1
          PROVE  \E k \in 1 .. (i - 1) : new.asked[t][k].id = s.connect
      <4>1. j - 1 \in 1 .. (i - 1) /\ j - 1 \in 1 .. (Len(asked) - 1) /\ (j - 1) + 1 = j
        BY <3>1, <3>3
      <4>2. new.asked[t][j - 1] = asked[j]
        BY <1>3, <1>5, <4>1
      <4> QED
        BY <3>3, <4>1, <4>2
    <3> QED
      BY <2>3, <3>2, <3>3
  <2> QED
    BY <2>1, <2>4, <2>5, <2>6
<1> QED
  BY <1>10, <1>11, <1>12 DEF new

-----------------------------------------------------------------------------
(*                          Asking for a comparison                        *)

Dispatching == [registry : Registries, side : [Sides -> SideType], ids : Nat]

LEMMA DispatchKeeps ==
  ASSUME NEW d \in Dispatching, NEW w \in Sides, editor \in Questions, IdsAreGiven(d.registry, d.ids)
  PROVE  /\ Dispatch(d, w) \in Dispatching
         /\ Dispatch(d, w).ids > d.ids
         /\ IdsAreGiven(Dispatch(d, w).registry, Dispatch(d, w).ids)
         /\ Dispatch(d, w).side[w].state = "Running"
         /\ Dispatch(d, w).side[w].connect <= Dispatch(d, w).ids
         /\ Dispatch(d, w).side[w].query <= Dispatch(d, w).ids
         /\ IdsAreItsOwn(Dispatch(d, w).registry, Dispatch(d, w).side[w], editor)
         /\ ConnectComesFirst(Dispatch(d, w).registry, Dispatch(d, w).side[w])
         /\ \A v \in Sides \ {w} : Dispatch(d, w).side[v] = d.side[v]
         /\ \A s, question : s.connect \in 0 .. d.ids /\ s.query \in 0 .. d.ids =>
              /\ IdsAreItsOwn(d.registry, s, question) =>
                   IdsAreItsOwn(Dispatch(d, w).registry, s, question)
              /\ ConnectComesFirst(d.registry, s) => ConnectComesFirst(Dispatch(d, w).registry, s)
<1> DEFINE s0 == d.side[w]
           t == s0.target
           reg == d.registry
           n == d.ids
<1>1. /\ s0 \in SideType /\ t \in Targets \ AltTargets
      /\ reg \in Registries /\ n \in Nat /\ IdsAreGiven(reg, n)
  BY DEF Dispatching, SideType
<1> DEFINE Ends(connect, query, new) ==
             [registry |-> new, ids |-> query,
              side |-> [d.side EXCEPT ![w].connect = connect, ![w].query = query,
                                      ![w].state = "Running", ![w].result = Nobody]]
           Works(connect, query, new) ==
             /\ new \in Registries /\ query \in Nat /\ query > n /\ connect \in 0 .. query
             /\ IdsAreGiven(new, query)
             /\ \A s : s.connect = connect /\ s.query = query =>
                  IdsAreItsOwn(new, s, editor) /\ ConnectComesFirst(new, s)
             /\ \A s, question : s.connect \in 0 .. n /\ s.query \in 0 .. n =>
                  /\ IdsAreItsOwn(reg, s, question) => IdsAreItsOwn(new, s, question)
                  /\ ConnectComesFirst(reg, s) => ConnectComesFirst(new, s)
<1>2. \E connect, query, new : Dispatch(d, w) = Ends(connect, query, new) /\ Works(connect, query, new)
  <2>1. CASE ~IsOpen(reg, t)
    <3> DEFINE m == [id |-> n + 1, op |-> "SetHost"]
               q == [id |-> n + 2, op |-> "Query", question |-> editor]
    <3>1. PICK wider \in Registries : /\ wider.open = reg.open \cup {t}
                                      /\ wider.asked = reg.asked /\ wider.answered = reg.answered
                                      /\ Open(reg, t, n + 1) = Ask(wider, t, m)
      <4>1. n + 1 \in Nat /\ t \in Targets
        BY <1>1
      <4> HIDE DEF t, n, reg
      <4> QED
        BY <1>1, <4>1, OpenIs, Zenon
    <3> DEFINE connecting == Ask(wider, t, m)
               new == Ask(connecting, t, q)
    <3>2. Dispatch(d, w) = Ends(n + 1, n + 2, new)
      BY <1>1, <2>1, <3>1 DEF Dispatch
    <3>3. m \in Question /\ q \in Question
      BY <1>1 DEF Question
    <3>4. /\ connecting \in Registries /\ connecting.open = wider.open
          /\ connecting.asked = [wider.asked EXCEPT ![t] = Append(wider.asked[t], m)]
      <4>1. t \in Targets
        BY <1>1
      <4> HIDE DEF t, m
      <4> QED
        BY <3>1, <3>3, <4>1, AskIs
    <3>5. new \in Registries
      BY <1>1, <3>3, <3>4, AskIs
    <3>6. IdsAreGiven(wider, n) /\ IdsAreGiven(connecting, n + 1) /\ IdsAreGiven(new, n + 2)
      <4>1. IdsAreGiven(wider, n)
        BY <1>1, <3>1, SameLines
      <4>2. t \in wider.open /\ m.id \in 1 .. (n + 1) /\ q.id \in 1 .. (n + 2)
        BY <1>1, <3>1
      <4>3. n + 1 \in Nat /\ n + 2 \in Nat /\ n <= n + 1 /\ n + 1 <= n + 2
        BY <1>1
      <4> HIDE DEF m, q, n, t, reg
      <4>4. IdsAreGiven(connecting, n + 1)
        BY <1>1, <3>1, <3>3, <4>1, <4>2, <4>3, AskKeepsBound
      <4>5. t \in connecting.open
        BY <3>4, <4>2
      <4> HIDE DEF connecting
      <4>6. IdsAreGiven(new, n + 2)
        BY <3>3, <3>4, <4>2, <4>3, <4>4, <4>5, AskKeepsBound
      <4> QED
        BY <4>1, <4>4, <4>6
    <3>7. ASSUME NEW s, s.connect = n + 1, s.query = n + 2
          PROVE  IdsAreItsOwn(new, s, editor) /\ ConnectComesFirst(new, s)
      <4>1. IdsAreItsOwn(wider, s, editor) /\ ConnectComesFirst(wider, s)
        BY <1>1, <3>1, <3>6, <3>7, FreshIds
      <4>2. m.id = s.connect /\ m.id # s.query /\ m.op = "SetHost" /\ q.id # s.connect
            /\ q.op = "Query" /\ q.question = editor
        BY <1>1, <3>7
      <4>3. \E j \in DOMAIN connecting.asked[t] : connecting.asked[t][j].id = s.connect
        <5>1. connecting.asked[t] = Append(wider.asked[t], m) /\ wider.asked[t] \in Seq(Question)
          <6>1. wider.asked \in [Targets -> Seq(Question)] /\ t \in Targets
            BY <1>1, RegistryIs
          <6> HIDE DEF t, m, connecting
          <6> QED
            BY <3>4, <6>1
        <5> HIDE DEF m, connecting
        <5>2. Len(wider.asked[t]) + 1 \in DOMAIN connecting.asked[t]
              /\ connecting.asked[t][Len(wider.asked[t]) + 1] = m
          <6> DEFINE line == wider.asked[t]
          <6> HIDE DEF line
          <6>1. line \in Seq(Question) /\ connecting.asked[t] = Append(line, m)
            BY <5>1 DEF line
          <6>2. Len(line) + 1 \in DOMAIN connecting.asked[t] /\ connecting.asked[t][Len(line) + 1] = m
            BY <3>3, <6>1, LongerLine
          <6> QED
            BY <6>2 DEF line
        <5> QED
          BY <4>2, <5>2
      <4> HIDE DEF m, q, n, t, reg
      <4>4. IdsAreItsOwn(connecting, s, editor) /\ ConnectComesFirst(connecting, s)
        BY <1>1, <3>1, <3>3, <4>1, <4>2, AskKeepsIds, AskKeepsOrder
      <4> HIDE DEF connecting
      <4> QED
        BY <1>1, <3>3, <3>4, <4>2, <4>3, <4>4, AskKeepsIds, AskKeepsOrder
    <3>8. ASSUME NEW s, NEW question, s.connect \in 0 .. n, s.query \in 0 .. n
          PROVE  /\ IdsAreItsOwn(reg, s, question) => IdsAreItsOwn(new, s, question)
                 /\ ConnectComesFirst(reg, s) => ConnectComesFirst(new, s)
      <4>1. m.id # s.connect /\ m.id # s.query /\ q.id # s.connect /\ q.id # s.query
        BY <1>1, <3>8
      <4>2. /\ IdsAreItsOwn(reg, s, question) => IdsAreItsOwn(wider, s, question)
            /\ ConnectComesFirst(reg, s) => ConnectComesFirst(wider, s)
        BY <1>1, <3>1, SameLines
      <4> HIDE DEF m, q, n, t, reg
      <4>3. /\ IdsAreItsOwn(wider, s, question) => IdsAreItsOwn(connecting, s, question)
            /\ ConnectComesFirst(wider, s) => ConnectComesFirst(connecting, s)
        BY <1>1, <3>1, <3>3, <4>1, AskKeepsIds, AskKeepsOrder
      <4> HIDE DEF connecting
      <4>4. /\ IdsAreItsOwn(connecting, s, question) => IdsAreItsOwn(new, s, question)
            /\ ConnectComesFirst(connecting, s) => ConnectComesFirst(new, s)
        BY <1>1, <3>3, <3>4, <4>1, AskKeepsIds, AskKeepsOrder
      <4> QED
        BY <4>2, <4>3, <4>4
    <3>9. n + 2 \in Nat /\ n + 2 > n /\ n + 1 \in 0 .. (n + 2)
      BY <1>1
    <3> HIDE DEF new, connecting, m, q, n, reg
    <3>10. Works(n + 1, n + 2, new)
      BY <3>5, <3>6, <3>7, <3>8, <3>9
    <3> QED
      BY <3>2, <3>10
  <2>2. CASE IsOpen(reg, t)
    <3> DEFINE q == [id |-> n + 1, op |-> "Query", question |-> editor]
               new == Ask(reg, t, q)
    <3>1. Dispatch(d, w) = Ends(0, n + 1, new)
      BY <1>1, <2>2 DEF Dispatch
    <3>2. q \in Question /\ q.id = n + 1 /\ q.op = "Query" /\ q.question = editor
      BY <1>1 DEF Question
    <3> HIDE DEF q
    <3>3. new \in Registries
      BY <1>1, <3>2, AskIs
    <3>4. n + 1 \in Nat /\ n + 1 > n /\ 0 \in 0 .. (n + 1) /\ n <= n + 1 /\ q.id \in 1 .. (n + 1)
      BY <1>1, <3>2
    <3>5. IdsAreGiven(new, n + 1)
      <4> HIDE DEF n, t, reg
      <4> QED
        BY <1>1, <2>2, <3>2, <3>4, AskKeepsBound DEF IsOpen
    <3>6. ASSUME NEW s, s.connect = 0, s.query = n + 1
          PROVE  IdsAreItsOwn(new, s, editor) /\ ConnectComesFirst(new, s)
      <4>1. IdsAreItsOwn(reg, s, editor)
        BY <1>1, <3>6, FreshIds
      <4>2. q.id # s.connect
        BY <1>1, <3>2, <3>6
      <4>3. IdsAreItsOwn(new, s, editor)
        BY <1>1, <3>2, <4>1, <4>2, AskKeepsIds
      <4> QED
        BY <3>6, <4>3 DEF ConnectComesFirst
    <3>7. ASSUME NEW s, NEW question, s.connect \in 0 .. n, s.query \in 0 .. n
          PROVE  /\ IdsAreItsOwn(reg, s, question) => IdsAreItsOwn(new, s, question)
                 /\ ConnectComesFirst(reg, s) => ConnectComesFirst(new, s)
      <4>1. q.id # s.connect /\ q.id # s.query
        BY <1>1, <3>2, <3>7
      <4> QED
        BY <1>1, <3>2, <4>1, AskKeepsIds, AskKeepsOrder
    <3> HIDE DEF new, n, reg
    <3>8. Works(0, n + 1, new)
      BY <3>3, <3>4, <3>5, <3>6, <3>7
    <3> QED
      BY <3>1, <3>8
  <2> QED
    BY <2>1, <2>2
<1>3. PICK connect, query, new : Dispatch(d, w) = Ends(connect, query, new) /\ Works(connect, query, new)
  BY <1>2
<1> DEFINE asked == [target |-> s0.target, connect |-> connect, query |-> query,
                     state |-> "Running", result |-> Nobody, info |-> s0.info]
           D == Dispatch(d, w)
<1>4. D = [registry |-> new, ids |-> query, side |-> [d.side EXCEPT ![w] = asked]]
  BY <1>1, <1>3 DEF Dispatching, SideType
<1>5. connect \in Nat /\ query \in Nat /\ connect <= query
  BY <1>1, <1>3
<1>6. asked \in SideType
  BY <1>1, <1>5 DEF SideType, SideStates
<1>7. asked.connect = connect /\ asked.query = query /\ asked.state = "Running"
  OBVIOUS
<1>8. d.side \in [Sides -> SideType]
  BY DEF Dispatching
<1> HIDE DEF asked
<1>9. /\ [d.side EXCEPT ![w] = asked] \in [Sides -> SideType]
      /\ [d.side EXCEPT ![w] = asked][w] = asked
      /\ \A v \in Sides \ {w} : [d.side EXCEPT ![w] = asked][v] = d.side[v]
  BY <1>6, <1>8
<1> HIDE DEF D
<1>10. /\ D.registry = new /\ D.ids = query /\ D.side[w] = asked
       /\ \A v \in Sides \ {w} : D.side[v] = d.side[v]
  BY <1>4, <1>9
<1>11. D \in Dispatching
  BY <1>3, <1>4, <1>9 DEF Dispatching
<1>12. /\ D.ids > d.ids /\ IdsAreGiven(D.registry, D.ids) /\ D.side[w].state = "Running"
       /\ D.side[w].connect <= D.ids /\ D.side[w].query <= D.ids
  BY <1>1, <1>3, <1>5, <1>7, <1>10
<1> HIDE DEF n, reg
<1>13. IdsAreItsOwn(D.registry, D.side[w], editor) /\ ConnectComesFirst(D.registry, D.side[w])
  BY <1>3, <1>7, <1>10
<1>14. \A s, question : s.connect \in 0 .. n /\ s.query \in 0 .. n =>
         /\ IdsAreItsOwn(reg, s, question) => IdsAreItsOwn(D.registry, s, question)
         /\ ConnectComesFirst(reg, s) => ConnectComesFirst(D.registry, s)
  BY <1>3, <1>10
<1> QED
  BY <1>10, <1>11, <1>12, <1>13, <1>14, Zenon DEF D, n, reg

-----------------------------------------------------------------------------
(*                           Taking the answers                            *)

LEMMA RepliesAreAnswers ==
  ASSUME registry \in Registries, NEW id, NEW reply \in RepliesTo(id)
  PROVE  /\ id # 0 /\ reply.id = id /\ reply \in Reply
         /\ \E t \in Targets : \E i \in DOMAIN registry.answered[t] : reply = registry.answered[t][i]
<1>1. PICK t \in registry.open : \E i \in DOMAIN registry.answered[t] : reply = registry.answered[t][i]
  BY DEF RepliesTo, Arrived
<1>2. t \in Targets /\ registry.answered[t] \in Seq(Reply)
  BY RegistryIs
<1>3. PICK i \in DOMAIN registry.answered[t] : reply = registry.answered[t][i]
  BY <1>1
<1>4. reply \in Reply
  BY <1>2, <1>3
<1> QED
  BY <1>2, <1>3, <1>4 DEF RepliesTo

LEMMA AnswersAreReplies ==
  ASSUME registry \in Registries, NEW n, IdsAreGiven(registry, n), NEW id, id # 0, NEW t \in Targets,
         Told(registry, t, id)
  PROVE  RepliesTo(id) # {}
<1>1. PICK i \in DOMAIN registry.answered[t] : registry.answered[t][i].id = id
  BY DEF Told
<1>2. t \in registry.open
  BY <1>1 DEF IdsAreGiven
<1>4. registry.answered[t][i] \in Arrived
  BY <1>1, <1>2 DEF Arrived
<1> QED
  BY <1>1, <1>4 DEF RepliesTo

LEMMA SideIs ==
  ASSUME NEW s \in SideType
  PROVE  /\ s = [target |-> s.target, connect |-> s.connect, query |-> s.query, state |-> s.state,
                 result |-> s.result, info |-> s.info]
         /\ s.target \in Targets \ AltTargets /\ s.connect \in Nat /\ s.query \in Nat
         /\ s.state \in SideStates /\ s.result \in Result \cup {Nobody} /\ s.info \in Targets \cup {Nobody}
BY DEF SideType

(* What compare_apply() sets of a side.                                    *)
LEMMA SideSet ==
  ASSUME NEW s \in SideType, NEW info, NEW result
  PROVE  /\ [s EXCEPT !.connect = 0, !.info = info] =
              [target |-> s.target, connect |-> 0, query |-> s.query, state |-> s.state,
               result |-> s.result, info |-> info]
         /\ [s EXCEPT !.query = 0, !.state = "Done", !.result = result] =
              [target |-> s.target, connect |-> s.connect, query |-> 0, state |-> "Done",
               result |-> result, info |-> s.info]
         /\ Failed(s) = [target |-> s.target, connect |-> 0, query |-> 0, state |-> "Failed",
                         result |-> Nobody, info |-> s.info]
<1> DEFINE t == s.target
           c == s.connect
           q == s.query
           st == s.state
           r == s.result
           f == s.info
<1>1. s = [target |-> t, connect |-> c, query |-> q, state |-> st, result |-> r, info |-> f]
  BY SideIs
<1> HIDE DEF t, c, q, st, r, f
<1> DEFINE one == [s EXCEPT !.connect = 0]
<1>2. one = [target |-> t, connect |-> 0, query |-> q, state |-> st, result |-> r, info |-> f]
  BY <1>1
<1>3. [s EXCEPT !.connect = 0, !.info = info] = [one EXCEPT !.info = info]
  OBVIOUS
<1>4. [s EXCEPT !.connect = 0, !.query = 0, !.state = "Failed", !.result = Nobody] =
        [[[one EXCEPT !.query = 0] EXCEPT !.state = "Failed"] EXCEPT !.result = Nobody]
  OBVIOUS
<1> HIDE DEF one
<1>5. [one EXCEPT !.info = info] =
        [target |-> t, connect |-> 0, query |-> q, state |-> st, result |-> r, info |-> info]
  BY <1>2
<1> DEFINE two == [one EXCEPT !.query = 0]
<1>6. two = [target |-> t, connect |-> 0, query |-> 0, state |-> st, result |-> r, info |-> f]
  BY <1>2
<1> HIDE DEF two
<1> DEFINE three == [two EXCEPT !.state = "Failed"]
<1>7. three = [target |-> t, connect |-> 0, query |-> 0, state |-> "Failed", result |-> r, info |-> f]
  BY <1>6
<1> HIDE DEF three
<1>8. [three EXCEPT !.result = Nobody] =
        [target |-> t, connect |-> 0, query |-> 0, state |-> "Failed", result |-> Nobody, info |-> f]
  BY <1>7
<1> DEFINE asked == [s EXCEPT !.query = 0]
           done == [asked EXCEPT !.state = "Done"]
<1>9. [s EXCEPT !.query = 0, !.state = "Done", !.result = result] = [done EXCEPT !.result = result]
  OBVIOUS
<1>10. asked = [target |-> t, connect |-> c, query |-> 0, state |-> st, result |-> r, info |-> f]
  BY <1>1
<1> HIDE DEF asked
<1>11. done = [target |-> t, connect |-> c, query |-> 0, state |-> "Done", result |-> r, info |-> f]
  BY <1>10
<1> HIDE DEF done
<1>12. [done EXCEPT !.result = result] =
         [target |-> t, connect |-> c, query |-> 0, state |-> "Done", result |-> result, info |-> f]
  BY <1>11
<1>13. [s EXCEPT !.connect = 0, !.query = 0, !.state = "Failed", !.result = Nobody] =
         [three EXCEPT !.result = Nobody]
  BY <1>4 DEF three, two
<1> QED
  BY <1>3, <1>5, <1>8, <1>9, <1>12, <1>13 DEF t, c, q, st, r, f, Failed

Took(s, now) ==
  /\ now \in SideType /\ now.target = s.target
  /\ now.connect \in {0, s.connect} /\ now.query \in {0, s.query}
  /\ now.query = s.query => now.state = s.state /\ now.result = s.result
  /\ now.state = "Done" => \/ s.state = "Done" /\ now.result = s.result
                           \/ now.result \in Result /\ now.result.question = ran

LEMMA ConnectTaken ==
  ASSUME registry \in Registries, NEW s \in SideType, IdsAreItsOwn(registry, s, ran)
  PROVE  /\ AfterConnect(s) \in SideType
         /\ RepliesTo(s.connect) = {} => AfterConnect(s) = s
         /\ RepliesTo(s.connect) # {} =>
              \/ AfterConnect(s) = Failed(s)
              \/ /\ AfterConnect(s).connect = 0
                 /\ AfterConnect(s).target = s.target /\ AfterConnect(s).query = s.query
                 /\ AfterConnect(s).state = s.state /\ AfterConnect(s).result = s.result
<1>1. CASE RepliesTo(s.connect) = {}
  BY <1>1 DEF AfterConnect
<1>2. CASE RepliesTo(s.connect) # {}
  <2> DEFINE reply == CHOOSE r \in RepliesTo(s.connect) : TRUE
  <2>1. reply \in RepliesTo(s.connect)
    BY <1>2
  <2>2. AfterConnect(s) = IF reply.op = "Error" THEN Failed(s)
                          ELSE [s EXCEPT !.connect = 0, !.info = reply.host]
    BY <1>2 DEF AfterConnect
  <2> HIDE DEF reply
  <2>3. \E t \in Targets : \E i \in DOMAIN registry.answered[t] : reply = registry.answered[t][i]
    BY <2>1, RepliesAreAnswers
  <2>4. reply.op \in {"HostConnected", "Error"} /\ reply \in Reply
    BY <2>1, <2>3, RepliesAreAnswers DEF IdsAreItsOwn
  <2>5. reply.op = "HostConnected" => reply.host \in Targets
    BY <2>4 DEF Reply
  <2>6. Failed(s) \in SideType
    BY DEF Failed, SideType, SideStates
  <2>7. [s EXCEPT !.connect = 0, !.info = reply.host] =
          [target |-> s.target, connect |-> 0, query |-> s.query, state |-> s.state,
           result |-> s.result, info |-> reply.host]
    BY SideSet
  <2>8. reply.op = "HostConnected" =>
          [target |-> s.target, connect |-> 0, query |-> s.query, state |-> s.state,
             result |-> s.result, info |-> reply.host] \in SideType
    BY <2>5 DEF SideType
  <2> QED
    BY <1>2, <2>2, <2>4, <2>6, <2>7, <2>8
<1> QED
  BY <1>1, <1>2

LEMMA QueryTaken ==
  ASSUME registry \in Registries, NEW s \in SideType, IdsAreItsOwn(registry, s, ran)
  PROVE  Took(s, AfterQuery(s)) /\ AfterQuery(s).connect \in {0, s.connect}
         /\ (RepliesTo(s.query) = {} => AfterQuery(s) = s)
         /\ (RepliesTo(s.query) # {} => s.query # 0 /\ AfterQuery(s).query = 0)
<1>1. CASE RepliesTo(s.query) = {}
  BY <1>1 DEF AfterQuery, Took
<1>2. CASE RepliesTo(s.query) # {}
  <2> DEFINE reply == CHOOSE r \in RepliesTo(s.query) : TRUE
  <2>1. reply \in RepliesTo(s.query)
    BY <1>2
  <2>2. AfterQuery(s) = IF reply.op = "Error" THEN Failed(s)
                        ELSE [s EXCEPT !.query = 0, !.state = "Done", !.result = reply.result]
    BY <1>2 DEF AfterQuery
  <2> HIDE DEF reply
  <2>3. \E t \in Targets : \E i \in DOMAIN registry.answered[t] : reply = registry.answered[t][i]
    BY <2>1, RepliesAreAnswers
  <2>4. /\ reply.op = "Error" \/ (reply.op = "QueryResult" /\ reply.result.question = ran)
        /\ reply \in Reply /\ s.query # 0
    BY <2>1, <2>3, RepliesAreAnswers DEF IdsAreItsOwn
  <2>5. reply.op = "QueryResult" => reply.result \in Result
    BY <2>4 DEF Reply
  <2>6. CASE reply.op = "Error"
    <3>1. AfterQuery(s) = [target |-> s.target, connect |-> 0, query |-> 0, state |-> "Failed",
                           result |-> Nobody, info |-> s.info]
      BY <2>2, <2>6, SideSet
    <3> QED
      BY <1>2, <2>4, <3>1, SideIs DEF SideType, SideStates, Took
  <2>7. CASE reply.op = "QueryResult"
    <3>1. AfterQuery(s) = [target |-> s.target, connect |-> s.connect, query |-> 0, state |-> "Done",
                           result |-> reply.result, info |-> s.info]
      BY <2>2, <2>7, SideSet
    <3> QED
      BY <1>2, <2>4, <2>5, <2>7, <3>1, SideIs DEF SideType, SideStates, Took
  <2> QED
    BY <2>4, <2>6, <2>7
<1> QED
  BY <1>1, <1>2

LEMMA FewerIds ==
  ASSUME NEW reg \in Registries, NEW n \in Nat, IdsAreGiven(reg, n), NEW s, NEW r, NEW question,
         r.connect \in {0, s.connect}, r.query \in {0, s.query}, IdsAreItsOwn(reg, s, question)
  PROVE  IdsAreItsOwn(reg, r, question)
<1>1. \A t \in Targets : \A i \in DOMAIN reg.asked[t] :
        /\ reg.asked[t][i].id = r.connect => reg.asked[t][i].id = s.connect
        /\ reg.asked[t][i].id = r.query => reg.asked[t][i].id = s.query
  BY DEF IdsAreGiven
<1>2. \A t \in Targets : \A i \in DOMAIN reg.answered[t] :
        /\ reg.answered[t][i].id = r.connect => reg.answered[t][i].id = s.connect
        /\ reg.answered[t][i].id = r.query => reg.answered[t][i].id = s.query
  BY DEF IdsAreGiven
<1>3. ASSUME NEW t \in Targets, NEW i \in DOMAIN reg.asked[t]
      PROVE  /\ reg.asked[t][i].id = r.connect => reg.asked[t][i].op = "SetHost"
             /\ reg.asked[t][i].id = r.query =>
                  reg.asked[t][i].op = "Query" /\ reg.asked[t][i].question = question
  BY <1>1 DEF IdsAreItsOwn
<1>4. ASSUME NEW t \in Targets, NEW i \in DOMAIN reg.answered[t]
      PROVE  /\ reg.answered[t][i].id = r.connect => reg.answered[t][i].op \in {"HostConnected", "Error"}
             /\ reg.answered[t][i].id = r.query =>
                  \/ reg.answered[t][i].op = "Error"
                  \/ /\ reg.answered[t][i].op = "QueryResult"
                     /\ reg.answered[t][i].result.question = question
  BY <1>2 DEF IdsAreItsOwn
<1> QED
  BY <1>3, <1>4, Zenon DEF IdsAreItsOwn

LEMMA SideTaken ==
  ASSUME registry \in Registries, ids \in Nat, IdsAreGiven(registry, ids), NEW s \in SideType,
         IdsAreItsOwn(registry, s, ran), ConnectComesFirst(registry, s)
  PROVE  /\ Took(s, AfterQuery(AfterConnect(s)))
         /\ AfterQuery(AfterConnect(s)).connect # 0 =>
              AfterQuery(AfterConnect(s)) = s /\ \A t \in Targets : ~Told(registry, t, s.connect)
<1>0. s.connect \in Nat /\ s.query \in Nat
  BY DEF SideType
<1>1. CASE RepliesTo(s.connect) = {}
  <2>1. AfterConnect(s) = s
    BY <1>1, ConnectTaken
  <2>2. s.connect # 0 => \A t \in Targets : ~Told(registry, t, s.connect)
    BY <1>1, AnswersAreReplies
  <2>3. s.connect # 0 => RepliesTo(s.query) = {}
    <3> SUFFICES ASSUME s.connect # 0, NEW reply \in RepliesTo(s.query) PROVE FALSE
      OBVIOUS
    <3>1. PICK t \in Targets : \E i \in DOMAIN registry.answered[t] :
            reply = registry.answered[t][i] /\ reply.id = s.query
      BY RepliesAreAnswers
    <3>2. Told(registry, t, s.query)
      BY <3>1 DEF Told
    <3> QED
      BY <2>2, <3>2 DEF ConnectComesFirst
  <2>4. Took(s, AfterQuery(s)) /\ AfterQuery(s).connect \in {0, s.connect}
    BY QueryTaken
  <2>5. s.connect # 0 => AfterQuery(s) = s
    BY <2>3, QueryTaken
  <2> QED
    BY <2>1, <2>2, <2>4, <2>5
<1>2. CASE RepliesTo(s.connect) # {}
  <2> DEFINE r == AfterConnect(s)
  <2>1. PICK reply : reply \in RepliesTo(s.connect)
    BY <1>2
  <2>2. s.connect # 0 /\ s.query # 0
    BY <2>1, RepliesAreAnswers DEF ConnectComesFirst
  <2>3. CASE r = Failed(s)
    <3>1. r = [target |-> s.target, connect |-> 0, query |-> 0, state |-> "Failed",
               result |-> Nobody, info |-> s.info]
      BY <2>3, SideSet
    <3>2. RepliesTo(r.query) = {}
      BY <3>1 DEF RepliesTo
    <3>3. AfterQuery(r) = r
      BY <3>2 DEF AfterQuery
    <3>4. Took(s, r)
      BY <2>2, <3>1 DEF Took, SideType, SideStates
    <3> QED
      BY <3>1, <3>3, <3>4
  <2>4. CASE /\ r.connect = 0 /\ r.target = s.target /\ r.query = s.query
             /\ r.state = s.state /\ r.result = s.result
    <3>1. r \in SideType
      BY ConnectTaken
    <3>2. IdsAreItsOwn(registry, r, ran)
      <4> HIDE DEF r
      <4> QED
        BY <2>4, FewerIds
    <3>3. Took(r, AfterQuery(r)) /\ AfterQuery(r).connect \in {0, r.connect}
      BY <3>1, <3>2, QueryTaken
    <3>4. Took(s, AfterQuery(r))
      BY <2>4, <3>3 DEF Took
    <3> QED
      BY <2>4, <3>3, <3>4
  <2> QED
    BY <1>2, <2>3, <2>4, ConnectTaken
<1> QED
  BY <1>1, <1>2

LEMMA EmptiedKeeps ==
  ASSUME NEW reg \in Registries, NEW n
  PROVE  /\ IdsAreGiven(reg, n) => IdsAreGiven(Emptied(reg), n)
         /\ \A s, question : IdsAreItsOwn(reg, s, question) => IdsAreItsOwn(Emptied(reg), s, question)
         /\ \A s : ConnectComesFirst(reg, s) /\ (\A t \in Targets : ~Told(reg, t, s.connect)) =>
              ConnectComesFirst(Emptied(reg), s)
<1> DEFINE new == Emptied(reg)
<1>1. /\ new.open = reg.open /\ new.asked = reg.asked
      /\ \A t \in Targets : new.answered[t] = <<>> /\ DOMAIN new.answered[t] = {}
  <2>1. DOMAIN <<>> = {}
    OBVIOUS
  <2>2. /\ new.open = reg.open /\ new.asked = reg.asked
        /\ new.answered = [t \in Targets |-> <<>>]
    BY EmptiedIs
  <2> QED
    BY <2>1, <2>2, Zenon
<1> HIDE DEF new
<1>2. IdsAreGiven(reg, n) => IdsAreGiven(new, n)
  <2> SUFFICES ASSUME IdsAreGiven(reg, n), NEW t \in Targets
               PROVE  /\ t \notin new.open => new.asked[t] = <<>> /\ new.answered[t] = <<>>
                      /\ \A i \in DOMAIN new.asked[t] : new.asked[t][i].id \in 1 .. n
                      /\ \A i \in DOMAIN new.answered[t] : new.answered[t][i].id \in 1 .. n
    BY Zenon DEF IdsAreGiven
  <2> QED
    BY <1>1, Zenon DEF IdsAreGiven
<1>3. ASSUME NEW s, NEW question, IdsAreItsOwn(reg, s, question) PROVE IdsAreItsOwn(new, s, question)
  <2>1. \A t \in Targets : \A i \in DOMAIN new.asked[t] :
          /\ new.asked[t][i].id = s.connect => new.asked[t][i].op = "SetHost"
          /\ new.asked[t][i].id = s.query =>
               new.asked[t][i].op = "Query" /\ new.asked[t][i].question = question
    BY <1>1, <1>3 DEF IdsAreItsOwn
  <2>2. \A t \in Targets : DOMAIN new.answered[t] = {}
    BY <1>1, Zenon
  <2> QED
    BY <2>1, <2>2, Zenon DEF IdsAreItsOwn
<1>4. ASSUME NEW s, ConnectComesFirst(reg, s), \A t \in Targets : ~Told(reg, t, s.connect)
      PROVE  ConnectComesFirst(new, s)
  <2>1. \A t \in Targets : ~Told(new, t, s.query)
    BY <1>1, Zenon DEF Told
  <2> QED
    BY <1>1, <1>4, <2>1 DEF ConnectComesFirst
<1> QED
  BY <1>2, <1>3, <1>4 DEF new

-----------------------------------------------------------------------------
(*                          The inductive invariant                        *)

LEMMA InitEstablishes == CompareInit => CompareInv
<1> SUFFICES ASSUME CompareInit PROVE CompareInv
  OBVIOUS
<1>1. registry \in Registries
  BY DEF CompareInit, NewRegistry, Registries
<1>2. /\ \A t \in Targets : registry.asked[t] = <<>> /\ registry.answered[t] = <<>>
      /\ DOMAIN <<>> = {}
  BY DEF CompareInit, NewRegistry
<1>3. \A w \in Sides : side[w] = NewSide(Local)
  BY DEF CompareInit
<1>4. NewSide(Local) \in SideType /\ side \in [Sides -> SideType]
  <2>1. NewSide(Local) \in SideType
    BY CompareAssumption DEF NewSide, SideType, SideStates
  <2> QED
    BY <2>1 DEF CompareInit
<1>5. CompareTypeOK
  BY <1>1, <1>3, <1>4 DEF CompareInit, CompareTypeOK, NoView, NewSide
<1>6. ViewIsOfTheRun /\ ~MayBuild
  BY <1>3 DEF CompareInit, ViewIsOfTheRun, MayBuild, BothDone, NoView, NewSide, Sides
<1>7. IdsAreGiven(registry, ids)
  BY <1>2, Zenon DEF IdsAreGiven
<1>8. ASSUME NEW w \in Sides
      PROVE  /\ side[w].connect <= ids /\ side[w].query <= ids
             /\ IdsAreItsOwn(registry, side[w], ran) /\ ConnectComesFirst(registry, side[w])
  <2>1. side[w].connect = 0 /\ side[w].query = 0 /\ ids = 0
    BY <1>3 DEF NewSide, CompareInit
  <2>2. IdsAreItsOwn(registry, side[w], ran)
    BY <1>2, Zenon DEF IdsAreItsOwn
  <2>3. ConnectComesFirst(registry, side[w])
    BY <2>1 DEF ConnectComesFirst
  <2> QED
    BY <2>1, <2>2, <2>3
<1> QED
  BY <1>5, <1>6, <1>7, <1>8, Zenon DEF CompareInv, IdsInv

LEMMA RunKeeps == CompareInv /\ Run => CompareInv'
<1> SUFFICES ASSUME CompareInv, Run PROVE CompareInv'
  OBVIOUS
<1> DEFINE d0 == [registry |-> registry, side |-> side, ids |-> ids]
           d1 == Dispatch(d0, "A")
           d2 == Dispatch(d1, "B")
<1>1. registry' = d2.registry /\ side' = d2.side /\ ids' = d2.ids
  BY DEF Run
<1>2. d0 \in Dispatching /\ editor \in Questions /\ IdsAreGiven(d0.registry, d0.ids)
  BY DEF CompareInv, CompareTypeOK, IdsInv, Dispatching
<1>3. "A" \in Sides /\ "B" \in Sides /\ "A" # "B"
  BY DEF Sides
<1> HIDE DEF d0
<1>4. /\ d1 \in Dispatching /\ IdsAreGiven(d1.registry, d1.ids)
      /\ d1.side["A"].state = "Running" /\ d1.side["A"].connect <= d1.ids /\ d1.side["A"].query <= d1.ids
      /\ IdsAreItsOwn(d1.registry, d1.side["A"], editor)
      /\ ConnectComesFirst(d1.registry, d1.side["A"])
  BY <1>2, <1>3, DispatchKeeps, Zenon
<1> HIDE DEF d1
<1>5. /\ d2 \in Dispatching /\ d2.ids > d1.ids /\ IdsAreGiven(d2.registry, d2.ids)
      /\ d2.side["B"].state = "Running" /\ d2.side["B"].connect <= d2.ids /\ d2.side["B"].query <= d2.ids
      /\ IdsAreItsOwn(d2.registry, d2.side["B"], editor)
      /\ ConnectComesFirst(d2.registry, d2.side["B"])
      /\ d2.side["A"] = d1.side["A"]
      /\ \A s, question : s.connect \in 0 .. d1.ids /\ s.query \in 0 .. d1.ids =>
           /\ IdsAreItsOwn(d1.registry, s, question) => IdsAreItsOwn(d2.registry, s, question)
           /\ ConnectComesFirst(d1.registry, s) => ConnectComesFirst(d2.registry, s)
  <2>1. \A v \in Sides \ {"B"} : d2.side[v] = d1.side[v]
    BY <1>2, <1>3, <1>4, DispatchKeeps, Zenon
  <2>2. d2.side["A"] = d1.side["A"]
    BY <1>3, <2>1
  <2> QED
    BY <1>2, <1>3, <1>4, <2>2, DispatchKeeps, Zenon
<1> HIDE DEF d2
<1>6. /\ d1.ids \in Nat /\ d2.ids \in Nat /\ d1.side \in [Sides -> SideType]
      /\ d2.registry \in Registries /\ d2.side \in [Sides -> SideType]
  BY <1>4, <1>5 DEF Dispatching
<1>7. d1.side["A"].connect \in 0 .. d1.ids /\ d1.side["A"].query \in 0 .. d1.ids
  <2>1. d1.side["A"].connect \in Nat /\ d1.side["A"].query \in Nat
    BY <1>3, <1>6 DEF SideType
  <2> QED
    BY <1>4, <1>6, <2>1
<1>8. /\ IdsAreItsOwn(d2.registry, d2.side["A"], editor) /\ ConnectComesFirst(d2.registry, d2.side["A"])
      /\ d2.side["A"].connect <= d2.ids /\ d2.side["A"].query <= d2.ids
      /\ d2.side["A"].state = "Running"
  BY <1>4, <1>5, <1>6, <1>7
<1>9. /\ \A w \in Sides : d2.side[w].state = "Running"
      /\ \A w \in Sides : /\ d2.side[w].connect <= d2.ids /\ d2.side[w].query <= d2.ids
                           /\ IdsAreItsOwn(d2.registry, d2.side[w], editor)
                           /\ ConnectComesFirst(d2.registry, d2.side[w])
  BY <1>5, <1>8 DEF Sides
<1>10. /\ runs' = runs + 1 /\ allowPartial' = 0 /\ overrides' = 0 /\ ran' = editor
       /\ view' = NoView /\ stale' = FALSE /\ UNCHANGED <<editor, picks>>
  BY DEF Run, OverridesOnRun
<1>11. CompareTypeOK'
  <2>1. runs' \in Nat /\ picks' \in Nat /\ editor' \in Questions
    BY <1>10 DEF CompareInv, CompareTypeOK
  <2>2. view'.built \in BOOLEAN /\ stale' \in BOOLEAN
    BY <1>10 DEF NoView
  <2> QED
    BY <1>1, <1>6, <1>9, <2>1, <2>2 DEF CompareTypeOK
<1>12. ViewIsOfTheRun' /\ ~MayBuild'
  BY <1>1, <1>9, <1>10 DEF ViewIsOfTheRun, MayBuild, BothDone, NoView, Sides
<1>13. IdsInv'
  BY <1>1, <1>5, <1>9, <1>10 DEF IdsInv
<1> QED
  BY <1>11, <1>12, <1>13 DEF CompareInv

(* What no action but Run and PollReplies does to the two sides.           *)
LEMMA SameSides ==
  ASSUME IdsInv, UNCHANGED <<registry, side, ran, ids>>
  PROVE  IdsInv'
BY DEF IdsInv

(* A worker's answer fits the question it answers, and nothing on screen   *)
(* changes.                                                                *)
LEMMA ServeKeeps ==
  ASSUME CompareInv, NEW t \in Targets, Serve(t)
  PROVE  CompareInv'
<1> DEFINE request == registry.asked[t][1]
<1>1. registry \in Registries /\ registry.asked[t] # <<>> /\ request \in Question
  <2>1. registry \in Registries /\ registry.asked[t] # <<>>
    BY DEF CompareInv, CompareTypeOK, Serve
  <2>2. registry.asked[t] \in Seq(Question)
    BY <2>1 DEF Registries
  <2> QED
    BY <2>1, <2>2
<1>2. \E m \in Reply : Fits(request, m) /\ registry' = AnswerOldest(registry, t, m)
  <2>1. CASE /\ request.op = "SetHost"
             /\ registry' = AnswerOldest(registry, t, [id |-> request.id, op |-> "HostConnected", host |-> t])
    <3>1. [id |-> request.id, op |-> "HostConnected", host |-> t] \in Reply
      BY <1>1 DEF Question, Reply
    <3> QED
      BY <2>1, <3>1 DEF Fits
  <2>2. CASE /\ request.op = "Query"
             /\ \E whole \in BOOLEAN :
                  registry' = AnswerOldest(registry, t,
                    [id |-> request.id, op |-> "QueryResult",
                     result |-> [host |-> t, question |-> request.question, whole |-> whole]])
    <3>1. PICK whole \in BOOLEAN :
            registry' = AnswerOldest(registry, t,
                    [id |-> request.id, op |-> "QueryResult",
                     result |-> [host |-> t, question |-> request.question, whole |-> whole]])
      BY <2>2
    <3>2. request.id \in Nat /\ request.question \in Questions
      BY <1>1, <2>2 DEF Question
    <3>3. [host |-> t, question |-> request.question, whole |-> whole] \in Result
      BY <3>2 DEF Result
    <3>4. [id |-> request.id, op |-> "QueryResult",
           result |-> [host |-> t, question |-> request.question, whole |-> whole]] \in Reply
      BY <3>2, <3>3 DEF Reply
    <3> QED
      BY <2>2, <3>1, <3>4 DEF Fits
  <2>3. CASE registry' = AnswerOldest(registry, t, [id |-> request.id, op |-> "Error"])
    <3>1. [id |-> request.id, op |-> "Error"] \in Reply
      BY <1>1 DEF Question, Reply
    <3> QED
      BY <2>3, <3>1 DEF Fits
  <2> QED
    BY <2>1, <2>2, <2>3 DEF Serve
<1>3. PICK m \in Reply : Fits(request, m) /\ registry' = AnswerOldest(registry, t, m)
  BY <1>2
<1>4. UNCHANGED <<side, editor, ran, overrides, allowPartial, view, stale, ids, runs, picks>>
  BY DEF Serve
<1>5. registry' \in Registries
  BY <1>1, <1>3, AnswerIs
<1>6. IdsInv'
  <2>1. /\ \A n : IdsAreGiven(registry, n) => IdsAreGiven(registry', n)
        /\ \A s, question : IdsAreItsOwn(registry, s, question) => IdsAreItsOwn(registry', s, question)
        /\ \A s : ConnectComesFirst(registry, s) => ConnectComesFirst(registry', s)
    BY <1>1, <1>3, AnswerKeeps
  <2> QED
    BY <1>4, <2>1 DEF CompareInv, IdsInv
<1>7. CompareTypeOK'
  BY <1>4, <1>5 DEF CompareInv, CompareTypeOK
<1>8. ViewIsOfTheRun'
  BY <1>4 DEF CompareInv, ViewIsOfTheRun, Drawn
<1>9. (Drawn /\ MayBuild => view.built)'
  BY <1>4 DEF CompareInv, MayBuild, BothDone, Whole, Drawn
<1> QED
  BY <1>6, <1>7, <1>8, <1>9 DEF CompareInv

(* A side that takes no reply to its query keeps what it shows; one that   *)
(* does makes the view stale.                                              *)
LEMMA PollKeeps == CompareInv /\ PollReplies => CompareInv'
<1> SUFFICES ASSUME CompareInv, PollReplies PROVE CompareInv'
  OBVIOUS
<1>1. /\ side' = [w \in Sides |-> AfterQuery(AfterConnect(side[w]))]
      /\ stale' = (stale \/ \E w \in Sides : StaleAfter(side[w], side'[w]))
      /\ registry' = Emptied(registry)
      /\ UNCHANGED <<editor, ran, overrides, allowPartial, view, ids, runs, picks>>
  BY DEF PollReplies
<1>2. /\ registry \in Registries /\ ids \in Nat /\ IdsAreGiven(registry, ids)
      /\ side \in [Sides -> SideType] /\ stale \in BOOLEAN
  BY DEF CompareInv, CompareTypeOK, IdsInv
<1>3. ASSUME NEW w \in Sides
      PROVE  /\ Took(side[w], side'[w])
             /\ side'[w].connect # 0 =>
                  side'[w] = side[w] /\ \A t \in Targets : ~Told(registry, t, side[w].connect)
  <2>1. side[w] \in SideType /\ IdsAreItsOwn(registry, side[w], ran) /\ ConnectComesFirst(registry, side[w])
    BY <1>2 DEF CompareInv, IdsInv
  <2>2. side'[w] = AfterQuery(AfterConnect(side[w]))
    BY <1>1
  <2> QED
    BY <1>2, <2>1, <2>2, SideTaken
<1>4. \A w \in Sides : side'[w] \in SideType
  BY <1>3 DEF Took
<1>5. side' \in [Sides -> SideType] /\ registry' \in Registries
  BY <1>1, <1>2, <1>4, EmptiedIs
<1>6. \A w \in Sides : side'[w].state = "Done" => side'[w].result \in Result /\ side'[w].result.question = ran
  BY <1>3 DEF Took, CompareInv, CompareTypeOK, ViewIsOfTheRun
<1>7. CompareTypeOK'
  BY <1>1, <1>5, <1>6 DEF CompareInv, CompareTypeOK
<1>8. ~stale' => ~stale /\ \A w \in Sides : side'[w].state = side[w].state /\ side'[w].result = side[w].result
  BY <1>1, <1>2, <1>3 DEF StaleAfter, Took
<1>9. ViewIsOfTheRun'
  BY <1>1, <1>6, <1>8 DEF CompareInv, ViewIsOfTheRun, Drawn, Sides
<1>10. (Drawn /\ MayBuild => view.built)'
  BY <1>1, <1>8 DEF CompareInv, MayBuild, BothDone, Whole, Drawn
<1>11. IdsInv'
  <2>1. IdsAreGiven(registry', ids')
    BY <1>1, <1>2, EmptiedKeeps
  <2>2. ASSUME NEW w \in Sides
        PROVE  /\ side'[w].connect <= ids' /\ side'[w].query <= ids'
               /\ IdsAreItsOwn(registry', side'[w], ran') /\ ConnectComesFirst(registry', side'[w])
    <3>1. /\ side[w].connect <= ids /\ side[w].query <= ids
          /\ IdsAreItsOwn(registry, side[w], ran) /\ ConnectComesFirst(registry, side[w])
      BY DEF CompareInv, IdsInv
    <3>2. side'[w].connect \in {0, side[w].connect} /\ side'[w].query \in {0, side[w].query}
      BY <1>3 DEF Took
    <3>3. IdsAreItsOwn(registry, side'[w], ran)
      BY <1>2, <3>1, <3>2, FewerIds
    <3>4. IdsAreItsOwn(registry', side'[w], ran')
      BY <1>1, <1>2, <3>3, EmptiedKeeps
    <3>5. CASE side'[w].connect = 0
      <4>1. ConnectComesFirst(registry', side'[w])
        BY <3>5 DEF ConnectComesFirst
      <4> QED
        BY <1>1, <1>2, <3>1, <3>2, <3>4, <4>1
    <3>6. CASE side'[w].connect # 0
      <4>1. side'[w] = side[w] /\ \A t \in Targets : ~Told(registry, t, side[w].connect)
        BY <1>3, <3>6
      <4>2. ConnectComesFirst(registry', side'[w])
        BY <1>1, <1>2, <3>1, <4>1, EmptiedKeeps
      <4> QED
        BY <1>1, <3>1, <3>4, <4>1, <4>2
    <3> QED
      BY <3>5, <3>6
  <2> QED
    BY <2>1, <2>2 DEF IdsInv
<1> QED
  BY <1>7, <1>9, <1>10, <1>11 DEF CompareInv

LEMMA RebuildKeeps == CompareInv /\ Rebuild => CompareInv'
<1> SUFFICES ASSUME CompareInv, Rebuild PROVE CompareInv'
  OBVIOUS
<1>1. /\ stale' = FALSE
      /\ UNCHANGED <<registry, side, editor, ran, overrides, allowPartial, ids, runs, picks>>
  BY DEF Rebuild
<1>2. IdsInv'
  BY <1>1, SameSides DEF CompareInv
<1>3. CASE MayBuild
  <2>1. view' = [built |-> TRUE, a |-> side["A"].result, b |-> side["B"].result,
                 sound |-> Whole, overrides |-> overrides]
    BY <1>3 DEF Rebuild
  <2>2. /\ side["A"].result \in Result /\ side["B"].result \in Result
        /\ side["A"].result.question = ran /\ side["B"].result.question = ran
    BY <1>3 DEF MayBuild, BothDone, Sides, CompareInv, CompareTypeOK, ViewIsOfTheRun
  <2>3. Whole <=> side["A"].result.whole /\ side["B"].result.whole
    BY DEF Whole, Sides
  <2>4. view'.built /\ view'.a = side["A"].result /\ view'.b = side["B"].result
        /\ view'.overrides = overrides /\ view'.sound = Whole
    BY <2>1
  <2>5. view'.sound = (view'.a.whole /\ view'.b.whole)
    <3>1. Whole = (side["A"].result.whole /\ side["B"].result.whole)
      BY <2>3
    <3> QED
      BY <2>4, <3>1
  <2>6. view'.sound \/ allowPartial' = runs'
    BY <1>1, <1>3, <2>4 DEF MayBuild, CompareInv, ViewIsOfTheRun
  <2>7. view'.built \in BOOLEAN
    BY <2>1
  <2>8. CompareTypeOK'
    BY <1>1, <2>7 DEF CompareInv, CompareTypeOK
  <2>9. ViewIsOfTheRun'
    BY <1>1, <2>2, <2>4, <2>5, <2>6 DEF CompareInv, ViewIsOfTheRun
  <2> QED
    BY <1>2, <2>4, <2>8, <2>9 DEF CompareInv
<1>4. CASE ~MayBuild
  <2>1. view' = NoView
    BY <1>4 DEF Rebuild
  <2>2. CompareTypeOK' /\ ViewIsOfTheRun'
    BY <1>1, <2>1 DEF CompareInv, CompareTypeOK, ViewIsOfTheRun, NoView
  <2>3. ~MayBuild'
    BY <1>1, <1>4 DEF MayBuild, BothDone, Whole
  <2> QED
    BY <1>2, <2>2, <2>3 DEF CompareInv
<1> QED
  BY <1>3, <1>4

LEMMA PickSet ==
  ASSUME NEW s \in SideType, NEW u
  PROVE  [s EXCEPT !.target = u, !.state = "Idle", !.result = Nobody, !.info = Nobody] =
           [target |-> u, connect |-> s.connect, query |-> s.query, state |-> "Idle",
            result |-> Nobody, info |-> Nobody]
<1> DEFINE t == s.target
           c == s.connect
           q == s.query
           st == s.state
           r == s.result
           f == s.info
<1>1. s = [target |-> t, connect |-> c, query |-> q, state |-> st, result |-> r, info |-> f]
  BY SideIs
<1> HIDE DEF t, c, q, st, r, f
<1> DEFINE one == [s EXCEPT !.target = u]
           two == [one EXCEPT !.state = "Idle"]
           three == [two EXCEPT !.result = Nobody]
<1>2. [s EXCEPT !.target = u, !.state = "Idle", !.result = Nobody, !.info = Nobody] =
        [three EXCEPT !.info = Nobody]
  OBVIOUS
<1>3. one = [target |-> u, connect |-> c, query |-> q, state |-> st, result |-> r, info |-> f]
  BY <1>1
<1> HIDE DEF one
<1>4. two = [target |-> u, connect |-> c, query |-> q, state |-> "Idle", result |-> r, info |-> f]
  BY <1>3
<1> HIDE DEF two
<1>5. three = [target |-> u, connect |-> c, query |-> q, state |-> "Idle", result |-> Nobody, info |-> f]
  BY <1>4
<1> HIDE DEF three
<1>6. [three EXCEPT !.info = Nobody] =
        [target |-> u, connect |-> c, query |-> q, state |-> "Idle", result |-> Nobody, info |-> Nobody]
  BY <1>5
<1> QED
  BY <1>2, <1>6 DEF c, q

(* A side that is picked shows nothing, and its ids stay its own.          *)
LEMMA PickKeeps ==
  ASSUME CompareInv, NEW w \in Sides, NEW t \in Targets, Pick(w, t)
  PROVE  CompareInv'
<1> DEFINE s == side[w]
           picked == [target |-> t, connect |-> s.connect, query |-> s.query, state |-> "Idle",
                      result |-> Nobody, info |-> Nobody]
<1>1. /\ ~stale /\ t \notin AltTargets /\ picks' = picks + 1 /\ view' = NoView
      /\ UNCHANGED <<registry, editor, ran, overrides, allowPartial, stale, ids, runs>>
  BY DEF Pick, Drawn
<1>2. side \in [Sides -> SideType] /\ s \in SideType /\ IdsAreGiven(registry, ids)
      /\ registry \in Registries /\ ids \in Nat
  BY DEF CompareInv, CompareTypeOK, IdsInv
<1>3. side' = [side EXCEPT ![w] = picked]
  <2>1. side' = [side EXCEPT ![w] = [s EXCEPT !.target = t, !.state = "Idle", !.result = Nobody, !.info = Nobody]]
    BY <1>2 DEF Pick
  <2>2. [s EXCEPT !.target = t, !.state = "Idle", !.result = Nobody, !.info = Nobody] = picked
    BY <1>2, PickSet
  <2> QED
    BY <2>1, <2>2, Zenon
<1>4. picked \in SideType /\ picked.connect = s.connect /\ picked.query = s.query /\ picked.state = "Idle"
  BY <1>1, <1>2 DEF SideType, SideStates
<1> HIDE DEF picked
<1>5. /\ side' \in [Sides -> SideType] /\ side'[w] = picked
      /\ \A v \in Sides \ {w} : side'[v] = side[v]
  BY <1>2, <1>3, <1>4
<1>6. CompareTypeOK'
  BY <1>1, <1>4, <1>5 DEF CompareInv, CompareTypeOK, NoView
<1>7. ViewIsOfTheRun'
  BY <1>1, <1>4, <1>5 DEF CompareInv, ViewIsOfTheRun, NoView
<1>8. ~MayBuild'
  BY <1>4, <1>5 DEF MayBuild, BothDone
<1>9. ASSUME NEW v \in Sides
      PROVE  /\ side'[v].connect <= ids' /\ side'[v].query <= ids'
             /\ IdsAreItsOwn(registry', side'[v], ran') /\ ConnectComesFirst(registry', side'[v])
  <2>1. side'[v].connect = side[v].connect /\ side'[v].query = side[v].query
    BY <1>4, <1>5
  <2>2. /\ side[v].connect <= ids /\ side[v].query <= ids
        /\ IdsAreItsOwn(registry, side[v], ran) /\ ConnectComesFirst(registry, side[v])
    BY DEF CompareInv, IdsInv
  <2>3. IdsAreItsOwn(registry, side'[v], ran)
    BY <1>2, <2>1, <2>2, FewerIds
  <2>4. ConnectComesFirst(registry, side'[v])
    BY <2>1, <2>2 DEF ConnectComesFirst
  <2> QED
    BY <1>1, <2>1, <2>2, <2>3, <2>4
<1>10. IdsInv'
  BY <1>1, <1>9 DEF IdsInv, CompareInv
<1> QED
  BY <1>6, <1>7, <1>8, <1>10 DEF CompareInv

LEMMA ClicksKeep ==
  ASSUME CompareInv, \/ AcceptPartial \/ Override \/ \E q \in Questions : EditQuery(q)
                     \/ UNCHANGED compareVars
  PROVE  CompareInv'
<1>1. IdsInv'
  BY SameSides DEF CompareInv, AcceptPartial, Override, EditQuery, compareVars
<1>2. CompareTypeOK'
  BY DEF CompareInv, CompareTypeOK, AcceptPartial, Override, EditQuery, compareVars
<1>3. ViewIsOfTheRun'
  BY DEF CompareInv, CompareTypeOK, ViewIsOfTheRun, Drawn, AcceptPartial, Override, EditQuery, compareVars
<1>4. (Drawn /\ MayBuild => view.built)'
  BY DEF CompareInv, MayBuild, BothDone, Whole, Drawn, AcceptPartial, Override, EditQuery, compareVars
<1> QED
  BY <1>1, <1>2, <1>3, <1>4 DEF CompareInv

-----------------------------------------------------------------------------
(*                                The theorems                             *)

(* Both sides of a comparison and the view built from them stay tied to    *)
(* one run: the ids a side waits for are carried by its own requests and   *)
(* answers alone, and its connect is answered before its query             *)
(* (compare_dispatch and compare_apply).                                   *)
THEOREM ComparisonsAreInOrder == CompareSpec => []CompareInv
<1>1. CompareInv /\ [CompareNext]_compareVars => CompareInv'
  BY RunKeeps, ServeKeeps, PollKeeps, RebuildKeeps, PickKeeps, ClicksKeep DEF CompareNext, Window
<1> QED
  BY <1>1, InitEstablishes, PTL DEF CompareSpec

(* What a comparison on screen shows is two answers to the question that   *)
(* was run, whole or accepted as partial, with keys of that run, and once  *)
(* drawn it is what the sides hold (compare_rebuild).                      *)
THEOREM ComparedIsWhatWasRun == CompareSpec => []ViewIsOfTheRun
<1>1. CompareInv => ViewIsOfTheRun
  BY DEF CompareInv
<1> QED
  BY <1>1, ComparisonsAreInOrder, PTL

(* A view without a table has its reason, and the status bar gives the     *)
(* same one (has_compare_blocker and compare_status).                      *)
THEOREM NoTableWithoutReason == CompareSpec => []MissingTableIsExplained
<1>1. CompareInv => MissingTableIsExplained
  <2> SUFFICES ASSUME CompareInv, Drawn PROVE MissingTableIsExplained
    BY DEF MissingTableIsExplained
  <2>1. \A w \in Sides : side[w].state \in SideStates
    BY DEF CompareInv, CompareTypeOK, SideType
  <2>2. MayBuild => view.built
    BY DEF CompareInv
  <2>3. ~view.built => \E w \in Sides : \/ side[w].state \in {"Idle", "Running", "Failed", "Refused"}
                                       \/ Partial(w)
    <3> SUFFICES ASSUME ~view.built, \A w \in Sides : side[w].state = "Done"
                 PROVE  \E w \in Sides : Partial(w)
      BY <2>1 DEF SideStates
    <3> QED
      BY <2>2 DEF MayBuild, BothDone, Whole, Partial
  <2>4. ASSUME BothDone
        PROVE  CompareStatus = IF Whole THEN "counts"
                               ELSE IF view.built THEN "counts, partial" ELSE "withheld"
    <3>1. ~Running /\ ~\E w \in Sides : side[w].state \in {"Failed", "Refused"}
      BY <2>4 DEF Running, BothDone
    <3>2. CompareStatus = IF view.built THEN IF view.sound THEN "counts" ELSE "counts, partial"
                          ELSE IF \E w \in Sides : Partial(w) THEN "withheld" ELSE "not run"
      BY <3>1 DEF CompareStatus
    <3>3. Whole => view.built
      BY <2>2, <2>4 DEF MayBuild
    <3>4. ~Whole => \E w \in Sides : Partial(w)
      BY <2>4 DEF Whole, Partial, BothDone
    <3>5. view.built => (view.sound <=> Whole)
      BY DEF CompareInv, ViewIsOfTheRun, Whole, Sides
    <3> QED
      BY <3>2, <3>3, <3>4, <3>5
  <2> QED
    BY <2>3, <2>4 DEF MissingTableIsExplained
<1> QED
  BY <1>1, ComparisonsAreInOrder, PTL

-----------------------------------------------------------------------------
(*                           Configurations                                *)

LEMMA FieldsSet ==
  ASSUME NEW c, IsConfig(c), NEW x
  PROVE  /\ IsConfig([c EXCEPT !.version = x]) /\ [c EXCEPT !.version = x].version = x
         /\ IsConfig([c EXCEPT !.history = x]) /\ [c EXCEPT !.history = x].version = c.version
         /\ IsConfig([c EXCEPT !.saved = x]) /\ [c EXCEPT !.saved = x].version = c.version
         /\ IsConfig([c EXCEPT !.targets = x]) /\ [c EXCEPT !.targets = x].version = c.version
         /\ IsConfig([c EXCEPT !.prefs = x]) /\ [c EXCEPT !.prefs = x].version = c.version
         /\ c.version = x => [c EXCEPT !.version = x] = c
<1> DEFINE v == c.version
           h == c.history
           s == c.saved
           t == c.targets
           p == c.prefs
<1>1. c = [version |-> v, history |-> h, saved |-> s, targets |-> t, prefs |-> p]
  BY DEF IsConfig
<1>2. c.version = v
  OBVIOUS
<1> HIDE DEF v, h, s, t, p
<1>3. [c EXCEPT !.version = x] =
        [version |-> x, history |-> h, saved |-> s, targets |-> t, prefs |-> p]
  BY <1>1
<1>4. [c EXCEPT !.history = x] =
        [version |-> v, history |-> x, saved |-> s, targets |-> t, prefs |-> p]
  BY <1>1
<1>5. [c EXCEPT !.saved = x] =
        [version |-> v, history |-> h, saved |-> x, targets |-> t, prefs |-> p]
  BY <1>1
<1>6. [c EXCEPT !.targets = x] =
        [version |-> v, history |-> h, saved |-> s, targets |-> x, prefs |-> p]
  BY <1>1
<1>7. [c EXCEPT !.prefs = x] =
        [version |-> v, history |-> h, saved |-> s, targets |-> t, prefs |-> x]
  BY <1>1
<1>8. ASSUME NEW a, NEW b, NEW d, NEW e, NEW f
      PROVE  IsConfig([version |-> a, history |-> b, saved |-> d, targets |-> e, prefs |-> f])
  BY DEF IsConfig
<1> QED
  BY <1>1, <1>2, <1>3, <1>4, <1>5, <1>6, <1>7, <1>8

LEMMA DefaultIsConfig == IsConfig(Default) /\ Default.version = Version
BY DEF IsConfig, Default

LEMMA CutIsConfig == IsConfig(Cut) /\ Cut.version = 0
BY DefaultIsConfig, FieldsSet DEF Cut

(* load() gives a configuration whatever the file; what was written last   *)
(* is read back.                                                           *)
LEMMA LoadedIs ==
  /\ \A file : (\A c \in file : IsConfig(c)) => IsConfig(Loaded(file))
  /\ \A c : IsConfig(c) /\ c.version = Version => Migrated(Loaded({c})) = c
<1>1. ASSUME NEW file, \A c \in file : IsConfig(c) PROVE IsConfig(Loaded(file))
  <2>1. CASE file \subseteq {Cut}
    BY <2>1, DefaultIsConfig DEF Loaded
  <2>2. CASE ~(file \subseteq {Cut})
    <3>1. \E c : c \in file
      BY <2>2
    <3>2. (CHOOSE c \in file : TRUE) \in file
      BY <3>1
    <3> QED
      BY <1>1, <2>2, <3>2 DEF Loaded
  <2> QED
    BY <2>1, <2>2
<1>2. ASSUME NEW c, IsConfig(c), c.version = Version PROVE Migrated(Loaded({c})) = c
  <2>1. c # Cut
    BY <1>2, CutIsConfig DEF Version
  <2>2. Loaded({c}) = c
    BY <2>1 DEF Loaded
  <2> QED
    BY <1>2, <2>2, FieldsSet DEF Migrated
<1> QED
  BY <1>1, <1>2

LEMMA MigratedIs ==
  ASSUME NEW c, IsConfig(c)
  PROVE  IsConfig(Migrated(c)) /\ Migrated(c).version = Version
BY FieldsSet DEF Migrated

-----------------------------------------------------------------------------
(*                              The queue                                  *)

LEMMA OfItsElements ==
  ASSUME NEW S, NEW T, NEW s \in Seq(S), \A k \in DOMAIN s : s[k] \in T
  PROVE  s \in Seq(T)
OBVIOUS

LEMMA Queued ==
  ASSUME ioJobs \in Seq(Jobs), NEW job, ioJobs' = Append(ioJobs, job)
  PROVE  /\ Jobs' = Jobs \cup {job} /\ ioJobs' \in Seq(Jobs')
         /\ Writes' = IF job.kind = "Write" THEN Writes \cup {Len(ioJobs) + 1} ELSE Writes
         /\ Writes \subseteq 1 .. Len(ioJobs) /\ Len(ioJobs) \in Nat
         /\ ioJobs'[Len(ioJobs) + 1] = job
         /\ \A k \in 1 .. Len(ioJobs) : ioJobs'[k] = ioJobs[k]
<1> DEFINE n == Len(ioJobs)
<1>1. /\ n \in Nat /\ DOMAIN ioJobs = 1 .. n /\ DOMAIN ioJobs' = 1 .. (n + 1)
      /\ ioJobs'[n + 1] = job /\ \A k \in 1 .. n : ioJobs'[k] = ioJobs[k]
  OBVIOUS
<1>2. Jobs' = Jobs \cup {job}
  BY <1>1 DEF Jobs
<1>3. ioJobs' \in Seq(Jobs')
  <2> DEFINE J == Jobs \cup {job}
  <2>1. ioJobs \in Seq(J) /\ job \in J
    <3>1. \A k \in 1 .. n : ioJobs[k] \in Jobs
      BY <1>1 DEF Jobs
    <3> QED
      BY <1>1, <3>1
  <2> HIDE DEF J
  <2>2. Append(ioJobs, job) \in Seq(J)
    BY <2>1
  <2> QED
    BY <1>2, <2>2 DEF J
<1>4. Writes' = IF job.kind = "Write" THEN Writes \cup {n + 1} ELSE Writes
  BY <1>1 DEF Writes
<1> QED
  BY <1>1, <1>2, <1>3, <1>4 DEF Writes

LEMMA Taken ==
  ASSUME ioJobs \in Seq(Jobs), ioJobs # <<>>, ioJobs' = Tail(ioJobs)
  PROVE  /\ Jobs' \subseteq Jobs /\ ioJobs' \in Seq(Jobs') /\ Head(ioJobs) \in Jobs
         /\ Head(ioJobs) = ioJobs[1] /\ 1 \in DOMAIN ioJobs
         /\ \A k \in Nat : k \in Writes' <=> k # 0 /\ k + 1 \in Writes
         /\ Writes \subseteq Nat \ {0} /\ Writes' \subseteq Nat \ {0}
         /\ \A k \in Writes' : ioJobs'[k] = ioJobs[k + 1]
<1> DEFINE n == Len(ioJobs)
<1>1. /\ n \in Nat \ {0} /\ DOMAIN ioJobs = 1 .. n /\ DOMAIN ioJobs' = 1 .. (n - 1)
      /\ Head(ioJobs) = ioJobs[1] /\ \A k \in 1 .. (n - 1) : ioJobs'[k] = ioJobs[k + 1]
  OBVIOUS
<1>2. Jobs' \subseteq Jobs /\ Head(ioJobs) \in Jobs
  BY <1>1 DEF Jobs
<1>3. ioJobs' \in Seq(Jobs')
  <2>1. ioJobs' \in Seq(Jobs)
    BY <1>1
  <2>2. \A k \in DOMAIN ioJobs' : ioJobs'[k] \in Jobs'
    BY <1>1 DEF Jobs
  <2> QED
    BY <2>1, <2>2, OfItsElements
<1>7. 1 \in DOMAIN ioJobs
  BY <1>1
<1> HIDE DEF n
<1>4. \A k \in Nat : k \in Writes' <=> k # 0 /\ k + 1 \in Writes
  BY <1>1 DEF Writes
<1>5. Writes \subseteq Nat \ {0} /\ Writes' \subseteq Nat \ {0}
  BY <1>1 DEF Writes
<1>6. \A k \in Writes' : ioJobs'[k] = ioJobs[k + 1]
  BY <1>1 DEF Writes
<1> QED
  BY <1>1, <1>2, <1>3, <1>4, <1>5, <1>6, <1>7

-----------------------------------------------------------------------------
(*                       What a step does to the file                      *)

IoSame == UNCHANGED <<io, disk, failed, launched>>

LEMMA SaveKeeps ==
  ASSUME FileInv, launched, NEW c, IsConfig(c), c.version = Version, Save(c), IoSame
  PROVE  FileInv'
<1> DEFINE n == Len(ioJobs)
<1>1. config' = c /\ clock' = Stamp /\ ioJobs' = Append(ioJobs, Write(c))
  BY DEF Save
<1>2. Write(c).kind = "Write" /\ Write(c).contents = c
  BY DEF Write
<1>3. ioJobs \in Seq(Jobs)
  BY DEF FileInv, LibraryTypeOK
<1>4. /\ Jobs' = Jobs \cup {Write(c)} /\ ioJobs' \in Seq(Jobs') /\ n \in Nat
      /\ Writes' = Writes \cup {n + 1} /\ Writes \subseteq 1 .. n
      /\ ioJobs'[n + 1] = Write(c)
  BY <1>1, <1>2, <1>3, Queued
<1> HIDE DEF n
<1>5. LibraryTypeOK'
  <2>1. clock' \in [dirty : BOOLEAN, since : Nat]
    BY <1>1 DEF Stamp
  <2>2. \A j \in Jobs' \cup io' : IsConfig(j.contents)
    BY <1>2, <1>4 DEF FileInv, LibraryTypeOK, IoSame
  <2> QED
    BY <1>1, <1>4, <2>1, <2>2 DEF FileInv, LibraryTypeOK, IoSame
<1>6. LastWriteIsConfig'
  <2>1. ASSUME NEW k \in Writes', Writes' \subseteq 1 .. k PROVE k = n + 1
    BY <1>4, <2>1
  <2>2. Writes' # {}
    BY <1>4
  <2> QED
    BY <1>1, <1>2, <1>4, <2>1, <2>2 DEF LastWriteIsConfig
<1>7. QuietFileIsConfig'
  BY <1>4 DEF QuietFileIsConfig, Unsaved
<1> QED
  BY <1>5, <1>6, <1>7 DEF FileInv

LEMMA SaveLaterKeeps ==
  ASSUME FileInv, launched, NEW c, IsConfig(c), c.version = Version, SaveLater(c), IoSame
  PROVE  FileInv'
<1>1. config' = c /\ clock' = [clock EXCEPT !.dirty = TRUE] /\ ioJobs' = ioJobs
  BY DEF SaveLater
<1>2. clock' \in [dirty : BOOLEAN, since : Nat] /\ clock'.dirty
  BY <1>1 DEF FileInv, LibraryTypeOK
<1>3. LibraryTypeOK'
  BY <1>1, <1>2 DEF FileInv, LibraryTypeOK, IoSame, Jobs
<1> QED
  BY <1>2, <1>3 DEF FileInv, QuietFileIsConfig, Unsaved

(* Nothing of the file's way; what the clock does but mark a change.       *)
LEMMA SameKeeps ==
  ASSUME FileInv, UNCHANGED <<config, ioJobs>>, IoSame,
         clock' \in [dirty : BOOLEAN, since : Nat], clock'.dirty = clock.dirty
  PROVE  FileInv'
<1>1. Jobs' = Jobs /\ Writes' = Writes
  BY DEF Jobs, Writes
<1>2. LibraryTypeOK'
  BY <1>1 DEF FileInv, LibraryTypeOK, IoSame
<1>3. LastWriteIsConfig => LastWriteIsConfig'
  BY <1>1 DEF LastWriteIsConfig, IoSame
<1>4. QuietFileIsConfig'
  BY <1>1 DEF FileInv, QuietFileIsConfig, Unsaved, IoSame
<1> QED
  BY <1>2, <1>3, <1>4 DEF FileInv, IoSame

LEMMA DialogKeeps ==
  ASSUME FileInv, launched, NEW kind \in {"SaveAs", "Pick"},
         ioJobs' = Append(ioJobs, [kind |-> kind, contents |-> config]),
         UNCHANGED <<config, clock>>, IoSame
  PROVE  FileInv'
<1> DEFINE job == [kind |-> kind, contents |-> config]
           n == Len(ioJobs)
<1>1. job.kind # "Write" /\ job.contents = config
  OBVIOUS
<1>2. ioJobs \in Seq(Jobs)
  BY DEF FileInv, LibraryTypeOK
<1> HIDE DEF job
<1>3. ioJobs' = Append(ioJobs, job)
  BY DEF job
<1>4. /\ Jobs' = Jobs \cup {job} /\ ioJobs' \in Seq(Jobs') /\ Writes' = Writes
      /\ Writes \subseteq 1 .. n /\ \A k \in 1 .. n : ioJobs'[k] = ioJobs[k]
  BY <1>1, <1>2, <1>3, Queued
<1> HIDE DEF n
<1>5. LibraryTypeOK'
  <2>1. \A j \in Jobs' \cup io' : IsConfig(j.contents)
    BY <1>1, <1>4 DEF FileInv, LibraryTypeOK, IoSame
  <2> QED
    BY <1>4, <2>1 DEF FileInv, LibraryTypeOK, IoSame
<1>6. LastWriteIsConfig => LastWriteIsConfig'
  BY <1>4 DEF LastWriteIsConfig, IoSame
<1>7. QuietFileIsConfig'
  BY <1>4 DEF FileInv, QuietFileIsConfig, Unsaved, IoSame
<1> QED
  BY <1>5, <1>6, <1>7 DEF FileInv, IoSame

(* The first job leaves the queue; a write leaves the file cut for now.    *)
LEMMA TakeJobKeeps == FileInv /\ TakeJob => FileInv'
<1> SUFFICES ASSUME FileInv, TakeJob PROVE FileInv'
  OBVIOUS
<1> DEFINE job == Head(ioJobs)
<1>1. /\ launched /\ io = {} /\ ioJobs # <<>> /\ io' = {job} /\ ioJobs' = Tail(ioJobs)
      /\ disk' = (IF job.kind = "Write" THEN {Cut} ELSE disk)
      /\ UNCHANGED <<config, clock, launched, failed>>
  BY DEF TakeJob, appVars
<1>2. ioJobs \in Seq(Jobs)
  BY DEF FileInv, LibraryTypeOK
<1>3. /\ Jobs' \subseteq Jobs /\ ioJobs' \in Seq(Jobs') /\ job \in Jobs
      /\ job = ioJobs[1] /\ 1 \in DOMAIN ioJobs
      /\ \A k \in Nat : k \in Writes' <=> k # 0 /\ k + 1 \in Writes
      /\ Writes \subseteq Nat \ {0} /\ Writes' \subseteq Nat \ {0}
      /\ \A k \in Writes' : ioJobs'[k] = ioJobs[k + 1]
  BY <1>1, <1>2, Taken
<1> HIDE DEF job
<1>4. LibraryTypeOK'
  <2>1. \A j \in Jobs' \cup io' : IsConfig(j.contents)
    BY <1>1, <1>3 DEF FileInv, LibraryTypeOK
  <2>2. \A c \in disk' : IsConfig(c)
    BY <1>1, CutIsConfig DEF FileInv, LibraryTypeOK
  <2> QED
    BY <1>1, <1>3, <2>1, <2>2 DEF FileInv, LibraryTypeOK
<1>5. 1 \in Writes <=> job.kind = "Write"
  BY <1>3 DEF Writes
<1>6. ASSUME LastWriteIsConfig PROVE LastWriteIsConfig'
  <2>1. ASSUME NEW k \in Writes', Writes' \subseteq 1 .. k PROVE ioJobs'[k].contents = config'
    <3>1. k \in Nat /\ k + 1 \in Writes
      BY <1>3
    <3>2. Writes \subseteq 1 .. (k + 1)
      <4> SUFFICES ASSUME NEW i \in Writes, i # 1 PROVE i \in 1 .. (k + 1)
        BY <3>1
      <4>1. i \in Nat /\ i - 1 \in Nat /\ i - 1 # 0 /\ (i - 1) + 1 = i
        BY <1>3
      <4>2. i - 1 \in Writes'
        BY <1>3, <4>1
      <4> QED
        BY <2>1, <3>1, <4>1, <4>2
    <3> QED
      BY <1>1, <1>3, <1>6, <3>1, <3>2 DEF LastWriteIsConfig
  <2>2. ASSUME Writes' = {}, job.kind = "Write" PROVE job.contents = config'
    <3>1. Writes \subseteq 1 .. 1 /\ 1 \in Writes
      <4> SUFFICES ASSUME NEW i \in Writes PROVE i = 1
        BY <1>5, <2>2
      <4>1. i \in Nat /\ i # 0
        BY <1>3
      <4>2. CASE i # 1
        <5>1. i - 1 \in Nat /\ i - 1 # 0 /\ (i - 1) + 1 = i
          BY <4>1, <4>2
        <5>2. i - 1 \in Writes'
          BY <1>3, <5>1
        <5> QED
          BY <2>2, <5>2
      <4> QED
        BY <4>2
    <3> QED
      BY <1>1, <1>3, <1>6, <3>1 DEF LastWriteIsConfig
  <2> QED
    BY <1>1, <2>1, <2>2 DEF LastWriteIsConfig
<1>7. QuietFileIsConfig'
  <2> SUFFICES ASSUME ~clock.dirty, Writes' = {}, job.kind # "Write", ~failed
               PROVE  Migrated(Loaded(disk')) = config'
    BY <1>1 DEF QuietFileIsConfig, Unsaved
  <2>1. Writes = {}
    <3> SUFFICES ASSUME NEW i \in Writes PROVE FALSE
      OBVIOUS
    <3>1. i \in Nat \ {0} /\ i # 1
      BY <1>3, <1>5
    <3>2. i - 1 \in Nat /\ i - 1 # 0 /\ (i - 1) + 1 = i
      BY <3>1
    <3> QED
      BY <1>3, <3>2
  <2>2. Migrated(Loaded(disk)) = config
    BY <1>1, <2>1 DEF FileInv, QuietFileIsConfig, Unsaved
  <2> QED
    BY <1>1, <2>2
<1> QED
  BY <1>1, <1>4, <1>6, <1>7 DEF FileInv

LEMMA FinishWriteKeeps == FileInv /\ FinishWrite => FileInv'
<1> SUFFICES ASSUME FileInv, FinishWrite PROVE FileInv'
  OBVIOUS
<1>1. PICK j \in io : j.kind = "Write" /\ disk' = {j.contents}
  BY DEF FinishWrite
<1>2. /\ launched /\ io' = {} /\ failed' = FALSE
      /\ UNCHANGED <<config, clock, launched, ioJobs>>
  BY DEF FinishWrite, appVars
<1>3. Jobs' = Jobs /\ Writes' = Writes
  BY <1>2 DEF Jobs, Writes
<1>4. LibraryTypeOK'
  BY <1>1, <1>2, <1>3 DEF FileInv, LibraryTypeOK
<1>5. LastWriteIsConfig => LastWriteIsConfig'
  BY <1>2, <1>3 DEF LastWriteIsConfig
<1>6. QuietFileIsConfig'
  <2> SUFFICES ASSUME ~clock.dirty, Writes = {} PROVE Migrated(Loaded(disk')) = config'
    BY <1>2, <1>3 DEF QuietFileIsConfig, Unsaved
  <2>1. j.contents = config
    BY <1>1, <1>2 DEF FileInv, LastWriteIsConfig
  <2>2. Migrated(Loaded({config})) = config
    BY LoadedIs DEF FileInv, LibraryTypeOK
  <2> QED
    BY <1>1, <1>2, <2>1, <2>2
<1> QED
  BY <1>2, <1>4, <1>5, <1>6 DEF FileInv

(* The IO thread lets go of its job: a write that failed, or a dialog.     *)
LEMMA LetGoKeeps ==
  ASSUME FileInv, launched, io' = {}, UNCHANGED <<config, clock, ioJobs, launched, disk>>,
         failed' \/ (failed' = failed /\ \A j \in io : j.kind # "Write")
  PROVE  FileInv'
<1>1. Jobs' = Jobs /\ Writes' = Writes
  BY DEF Jobs, Writes
<1>2. LibraryTypeOK'
  BY <1>1 DEF FileInv, LibraryTypeOK
<1>3. LastWriteIsConfig => LastWriteIsConfig'
  BY <1>1 DEF LastWriteIsConfig
<1>4. QuietFileIsConfig'
  BY <1>1 DEF FileInv, QuietFileIsConfig, Unsaved
<1> QED
  BY <1>2, <1>3, <1>4 DEF FileInv

LEMMA LaunchKeeps == FileInv /\ Launch => FileInv'
<1> SUFFICES ASSUME FileInv, Launch PROVE FileInv'
  OBVIOUS
<1> DEFINE c == Loaded(disk)
<1>1. /\ io = {} /\ launched' /\ config' = Migrated(c) /\ UNCHANGED <<io, disk, failed>>
  BY DEF Launch, FileInv, LibraryTypeOK
<1>2. IsConfig(c)
  BY LoadedIs DEF FileInv, LibraryTypeOK
<1>3. IsConfig(config') /\ config'.version = Version
  BY <1>1, <1>2, MigratedIs
<1>4. CASE c.version < Version
  <2>1. ioJobs' = <<Write(config')>> /\ clock' = Stamp
    BY <1>1, <1>4 DEF Launch
  <2>2. Write(config').kind = "Write" /\ Write(config').contents = config'
    BY DEF Write
  <2>3. DOMAIN ioJobs' = {1} /\ ioJobs'[1] = Write(config')
    BY <2>1
  <2>4. Jobs' = {Write(config')} /\ Writes' = {1} /\ ioJobs' \in Seq(Jobs')
    <3>1. Jobs' = {Write(config')}
      BY <2>3 DEF Jobs
    <3>2. Writes' = {1}
      BY <2>2, <2>3 DEF Writes
    <3> QED
      BY <2>1, <3>1, <3>2
  <2>5. LibraryTypeOK'
    BY <1>1, <1>3, <2>1, <2>2, <2>4 DEF FileInv, LibraryTypeOK, Stamp
  <2>6. LastWriteIsConfig' /\ QuietFileIsConfig'
    BY <1>1, <2>2, <2>3, <2>4 DEF LastWriteIsConfig, QuietFileIsConfig, Unsaved
  <2> QED
    BY <2>5, <2>6 DEF FileInv
<1>5. CASE ~(c.version < Version)
  <2>1. ioJobs' = <<>> /\ clock' = [dirty |-> FALSE, since |-> Never]
    BY <1>5 DEF Launch
  <2>2. Jobs' = {} /\ Writes' = {} /\ ioJobs' \in Seq(Jobs')
    BY <2>1 DEF Jobs, Writes
  <2>3. clock' \in [dirty : BOOLEAN, since : Nat]
    BY <2>1, LibraryAssumption DEF Never
  <2>4. LibraryTypeOK'
    BY <1>1, <1>3, <2>2, <2>3 DEF FileInv, LibraryTypeOK
  <2>5. LastWriteIsConfig' /\ QuietFileIsConfig'
    BY <1>1, <2>2 DEF LastWriteIsConfig, QuietFileIsConfig
  <2> QED
    BY <2>4, <2>5 DEF FileInv
<1> QED
  BY <1>4, <1>5

LEMMA CloseKeeps == FileInv /\ Close => FileInv'
<1> SUFFICES ASSUME FileInv, Close PROVE FileInv'
  OBVIOUS
<1>1. ~launched' /\ ioJobs' = <<>> /\ io' = {} /\ UNCHANGED <<config, clock, disk>>
  BY DEF Close
<1>2. Jobs' = {} /\ ioJobs' \in Seq(Jobs')
  BY <1>1 DEF Jobs
<1>3. LibraryTypeOK'
  BY <1>1, <1>2 DEF FileInv, LibraryTypeOK
<1> QED
  BY <1>1, <1>3 DEF FileInv, QuietFileIsConfig

-----------------------------------------------------------------------------
(*                      Every operation of every view                      *)

(* What an operation may do to the configuration.                          *)
Changes(c) == IsConfig(c) /\ c.version = Version /\ (Save(c) \/ SaveLater(c))

LEMMA OneField ==
  ASSUME FileInv, NEW x,
         \/ Save([config EXCEPT !.history = x]) \/ SaveLater([config EXCEPT !.history = x])
         \/ Save([config EXCEPT !.saved = x]) \/ SaveLater([config EXCEPT !.saved = x])
         \/ Save([config EXCEPT !.targets = x]) \/ SaveLater([config EXCEPT !.targets = x])
         \/ Save([config EXCEPT !.prefs = x]) \/ SaveLater([config EXCEPT !.prefs = x])
  PROVE  \E c : Changes(c)
<1>1. IsConfig(config) /\ config.version = Version
  BY DEF FileInv, LibraryTypeOK
<1>2. ASSUME NEW c, IsConfig(c), c.version = Version, Save(c) \/ SaveLater(c)
      PROVE  \E d : Changes(d)
  BY <1>2 DEF Changes
<1>3. /\ IsConfig([config EXCEPT !.history = x]) /\ [config EXCEPT !.history = x].version = Version
      /\ IsConfig([config EXCEPT !.saved = x]) /\ [config EXCEPT !.saved = x].version = Version
      /\ IsConfig([config EXCEPT !.targets = x]) /\ [config EXCEPT !.targets = x].version = Version
      /\ IsConfig([config EXCEPT !.prefs = x]) /\ [config EXCEPT !.prefs = x].version = Version
  BY <1>1, FieldsSet
<1> QED
  BY <1>2, <1>3, Zenon

LEMMA RunInIs ==
  ASSUME FileInv, NEW ed, RunIn(ed)
  PROVE  \E c : Changes(c)
<1>1. SaveLater([config EXCEPT !.history = Pushed(config.history, ed.text, ed.ns, ops + 1)])
  BY DEF RunIn
<1> QED
  BY <1>1, OneField

LEMMA OpIs == Op => launched /\ IoSame
BY DEF Op, SameProcess, IoSame

LEMMA UserIs ==
  ASSUME FileInv, User
  PROVE  /\ launched /\ IoSame
         /\ \/ \E c : Changes(c)
            \/ UNCHANGED <<config, clock, ioJobs>>
            \/ /\ UNCHANGED <<config, clock>>
               /\ \E kind \in {"SaveAs", "Pick"} :
                    ioJobs' = Append(ioJobs, [kind |-> kind, contents |-> config])
<1>1. CASE RunQuery
  BY <1>1, OpIs, RunInIs DEF RunQuery
<1>2. CASE Edit
  BY <1>2, OpIs DEF Edit
<1>3. CASE SetPreference
  <2>1. Op /\ \E x : Save([config EXCEPT !.prefs = x]) \/ SaveLater([config EXCEPT !.prefs = x])
    BY <1>3 DEF SetPreference
  <2> QED
    BY <2>1, OpIs, OneField
<1>4. CASE \E k \in DOMAIN config.history : LoadEntry(config.history[k])
  BY <1>4, OpIs, RunInIs DEF LoadEntry
<1>5. CASE \E k \in DOMAIN config.saved : ApplySaved(config.saved[k])
  BY <1>5, OpIs, RunInIs DEF ApplySaved
<1>6. ASSUME NEW n \in Names, SaveQuery(n) \/ ToggleFavourite(n) \/ DeleteSaved(n)
      PROVE  Op /\ \E c : Changes(c)
  <2>1. Op /\ \E x : Save([config EXCEPT !.saved = x])
    BY <1>6 DEF SaveQuery, ToggleFavourite, DeleteSaved
  <2> QED
    BY <2>1, OneField
<1>7. ASSUME NEW n \in Names, NEW f \in Folders, SetFolder(n, f)
      PROVE  Op /\ \E c : Changes(c)
  <2>1. Op /\ \E x : Save([config EXCEPT !.saved = x])
    BY <1>7 DEF SetFolder
  <2> QED
    BY <2>1, OneField
<1>8. ASSUME NEW t \in TargetKeys \cup {NoTarget}, ConnectTarget(t) \/ NoteProbe(t) \/ ForgetTarget(t)
      PROVE  Op /\ (UNCHANGED <<config, clock, ioJobs>> \/ \E c : Changes(c))
  <2>1. Op /\ \/ UNCHANGED <<config, clock, ioJobs>>
              \/ \E x : Save([config EXCEPT !.targets = x]) \/ SaveLater([config EXCEPT !.targets = x])
    BY <1>8 DEF ConnectTarget, NoteProbe, ForgetTarget
  <2> QED
    BY <2>1, OneField
<1>9. ASSUME NEW kind \in {"SaveAs", "Pick"}, AskDialog(kind)
      PROVE  /\ Op /\ UNCHANGED <<config, clock>>
             /\ ioJobs' = Append(ioJobs, [kind |-> kind, contents |-> config])
  BY <1>9 DEF AskDialog
<1> QED
  BY <1>1, <1>2, <1>3, <1>4, <1>5, <1>6, <1>7, <1>8, <1>9, OpIs DEF User

LEMMA QueryResultIs ==
  ASSUME FileInv, QueryResult
  PROVE  launched /\ IoSame /\ ((\E c : Changes(c)) \/ UNCHANGED <<config, clock, ioJobs>>)
<1> DEFINE q == Head(inflight)
           h == Measured(config.history, q.wql, q.ns, Metrics(q))
           s == Measured(config.saved, q.wql, q.ns, Metrics(q))
           c == [config EXCEPT !.history = h, !.saved = s]
<1>1. /\ launched /\ IoSame
      /\ IF c # config THEN SaveLater(c) ELSE UNCHANGED <<config, clock, ioJobs>>
  BY DEF QueryResult, SameProcess, IoSame
<1> HIDE DEF h, s
<1>2. IsConfig(c) /\ c.version = Version
  <2> DEFINE first == [config EXCEPT !.history = h]
  <2>1. c = [first EXCEPT !.saved = s]
    OBVIOUS
  <2>2. IsConfig(first) /\ first.version = Version
    BY FieldsSet DEF FileInv, LibraryTypeOK
  <2> HIDE DEF first
  <2>3. IsConfig([first EXCEPT !.saved = s]) /\ [first EXCEPT !.saved = s].version = Version
    BY <2>2, FieldsSet
  <2> QED
    BY <2>1, <2>3, Zenon
<1> QED
  BY <1>1, <1>2 DEF Changes

LEMMA DrainIoIs ==
  ASSUME FileInv, DrainIo
  PROVE  launched /\ IoSame /\ ((\E c : Changes(c)) \/ UNCHANGED <<config, clock, ioJobs>>)
<1>1. /\ launched /\ IoSame
      /\ \/ \E x : Save([config EXCEPT !.saved = x])
         \/ UNCHANGED <<config, clock, ioJobs>>
  BY DEF DrainIo, IoSame
<1> QED
  BY <1>1, OneField

LEMMA ChangeKeeps ==
  ASSUME FileInv, launched, IoSame, (\E c : Changes(c)) \/ UNCHANGED <<config, clock, ioJobs>>
  PROVE  FileInv'
<1>1. CASE \E c : Changes(c)
  BY <1>1, SaveKeeps, SaveLaterKeeps DEF Changes
<1>2. CASE UNCHANGED <<config, clock, ioJobs>>
  BY <1>2, SameKeeps DEF FileInv, LibraryTypeOK
<1> QED
  BY <1>1, <1>2

(* Frames, replies and time.                                               *)
LEMMA TimeKeeps ==
  ASSUME FileInv, QueryFailed \/ EndFrame \/ WakeUp \/ Tick \/ UNCHANGED libraryVars
  PROVE  FileInv'
<1>0. clock \in [dirty : BOOLEAN, since : Nat] /\ IsConfig(config) /\ config.version = Version
  BY DEF FileInv, LibraryTypeOK
<1>1. CASE QueryFailed
  BY <1>0, <1>1, SameKeeps DEF QueryFailed, SameProcess, IoSame
<1>2. CASE EndFrame
  <2>1. launched /\ IoSame
    BY <1>2 DEF EndFrame, IoSame
  <2>2. Save(config) \/ UNCHANGED <<config, clock, ioJobs>>
    BY <1>2 DEF EndFrame
  <2> QED
    BY <1>0, <2>1, <2>2, ChangeKeeps DEF Changes
<1>3. CASE WakeUp
  BY <1>0, <1>3, SameKeeps DEF WakeUp, IoSame
<1>4. CASE Tick
  <2>1. clock' = [clock EXCEPT !.since = @ + 1] /\ UNCHANGED <<config, ioJobs>> /\ IoSame
    BY <1>4 DEF Tick, IoSame
  <2>2. clock' \in [dirty : BOOLEAN, since : Nat] /\ clock'.dirty = clock.dirty
    BY <1>0, <2>1
  <2> QED
    BY <2>1, <2>2, SameKeeps
<1>5. CASE UNCHANGED libraryVars
  BY <1>0, <1>5, SameKeeps DEF libraryVars, IoSame
<1> QED
  BY <1>1, <1>2, <1>3, <1>4, <1>5

LEMMA InitFits == LibraryInit => FileInv
<1> SUFFICES ASSUME LibraryInit PROVE FileInv
  OBVIOUS
<1>1. /\ config = Default /\ clock = [dirty |-> FALSE, since |-> Never]
      /\ ioJobs = <<>> /\ io = {} /\ ~launched /\ disk \in OldFiles
  BY DEF LibraryInit
<1>2. Jobs = {} /\ ioJobs \in Seq(Jobs)
  BY <1>1 DEF Jobs
<1>3. clock \in [dirty : BOOLEAN, since : Nat]
  BY <1>1, LibraryAssumption DEF Never
<1>4. LibraryTypeOK
  <2>1. \A c \in disk : IsConfig(c)
    BY <1>1, LibraryAssumption DEF IsKept
  <2> QED
    BY <1>1, <1>2, <1>3, <2>1, DefaultIsConfig DEF LibraryTypeOK
<1> QED
  BY <1>1, <1>4 DEF FileInv, QuietFileIsConfig

-----------------------------------------------------------------------------
(*                                The theorems                             *)

(* Every operation of every view saves what it changes, and the IO thread  *)
(* writes in order: a configuration that is not dirty is the last one      *)
(* queued, else the one being written, else the one in the file (save(),   *)
(* poll_save() and the IO thread's loop).                                  *)
THEOREM FileInvariant == LibrarySpec => []FileInv
<1>1. FileInv /\ [LibraryNext]_libraryVars => FileInv'
  <2> SUFFICES ASSUME FileInv, [LibraryNext]_libraryVars PROVE FileInv'
    OBVIOUS
  <2>1. CASE User
    <3>1. /\ launched /\ IoSame
          /\ \/ (\E c : Changes(c)) \/ UNCHANGED <<config, clock, ioJobs>>
             \/ /\ UNCHANGED <<config, clock>>
                /\ \E kind \in {"SaveAs", "Pick"} :
                     ioJobs' = Append(ioJobs, [kind |-> kind, contents |-> config])
      BY <2>1, UserIs
    <3> QED
      BY <3>1, ChangeKeeps, DialogKeeps
  <2>2. CASE QueryResult \/ DrainIo
    BY <2>2, QueryResultIs, DrainIoIs, ChangeKeeps
  <2>3. CASE QueryFailed \/ EndFrame \/ WakeUp \/ Tick \/ UNCHANGED libraryVars
    BY <2>3, TimeKeeps
  <2>4. CASE FailWrite
    BY <2>4, LetGoKeeps DEF FailWrite, appVars
  <2>5. CASE AnswerDialog
    <3>1. \A j \in io : j.kind # "Write"
      BY <2>5 DEF AnswerDialog, FileInv, LibraryTypeOK
    <3>2. /\ launched /\ io' = {} /\ failed' = failed
          /\ UNCHANGED <<config, clock, ioJobs, launched, disk>>
      BY <2>5 DEF AnswerDialog, appVars
    <3> QED
      BY <3>1, <3>2, LetGoKeeps
  <2> QED
    BY <2>1, <2>2, <2>3, <2>4, <2>5, TakeJobKeeps, FinishWriteKeeps, CloseKeeps, LaunchKeeps
    DEF LibraryNext, Replies, Thread
<1> QED
  BY <1>1, InitFits, PTL DEF LibrarySpec

(* With nothing left to write, and unless the last write failed, the next  *)
(* session would read from the file what this window shows.                *)
THEOREM NoChangeIsForgotten == LibrarySpec => []QuietFileIsConfig
<1>1. FileInv => QuietFileIsConfig
  BY DEF FileInv
<1> QED
  BY <1>1, FileInvariant, PTL

-----------------------------------------------------------------------------
(*                   The file, as the user is promised it                  *)

LEMMA AppendedToBoth ==
  ASSUME NEW S, NEW s \in Seq(S), NEW t \in Seq(S), NEW x \in S
  PROVE  s \o Append(t, x) = Append(s \o t, x)
<1>1. <<x>> \in Seq(S) /\ s \o t \in Seq(S)
  OBVIOUS
<1>2. Append(t, x) = t \o <<x>> /\ Append(s \o t, x) = (s \o t) \o <<x>>
  BY <1>1, AppendIsConcat
<1>3. (s \o t) \o <<x>> = s \o (t \o <<x>>)
  BY <1>1, ConcatAssociative
<1> QED
  BY <1>2, <1>3

LEMMA OneInFront ==
  ASSUME NEW S, NEW s \in Seq(S), NEW x \in S
  PROVE  /\ <<x>> \o s # <<>> /\ Head(<<x>> \o s) = x
         /\ Tail(<<x>> \o s) = s /\ <<>> \o s = s
<1> DEFINE n == Len(s)
           t == <<x>> \o s
<1>1. /\ n \in Nat /\ DOMAIN s = 1 .. n /\ s \in Seq(S) /\ t \in Seq(S) /\ Len(t) = n + 1
      /\ t[1] = x /\ \A k \in 1 .. n : t[k + 1] = s[k]
  OBVIOUS
<1>2. t # <<>> /\ Head(t) = x
  BY <1>1
<1>3. Tail(t) \in Seq(S) /\ Len(Tail(t)) = n /\ \A k \in 1 .. n : Tail(t)[k] = t[k + 1]
  BY <1>1, <1>2, HeadTailProperties
<1>4. Tail(t) = s
  <2> HIDE DEF t
  <2>1. \A k \in 1 .. Len(s) : Tail(t)[k] = s[k]
    BY <1>1, <1>3
  <2> QED
    BY <1>1, <1>3, <2>1, SeqEqual
<1>5. <<>> \o s = s
  BY ConcatEmptySeq
<1> QED
  BY <1>2, <1>4, <1>5

LEMMA SameHeadAndTail ==
  ASSUME NEW S, NEW s \in Seq(S), NEW t \in Seq(S), s # <<>>, t # <<>>,
         Head(s) = Head(t), Tail(s) = Tail(t)
  PROVE  s = t
<1> DEFINE r == Tail(s)
           n == Len(r)
<1>1. /\ n = Len(s) - 1 /\ \A k \in 1 .. n : r[k] = s[k + 1]
      /\ n = Len(t) - 1 /\ \A k \in 1 .. n : r[k] = t[k + 1]
  BY HeadTailProperties
<1>2. s[1] = t[1] /\ Len(s) \in Nat /\ Len(t) \in Nat
  OBVIOUS
<1> HIDE DEF n, r
<1>3. Len(s) = Len(t) /\ n = Len(s) - 1
  BY <1>1, <1>2
<1>4. ASSUME NEW k \in 1 .. Len(s), k # 1 PROVE s[k] = t[k]
  <2>1. k - 1 \in 1 .. n /\ (k - 1) + 1 = k
    BY <1>2, <1>3, <1>4
  <2> QED
    BY <1>1, <2>1
<1>5. \A k \in 1 .. Len(s) : s[k] = t[k]
  BY <1>2, <1>4
<1> QED
  BY <1>3, <1>5, SeqEqual

(* The queue as it is in line, and everything that may be in line.         *)
Queue == [k \in DOMAIN ioJobs |-> Given(ioJobs[k])]

GivenOf(J) == {Given(j) : j \in J}

LEMMA QueueIs ==
  ASSUME ioJobs \in Seq(Jobs), NEW J, Jobs \subseteq J
  PROVE  Queue \in Seq(GivenOf(J)) /\ Len(Queue) = Len(ioJobs)
<1>1. Len(ioJobs) \in Nat /\ DOMAIN ioJobs = 1 .. Len(ioJobs)
  OBVIOUS
<1>2. \A k \in DOMAIN ioJobs : ioJobs[k] \in J
  BY DEF Jobs
<1>3. \A k \in DOMAIN ioJobs : Given(ioJobs[k]) \in GivenOf(J)
  BY <1>2 DEF GivenOf
<1> QED
  BY <1>1, <1>3 DEF Queue

LEMMA UnderwayIs ==
  ASSUME \A j, k \in io : j = k
  PROVE  (io = {} => Underway = <<>>) /\ \A j \in io : Underway = <<Given(j)>>
<1>1. ASSUME NEW j \in io PROVE Underway = <<Given(j)>>
  <2>1. (CHOOSE k \in io : TRUE) = j
    BY <1>1
  <2>2. io # {}
    BY <1>1
  <2> QED
    BY <2>1, <2>2 DEF Underway
<1>2. io = {} => Underway = <<>>
  BY DEF Underway
<1> QED
  BY <1>1, <1>2

LEMMA UnderwaySeq ==
  ASSUME LibraryTypeOK, NEW J, io \subseteq J
  PROVE  Underway \in Seq(GivenOf(J))
<1>1. \A j, k \in io : j = k
  BY DEF LibraryTypeOK
<1>2. CASE io = {}
  <2>1. Underway = <<>>
    BY <1>1, <1>2, UnderwayIs
  <2> QED
    BY <2>1
<1>3. CASE io # {}
  <2>1. PICK j \in io : TRUE
    BY <1>3
  <2>2. Underway = <<Given(j)>> /\ Given(j) \in GivenOf(J)
    BY <1>1, <2>1, UnderwayIs DEF GivenOf
  <2> HIDE DEF Given, GivenOf
  <2> QED
    BY <2>2
<1> QED
  BY <1>2, <1>3

(* A job that is queued comes last in line.                                *)
LEMMA LineGrows ==
  ASSUME LibraryTypeOK, NEW job, ioJobs' = Append(ioJobs, job), io' = io
  PROVE  InLine' = Append(InLine, Given(job))
<1> DEFINE J == Jobs \cup io \cup {job}
           n == Len(ioJobs)
<1>1. Jobs \subseteq J /\ io \subseteq J /\ job \in J /\ ioJobs \in Seq(Jobs)
  BY DEF LibraryTypeOK
<1> HIDE DEF J
<1>2. Queue \in Seq(GivenOf(J)) /\ Len(Queue) = n
  BY <1>1, QueueIs
<1>3. Underway \in Seq(GivenOf(J)) /\ Underway' = Underway
  <2>1. Underway \in Seq(GivenOf(J))
    BY <1>1, UnderwaySeq
  <2> QED
    BY <2>1 DEF Underway
<1>4. Given(job) \in GivenOf(J)
  BY <1>1 DEF GivenOf
<1>5. Queue' = Append(Queue, Given(job))
  <2>1. /\ n \in Nat /\ DOMAIN ioJobs = 1 .. n /\ DOMAIN ioJobs' = 1 .. (n + 1)
        /\ ioJobs'[n + 1] = job /\ \A k \in 1 .. n : ioJobs'[k] = ioJobs[k]
    BY <1>1
  <2>2. DOMAIN Queue' = 1 .. (n + 1) /\ \A k \in 1 .. (n + 1) : Queue'[k] = Given(ioJobs'[k])
    BY <2>1 DEF Queue
  <2>3. \A k \in 1 .. n : Queue[k] = Given(ioJobs[k])
    BY <2>1 DEF Queue
  <2>4. /\ Append(Queue, Given(job)) \in Seq(GivenOf(J)) /\ Len(Append(Queue, Given(job))) = n + 1
        /\ Append(Queue, Given(job))[n + 1] = Given(job)
        /\ \A k \in 1 .. n : Append(Queue, Given(job))[k] = Queue[k]
    BY <1>2, <1>4, AppendProperties
  <2>5. Queue' = [k \in 1 .. (n + 1) |-> Given(ioJobs'[k])]
    BY <2>1 DEF Queue
  <2>6. Append(Queue, Given(job)) = [k \in 1 .. (n + 1) |-> Append(Queue, Given(job))[k]]
    <3> DEFINE a == Append(Queue, Given(job))
    <3>1. a \in Seq(GivenOf(J)) /\ Len(a) = n + 1
      BY <2>4
    <3> HIDE DEF a
    <3>2. a = [k \in 1 .. (n + 1) |-> a[k]]
      BY <3>1
    <3> QED
      BY <3>2 DEF a
  <2>7. \A k \in 1 .. (n + 1) : Append(Queue, Given(job))[k] = Given(ioJobs'[k])
    <3> SUFFICES ASSUME NEW k \in 1 .. (n + 1)
                 PROVE  Append(Queue, Given(job))[k] = Given(ioJobs'[k])
      OBVIOUS
    <3>1. k \in 1 .. n \/ k = n + 1
      BY <2>1
    <3> HIDE DEF n
    <3> QED
      BY <2>1, <2>3, <2>4, <3>1, Zenon
  <2> HIDE DEF n
  <2> QED
    BY <2>5, <2>6, <2>7, Zenon
<1>6. Underway \o Append(Queue, Given(job)) = Append(Underway \o Queue, Given(job))
  <2> HIDE DEF Given, GivenOf, Queue, Underway
  <2> QED
    BY <1>2, <1>3, <1>4, AppendedToBoth
<1> QED
  BY <1>3, <1>5, <1>6, Zenon DEF InLine, Queue

(* Neither does it matter for the line that the IO thread takes a job...   *)
LEMMA LineStays ==
  ASSUME LibraryTypeOK, TakeJob
  PROVE  /\ InLine' = InLine
         /\ Head(ioJobs).kind = "Write" => InLine # <<>> /\ Head(InLine) # {}
<1> DEFINE job == Head(ioJobs)
           n == Len(ioJobs)
<1>1. /\ io = {} /\ io' = {job} /\ ioJobs # <<>> /\ ioJobs' = Tail(ioJobs)
      /\ ioJobs \in Seq(Jobs)
  BY DEF TakeJob, LibraryTypeOK
<1>2. job \in Jobs /\ job = ioJobs[1] /\ ioJobs' \in Seq(Jobs)
  <2>1. ioJobs' \in Seq(Jobs)
    BY <1>1
  <2> QED
    BY <1>1, <2>1, Taken
<1>3. Underway = <<>> /\ Underway' = <<Given(job)>>
  <2>1. (CHOOSE j \in {job} : TRUE) = job
    OBVIOUS
  <2> QED
    BY <1>1, <2>1 DEF Underway
<1>4. Queue \in Seq(GivenOf(Jobs)) /\ Len(Queue) = n
  BY <1>1, QueueIs
<1>5. Given(job) \in GivenOf(Jobs)
  BY <1>2 DEF GivenOf
<1>6. /\ n \in Nat \ {0} /\ DOMAIN ioJobs = 1 .. n /\ DOMAIN ioJobs' = 1 .. (n - 1)
      /\ \A k \in 1 .. (n - 1) : ioJobs'[k] = ioJobs[k + 1]
  BY <1>1
<1>7. Queue' = Tail(Queue)
  <2>1. Queue # <<>>
    BY <1>4, <1>6
  <2>2. /\ Tail(Queue) \in Seq(GivenOf(Jobs)) /\ Len(Tail(Queue)) = n - 1
        /\ \A k \in 1 .. (n - 1) : Tail(Queue)[k] = Queue[k + 1]
    BY <1>4, <2>1, HeadTailProperties
  <2>3. \A k \in 1 .. (n - 1) : Queue[k + 1] = Given(ioJobs'[k])
    BY <1>6 DEF Queue
  <2>4. Queue' = [k \in 1 .. (n - 1) |-> Given(ioJobs'[k])]
    BY <1>6 DEF Queue
  <2>5. Tail(Queue) = [k \in 1 .. (n - 1) |-> Tail(Queue)[k]]
    <3> DEFINE t == Tail(Queue)
    <3>1. t \in Seq(GivenOf(Jobs)) /\ Len(t) = n - 1
      BY <2>2
    <3> HIDE DEF t
    <3>2. t = [k \in 1 .. (n - 1) |-> t[k]]
      BY <3>1
    <3> QED
      BY <3>2 DEF t
  <2> HIDE DEF n
  <2> QED
    BY <2>2, <2>3, <2>4, <2>5, Zenon
<1>8. Head(Queue) = Given(job) /\ Queue # <<>>
  <2>1. Queue[1] = Given(job) /\ Queue # <<>>
    BY <1>2, <1>4, <1>6 DEF Queue
  <2> QED
    BY <1>4, <2>1
<1>9. <<Given(job)>> \o Tail(Queue) = Queue /\ <<>> \o Queue = Queue
  <2> HIDE DEF Given, GivenOf, Queue, job
  <2> DEFINE x == Given(job)
  <2>1. Tail(Queue) \in Seq(GivenOf(Jobs)) /\ x \in GivenOf(Jobs)
    BY <1>4, <1>5, <1>8, HeadTailProperties
  <2>2. LET t == <<x>> \o Tail(Queue) IN t # <<>> /\ Head(t) = x /\ Tail(t) = Tail(Queue)
    BY <2>1, OneInFront
  <2>3. <<x>> \o Tail(Queue) \in Seq(GivenOf(Jobs))
    BY <2>1
  <2>4. <<x>> \o Tail(Queue) = Queue
    BY <1>4, <1>8, <2>2, <2>3, SameHeadAndTail
  <2>5. <<>> \o Queue = Queue
    BY <1>4, ConcatEmptySeq
  <2> QED
    BY <2>4, <2>5
<1>10. InLine = Queue /\ InLine' = Queue
  BY <1>3, <1>7, <1>9, Zenon DEF InLine, Queue
<1>11. job.kind = "Write" => Given(job) # {}
  BY DEF Given
<1> QED
  BY <1>8, <1>10, <1>11

(* ...but when it is done with it, the job leaves the line.                *)
LEMMA LineShrinks ==
  ASSUME LibraryTypeOK, NEW j \in io, io' = {}, ioJobs' = ioJobs
  PROVE  InLine # <<>> /\ Head(InLine) = Given(j) /\ InLine' = Tail(InLine)
<1> DEFINE J == Jobs \cup {j}
<1>1. ioJobs \in Seq(Jobs) /\ Jobs \subseteq J /\ j \in J /\ \A k, m \in io : k = m
  BY DEF LibraryTypeOK
<1> HIDE DEF J
<1>2. Queue \in Seq(GivenOf(J)) /\ Given(j) \in GivenOf(J)
  BY <1>1, QueueIs DEF GivenOf
<1>3. Underway = <<Given(j)>> /\ Underway' = <<>> /\ Queue' = Queue
  BY <1>1, UnderwayIs DEF Underway, Queue
<1>4. LET t == <<Given(j)>> \o Queue IN
        t # <<>> /\ Head(t) = Given(j) /\ Tail(t) = Queue /\ <<>> \o Queue = Queue
  <2> HIDE DEF Given, GivenOf, Queue
  <2> QED
    BY <1>2, OneInFront
<1>5. InLine = <<Given(j)>> \o Queue /\ InLine' = <<>> \o Queue
  BY <1>3 DEF InLine, Queue
<1> QED
  BY <1>4, <1>5

(* What the disk gives back of a configuration is the configuration.       *)
LEMMA RereadIs ==
  /\ \A c : IsConfig(c) /\ c.version = Version => Given(Write(c)) = {c}
  /\ Reread({Cut}) = Default
<1>1. ASSUME NEW c, IsConfig(c), c.version = Version PROVE Given(Write(c)) = {c}
  <2>1. Reread({c}) = c
    BY <1>1, LoadedIs DEF Reread
  <2>2. Write(c).kind = "Write" /\ Write(c).contents = c
    BY DEF Write
  <2> QED
    BY <2>1, <2>2 DEF Given
<1>2. Reread({Cut}) = Default
  BY DefaultIsConfig, FieldsSet DEF Reread, Loaded, Migrated
<1> QED
  BY <1>1, <1>2

(* An operation, an answer or a frame's end: what changes is saved or owed.*)
LEMMA ChangesAreChanges ==
  ASSUME FileInv, launched, IoSame, NEW c, Changes(c)
  PROVE  Promised!Change
<1>1. /\ IsConfig(c) /\ c.version = Version /\ (Save(c) \/ SaveLater(c))
      /\ UNCHANGED <<io, disk, launched>> /\ LibraryTypeOK
  BY DEF Changes, IoSame, FileInv
<1>2. Reread(disk)' = Reread(disk)
  BY <1>1 DEF Reread
<1>3. CASE Save(c)
  <2>1. config' = c /\ ~clock'.dirty /\ ioJobs' = Append(ioJobs, Write(c))
    BY <1>3 DEF Save, Stamp
  <2>2. InLine' = Append(InLine, Given(Write(c)))
    BY <1>1, <2>1, LineGrows
  <2>3. InLine' = Append(InLine, {config'})
    BY <1>1, <2>1, <2>2, RereadIs
  <2> QED
    BY <1>1, <1>2, <2>1, <2>3 DEF Promised!Change
<1>4. CASE SaveLater(c)
  <2>1. clock' = [clock EXCEPT !.dirty = TRUE] /\ ioJobs' = ioJobs
    BY <1>4 DEF SaveLater
  <2>2. clock'.dirty
    BY <1>1, <2>1 DEF LibraryTypeOK
  <2>3. InLine' = InLine
    BY <1>1, <2>1 DEF InLine, Underway
  <2> QED
    BY <1>1, <1>2, <2>2, <2>3 DEF Promised!Change
<1> QED
  BY <1>1, <1>3, <1>4

LEMMA NothingChanges ==
  ASSUME UNCHANGED <<config, ioJobs, io, disk, launched>>, clock'.dirty = clock.dirty
  PROVE  UNCHANGED Promised!fileVars
<1>1. InLine' = InLine /\ Reread(disk)' = Reread(disk)
  BY DEF InLine, Underway, Reread
<1> QED
  BY <1>1 DEF Promised!fileVars

LEMMA DialogAsks ==
  ASSUME FileInv, launched, IoSame, UNCHANGED <<config, clock>>,
         NEW kind \in {"SaveAs", "Pick"},
         ioJobs' = Append(ioJobs, [kind |-> kind, contents |-> config])
  PROVE  Promised!Ask
<1> DEFINE job == [kind |-> kind, contents |-> config]
<1>1. Given(job) = {}
  BY DEF Given
<1>2. InLine' = Append(InLine, Given(job))
  BY LineGrows DEF FileInv, IoSame
<1>3. Reread(disk)' = Reread(disk)
  BY DEF Reread, IoSame
<1> QED
  BY <1>1, <1>2, <1>3 DEF Promised!Ask, IoSame

LEMMA TakingBegins ==
  ASSUME FileInv, TakeJob
  PROVE  Promised!Begin \/ UNCHANGED Promised!fileVars
<1>1. /\ launched /\ UNCHANGED <<launched, config, clock>> /\ LibraryTypeOK
      /\ disk' = IF Head(ioJobs).kind = "Write" THEN {Cut} ELSE disk
  BY DEF TakeJob, appVars, FileInv
<1>2. /\ InLine' = InLine
      /\ Head(ioJobs).kind = "Write" => InLine # <<>> /\ Head(InLine) # {}
  BY <1>1, LineStays
<1>3. CASE Head(ioJobs).kind = "Write"
  <2>1. Reread(disk)' = Default
    BY <1>1, <1>3, RereadIs DEF Reread
  <2> QED
    BY <1>1, <1>2, <1>3, <2>1 DEF Promised!Begin
<1>4. CASE Head(ioJobs).kind # "Write"
  <2>1. Reread(disk)' = Reread(disk)
    BY <1>1, <1>4 DEF Reread
  <2> QED
    BY <1>1, <1>2, <2>1 DEF Promised!fileVars
<1> QED
  BY <1>3, <1>4

LEMMA LettingGoIsDone ==
  ASSUME FileInv, FinishWrite \/ FailWrite \/ AnswerDialog
  PROVE  Promised!Done
<1>1. /\ launched /\ io' = {} /\ UNCHANGED <<launched, config, clock, ioJobs>> /\ LibraryTypeOK
  BY DEF FinishWrite, FailWrite, AnswerDialog, appVars, FileInv
<1>2. PICK j \in io : /\ FinishWrite => j.kind = "Write" /\ disk' = {j.contents}
                      /\ ~FinishWrite => disk' = disk
  BY DEF FinishWrite, FailWrite, AnswerDialog
<1>3. InLine # <<>> /\ Head(InLine) = Given(j) /\ InLine' = Tail(InLine)
  BY <1>1, LineShrinks
<1>4. Reread(disk)' = Reread(disk) \/ Head(InLine) = {Reread(disk)'}
  <2>1. CASE FinishWrite
    BY <1>2, <1>3, <2>1 DEF Reread, Given
  <2>2. CASE ~FinishWrite
    BY <1>2, <2>2 DEF Reread
  <2> QED
    BY <2>1, <2>2
<1> QED
  BY <1>1, <1>3, <1>4 DEF Promised!Done

LEMMA LaunchStarts == FileInv /\ FileInv' /\ Launch => Promised!Start
<1> SUFFICES ASSUME FileInv, FileInv', Launch PROVE Promised!Start
  OBVIOUS
<1> DEFINE c == Loaded(disk)
<1>1. /\ ~launched /\ launched' /\ config' = Reread(disk) /\ io = {} /\ io' = {} /\ disk' = disk
      /\ \/ ioJobs' = <<Write(config')>> /\ clock' = Stamp
         \/ ioJobs' = <<>> /\ clock' = [dirty |-> FALSE, since |-> Never]
  BY DEF Launch, Reread, FileInv, LibraryTypeOK
<1>2. ~clock'.dirty /\ Reread(disk)' = Reread(disk)
  BY <1>1 DEF Stamp, Reread
<1>3. Given(Write(config')) = {config'}
  BY RereadIs DEF FileInv, LibraryTypeOK
<1>4. InLine' = <<>> \o [k \in DOMAIN ioJobs' |-> Given(ioJobs'[k])]
  BY <1>1 DEF InLine, Underway
<1>5. InLine' \in {<<>>, <<{config'}>>}
  <2>1. CASE ioJobs' = <<>>
    <3>1. [k \in DOMAIN ioJobs' |-> Given(ioJobs'[k])] = <<>>
      BY <2>1
    <3> QED
      BY <1>4, <3>1
  <2>2. CASE ioJobs' = <<Write(config')>>
    <3>1. DOMAIN ioJobs' = {1} /\ ioJobs'[1] = Write(config')
      BY <2>2
    <3>2. [k \in DOMAIN ioJobs' |-> Given(ioJobs'[k])] = <<{config'}>>
      BY <1>3, <3>1
    <3> QED
      BY <1>4, <3>2
  <2> QED
    BY <1>1, <2>1, <2>2
<1> QED
  BY <1>1, <1>2, <1>5 DEF Promised!Start

LEMMA ClosingDies == Close => Promised!Die
<1> SUFFICES ASSUME Close PROVE Promised!Die
  OBVIOUS
<1>1. /\ launched /\ ~launched' /\ ioJobs' = <<>> /\ io' = {}
      /\ UNCHANGED <<config, clock, disk>>
  BY DEF Close
<1>2. InLine' = <<>> \o [k \in DOMAIN ioJobs' |-> Given(ioJobs'[k])]
  BY <1>1 DEF InLine, Underway
<1>3. [k \in DOMAIN ioJobs' |-> Given(ioJobs'[k])] = <<>>
  BY <1>1
<1>4. InLine' = <<>> /\ Reread(disk)' = Reread(disk)
  BY <1>1, <1>2, <1>3 DEF Reread
<1> QED
  BY <1>1, <1>4 DEF Promised!Die

(* A step that changes the configuration, or does not.                     *)
LEMMA ChangesOrNot ==
  ASSUME FileInv, launched, IoSame, (\E c : Changes(c)) \/ UNCHANGED <<config, clock, ioJobs>>
  PROVE  Promised!Change \/ UNCHANGED Promised!fileVars
<1>1. CASE \E c : Changes(c)
  BY <1>1, ChangesAreChanges
<1>2. CASE UNCHANGED <<config, clock, ioJobs>>
  BY <1>2, NothingChanges DEF IoSame
<1> QED
  BY <1>1, <1>2

LEMMA SavingStep ==
  FileInv /\ FileInv' /\ [LibraryNext]_libraryVars => [Promised!Next]_(Promised!fileVars)
<1> SUFFICES ASSUME FileInv, FileInv', [LibraryNext]_libraryVars
             PROVE  Promised!Next \/ UNCHANGED Promised!fileVars
  OBVIOUS
<1>1. CASE User
  <2>1. /\ launched /\ IoSame
        /\ \/ (\E c : Changes(c)) \/ UNCHANGED <<config, clock, ioJobs>>
           \/ /\ UNCHANGED <<config, clock>>
              /\ \E kind \in {"SaveAs", "Pick"} :
                   ioJobs' = Append(ioJobs, [kind |-> kind, contents |-> config])
    BY <1>1, UserIs
  <2> QED
    BY <2>1, ChangesOrNot, DialogAsks DEF Promised!Next
<1>2. CASE QueryResult \/ DrainIo
  BY <1>2, QueryResultIs, DrainIoIs, ChangesOrNot DEF Promised!Next
<1>3. CASE EndFrame
  <2>1. launched /\ IoSame /\ (Save(config) \/ UNCHANGED <<config, clock, ioJobs>>)
    BY <1>3 DEF EndFrame, IoSame
  <2> QED
    BY <2>1, ChangesOrNot DEF Changes, FileInv, LibraryTypeOK, Promised!Next
<1>4. CASE QueryFailed \/ WakeUp \/ Tick \/ UNCHANGED libraryVars
  <2>1. UNCHANGED <<config, ioJobs, io, disk, launched>>
    BY <1>4 DEF QueryFailed, SameProcess, WakeUp, Tick, libraryVars
  <2>2. clock' = clock \/ clock' = [clock EXCEPT !.since = @ + 1]
    BY <1>4 DEF QueryFailed, WakeUp, Tick, libraryVars
  <2>3. clock'.dirty = clock.dirty
    BY <2>2 DEF FileInv, LibraryTypeOK
  <2> QED
    BY <2>1, <2>3, NothingChanges
<1>5. CASE TakeJob
  BY <1>5, TakingBegins DEF Promised!Next
<1>6. CASE FinishWrite \/ FailWrite \/ AnswerDialog
  BY <1>6, LettingGoIsDone DEF Promised!Next
<1>7. CASE Close
  BY <1>7, ClosingDies DEF Promised!Next
<1>8. CASE Launch
  BY <1>8, LaunchStarts DEF Promised!Next
<1> QED
  BY <1>1, <1>2, <1>3, <1>4, <1>5, <1>6, <1>7, <1>8 DEF LibraryNext, Replies, Thread

(* The frames, the clock, the queue and the IO thread implement what       *)
(* saving promises: a change is saved or owed, saves reach the file whole  *)
(* and in their order, and a session starts with what the file keeps       *)
(* (save(), save_debounced(), poll_save(), load() and the IO thread).      *)
THEOREM ImplementsSavedFile == LibrarySpec => SavedFileSpec
<1>1. LibraryInit => Promised!Init
  <2> SUFFICES ASSUME LibraryInit PROVE Promised!Init
    OBVIOUS
  <2>1. ~launched /\ ~clock.dirty /\ ioJobs = <<>> /\ io = {}
    BY DEF LibraryInit
  <2>2. InLine = <<>> \o [k \in DOMAIN ioJobs |-> Given(ioJobs[k])]
    BY <2>1 DEF InLine, Underway
  <2>3. [k \in DOMAIN ioJobs |-> Given(ioJobs[k])] = <<>>
    BY <2>1
  <2>4. InLine = <<>>
    BY <2>2, <2>3
  <2> QED
    BY <2>1, <2>4 DEF Promised!Init
<1>2. FileInv /\ FileInv' /\ [LibraryNext]_libraryVars => [Promised!Next]_(Promised!fileVars)
  BY SavingStep
<1> QED
  BY <1>1, <1>2, FileInvariant, PTL DEF LibrarySpec, SavedFileSpec, Promised!Spec

-----------------------------------------------------------------------------
(*                           Lists, in general                             *)

LEMMA ListIs ==
  ASSUME NEW s, IsList(s)
  PROVE  Len(s) \in Nat /\ DOMAIN s = 1 .. Len(s) /\ DOMAIN s \in SUBSET Int
BY DEF IsList

LEMMA IsListOf ==
  ASSUME NEW S, NEW s \in Seq(S)
  PROVE  IsList(s)
<1>1. s \in Seq({s[k] : k \in DOMAIN s})
  BY OfItsElements
<1> QED
  BY <1>1 DEF IsList

LEMMA MadeList ==
  ASSUME NEW n \in Nat, NEW s, s = [k \in 1 .. n |-> s[k]]
  PROVE  IsList(s) /\ Len(s) = n /\ DOMAIN s = 1 .. n
<1> DEFINE S == {s[k] : k \in 1 .. n}
<1>1. s \in [1 .. n -> S]
  OBVIOUS
<1> HIDE DEF S
<1>2. s \in Seq(S) /\ Len(s) = n /\ DOMAIN s = 1 .. n
  BY <1>1
<1> QED
  BY <1>2, IsListOf

(* What retain() leaves.                                                   *)
LEMMA Fewer ==
  ASSUME NEW s, IsList(s), NEW gone \in SUBSET DOMAIN s
  PROVE  /\ IsList(Without(s, gone)) /\ Len(Without(s, gone)) <= Len(s)
         /\ \E at :
              /\ \A n \in DOMAIN Without(s, gone) :
                   at[n] \in DOMAIN s \ gone /\ Without(s, gone)[n] = s[at[n]]
              /\ \A m, n \in DOMAIN Without(s, gone) : m < n => at[m] < at[n]
<1> DEFINE S == {s[k] : k \in DOMAIN s}
           left == Without(s, gone)
<1>1. s \in Seq(S)
  BY DEF IsList
<1> HIDE DEF S
<1>2. left \in Seq(S) /\ Cardinality(gone) \in Nat /\ Len(left) = Len(s) - Cardinality(gone)
  BY <1>1, WithoutIs
<1>3. PICK at :
        /\ \A n \in DOMAIN left : at[n] \in DOMAIN s \ gone /\ left[n] = s[at[n]]
        /\ \A m, n \in DOMAIN left : m < n => at[m] < at[n]
        /\ \A i \in DOMAIN s \ gone : \E n \in DOMAIN left : at[n] = i
  BY <1>1, WithoutIs
<1>4. Len(s) \in Nat
  BY ListIs
<1> HIDE DEF left
<1>5. IsList(left)
  BY <1>2, IsListOf
<1>6. Len(left) <= Len(s)
  BY <1>2, <1>4
<1> QED
  BY <1>3, <1>5, <1>6 DEF left

LEMMA Longer ==
  ASSUME NEW s, IsList(s), NEW x
  PROVE  /\ IsList(Append(s, x)) /\ DOMAIN Append(s, x) = DOMAIN s \cup {Len(s) + 1}
         /\ Len(s) + 1 \notin DOMAIN s
         /\ Append(s, x)[Len(s) + 1] = x /\ \A k \in DOMAIN s : Append(s, x)[k] = s[k]
<1> DEFINE S == {s[k] : k \in DOMAIN s} \cup {x}
<1>1. s \in Seq(S) /\ x \in S
  <2>1. s \in Seq({s[k] : k \in DOMAIN s})
    BY DEF IsList
  <2> QED
    BY <2>1, OfItsElements
<1> HIDE DEF S
<1>2. /\ Append(s, x) \in Seq(S) /\ DOMAIN Append(s, x) = DOMAIN s \cup {Len(s) + 1}
      /\ Len(s) + 1 \notin DOMAIN s
      /\ Append(s, x)[Len(s) + 1] = x /\ \A k \in DOMAIN s : Append(s, x)[k] = s[k]
  BY <1>1
<1> QED
  BY <1>2, IsListOf

(* Timings stay with their rows.                                           *)
LEMMA FitOfElements ==
  ASSUME NEW s, NEW t, MetricsFit(s), \A n \in DOMAIN t : \E i \in DOMAIN s : t[n] = s[i]
  PROVE  MetricsFit(t)
<1> SUFFICES ASSUME NEW n \in DOMAIN t, NEW m \in t[n].metrics PROVE IsOf(m, t[n].wql, t[n].ns)
  BY DEF MetricsFit
<1>1. PICK i \in DOMAIN s : t[n] = s[i]
  OBVIOUS
<1> QED
  BY <1>1 DEF MetricsFit

-----------------------------------------------------------------------------
(*                      The order of the saved queries                     *)

LEMMA OrderOfCards ==
  ASSUME NEW s, AreCards(s)
  PROVE  /\ \A i, j \in DOMAIN s : i \in NotAfter(s, j) \/ j \in NotAfter(s, i)
         /\ \A i, j \in DOMAIN s : i \in NotAfter(s, j) /\ j \in NotAfter(s, i) => i = j
         /\ \A i, j, k \in DOMAIN s :
              i \in NotAfter(s, j) /\ j \in NotAfter(s, k) => i \in NotAfter(s, k)
         /\ \A i, j \in DOMAIN s :
              i \in NotAfter(s, j) /\ s[i].name # s[j].name => Before(s[i], s[j])
<1> DEFINE fav(i) == Num(s[i].fav)
           folder(i) == s[i].folder
           name(i) == s[i].name
           Less(i, j) == \/ fav(i) < fav(j)
                         \/ fav(i) = fav(j) /\ folder(i) < folder(j)
                         \/ fav(i) = fav(j) /\ folder(i) = folder(j) /\ name(i) < name(j)
<1>1. \A i \in DOMAIN s : fav(i) \in Int /\ folder(i) \in Int /\ name(i) \in Int /\ i \in Int
  BY ListIs DEF AreCards, IsCard, Num
<1>2. \A i, j \in DOMAIN s : s[i].fav = s[j].fav <=> fav(i) = fav(j)
  BY DEF AreCards, IsCard, Num
<1>3. \A i, j \in DOMAIN s : Before(s[i], s[j]) <=> Less(i, j)
  BY <1>2 DEF Before
<1>4. \A i, j \in DOMAIN s : i \in NotAfter(s, j) <=> Less(i, j) \/ (~Less(j, i) /\ i <= j)
  BY <1>3 DEF NotAfter
<1> HIDE DEF fav, folder, name
<1>5. \A i, j \in DOMAIN s : i \in NotAfter(s, j) \/ j \in NotAfter(s, i)
  BY <1>1, <1>4
<1>6. \A i, j \in DOMAIN s : i \in NotAfter(s, j) /\ j \in NotAfter(s, i) => i = j
  BY <1>1, <1>4
<1>7. ASSUME NEW i \in DOMAIN s, NEW j \in DOMAIN s, NEW k \in DOMAIN s,
             i \in NotAfter(s, j), j \in NotAfter(s, k)
      PROVE  i \in NotAfter(s, k)
  BY <1>1, <1>4, <1>7
<1>8. ASSUME NEW i \in DOMAIN s, NEW j \in DOMAIN s, i \in NotAfter(s, j), s[i].name # s[j].name
      PROVE  Before(s[i], s[j])
  <2>1. name(i) # name(j)
    BY <1>8 DEF name
  <2>2. Less(i, j)
    BY <1>1, <1>4, <1>8, <2>1
  <2> QED
    BY <1>3, <2>2
<1> QED
  BY <1>5, <1>6, <1>7, <1>8

(* sort_saved() of cards that have a name each.                            *)
LEMMA SortedIsKept ==
  ASSUME NEW s, AreCards(s), CardsAreDistinct(s)
  PROVE  AreCards(Sorted(s)) /\ CardsAreKept(Sorted(s))
<1> DEFINE S == {s[k] : k \in DOMAIN s}
           upTo == [i \in DOMAIN s |-> NotAfter(s, i)]
           t == Sorted(s)
<1>1. s \in Seq(S)
  BY DEF AreCards, IsList
<1>2. (\A i \in DOMAIN s : upTo[i] \subseteq DOMAIN s) /\ \A i \in DOMAIN s : upTo[i] = NotAfter(s, i)
  BY DEF NotAfter
<1>3. /\ \A i, j \in DOMAIN s : i \in upTo[j] \/ j \in upTo[i]
      /\ \A i, j \in DOMAIN s : i \in upTo[j] /\ j \in upTo[i] => i = j
      /\ \A i, j, k \in DOMAIN s : i \in upTo[j] /\ j \in upTo[k] => i \in upTo[k]
      /\ \A i, j \in DOMAIN s : i \in upTo[j] /\ s[i].name # s[j].name => Before(s[i], s[j])
  <2> HIDE DEF upTo
  <2> QED
    BY <1>2, OrderOfCards
<1>4. t = Arranged(s, upTo) /\ OrderOf(upTo, DOMAIN s)
  BY <1>2, <1>3 DEF OrderOf, Sorted
<1> HIDE DEF upTo, S, t
<1>5. t \in Seq(S) /\ DOMAIN t = DOMAIN s
  BY <1>1, <1>4, ArrangedIs
<1>6. PICK at :
        /\ \A n \in DOMAIN s : at[n] \in DOMAIN s /\ t[n] = s[at[n]]
        /\ \A m, n \in DOMAIN s : at[m] = at[n] => m = n
        /\ \A m, n \in DOMAIN s : m <= n => at[m] \in upTo[at[n]]
  <2>1. \E at : Arranges(at, s, upTo)
    BY <1>1, <1>4, ArrangedIs
  <2> QED
    BY <1>4, <2>1 DEF Arranges
<1>7. AreCards(t)
  <2>1. IsList(t)
    BY <1>5, IsListOf
  <2> QED
    BY <1>5, <1>6, <2>1 DEF AreCards
<1>8. CardsAreDistinct(t)
  <2>1. MetricsFit(t)
    BY <1>5, <1>6, FitOfElements DEF CardsAreDistinct
  <2>2. ASSUME NEW i \in DOMAIN t, NEW j \in DOMAIN t, t[i].name = t[j].name PROVE i = j
    <3>1. at[i] = at[j]
      BY SMTT(30), ZenonT(30), <1>5, <1>6, <2>2 DEF CardsAreDistinct
    <3> QED
      BY <1>5, <1>6, <3>1
  <2> QED
    BY <2>1, <2>2 DEF CardsAreDistinct
<1>9. ASSUME NEW i \in DOMAIN t, NEW j \in DOMAIN t, i < j PROVE Before(t[i], t[j])
  <2>1. i \in Int /\ j \in Int /\ i # j /\ i <= j
    BY <1>5, <1>9, ListIs DEF AreCards
  <2>2. at[i] \in upTo[at[j]] /\ at[i] # at[j]
    BY <1>5, <1>6, <2>1
  <2>3. s[at[i]].name # s[at[j]].name
    BY <1>5, <1>6, <2>2 DEF CardsAreDistinct
  <2> QED
    BY SMTT(30), ZenonT(30), <1>3, <1>5, <1>6, <2>2, <2>3
<1> QED
  BY <1>7, <1>8, <1>9 DEF CardsAreKept, t

-----------------------------------------------------------------------------
(*                          The rows of the history                        *)

LEMMA AtTheFront ==
  ASSUME NEW s, IsList(s), NEW x, NEW n \in Nat, n <= Len(s) + 1
  PROVE  /\ IsList(SubSeq(<<x>> \o s, 1, n)) /\ Len(SubSeq(<<x>> \o s, 1, n)) = n
         /\ DOMAIN SubSeq(<<x>> \o s, 1, n) = 1 .. n
         /\ \A k \in 1 .. n : SubSeq(<<x>> \o s, 1, n)[k] = IF k = 1 THEN x ELSE s[k - 1]
         /\ \A k \in 1 .. n : k # 1 => k - 1 \in DOMAIN s
<1> DEFINE S == {s[k] : k \in DOMAIN s} \cup {x}
           all == <<x>> \o s
           t == SubSeq(all, 1, n)
<1>1. s \in Seq(S) /\ x \in S
  <2>1. s \in Seq({s[k] : k \in DOMAIN s})
    BY DEF IsList
  <2> QED
    BY <2>1, OfItsElements
<1>2. Len(s) \in Nat /\ DOMAIN s = 1 .. Len(s)
  BY ListIs
<1> HIDE DEF S
<1>3. <<x>> \in Seq(S) /\ Len(<<x>>) = 1 /\ <<x>>[1] = x
  BY <1>1
<1>4. all \in Seq(S) /\ Len(all) = 1 + Len(s) /\ DOMAIN all = 1 .. Len(s) + 1
  BY <1>1, <1>2, <1>3
<1>5. \A k \in 1 .. Len(s) + 1 : all[k] = IF k = 1 THEN x ELSE s[k - 1]
  BY <1>1, <1>2, <1>3
<1> HIDE DEF all
<1>6. t \in Seq(S) /\ Len(t) = n /\ \A k \in 1 .. n : t[k] = all[k]
  BY <1>2, <1>4
<1>7. \A k \in 1 .. n : k \in 1 .. Len(s) + 1 /\ (k # 1 => k - 1 \in DOMAIN s)
  BY <1>2
<1> HIDE DEF t
<1>8. DOMAIN t = 1 .. n /\ IsList(t)
  BY <1>6, IsListOf
<1>9. \A k \in 1 .. n : t[k] = IF k = 1 THEN x ELSE s[k - 1]
  BY <1>5, <1>6, <1>7
<1> QED
  BY <1>6, <1>7, <1>8, <1>9 DEF t, all

(* push_history() leaves each query once, within the cap.                  *)
LEMMA PushedIsKept ==
  ASSUME NEW h, IsHistory(h), HistoryIsKept(h), NEW wql, NEW ns, NEW id
  PROVE  IsHistory(Pushed(h, wql, ns, id)) /\ HistoryIsKept(Pushed(h, wql, ns, id))
<1> DEFINE gone == {k \in DOMAIN h : IsOf(h[k], wql, ns)}
           rest == Without(h, gone)
           e == [wql |-> wql, ns |-> ns, run |-> id, metrics |-> {}]
           n == IF Len(rest) + 1 > HistoryCap THEN HistoryCap ELSE Len(rest) + 1
           t == SubSeq(<<e>> \o rest, 1, n)
<1>1. gone \in SUBSET DOMAIN h /\ IsList(h)
  BY DEF IsHistory
<1>2. \A k \in DOMAIN h \ gone : ~IsOf(h[k], wql, ns)
  OBVIOUS
<1> HIDE DEF gone
<1>3. IsList(rest)
  BY <1>1, Fewer
<1>4. PICK at :
        /\ \A k \in DOMAIN rest : at[k] \in DOMAIN h \ gone /\ rest[k] = h[at[k]]
        /\ \A j, k \in DOMAIN rest : j < k => at[j] < at[k]
  BY <1>1, Fewer
<1>5. Len(rest) \in Nat /\ DOMAIN rest = 1 .. Len(rest) /\ DOMAIN h \in SUBSET Int
  BY <1>1, <1>3, ListIs
<1> HIDE DEF rest
<1>6. n \in Nat /\ n <= Len(rest) + 1 /\ n <= HistoryCap
  BY <1>5, LibraryAssumption
<1>7. IsEntry(e) /\ e.wql = wql /\ e.ns = ns /\ e.metrics = {}
  BY DEF IsEntry
<1> HIDE DEF n, e
<1>8. /\ IsList(t) /\ Len(t) = n /\ DOMAIN t = 1 .. n
      /\ \A k \in 1 .. n : t[k] = IF k = 1 THEN e ELSE rest[k - 1]
      /\ \A k \in 1 .. n : k # 1 => k - 1 \in DOMAIN rest
  BY <1>3, <1>6, AtTheFront
<1> HIDE DEF t
<1>9. \A k \in DOMAIN t : t[k] = e \/ \E i \in DOMAIN h \ gone : t[k] = h[i]
  BY <1>4, <1>8
<1>10. IsHistory(t)
  BY <1>7, <1>8, <1>9 DEF IsHistory
<1>11. MetricsFit(t)
  <2> SUFFICES ASSUME NEW k \in DOMAIN t, NEW m \in t[k].metrics PROVE IsOf(m, t[k].wql, t[k].ns)
    BY DEF MetricsFit
  <2>1. PICK i \in DOMAIN h : t[k] = h[i]
    BY <1>7, <1>9
  <2> QED
    BY <2>1 DEF HistoryIsKept, MetricsFit
<1>12. ASSUME NEW j \in DOMAIN t, NEW k \in DOMAIN t, IsOf(t[j], t[k].wql, t[k].ns) PROVE j = k
  <2>1. \A i \in DOMAIN t : i # 1 => t[i] = h[at[i - 1]] /\ at[i - 1] \in DOMAIN h \ gone
    BY <1>4, <1>8
  <2>2. CASE j = 1 /\ k # 1
    BY <1>2, <1>7, <1>8, <1>12, <2>1, <2>2 DEF IsOf
  <2>3. CASE j # 1 /\ k = 1
    BY <1>2, <1>7, <1>8, <1>12, <2>1, <2>3 DEF IsOf
  <2>4. CASE j # 1 /\ k # 1
    <3>1. at[j - 1] = at[k - 1]
      BY <1>12, <2>1, <2>4 DEF HistoryIsKept
    <3>2. at[j - 1] \in Int /\ at[k - 1] \in Int
      BY <1>5, <2>1, <2>4
    <3>3. j - 1 \in DOMAIN rest /\ k - 1 \in DOMAIN rest
      BY <1>8, <2>4
    <3>4. ~(j - 1 < k - 1) /\ ~(k - 1 < j - 1)
      BY <1>4, <3>1, <3>2, <3>3
    <3> QED
      BY <1>6, <1>8, <3>4
  <2> QED
    BY <2>2, <2>3, <2>4
<1>13. HistoryIsKept(t)
  BY <1>6, <1>8, <1>11, <1>12 DEF HistoryIsKept
<1> QED
  BY <1>10, <1>13 DEF Pushed, t, n, e, rest, gone

(* note_query_run() fills the timings in of that very query.               *)
LEMMA MeasuredIs ==
  ASSUME NEW s, IsList(s), MetricsFit(s), NEW wql, NEW ns, NEW m,
         \A x \in m : IsOf(x, wql, ns),
         (\A k \in DOMAIN s : IsEntry(s[k])) \/ (\A k \in DOMAIN s : IsCard(s[k]))
  PROVE  /\ IsList(Measured(s, wql, ns, m)) /\ MetricsFit(Measured(s, wql, ns, m))
         /\ Len(Measured(s, wql, ns, m)) = Len(s)
         /\ DOMAIN Measured(s, wql, ns, m) = DOMAIN s
         /\ \A k \in DOMAIN s : Measured(s, wql, ns, m)[k] \in {s[k], [s[k] EXCEPT !.metrics = m]}
<1> DEFINE t == Measured(s, wql, ns, m)
<1>1. \A k \in DOMAIN s :
        t[k] = IF IsOf(s[k], wql, ns) THEN [s[k] EXCEPT !.metrics = m] ELSE s[k]
  BY DEF Measured
<1>2. Len(s) \in Nat /\ DOMAIN s = 1 .. Len(s)
  BY ListIs
<1>3. t = [k \in 1 .. Len(s) |-> t[k]]
  BY <1>2 DEF Measured
<1> HIDE DEF t
<1>4. IsList(t) /\ Len(t) = Len(s) /\ DOMAIN t = DOMAIN s
  BY <1>2, <1>3, MadeList
<1>5. MetricsFit(t)
  <2> SUFFICES ASSUME NEW k \in DOMAIN s, NEW x \in t[k].metrics PROVE IsOf(x, t[k].wql, t[k].ns)
    BY <1>4 DEF MetricsFit
  <2>1. CASE IsOf(s[k], wql, ns)
    <3>1. t[k].metrics = m /\ t[k].wql = s[k].wql /\ t[k].ns = s[k].ns
      BY <1>1, <2>1 DEF IsEntry, IsCard
    <3> QED
      BY <2>1, <3>1 DEF IsOf
  <2>2. CASE ~IsOf(s[k], wql, ns)
    BY <1>1, <2>2 DEF MetricsFit
  <2> QED
    BY <2>1, <2>2
<1> QED
  BY <1>1, <1>4, <1>5 DEF t

LEMMA MeasuredHistoryIsKept ==
  ASSUME NEW h, IsHistory(h), HistoryIsKept(h), NEW wql, NEW ns, NEW m,
         \A x \in m : IsOf(x, wql, ns)
  PROVE  IsHistory(Measured(h, wql, ns, m)) /\ HistoryIsKept(Measured(h, wql, ns, m))
<1> DEFINE t == Measured(h, wql, ns, m)
<1>1. /\ IsList(t) /\ MetricsFit(t) /\ Len(t) = Len(h) /\ DOMAIN t = DOMAIN h
      /\ \A k \in DOMAIN h : t[k] \in {h[k], [h[k] EXCEPT !.metrics = m]}
  BY MeasuredIs DEF IsHistory, HistoryIsKept
<1> HIDE DEF t
<1>2. \A k \in DOMAIN h : IsEntry(t[k]) /\ t[k].wql = h[k].wql /\ t[k].ns = h[k].ns
  <2> SUFFICES ASSUME NEW k \in DOMAIN h
               PROVE  IsEntry(t[k]) /\ t[k].wql = h[k].wql /\ t[k].ns = h[k].ns
    OBVIOUS
  <2>1. IsEntry(h[k])
    BY DEF IsHistory
  <2> QED
    BY <1>1, <2>1 DEF IsEntry
<1>3. \A i, j \in DOMAIN t : IsOf(t[i], t[j].wql, t[j].ns) => i = j
  BY <1>1, <1>2 DEF HistoryIsKept, IsOf
<1> QED
  BY <1>1, <1>2, <1>3 DEF IsHistory, HistoryIsKept, t

-----------------------------------------------------------------------------
(*                            The saved queries                            *)

LEMMA CardSet ==
  ASSUME NEW q, IsCard(q), NEW x
  PROVE  /\ x \in Int => IsCard([q EXCEPT !.folder = x])
         /\ x \in BOOLEAN => IsCard([q EXCEPT !.fav = x])
         /\ IsCard([q EXCEPT !.metrics = x])
         /\ [q EXCEPT !.folder = x].name = q.name /\ [q EXCEPT !.fav = x].name = q.name
         /\ [q EXCEPT !.metrics = x].name = q.name
         /\ IsOf([q EXCEPT !.folder = x], q.wql, q.ns) /\ IsOf([q EXCEPT !.fav = x], q.wql, q.ns)
         /\ [q EXCEPT !.folder = x].metrics = q.metrics /\ [q EXCEPT !.fav = x].metrics = q.metrics
         /\ [q EXCEPT !.metrics = x].folder = q.folder /\ [q EXCEPT !.metrics = x].fav = q.fav
BY DEF IsCard, IsOf

(* The timings of one card.                                                *)
CardFits(q) == \A m \in q.metrics : IsOf(m, q.wql, q.ns)

LEMMA FitIs == ASSUME NEW s PROVE MetricsFit(s) <=> \A k \in DOMAIN s : CardFits(s[k])
BY DEF MetricsFit, CardFits

(* A change of cards in their places, which leaves them their names.       *)
LEMMA ChangedAreCards ==
  ASSUME NEW s, AreCards(s), CardsAreDistinct(s), NEW t, t = [k \in DOMAIN s |-> t[k]],
         \A k \in DOMAIN s : IsCard(t[k]) /\ t[k].name = s[k].name /\ CardFits(t[k])
  PROVE  AreCards(t) /\ CardsAreDistinct(t) /\ DOMAIN t = DOMAIN s
<1>1. Len(s) \in Nat /\ DOMAIN s = 1 .. Len(s)
  BY ListIs DEF AreCards
<1>2. IsList(t) /\ DOMAIN t = DOMAIN s
  BY <1>1, MadeList
<1>3. MetricsFit(t)
  BY <1>2, FitIs
<1> QED
  BY <1>2, <1>3 DEF AreCards, CardsAreDistinct

LEMMA MeasuredCardsAreKept ==
  ASSUME NEW s, AreCards(s), CardsAreKept(s), NEW wql, NEW ns, NEW m,
         \A x \in m : IsOf(x, wql, ns)
  PROVE  AreCards(Measured(s, wql, ns, m)) /\ CardsAreKept(Measured(s, wql, ns, m))
<1> DEFINE t == Measured(s, wql, ns, m)
<1>1. /\ IsList(t) /\ MetricsFit(t) /\ DOMAIN t = DOMAIN s
      /\ \A k \in DOMAIN s : t[k] \in {s[k], [s[k] EXCEPT !.metrics = m]}
  BY MeasuredIs DEF AreCards, CardsAreKept, CardsAreDistinct
<1> HIDE DEF t
<1>2. \A k \in DOMAIN s : /\ IsCard(t[k]) /\ t[k].name = s[k].name
                          /\ t[k].folder = s[k].folder /\ t[k].fav = s[k].fav
  <2> SUFFICES ASSUME NEW k \in DOMAIN s
               PROVE  /\ IsCard(t[k]) /\ t[k].name = s[k].name
                      /\ t[k].folder = s[k].folder /\ t[k].fav = s[k].fav
    OBVIOUS
  <2> DEFINE q == s[k]
  <2>1. IsCard(q) /\ t[k] \in {q, [q EXCEPT !.metrics = m]}
    BY <1>1 DEF AreCards
  <2> HIDE DEF q
  <2>2. /\ IsCard([q EXCEPT !.metrics = m]) /\ [q EXCEPT !.metrics = m].name = q.name
        /\ [q EXCEPT !.metrics = m].folder = q.folder /\ [q EXCEPT !.metrics = m].fav = q.fav
    BY <2>1, CardSet
  <2>3. IsCard(t[k]) /\ t[k].name = q.name /\ t[k].folder = q.folder /\ t[k].fav = q.fav
    BY <2>1, <2>2
  <2> QED
    BY <2>3 DEF q
<1>3. \A i, j \in DOMAIN s : Before(s[i], s[j]) => Before(t[i], t[j])
  BY <1>2 DEF Before
<1> QED
  BY <1>1, <1>2, <1>3 DEF AreCards, CardsAreKept, CardsAreDistinct, t

(* delete_saved(), and what save_query() puts its query beside.            *)
LEMMA FewerAreKept ==
  ASSUME NEW s, AreCards(s), CardsAreKept(s), NEW gone \in SUBSET DOMAIN s
  PROVE  /\ AreCards(Without(s, gone)) /\ CardsAreKept(Without(s, gone))
         /\ \A k \in DOMAIN Without(s, gone) : \E i \in DOMAIN s \ gone : Without(s, gone)[k] = s[i]
<1> DEFINE t == Without(s, gone)
<1>1. IsList(t)
  BY Fewer DEF AreCards
<1>2. PICK at :
        /\ \A k \in DOMAIN t : at[k] \in DOMAIN s \ gone /\ t[k] = s[at[k]]
        /\ \A j, k \in DOMAIN t : j < k => at[j] < at[k]
  BY Fewer DEF AreCards
<1> HIDE DEF t
<1>3. AreCards(t)
  BY <1>1, <1>2 DEF AreCards
<1>4. MetricsFit(t)
  BY <1>2, FitOfElements DEF CardsAreKept, CardsAreDistinct
<1>5. \A i, j \in DOMAIN t : i < j => Before(t[i], t[j])
  BY <1>2 DEF CardsAreKept
<1>6. ASSUME NEW i \in DOMAIN t, NEW j \in DOMAIN t, t[i].name = t[j].name PROVE i = j
  <2>1. at[i] = at[j]
    BY <1>2, <1>6 DEF CardsAreKept, CardsAreDistinct
  <2>2. i \in Int /\ j \in Int /\ at[i] \in Int
    BY <1>1, <1>2, ListIs DEF AreCards
  <2>3. ~(at[i] < at[j]) /\ ~(at[j] < at[i])
    BY <2>1, <2>2
  <2>4. ~(i < j) /\ ~(j < i)
    BY <1>2, <2>3
  <2> QED
    BY <2>2, <2>4
<1> QED
  BY <1>2, <1>3, <1>4, <1>5, <1>6 DEF CardsAreKept, CardsAreDistinct, t

LEMMA OneMore ==
  ASSUME NEW s, AreCards(s), CardsAreDistinct(s), NEW q, IsCard(q), CardFits(q),
         \A k \in DOMAIN s : s[k].name # q.name
  PROVE  AreCards(Append(s, q)) /\ CardsAreDistinct(Append(s, q))
<1> DEFINE t == Append(s, q)
           n == Len(s) + 1
<1>1. /\ IsList(t) /\ DOMAIN t = DOMAIN s \cup {n} /\ n \notin DOMAIN s
      /\ t[n] = q /\ \A k \in DOMAIN s : t[k] = s[k]
  BY Longer DEF AreCards
<1> HIDE DEF t, n
<1>2. AreCards(t)
  BY <1>1 DEF AreCards
<1>3. MetricsFit(t)
  BY <1>1, FitIs DEF CardsAreDistinct
<1>4. \A i, j \in DOMAIN t : t[i].name = t[j].name => i = j
  BY <1>1 DEF CardsAreDistinct
<1> QED
  BY <1>2, <1>3, <1>4 DEF CardsAreDistinct, t

(* merge_library() of one entry.                                           *)
LEMMA MergeOneKeeps ==
  ASSUME NEW s, AreCards(s), CardsAreDistinct(s), NEW q, IsCard(q), CardFits(q)
  PROVE  AreCards(MergeOne(s, q)) /\ CardsAreDistinct(MergeOne(s, q))
<1>1. CASE q.name = 0
  BY <1>1 DEF MergeOne
<1>2. CASE q.name # 0 /\ Named(s, q.name) = {}
  <2>1. \A k \in DOMAIN s : s[k].name # q.name
    BY <1>2 DEF Named
  <2>2. MergeOne(s, q) = Append(s, q)
    BY <1>2 DEF MergeOne
  <2> QED
    BY <2>1, <2>2, OneMore
<1>3. CASE q.name # 0 /\ Named(s, q.name) # {}
  <2> DEFINE t == [k \in DOMAIN s |-> IF s[k].name = q.name THEN q ELSE s[k]]
  <2>1. MergeOne(s, q) = t
    BY <1>3 DEF MergeOne
  <2>2. t = [k \in DOMAIN s |-> t[k]]
    OBVIOUS
  <2>3. \A k \in DOMAIN s : IsCard(t[k]) /\ t[k].name = s[k].name /\ CardFits(t[k])
    BY FitIs DEF AreCards, CardsAreDistinct
  <2> HIDE DEF t
  <2> QED
    BY <2>1, <2>2, <2>3, ChangedAreCards
<1> QED
  BY <1>1, <1>2, <1>3

(* A library that is merged, entry by entry.                               *)
LEMMA MergingKeeps ==
  ASSUME NEW s, AreCards(s), CardsAreDistinct(s), NEW lib, AreCards(lib), MetricsFit(lib)
  PROVE  AreCards(Merging(s, lib)) /\ CardsAreDistinct(Merging(s, lib))
<1> DEFINE m == Len(lib)
           C == {s[k] : k \in DOMAIN s} \cup {lib[k] : k \in DOMAIN lib}
           X == {x \in Seq(C) : AreCards(x) /\ CardsAreDistinct(x)}
           g == [p \in X \X (1 .. m) |-> MergeOne(p[1], lib[p[2]])]
           after == CHOOSE after :
                      after = [n \in 0 .. m |-> IF n = 0 THEN s ELSE MergeOne(after[n - 1], lib[n])]
<1>1. m \in Nat /\ DOMAIN lib = 1 .. m
  BY ListIs DEF AreCards
<1>2. \A k \in 1 .. m : lib[k] \in C /\ IsCard(lib[k]) /\ CardFits(lib[k])
  BY <1>1, FitIs DEF AreCards
<1>3. s \in X
  <2>1. s \in Seq({s[k] : k \in DOMAIN s})
    BY DEF AreCards, IsList
  <2>2. s \in Seq(C)
    BY <2>1, OfItsElements
  <2> QED
    BY <2>2
<1> HIDE DEF C, m
<1>4. ASSUME NEW x \in X, NEW k \in 1 .. m PROVE MergeOne(x, lib[k]) \in X
  <2> DEFINE q == lib[k]
  <2>1. q \in C /\ IsCard(q) /\ CardFits(q)
    BY <1>2
  <2> HIDE DEF q
  <2>2. AreCards(MergeOne(x, q)) /\ CardsAreDistinct(MergeOne(x, q))
    BY <2>1, MergeOneKeeps
  <2>3. MergeOne(x, q) \in Seq(C)
    <3>1. Append(x, q) \in Seq(C)
      BY <2>1
    <3>2. [i \in DOMAIN x |-> IF x[i].name = q.name THEN q ELSE x[i]] \in Seq(C)
      <4>1. Len(x) \in Nat /\ DOMAIN x = 1 .. Len(x) /\ \A i \in DOMAIN x : x[i] \in C
        OBVIOUS
      <4>2. [i \in 1 .. Len(x) |-> IF x[i].name = q.name THEN q ELSE x[i]] \in Seq(C)
        BY <2>1, <4>1
      <4> QED
        BY <4>1, <4>2
    <3> QED
      BY <3>1, <3>2 DEF MergeOne
  <2> QED
    BY <2>2, <2>3 DEF q
<1> HIDE DEF X
<1>5. g \in [X \X (1 .. m) -> X]
  BY <1>4
<1>6. PICK f \in [0 .. m -> X] : f[0] = s /\ \A n \in 1 .. m : f[n] = g[<<f[n - 1], n>>]
  <2> HIDE DEF g
  <2>1. \E f : StepsOf(f, m, X, s, g)
    BY <1>1, <1>3, <1>5, StepsExist
  <2> QED
    BY <2>1 DEF StepsOf
<1>7. f = [n \in 0 .. m |-> IF n = 0 THEN s ELSE MergeOne(f[n - 1], lib[n])]
  <2>1. \A n \in 1 .. m : f[n] = MergeOne(f[n - 1], lib[n])
    <3> SUFFICES ASSUME NEW n \in 1 .. m PROVE f[n] = MergeOne(f[n - 1], lib[n])
      OBVIOUS
    <3>1. f[n - 1] \in X
      BY <1>1
    <3> QED
      BY <1>6, <3>1
  <2>2. \A n \in 0 .. m : n # 0 => n \in 1 .. m
    BY <1>1
  <2> QED
    BY <1>6, <2>1, <2>2
<1>8. after = [n \in 0 .. m |-> IF n = 0 THEN s ELSE MergeOne(after[n - 1], lib[n])]
  BY <1>7
<1>9. Merging(s, lib) = after[m]
  BY DEF Merging, m
<1> HIDE DEF after, g
<1>10. after[m] \in X
  <2> DEFINE good == {n \in 0 .. m : after[n] \in X}
  <2>1. 0 \in good
    BY <1>1, <1>3, <1>8
  <2>2. ASSUME NEW n \in 0 .. m, n \in good, n < m PROVE n + 1 \in good
    <3>1. n + 1 \in 1 .. m /\ n + 1 \in 0 .. m /\ n + 1 # 0 /\ (n + 1) - 1 = n
      BY <1>1, <2>2
    <3>2. after[n + 1] = MergeOne(after[n], lib[n + 1])
      BY <1>8, <3>1
    <3> QED
      BY <1>4, <2>2, <3>1, <3>2
  <2>3. 0 .. m \subseteq good
    <3> HIDE DEF good
    <3> QED
      BY <1>1, <2>1, <2>2, UpTo
  <2> QED
    BY <1>1, <2>3
<1> QED
  BY <1>9, <1>10 DEF X

-----------------------------------------------------------------------------
(*                              The targets                                *)

LEMMA FewerTargets ==
  ASSUME NEW s, AreTargets(s), TargetsAreKept(s), NEW gone \in SUBSET DOMAIN s
  PROVE  /\ AreTargets(Without(s, gone)) /\ TargetsAreKept(Without(s, gone))
         /\ \A k \in DOMAIN Without(s, gone) : \E i \in DOMAIN s \ gone : Without(s, gone)[k] = s[i]
<1> DEFINE t == Without(s, gone)
<1>1. IsList(t)
  BY Fewer DEF AreTargets
<1>2. PICK at :
        /\ \A k \in DOMAIN t : at[k] \in DOMAIN s \ gone /\ t[k] = s[at[k]]
        /\ \A j, k \in DOMAIN t : j < k => at[j] < at[k]
  BY Fewer DEF AreTargets
<1> HIDE DEF t
<1>3. AreTargets(t)
  BY <1>1, <1>2 DEF AreTargets
<1>4. ASSUME NEW i \in DOMAIN t, NEW j \in DOMAIN t, t[i].key = t[j].key PROVE i = j
  <2>1. at[i] = at[j]
    BY <1>2, <1>4 DEF TargetsAreKept
  <2>2. i \in Int /\ j \in Int /\ at[i] \in Int
    BY <1>1, <1>2, ListIs DEF AreTargets
  <2>3. ~(at[i] < at[j]) /\ ~(at[j] < at[i])
    BY <2>1, <2>2
  <2>4. ~(i < j) /\ ~(j < i)
    BY <1>2, <2>3
  <2> QED
    BY <2>2, <2>4
<1>5. \A i \in DOMAIN t : t[i].key # NoTarget
  BY <1>2 DEF TargetsAreKept
<1> QED
  BY <1>2, <1>3, <1>4, <1>5 DEF TargetsAreKept, t

(* upsert_target().                                                        *)
LEMMA ConnectedIsKept ==
  ASSUME NEW s, AreTargets(s), TargetsAreKept(s), NEW t, t # NoTarget, NEW seen
  PROVE  /\ AreTargets(Append(Without(s, Keyed(s, t)), [key |-> t, seen |-> seen]))
         /\ TargetsAreKept(Append(Without(s, Keyed(s, t)), [key |-> t, seen |-> seen]))
<1> DEFINE rest == Without(s, Keyed(s, t))
           x == [key |-> t, seen |-> seen]
           all == Append(rest, x)
           n == Len(rest) + 1
<1>1. Keyed(s, t) \in SUBSET DOMAIN s /\ \A i \in DOMAIN s \ Keyed(s, t) : s[i].key # t
  BY DEF Keyed
<1>2. /\ AreTargets(rest) /\ TargetsAreKept(rest)
      /\ \A k \in DOMAIN rest : \E i \in DOMAIN s \ Keyed(s, t) : rest[k] = s[i]
  BY <1>1, FewerTargets
<1>3. \A k \in DOMAIN rest : rest[k].key # t
  BY <1>1, <1>2
<1>4. IsTarget(x) /\ x.key = t
  BY DEF IsTarget
<1> HIDE DEF rest, x
<1>5. /\ IsList(all) /\ DOMAIN all = DOMAIN rest \cup {n} /\ n \notin DOMAIN rest
      /\ all[n] = x /\ \A k \in DOMAIN rest : all[k] = rest[k]
  BY <1>2, Longer DEF AreTargets
<1> HIDE DEF all, n
<1>6. AreTargets(all)
  BY <1>2, <1>4, <1>5 DEF AreTargets
<1>7. TargetsAreKept(all)
  BY <1>2, <1>3, <1>4, <1>5 DEF TargetsAreKept
<1> QED
  BY <1>6, <1>7 DEF all, rest, x

(* note_target_probe().                                                    *)
LEMMA ProbedIsKept ==
  ASSUME NEW s, AreTargets(s), TargetsAreKept(s), NEW u, u = [k \in DOMAIN s |-> u[k]],
         \A k \in DOMAIN s : u[k] = s[k] \/ u[k] = [s[k] EXCEPT !.seen = TRUE]
  PROVE  AreTargets(u) /\ TargetsAreKept(u)
<1>1. Len(s) \in Nat /\ DOMAIN s = 1 .. Len(s)
  BY ListIs DEF AreTargets
<1>2. IsList(u) /\ DOMAIN u = DOMAIN s
  BY <1>1, MadeList
<1>3. \A k \in DOMAIN s : IsTarget(u[k]) /\ u[k].key = s[k].key
  BY DEF AreTargets, IsTarget
<1> QED
  BY <1>2, <1>3 DEF AreTargets, TargetsAreKept

-----------------------------------------------------------------------------
(*                    What is kept of a configuration                      *)

LEMMA FieldsKept ==
  ASSUME NEW c, IsKept(c), NEW x
  PROVE  /\ IsHistory(x) /\ HistoryIsKept(x) => IsKept([c EXCEPT !.history = x])
         /\ AreCards(x) /\ CardsAreKept(x) => IsKept([c EXCEPT !.saved = x])
         /\ AreTargets(x) /\ TargetsAreKept(x) => IsKept([c EXCEPT !.targets = x])
         /\ IsKept([c EXCEPT !.prefs = x]) /\ IsKept([c EXCEPT !.version = x])
<1>1. c = [version |-> c.version, history |-> c.history, saved |-> c.saved,
           targets |-> c.targets, prefs |-> c.prefs]
  BY DEF IsKept, IsConfig
<1>2. /\ [c EXCEPT !.history = x].history = x /\ [c EXCEPT !.history = x].saved = c.saved
      /\ [c EXCEPT !.history = x].targets = c.targets
  BY <1>1
<1>3. /\ [c EXCEPT !.saved = x].history = c.history /\ [c EXCEPT !.saved = x].saved = x
      /\ [c EXCEPT !.saved = x].targets = c.targets
  BY <1>1
<1>4. /\ [c EXCEPT !.targets = x].history = c.history /\ [c EXCEPT !.targets = x].saved = c.saved
      /\ [c EXCEPT !.targets = x].targets = x
  BY <1>1
<1>5. /\ [c EXCEPT !.prefs = x].history = c.history /\ [c EXCEPT !.prefs = x].saved = c.saved
      /\ [c EXCEPT !.prefs = x].targets = c.targets
      /\ [c EXCEPT !.version = x].history = c.history /\ [c EXCEPT !.version = x].saved = c.saved
      /\ [c EXCEPT !.version = x].targets = c.targets
  BY <1>1
<1>6. /\ IsConfig([c EXCEPT !.history = x]) /\ IsConfig([c EXCEPT !.saved = x])
      /\ IsConfig([c EXCEPT !.targets = x]) /\ IsConfig([c EXCEPT !.prefs = x])
      /\ IsConfig([c EXCEPT !.version = x])
  BY FieldsSet DEF IsKept
<1> QED
  BY <1>2, <1>3, <1>4, <1>5, <1>6 DEF IsKept

LEMMA NothingIsKept == IsKept(Default) /\ IsKept(Cut)
<1>1. \A e : e \in Seq({}) => IsList(e)
  BY IsListOf
<1>2. IsList(<<>>) /\ Len(<<>>) = 0 /\ DOMAIN <<>> = {}
  <2>1. <<>> \in Seq({}) /\ Len(<<>>) = 0 /\ DOMAIN <<>> = {}
    OBVIOUS
  <2> QED
    BY <1>1, <2>1
<1>3. IsHistory(<<>>) /\ AreCards(<<>>) /\ AreTargets(<<>>)
  BY <1>2 DEF IsHistory, AreCards, AreTargets
<1>4. HistoryIsKept(<<>>) /\ CardsAreKept(<<>>) /\ TargetsAreKept(<<>>)
  BY <1>2, LibraryAssumption
  DEF HistoryIsKept, CardsAreKept, CardsAreDistinct, TargetsAreKept, MetricsFit
<1>5. Default.history = <<>> /\ Default.saved = <<>> /\ Default.targets = <<>>
  BY DEF Default
<1>6. IsKept(Default)
  BY <1>3, <1>4, <1>5, DefaultIsConfig DEF IsKept
<1> QED
  BY <1>6, FieldsKept DEF Cut

(* load() and migrate().                                                   *)
LEMMA LoadedIsKept ==
  ASSUME NEW file, \A c \in file : IsKept(c)
  PROVE  IsKept(Loaded(file)) /\ IsKept(Migrated(Loaded(file)))
<1>1. IsKept(Loaded(file))
  <2>1. CASE file \subseteq {Cut}
    BY <2>1, NothingIsKept DEF Loaded
  <2>2. CASE ~(file \subseteq {Cut})
    <3>1. (CHOOSE c \in file : TRUE) \in file
      BY <2>2
    <3> QED
      BY <2>2, <3>1 DEF Loaded
  <2> QED
    BY <2>1, <2>2
<1> QED
  BY <1>1, FieldsKept DEF Migrated

-----------------------------------------------------------------------------
(*                 Every operation keeps what it changes                   *)

(* What an operation may do to the configuration, and leave it in order.   *)
KeepsIt ==
  \E c : IsKept(c) /\ (Save(c) \/ SaveLater(c))

LEMMA RunInKeeps ==
  ASSUME IsKept(config), NEW ed, RunIn(ed)
  PROVE  KeepsIt
<1> DEFINE h == Pushed(config.history, ed.text, ed.ns, ops + 1)
<1>1. IsHistory(h) /\ HistoryIsKept(h)
  BY PushedIsKept DEF IsKept
<1>2. SaveLater([config EXCEPT !.history = h])
  BY DEF RunIn
<1> HIDE DEF h
<1>3. IsKept([config EXCEPT !.history = h])
  BY <1>1, FieldsKept
<1> DEFINE c == [config EXCEPT !.history = h]
<1>4. IsKept(c) /\ SaveLater(c)
  BY <1>2, <1>3
<1> HIDE DEF c
<1> QED
  BY <1>4 DEF KeepsIt

LEMMA QueryResultKeeps ==
  ASSUME IsKept(config), QueryResult
  PROVE  KeepsIt \/ UNCHANGED <<config, ioJobs>>
<1> DEFINE q == Head(inflight)
           h == Measured(config.history, q.wql, q.ns, Metrics(q))
           s == Measured(config.saved, q.wql, q.ns, Metrics(q))
           c == [config EXCEPT !.history = h, !.saved = s]
<1>1. IF c # config THEN SaveLater(c) ELSE UNCHANGED <<config, clock, ioJobs>>
  BY DEF QueryResult
<1>2. \A m \in Metrics(q) : IsOf(m, q.wql, q.ns)
  BY DEF Metrics, IsOf
<1>3. IsHistory(h) /\ HistoryIsKept(h)
  BY <1>2, MeasuredHistoryIsKept DEF IsKept
<1>4. AreCards(s) /\ CardsAreKept(s)
  BY <1>2, MeasuredCardsAreKept DEF IsKept
<1> HIDE DEF h, s
<1> DEFINE d == [config EXCEPT !.history = h]
<1>5. c = [d EXCEPT !.saved = s]
  OBVIOUS
<1>6. IsKept(d)
  BY <1>3, FieldsKept
<1> HIDE DEF c, d
<1>7. IsKept([d EXCEPT !.saved = s])
  BY <1>4, <1>6, FieldsKept
<1>8. IsKept(c)
  BY <1>5, <1>7
<1> QED
  BY <1>1, <1>8 DEF KeepsIt

(* Cards that are to be sorted and saved, and that are as they are.        *)
LEMMA CardsSaved ==
  ASSUME IsKept(config), NEW s,
         \/ AreCards(s) /\ CardsAreDistinct(s) /\ Save([config EXCEPT !.saved = Sorted(s)])
         \/ AreCards(s) /\ CardsAreKept(s) /\ Save([config EXCEPT !.saved = s])
  PROVE  KeepsIt
<1>1. ASSUME NEW t, AreCards(t), CardsAreKept(t), Save([config EXCEPT !.saved = t]) PROVE KeepsIt
  <2>1. IsKept([config EXCEPT !.saved = t])
    BY <1>1, FieldsKept
  <2> QED
    BY <1>1, <2>1 DEF KeepsIt
<1>2. AreCards(s) /\ CardsAreDistinct(s) => AreCards(Sorted(s)) /\ CardsAreKept(Sorted(s))
  BY SortedIsKept
<1> QED
  BY <1>1, <1>2

LEMMA SaveQueryKeeps ==
  ASSUME IsKept(config), NEW n \in Names, SaveQuery(n)
  PROVE  KeepsIt
<1> DEFINE h == config.history
           s == config.saved
           old == Named(s, n)
           past == {k \in DOMAIN h : IsOf(h[k], typed.text, typed.ns)}
           folder == IF old = {} THEN 0 ELSE s[First(old)].folder
           fav == old # {} /\ s[First(old)].fav
           metrics == IF past = {} THEN {} ELSE h[First(past)].metrics
           q == [name |-> n, wql |-> typed.text, ns |-> typed.ns,
                 folder |-> folder, fav |-> fav, metrics |-> metrics]
           rest == Others(s, n)
<1>1. Save([config EXCEPT !.saved = Sorted(Append(rest, q))])
  BY DEF SaveQuery
<1>2. /\ IsHistory(h) /\ HistoryIsKept(h) /\ AreCards(s) /\ CardsAreKept(s)
      /\ n \in Int /\ old \in SUBSET DOMAIN s /\ past \in SUBSET DOMAIN h
      /\ \A k \in DOMAIN s \ old : s[k].name # n
      /\ \A k \in past : IsOf(h[k], typed.text, typed.ns)
  BY LibraryAssumption DEF IsKept, Named
<1> HIDE DEF old, past, h, s
<1>3. /\ Len(s) \in Nat /\ DOMAIN s = 1 .. Len(s) /\ Len(h) \in Nat /\ DOMAIN h = 1 .. Len(h)
  BY <1>2, ListIs DEF AreCards, IsHistory
<1>4. (old # {} => First(old) \in old) /\ (past # {} => First(past) \in past)
  BY <1>2, <1>3, FirstIs
<1>5. folder \in Int /\ fav \in BOOLEAN
  <2>1. \A k \in DOMAIN s : s[k].folder \in Int /\ s[k].fav \in BOOLEAN
    BY <1>2 DEF AreCards, IsCard
  <2> QED
    BY <1>2, <1>4, <2>1
<1>6. \A m \in metrics : IsOf(m, typed.text, typed.ns)
  <2> SUFFICES ASSUME past # {}, NEW m \in h[First(past)].metrics
               PROVE  IsOf(m, typed.text, typed.ns)
    OBVIOUS
  <2> DEFINE e == h[First(past)]
  <2>1. IsOf(m, e.wql, e.ns)
    BY <1>2, <1>4 DEF HistoryIsKept, MetricsFit
  <2>2. IsOf(e, typed.text, typed.ns)
    BY <1>2, <1>4
  <2> QED
    BY <2>1, <2>2 DEF IsOf
<1> HIDE DEF folder, fav, metrics
<1>7. IsCard(q) /\ CardFits(q) /\ q.name = n
  BY <1>2, <1>5, <1>6 DEF IsCard, CardFits
<1>8. /\ AreCards(rest) /\ CardsAreKept(rest)
      /\ \A k \in DOMAIN rest : \E i \in DOMAIN s \ old : rest[k] = s[i]
  BY <1>2, FewerAreKept DEF Others, old
<1> HIDE DEF rest, q
<1>9. \A k \in DOMAIN rest : rest[k].name # q.name
  BY <1>2, <1>7, <1>8
<1>10. AreCards(Append(rest, q)) /\ CardsAreDistinct(Append(rest, q))
  BY <1>7, <1>8, <1>9, OneMore DEF CardsAreKept
<1> QED
  BY <1>1, <1>10, CardsSaved

LEMMA SetFolderKeeps ==
  ASSUME IsKept(config), NEW n, NEW f \in Folders, SetFolder(n, f)
  PROVE  KeepsIt
<1> DEFINE s == config.saved
           t == [k \in DOMAIN s |-> IF s[k].name = n THEN [s[k] EXCEPT !.folder = f] ELSE s[k]]
<1>1. AreCards(s) /\ CardsAreDistinct(s) /\ f \in Int
  BY LibraryAssumption DEF IsKept, CardsAreKept
<1>2. Save([config EXCEPT !.saved = Sorted(t)])
  BY DEF SetFolder, Changed
<1> HIDE DEF s
<1>3. \A k \in DOMAIN s : IsCard(s[k]) /\ CardFits(s[k])
  BY <1>1, FitIs DEF AreCards, CardsAreDistinct
<1>4. ASSUME NEW q, IsCard(q), CardFits(q)
      PROVE  LET r == [q EXCEPT !.folder = f] IN IsCard(r) /\ CardFits(r) /\ r.name = q.name
  <2> DEFINE r == [q EXCEPT !.folder = f]
  <2>1. IsCard(r) /\ r.name = q.name /\ r.metrics = q.metrics /\ IsOf(r, q.wql, q.ns)
    BY <1>1, <1>4, CardSet
  <2> HIDE DEF r
  <2>2. IsCard(r) /\ CardFits(r) /\ r.name = q.name
    BY <1>4, <2>1 DEF CardFits, IsOf
  <2> QED
    BY <2>2 DEF r
<1>5. \A k \in DOMAIN s : IsCard(t[k]) /\ t[k].name = s[k].name /\ CardFits(t[k])
  BY <1>3, <1>4
<1>6. t = [k \in DOMAIN s |-> t[k]]
  OBVIOUS
<1> HIDE DEF t
<1>7. AreCards(t) /\ CardsAreDistinct(t)
  BY <1>1, <1>5, <1>6, ChangedAreCards
<1> QED
  BY <1>2, <1>7, CardsSaved

LEMMA ToggleKeeps ==
  ASSUME IsKept(config), NEW n, ToggleFavourite(n)
  PROVE  KeepsIt
<1> DEFINE s == config.saved
           t == [k \in DOMAIN s |-> IF s[k].name = n THEN [s[k] EXCEPT !.fav = ~s[k].fav] ELSE s[k]]
<1>1. AreCards(s) /\ CardsAreDistinct(s)
  BY DEF IsKept, CardsAreKept
<1>2. Save([config EXCEPT !.saved = Sorted(t)])
  BY DEF ToggleFavourite, Changed
<1> HIDE DEF s
<1>3. \A k \in DOMAIN s : IsCard(s[k]) /\ CardFits(s[k])
  BY <1>1, FitIs DEF AreCards, CardsAreDistinct
<1>4. ASSUME NEW q, IsCard(q), CardFits(q)
      PROVE  LET r == [q EXCEPT !.fav = ~q.fav] IN IsCard(r) /\ CardFits(r) /\ r.name = q.name
  <2> DEFINE fav == ~q.fav
             r == [q EXCEPT !.fav = fav]
  <2>1. fav \in BOOLEAN
    OBVIOUS
  <2> HIDE DEF fav
  <2>2. IsCard(r) /\ r.name = q.name /\ r.metrics = q.metrics /\ IsOf(r, q.wql, q.ns)
    BY <1>4, <2>1, CardSet
  <2> HIDE DEF r
  <2>3. IsCard(r) /\ CardFits(r) /\ r.name = q.name
    BY <1>4, <2>2 DEF CardFits, IsOf
  <2> QED
    BY <2>3 DEF r, fav
<1>5. \A k \in DOMAIN s : IsCard(t[k]) /\ t[k].name = s[k].name /\ CardFits(t[k])
  BY <1>3, <1>4
<1>6. t = [k \in DOMAIN s |-> t[k]]
  OBVIOUS
<1> HIDE DEF t
<1>7. AreCards(t) /\ CardsAreDistinct(t)
  BY <1>1, <1>5, <1>6, ChangedAreCards
<1> QED
  BY <1>2, <1>7, CardsSaved

LEMMA DeleteKeeps ==
  ASSUME IsKept(config), NEW n, DeleteSaved(n)
  PROVE  KeepsIt
<1> DEFINE s == Others(config.saved, n)
<1>1. Save([config EXCEPT !.saved = s])
  BY DEF DeleteSaved
<1>2. Named(config.saved, n) \in SUBSET DOMAIN config.saved
  BY DEF Named
<1>3. AreCards(s) /\ CardsAreKept(s)
  BY <1>2, FewerAreKept DEF IsKept, Others
<1> HIDE DEF s
<1> QED
  BY <1>1, <1>3, CardsSaved

LEMMA DrainIoKeeps ==
  ASSUME IsKept(config), DrainIo
  PROVE  KeepsIt \/ UNCHANGED <<config, ioJobs>>
<1>1. CASE UNCHANGED <<config, clock, ioJobs>>
  BY <1>1
<1>2. ASSUME NEW lib \in Imports, Save([config EXCEPT !.saved = Merged(config.saved, lib)])
      PROVE  KeepsIt
  <2> DEFINE s == Merging(config.saved, lib)
  <2>1. AreCards(lib) /\ MetricsFit(lib)
    BY LibraryAssumption
  <2>2. AreCards(s) /\ CardsAreDistinct(s)
    BY <2>1, MergingKeeps DEF IsKept, CardsAreKept
  <2>3. Save([config EXCEPT !.saved = Sorted(s)])
    BY <1>2 DEF Merged
  <2> HIDE DEF s
  <2> QED
    BY <2>2, <2>3, CardsSaved
<1> QED
  BY <1>1, <1>2 DEF DrainIo

LEMMA TargetsSaved ==
  ASSUME IsKept(config), NEW s, AreTargets(s), TargetsAreKept(s),
         Save([config EXCEPT !.targets = s]) \/ SaveLater([config EXCEPT !.targets = s])
  PROVE  KeepsIt
<1>1. IsKept([config EXCEPT !.targets = s])
  BY FieldsKept
<1> QED
  BY <1>1 DEF KeepsIt

LEMMA TargetsKeep ==
  ASSUME IsKept(config), NEW t, ConnectTarget(t) \/ NoteProbe(t) \/ ForgetTarget(t)
  PROVE  KeepsIt \/ UNCHANGED <<config, ioJobs>>
<1> DEFINE s == config.targets
<1>1. AreTargets(s) /\ TargetsAreKept(s) /\ Keyed(s, t) \in SUBSET DOMAIN s
  BY DEF IsKept, Keyed
<1>2. CASE ConnectTarget(t) /\ t # NoTarget
  <2> DEFINE seen == Keyed(s, t) # {} /\ s[First(Keyed(s, t))].seen
             u == Append(Without(s, Keyed(s, t)), [key |-> t, seen |-> seen])
  <2>1. SaveLater([config EXCEPT !.targets = u])
    BY <1>2 DEF ConnectTarget
  <2> HIDE DEF s, seen
  <2>2. AreTargets(u) /\ TargetsAreKept(u)
    BY <1>1, <1>2, ConnectedIsKept
  <2> HIDE DEF u
  <2> QED
    BY <2>1, <2>2, TargetsSaved
<1>3. CASE ConnectTarget(t) /\ t = NoTarget
  BY <1>3 DEF ConnectTarget
<1>4. CASE NoteProbe(t)
  <2> DEFINE u == [k \in DOMAIN s |-> IF s[k].key = t THEN [s[k] EXCEPT !.seen = TRUE] ELSE s[k]]
  <2>1. SaveLater([config EXCEPT !.targets = u]) \/ UNCHANGED <<config, clock, ioJobs>>
    BY <1>4 DEF NoteProbe
  <2> HIDE DEF s
  <2>2. /\ u = [k \in DOMAIN s |-> u[k]]
        /\ \A k \in DOMAIN s : u[k] = s[k] \/ u[k] = [s[k] EXCEPT !.seen = TRUE]
    OBVIOUS
  <2> HIDE DEF u
  <2>3. AreTargets(u) /\ TargetsAreKept(u)
    BY <1>1, <2>2, ProbedIsKept
  <2> QED
    BY <2>1, <2>3, TargetsSaved
<1>5. CASE ForgetTarget(t)
  <2> DEFINE u == Without(s, Keyed(s, t))
  <2>1. Save([config EXCEPT !.targets = u])
    BY <1>5 DEF ForgetTarget
  <2> HIDE DEF s
  <2>2. AreTargets(u) /\ TargetsAreKept(u)
    BY <1>1, FewerTargets
  <2> HIDE DEF u
  <2> QED
    BY <2>1, <2>2, TargetsSaved
<1> QED
  BY <1>2, <1>3, <1>4, <1>5

LEMMA PreferenceKeeps ==
  ASSUME IsKept(config), SetPreference
  PROVE  KeepsIt
<1> DEFINE p == (config.prefs + 1) % 2
<1>1. Save([config EXCEPT !.prefs = p]) \/ SaveLater([config EXCEPT !.prefs = p])
  BY DEF SetPreference
<1> HIDE DEF p
<1>2. IsKept([config EXCEPT !.prefs = p])
  BY FieldsKept
<1> QED
  BY <1>1, <1>2 DEF KeepsIt

-----------------------------------------------------------------------------
(*              The configurations there are, over a step                  *)

(* Where the configurations of a step come from.                           *)
LEMMA HeldIs ==
  ASSUME AllIsKept, IsKept(config'), Jobs' \cup io' \subseteq Jobs \cup io \cup {Write(config')},
         disk' \subseteq disk \cup {Cut} \cup {j.contents : j \in io}
  PROVE  AllIsKept'
<1> SUFFICES ASSUME NEW c \in Held' PROVE IsKept(c)
  BY DEF AllIsKept
<1>1. \A d \in disk \cup {j.contents : j \in Jobs \cup io} : IsKept(d)
  BY DEF AllIsKept, Held
<1>2. Write(config').contents = config'
  BY DEF Write
<1>3. CASE c = config'
  BY <1>3
<1>4. CASE c \in disk'
  BY <1>1, <1>4, NothingIsKept
<1>5. ASSUME NEW j \in Jobs' \cup io', c = j.contents PROVE IsKept(c)
  BY <1>1, <1>2, <1>5
<1> QED
  BY <1>3, <1>4, <1>5 DEF Held

LEMMA ChangedIsKept ==
  ASSUME LibraryInv, UNCHANGED <<io, disk>>, KeepsIt \/ UNCHANGED <<config, ioJobs>>
  PROVE  AllIsKept'
<1>1. IsKept(config) /\ ioJobs \in Seq(Jobs) /\ AllIsKept
  BY DEF LibraryInv, AllIsKept, Held, FileInv, LibraryTypeOK
<1>2. ASSUME NEW c, IsKept(c), Save(c) \/ SaveLater(c)
      PROVE  IsKept(config') /\ Jobs' \subseteq Jobs \cup {Write(config')}
  <2>1. CASE Save(c)
    <3>1. config' = c /\ ioJobs' = Append(ioJobs, Write(c))
      BY <2>1 DEF Save
    <3> DEFINE w == Write(c)
    <3> HIDE DEF w
    <3>2. ioJobs' = Append(ioJobs, w)
      BY <3>1 DEF w
    <3>3. Jobs' = Jobs \cup {w}
      BY <1>1, <3>2, Queued
    <3> QED
      BY <1>2, <3>1, <3>3 DEF w
  <2>2. CASE SaveLater(c)
    BY <1>2, <2>2 DEF SaveLater, Jobs
  <2> QED
    BY <1>2, <2>1, <2>2
<1>3. IsKept(config') /\ Jobs' \subseteq Jobs \cup {Write(config')}
  BY <1>1, <1>2 DEF KeepsIt, Jobs
<1> QED
  BY <1>1, <1>3, HeldIs

LEMMA UserKeeps ==
  ASSUME LibraryInv, User
  PROVE  AllIsKept'
<1>1. IsKept(config)
  BY DEF LibraryInv, AllIsKept, Held
<1>2. UNCHANGED <<io, disk>>
  BY UserIs DEF LibraryInv, IoSame
<1>3. CASE KeepsIt \/ UNCHANGED <<config, ioJobs>>
  BY <1>2, <1>3, ChangedIsKept
<1>4. ASSUME NEW kind, AskDialog(kind) PROVE AllIsKept'
  <2> DEFINE job == [kind |-> kind, contents |-> config]
  <2>1. job.contents = config
    OBVIOUS
  <2>2. ioJobs' = Append(ioJobs, job) /\ config' = config
    BY <1>4 DEF AskDialog
  <2> HIDE DEF job
  <2>3. Jobs' = Jobs \cup {job}
    BY <2>2, Queued DEF LibraryInv, FileInv, LibraryTypeOK
  <2>4. Held' \subseteq Held
    BY <1>2, <2>1, <2>2, <2>3 DEF Held
  <2> QED
    BY <2>4 DEF LibraryInv, AllIsKept
<1>5. CASE RunQuery
  BY <1>1, <1>3, <1>5, RunInKeeps DEF RunQuery
<1>6. CASE Edit
  BY <1>3, <1>6 DEF Edit
<1>7. CASE SetPreference
  BY <1>1, <1>3, <1>7, PreferenceKeeps
<1>8. CASE \E k \in DOMAIN config.history : LoadEntry(config.history[k])
  BY <1>1, <1>3, <1>8, RunInKeeps DEF LoadEntry
<1>9. CASE \E k \in DOMAIN config.saved : ApplySaved(config.saved[k])
  BY <1>1, <1>3, <1>9, RunInKeeps DEF ApplySaved
<1>10. ASSUME NEW n \in Names, SaveQuery(n) \/ ToggleFavourite(n) \/ DeleteSaved(n) PROVE KeepsIt
  <2>1. CASE SaveQuery(n)
    BY <1>1, <2>1, SaveQueryKeeps
  <2>2. CASE DeleteSaved(n)
    BY <1>1, <2>2, DeleteKeeps
  <2>3. CASE ToggleFavourite(n)
    BY <1>1, <2>3, ToggleKeeps
  <2> QED
    BY <1>10, <2>1, <2>2, <2>3
<1>11. ASSUME NEW n \in Names, NEW f \in Folders, SetFolder(n, f) PROVE KeepsIt
  BY <1>1, <1>11, SetFolderKeeps
<1>12. ASSUME NEW t, ConnectTarget(t) \/ NoteProbe(t) \/ ForgetTarget(t)
       PROVE  KeepsIt \/ UNCHANGED <<config, ioJobs>>
  BY <1>1, <1>12, TargetsKeep
<1> QED
  BY <1>3, <1>4, <1>5, <1>6, <1>7, <1>8, <1>9, <1>10, <1>11, <1>12 DEF User

LEMMA ThreadKeepsAll ==
  ASSUME LibraryInv, TakeJob \/ FinishWrite \/ FailWrite \/ AnswerDialog
  PROVE  AllIsKept'
<1>1. IsKept(config) /\ ioJobs \in Seq(Jobs) /\ AllIsKept
  BY DEF LibraryInv, AllIsKept, Held, FileInv, LibraryTypeOK
<1>2. config' = config
  BY DEF TakeJob, FinishWrite, FailWrite, AnswerDialog, appVars
<1>3. CASE TakeJob
  <2> DEFINE job == Head(ioJobs)
  <2>1. /\ ioJobs # <<>> /\ io' = {job} /\ ioJobs' = Tail(ioJobs)
        /\ disk' = IF job.kind = "Write" THEN {Cut} ELSE disk
    BY <1>3 DEF TakeJob
  <2>2. Jobs' \subseteq Jobs /\ job \in Jobs
    BY <1>1, <2>1, Taken
  <2> HIDE DEF job
  <2>3. disk' \subseteq disk \cup {Cut}
    BY <2>1
  <2> QED
    BY <1>1, <1>2, <2>1, <2>2, <2>3, HeldIs
<1>4. CASE FinishWrite \/ FailWrite \/ AnswerDialog
  <2>1. io' = {} /\ Jobs' = Jobs
    BY <1>4 DEF FinishWrite, FailWrite, AnswerDialog, Jobs
  <2>2. disk' \subseteq disk \cup {j.contents : j \in io}
    BY <1>4 DEF FinishWrite, FailWrite, AnswerDialog
  <2> QED
    BY <1>1, <1>2, <2>1, <2>2, HeldIs
<1> QED
  BY <1>3, <1>4

LEMMA ProcessKeepsAll ==
  ASSUME LibraryInv, Close \/ Launch
  PROVE  AllIsKept'
<1>1. IsKept(config) /\ AllIsKept /\ \A c \in disk : IsKept(c)
  BY DEF LibraryInv, AllIsKept, Held
<1>2. CASE Close
  <2>1. config' = config /\ disk' = disk /\ Jobs' = {} /\ io' = {}
    BY <1>2 DEF Close, Jobs
  <2> QED
    BY <1>1, <2>1, HeldIs
<1>3. CASE Launch
  <2> DEFINE c == Loaded(disk)
  <2>1. IsKept(Migrated(c))
    BY <1>1, LoadedIsKept
  <2>2. config' = Migrated(c) /\ UNCHANGED <<io, disk>>
    BY <1>3 DEF Launch
  <2>3. ioJobs' = <<Write(Migrated(c))>> \/ ioJobs' = <<>>
    BY <1>3 DEF Launch
  <2> HIDE DEF c
  <2>4. Jobs' \subseteq {Write(config')}
    BY <2>2, <2>3 DEF Jobs
  <2> QED
    BY <1>1, <2>1, <2>2, <2>4, HeldIs
<1> QED
  BY <1>2, <1>3

LEMMA TimeKeepsAll ==
  ASSUME LibraryInv, QueryFailed \/ EndFrame \/ WakeUp \/ Tick \/ UNCHANGED libraryVars
  PROVE  AllIsKept'
<1>1. IsKept(config)
  BY DEF LibraryInv, AllIsKept, Held
<1>2. UNCHANGED <<io, disk>>
  BY DEF QueryFailed, SameProcess, EndFrame, WakeUp, Tick, libraryVars
<1>3. Save(config) \/ UNCHANGED <<config, ioJobs>>
  BY DEF QueryFailed, EndFrame, WakeUp, Tick, libraryVars
<1>4. KeepsIt \/ UNCHANGED <<config, ioJobs>>
  BY <1>1, <1>3 DEF KeepsIt
<1> QED
  BY <1>2, <1>4, ChangedIsKept

(* Every configuration there is, shown, queued, being written or in the    *)
(* file, has its history within the cap and each query in it once, its     *)
(* saved queries in the order of the cards and each name once, its targets *)
(* once, and timings only where the very query was run that they stand     *)
(* beside (push_history(), note_query_run(), sort_saved(), merge_library(),*)
(* upsert_target(), load() and the IO thread).                             *)
THEOREM LibraryInvariant == LibrarySpec => []LibraryInv
<1>1. LibraryInit => LibraryInv
  <2> SUFFICES ASSUME LibraryInit PROVE LibraryInv
    OBVIOUS
  <2>1. config = Default /\ Jobs = {} /\ io = {} /\ disk \in OldFiles
    BY DEF LibraryInit, Jobs
  <2>2. \A c \in disk : IsKept(c)
    BY <2>1, LibraryAssumption
  <2>3. AllIsKept
    BY <2>1, <2>2, NothingIsKept DEF AllIsKept, Held
  <2> QED
    BY <2>3, InitFits DEF LibraryInv
<1>2. LibraryInv /\ [LibraryNext]_libraryVars => AllIsKept'
  <2> SUFFICES ASSUME LibraryInv, [LibraryNext]_libraryVars PROVE AllIsKept'
    OBVIOUS
  <2>1. CASE User
    BY <2>1, UserKeeps
  <2>2. CASE QueryResult
    <3>1. IsKept(config) /\ UNCHANGED <<io, disk>>
      BY <2>2 DEF LibraryInv, AllIsKept, Held, QueryResult, SameProcess
    <3> QED
      BY <2>2, <3>1, QueryResultKeeps, ChangedIsKept
  <2>3. CASE DrainIo
    <3>1. IsKept(config) /\ UNCHANGED <<io, disk>>
      BY <2>3 DEF LibraryInv, AllIsKept, Held, DrainIo
    <3> QED
      BY <2>3, <3>1, DrainIoKeeps, ChangedIsKept
  <2>4. CASE QueryFailed \/ EndFrame \/ WakeUp \/ Tick \/ UNCHANGED libraryVars
    BY <2>4, TimeKeepsAll
  <2>5. CASE Thread
    BY <2>5, ThreadKeepsAll DEF Thread
  <2>6. CASE Close \/ Launch
    BY <2>6, ProcessKeepsAll
  <2> QED
    BY <2>1, <2>2, <2>3, <2>4, <2>5, <2>6 DEF LibraryNext, Replies
<1>3. LibraryInv <=> FileInv /\ AllIsKept
  BY DEF LibraryInv
<1> QED
  BY <1>1, <1>2, <1>3, FileInvariant, PTL DEF LibrarySpec

(* The library, the history and the targets the window shows are in order, *)
(* without repetitions, and a timing is never beside another query, over   *)
(* saves, filings, stars, imports, crashes and restarts.                   *)
THEOREM LibraryStaysInOrder == LibrarySpec => []LibraryIsKept
<1>1. LibraryInv => LibraryIsKept
  BY DEF LibraryInv, AllIsKept, Held, IsKept, LibraryIsKept
<1> QED
  BY <1>1, LibraryInvariant, PTL

=============================================================================
