------------------------------ MODULE RetainProofs ------------------------------
(***************************************************************************)
(* Lemmas on the positions of a sequence: their ranks, the last of them,   *)
(* and what is left when some of them go.                                  *)
(***************************************************************************)
EXTENDS Retain, FiniteSetsExt, FunctionTheorems, FiniteSetTheorems, TLAPS

-----------------------------------------------------------------------------
(*                        Positions, and their ranks                       *)

(* A finite set counted along another one has its size.                    *)
LEMMA SameSize ==
  ASSUME NEW S, NEW T, IsFiniteSet(S), NEW f \in [S -> T],
         \A i, j \in S : f[i] = f[j] => i = j, \A k \in T : \E i \in S : f[i] = k
  PROVE  IsFiniteSet(T) /\ Cardinality(T) = Cardinality(S)
<1>1. f \in Injection(S, T) /\ f \in Surjection(S, T)
  BY Fun_IsInj, Fun_IsSurj
<1> QED
  BY <1>1, FS_Surjection, Zenon

(* upTo gives a set an order: what comes no later than each of its members.*)
OrderOf(upTo, set) ==
  /\ \A i \in set : upTo[i] \subseteq set
  /\ \A i, j \in set : i \in upTo[j] \/ j \in upTo[i]
  /\ \A i, j \in set : i \in upTo[j] /\ j \in upTo[i] => i = j
  /\ \A i, j, k \in set : i \in upTo[j] /\ j \in upTo[k] => i \in upTo[k]

(* The members of a finite set in order are counted by how many come no    *)
(* later: 1, 2, ... up to its size, each once, and in that order.          *)
LEMMA OrderIsCounted ==
  ASSUME NEW set, IsFiniteSet(set), NEW upTo, OrderOf(upTo, set)
  PROVE  /\ Cardinality(set) \in Nat
         /\ \A i \in set : Cardinality(upTo[i]) \in 1 .. Cardinality(set)
         /\ \A i, j \in set : Cardinality(upTo[i]) = Cardinality(upTo[j]) => i = j
         /\ \A i, j \in set : Cardinality(upTo[i]) <= Cardinality(upTo[j]) => i \in upTo[j]
         /\ \A n \in 1 .. Cardinality(set) : \E i \in set : Cardinality(upTo[i]) = n
<1> USE DEF OrderOf
<1>1. Cardinality(set) \in Nat
  BY FS_CardinalityType
<1>2. ASSUME NEW i \in set
      PROVE  IsFiniteSet(upTo[i]) /\ Cardinality(upTo[i]) \in 1 .. Cardinality(set)
  <2>1. upTo[i] \in SUBSET set /\ i \in upTo[i]
    OBVIOUS
  <2>2. IsFiniteSet(upTo[i]) /\ Cardinality(upTo[i]) <= Cardinality(set)
    BY <2>1, FS_Subset
  <2>3. Cardinality(upTo[i]) \in Nat /\ (Cardinality(upTo[i]) = 0 <=> upTo[i] = {})
    BY <2>2, FS_CardinalityType, FS_EmptySet
  <2> QED
    BY <1>1, <2>1, <2>2, <2>3
<1>3. ASSUME NEW i \in set, NEW j \in set, Cardinality(upTo[i]) <= Cardinality(upTo[j])
      PROVE  i \in upTo[j]
  <2> SUFFICES ASSUME j \in upTo[i] PROVE i \in upTo[j]
    OBVIOUS
  <2>1. upTo[j] \in SUBSET upTo[i]
    OBVIOUS
  <2>2. Cardinality(upTo[j]) <= Cardinality(upTo[i])
    BY <1>2, <2>1, FS_Subset
  <2>3. Cardinality(upTo[j]) = Cardinality(upTo[i])
    BY <1>2, <1>3, <2>2
  <2>4. upTo[j] = upTo[i]
    BY <1>2, <2>1, <2>3, FS_Subset
  <2> QED
    BY <2>4
<1>4. ASSUME NEW i \in set, NEW j \in set, Cardinality(upTo[i]) = Cardinality(upTo[j])
      PROVE  i = j
  <2>1. Cardinality(upTo[i]) <= Cardinality(upTo[j]) /\ Cardinality(upTo[j]) <= Cardinality(upTo[i])
    BY <1>2, <1>4
  <2> QED
    BY <1>3, <2>1
<1> DEFINE rank == [i \in set |-> Cardinality(upTo[i])]
           size == Cardinality(set)
<1>5. rank \in [set -> 1 .. size] /\ \A i, j \in set : rank[i] = rank[j] => i = j
  BY <1>2, <1>4
<1>6. rank \in Injection(set, 1 .. size)
  <2> HIDE DEF rank, size
  <2> QED
    BY <1>5, Fun_IsInj
<1>7. IsFiniteSet(1 .. size) /\ Cardinality(1 .. size) = size
  <2>1. 1 \in Int /\ size \in Int
    BY <1>1
  <2>2. IsFiniteSet(1 .. size) /\ Cardinality(1 .. size) = IF 1 > size THEN 0 ELSE size - 1 + 1
    BY <2>1, FS_Interval, Zenon
  <2> QED
    BY <1>1, <2>2
<1>8. rank \in Surjection(set, 1 .. size)
  BY <1>6, <1>7, FS_Injection, Zenon
<1>9. \A n \in 1 .. size : \E i \in set : rank[i] = n
  BY <1>8 DEF Surjection
<1> QED
  BY <1>1, <1>2, <1>3, <1>4, <1>9

(* The ranks of a finite set of positions are 1, 2, ... up to its size,    *)
(* each taken once, in their order.                                        *)
LEMMA RankIsBijective ==
  ASSUME NEW set \in SUBSET Int, IsFiniteSet(set)
  PROVE  /\ Cardinality(set) \in Nat
         /\ \A i \in set : Rank(set, i) \in 1 .. Cardinality(set)
         /\ \A i, j \in set : Rank(set, i) = Rank(set, j) => i = j
         /\ \A i, j \in set : Rank(set, i) <= Rank(set, j) => i <= j
         /\ \A n \in 1 .. Cardinality(set) : \E i \in set : Rank(set, i) = n
<1> DEFINE upTo == [i \in set |-> {j \in set : j <= i}]
<1>1. /\ \A i \in set : upTo[i] \subseteq set
      /\ \A i, j \in set : j \in upTo[i] <=> j <= i
      /\ \A i \in set : Rank(set, i) = Cardinality(upTo[i])
  BY DEF Rank
<1>2. OrderOf(upTo, set)
  <2> HIDE DEF upTo
  <2> QED
    BY <1>1 DEF OrderOf
<1> HIDE DEF upTo
<1>3. /\ Cardinality(set) \in Nat
      /\ \A i \in set : Cardinality(upTo[i]) \in 1 .. Cardinality(set)
      /\ \A i, j \in set : Cardinality(upTo[i]) = Cardinality(upTo[j]) => i = j
      /\ \A i, j \in set : Cardinality(upTo[i]) <= Cardinality(upTo[j]) => i \in upTo[j]
      /\ \A n \in 1 .. Cardinality(set) : \E i \in set : Cardinality(upTo[i]) = n
  BY <1>1, <1>2, OrderIsCounted, Zenon
<1> QED
  BY <1>1, <1>3

-----------------------------------------------------------------------------
(*                        The last of some positions                       *)

(* Max is the maximum, of any finite set of positions that is not empty.   *)
LEMMA MaxIsTheLast ==
  ASSUME NEW set \in SUBSET Int, IsFiniteSet(set), set # {}
  PROVE  Max(set) \in set /\ \A i \in set : i <= Max(set)
<1>1. Cardinality(set) \in Nat /\ Cardinality(set) # 0
  BY FS_CardinalityType, FS_EmptySet
<1>2. PICK last \in set : Rank(set, last) = Cardinality(set)
  <2>1. Cardinality(set) \in 1 .. Cardinality(set)
    BY <1>1
  <2> QED
    BY <2>1, RankIsBijective, Zenon
<1>3. {j \in set : j <= last} = set
  <2>1. {j \in set : j <= last} \in SUBSET set
    OBVIOUS
  <2>2. Cardinality(set) = Cardinality({j \in set : j <= last})
    BY <1>2 DEF Rank
  <2> QED
    BY <2>1, <2>2, FS_Subset
<1>4. \A i \in set : last >= i
  BY <1>3
<1>5. Max(set) \in set /\ \A i \in set : Max(set) >= i
  BY <1>4 DEF Max
<1> QED
  BY <1>5

LEMMA MaxIs ==
  ASSUME NEW set \in SUBSET Int, NEW m \in set, \A i \in set : i <= m
  PROVE  Max(set) = m
<1>1. Max(set) \in set /\ \A i \in set : Max(set) >= i
  <2>1. \A i \in set : m >= i
    OBVIOUS
  <2> QED
    BY <2>1 DEF Max
<1>2. Max(set) >= m /\ Max(set) <= m /\ Max(set) \in Int /\ m \in Int
  BY <1>1
<1> QED
  BY <1>2

(* Induction up to a bound, over a set: what holds of 0 and goes on from   *)
(* each number below the bound to the next holds up to it.                 *)
LEMMA UpTo ==
  ASSUME NEW m \in Nat, NEW good, 0 \in good, \A n \in 0 .. m : n \in good /\ n < m => n + 1 \in good
  PROVE  0 .. m \subseteq good
<1> SUFFICES ASSUME NEW k \in 0 .. m PROVE k \in good
  OBVIOUS
<1> DEFINE reached == {n \in 0 .. k : n \in good}
<1>1. reached \in SUBSET Int /\ 0 \in reached
  OBVIOUS
<1>2. IsFiniteSet(reached)
  <2>1. 0 \in Int /\ k \in Int
    OBVIOUS
  <2>2. IsFiniteSet(0 .. k)
    BY <2>1, FS_Interval, Zenon
  <2>3. reached \in SUBSET (0 .. k)
    OBVIOUS
  <2> QED
    BY <2>2, <2>3, FS_Subset
<1>3. Max(reached) \in reached /\ \A n \in reached : n <= Max(reached)
  <2> HIDE DEF reached
  <2> QED
    BY <1>1, <1>2, MaxIsTheLast
<1>4. Max(reached) = k
  <2> DEFINE top == Max(reached)
  <2>1. top \in 0 .. k /\ top \in good
    BY <1>3
  <2>2. top < k => top + 1 \in reached
    <3> HIDE DEF top
    <3> QED
      BY <2>1
  <2>3. ~(top < k)
    <3> SUFFICES ASSUME top < k PROVE FALSE
      OBVIOUS
    <3>1. top + 1 <= top
      <4> HIDE DEF reached
      <4> QED
        BY <1>3, <2>2
    <3> HIDE DEF top
    <3> QED
      BY <2>1, <3>1
  <2> HIDE DEF top
  <2>4. top = k
    BY <2>1, <2>3
  <2> QED
    BY <2>4 DEF top
<1> QED
  BY <1>3, <1>4

(* find() finds the first.                                                 *)
LEMMA FirstIs ==
  ASSUME NEW n \in Nat, NEW places \in SUBSET (1 .. n), places # {}
  PROVE  First(places) \in places /\ \A j \in places : First(places) <= j
<1>1. \E k \in places : \A j \in places : k <= j
  <2> SUFFICES ASSUME \A k \in places : \E j \in places : ~(k <= j) PROVE FALSE
    OBVIOUS
  <2> DEFINE good == {k \in 0 .. n : \A j \in places : k < j}
  <2>1. 0 \in good
    OBVIOUS
  <2>2. ASSUME NEW k \in 0 .. n, k \in good, k < n PROVE k + 1 \in good
    <3>1. \A j \in places : k + 1 <= j
      BY <2>2
    <3>2. k + 1 \notin places
      BY <3>1
    <3>3. \A j \in places : k + 1 < j
      BY <3>1, <3>2
    <3> QED
      BY <2>2, <3>3
  <2>3. 0 .. n \subseteq good
    <3> HIDE DEF good
    <3> QED
      BY <2>1, <2>2, UpTo
  <2>4. \A j \in places : n < j
    BY <2>3
  <2>5. PICK j : j \in places
    OBVIOUS
  <2> QED
    BY <2>4, <2>5
<1> QED
  BY <1>1 DEF First

(* A recursion along the positions of a sequence has a solution: g says    *)
(* what is made of the value so far at each of them.                       *)
StepsOf(f, m, X, start, g) ==
  f \in [0 .. m -> X] /\ f[0] = start /\ \A n \in 1 .. m : f[n] = g[<<f[n - 1], n>>]

LEMMA StepsExist ==
  ASSUME NEW m \in Nat, NEW X, NEW start \in X, NEW g \in [X \X (1 .. m) -> X]
  PROVE  \E f : StepsOf(f, m, X, start, g)
<1> DEFINE Goes(k, f) == f[0] = start /\ \A n \in 1 .. k : f[n] = g[<<f[n - 1], n>>]
           good == {k \in 0 .. m : \E f \in [0 .. k -> X] : Goes(k, f)}
<1>1. 0 \in good
  <2> DEFINE f == [n \in 0 .. 0 |-> start]
  <2>1. f \in [0 .. 0 -> X] /\ Goes(0, f)
    OBVIOUS
  <2> HIDE DEF f, Goes
  <2> QED
    BY <2>1
<1>2. ASSUME NEW k \in 0 .. m, k \in good, k < m PROVE k + 1 \in good
  <2>1. PICK f \in [0 .. k -> X] : Goes(k, f)
    BY <1>2
  <2> DEFINE last == g[<<f[k], k + 1>>]
             h == [n \in 0 .. k + 1 |-> IF n <= k THEN f[n] ELSE last]
  <2>2. last \in X
    <3>1. f[k] \in X /\ k + 1 \in 1 .. m
      BY <1>2
    <3>2. <<f[k], k + 1>> \in X \X (1 .. m)
      BY <3>1
    <3> QED
      BY <3>2
  <2>3. h \in [0 .. k + 1 -> X]
    <3> HIDE DEF last
    <3> QED
      BY <2>2
  <2>4. h[0] = start
    BY <2>1
  <2>5. ASSUME NEW n \in 1 .. k + 1 PROVE h[n] = g[<<h[n - 1], n>>]
    <3>1. CASE n <= k
      <4>1. n \in 1 .. k /\ h[n] = f[n] /\ h[n - 1] = f[n - 1]
        BY <3>1
      <4> QED
        BY <2>1, <4>1
    <3>2. CASE n = k + 1
      <4>1. h[n] = last /\ h[n - 1] = f[k]
        BY <3>2
      <4> QED
        BY <3>2, <4>1
    <3> QED
      BY <3>1, <3>2
  <2>6. Goes(k + 1, h)
    BY <2>4, <2>5
  <2>7. k + 1 \in 0 .. m
    BY <1>2
  <2> HIDE DEF h, Goes
  <2> QED
    BY <2>3, <2>6, <2>7
<1>3. m \in good
  <2> HIDE DEF good
  <2>1. \A n \in 0 .. m : n \in good /\ n < m => n + 1 \in good
    BY <1>2
  <2> QED
    BY <1>1, <2>1, UpTo
<1> QED
  BY <1>3 DEF StepsOf

-----------------------------------------------------------------------------
LEMMA PositionsAreFinite ==
  ASSUME NEW S, NEW rows \in Seq(S)
  PROVE  /\ IsFiniteSet(DOMAIN rows) /\ Cardinality(DOMAIN rows) = Len(rows)
         /\ DOMAIN rows \in SUBSET Int /\ DOMAIN rows = 1 .. Len(rows) /\ Len(rows) \in Nat
<1>1. DOMAIN rows = 1 .. Len(rows) /\ Len(rows) \in Nat
  OBVIOUS
<1>2. 1 \in Int /\ Len(rows) \in Int
  BY <1>1
<1>3. IsFiniteSet(1 .. Len(rows))
      /\ Cardinality(1 .. Len(rows)) = IF 1 > Len(rows) THEN 0 ELSE Len(rows) - 1 + 1
  BY <1>2, FS_Interval, Zenon
<1>4. Cardinality(1 .. Len(rows)) = Len(rows)
  BY <1>1, <1>3
<1> QED
  BY <1>1, <1>3, <1>4

(* Which element stands at which place of a sequence put in order: each    *)
(* has one, and those that may come before others do.                      *)
Arranges(at, seq, upTo) ==
  /\ \A n \in DOMAIN seq : at[n] \in DOMAIN seq /\ Arranged(seq, upTo)[n] = seq[at[n]]
  /\ \A m, n \in DOMAIN seq : at[m] = at[n] => m = n
  /\ \A m, n \in DOMAIN seq : m <= n => at[m] \in upTo[at[n]]
  /\ \A i \in DOMAIN seq : \E n \in DOMAIN seq : at[n] = i

LEMMA ArrangedIs ==
  ASSUME NEW S, NEW seq \in Seq(S), NEW upTo, OrderOf(upTo, DOMAIN seq)
  PROVE  /\ Arranged(seq, upTo) \in Seq(S) /\ DOMAIN Arranged(seq, upTo) = DOMAIN seq
         /\ \E at : Arranges(at, seq, upTo)
<1>1. /\ IsFiniteSet(DOMAIN seq) /\ Cardinality(DOMAIN seq) = Len(seq)
      /\ DOMAIN seq = 1 .. Len(seq) /\ Len(seq) \in Nat
  BY PositionsAreFinite
<1>2. /\ \A i \in DOMAIN seq : Cardinality(upTo[i]) \in DOMAIN seq
      /\ \A i, j \in DOMAIN seq : Cardinality(upTo[i]) = Cardinality(upTo[j]) => i = j
      /\ \A i, j \in DOMAIN seq : Cardinality(upTo[i]) <= Cardinality(upTo[j]) => i \in upTo[j]
      /\ \A n \in DOMAIN seq : \E i \in DOMAIN seq : Cardinality(upTo[i]) = n
  <2> DEFINE places == DOMAIN seq
  <2>1. IsFiniteSet(places) /\ OrderOf(upTo, places) /\ 1 .. Cardinality(places) = places
    BY <1>1
  <2> HIDE DEF places
  <2>2. /\ \A i \in places : Cardinality(upTo[i]) \in places
        /\ \A i, j \in places : Cardinality(upTo[i]) = Cardinality(upTo[j]) => i = j
        /\ \A i, j \in places : Cardinality(upTo[i]) <= Cardinality(upTo[j]) => i \in upTo[j]
        /\ \A n \in places : \E i \in places : Cardinality(upTo[i]) = n
    BY <2>1, OrderIsCounted
  <2> QED
    BY <2>2 DEF places
<1> DEFINE at == [n \in DOMAIN seq |-> CHOOSE i \in DOMAIN seq : Cardinality(upTo[i]) = n]
<1>3. \A n \in DOMAIN seq : at[n] \in DOMAIN seq /\ Cardinality(upTo[at[n]]) = n
  BY <1>2
<1>4. at \in [DOMAIN seq -> DOMAIN seq] /\ Arranged(seq, upTo) = [n \in DOMAIN seq |-> seq[at[n]]]
  BY <1>3 DEF Arranged
<1> HIDE DEF at
<1>5. Arranged(seq, upTo) \in Seq(S)
  <2>1. \A n \in 1 .. Len(seq) : seq[at[n]] \in S
    BY <1>1, <1>3
  <2> QED
    BY <1>1, <1>4, <2>1
<1>6. /\ \A m, n \in DOMAIN seq : at[m] = at[n] => m = n
      /\ \A m, n \in DOMAIN seq : m <= n => at[m] \in upTo[at[n]]
      /\ \A i \in DOMAIN seq : \E n \in DOMAIN seq : at[n] = i
  <2>1. ASSUME NEW i \in DOMAIN seq PROVE \E n \in DOMAIN seq : at[n] = i
    <3>1. Cardinality(upTo[i]) \in DOMAIN seq
      BY <1>2
    <3>2. PICK n \in DOMAIN seq : n = Cardinality(upTo[i])
      BY <3>1
    <3>3. at[n] \in DOMAIN seq /\ Cardinality(upTo[at[n]]) = Cardinality(upTo[i])
      BY <1>3, <3>2
    <3>4. at[n] = i
      BY <1>2, <3>3
    <3> QED
      BY <3>4
  <2>2. ASSUME NEW m \in DOMAIN seq, NEW n \in DOMAIN seq, m <= n PROVE at[m] \in upTo[at[n]]
    <3>1. Cardinality(upTo[at[m]]) <= Cardinality(upTo[at[n]])
      BY <1>3, <2>2
    <3> QED
      BY <1>2, <1>3, <3>1
  <2>3. \A m, n \in DOMAIN seq : at[m] = at[n] => m = n
    BY <1>3
  <2> QED
    BY <2>1, <2>2, <2>3
<1>7. /\ DOMAIN Arranged(seq, upTo) = DOMAIN seq
      /\ \A n \in DOMAIN seq : at[n] \in DOMAIN seq /\ Arranged(seq, upTo)[n] = seq[at[n]]
  BY <1>3, <1>4
<1>8. Arranges(at, seq, upTo)
  BY <1>6, <1>7 DEF Arranges
<1> QED
  BY <1>5, <1>7, <1>8

(* retain() keeps what should stay at its place in the order.              *)
LEMMA WithoutIs ==
  ASSUME NEW S, NEW rows \in Seq(S), NEW gone \in SUBSET DOMAIN rows
  PROVE  /\ Without(rows, gone) \in Seq(S)
         /\ Cardinality(gone) \in Nat
         /\ Len(Without(rows, gone)) = Len(rows) - Cardinality(gone)
         /\ \E at :
              /\ \A n \in DOMAIN Without(rows, gone) :
                   at[n] \in DOMAIN rows \ gone /\ Without(rows, gone)[n] = rows[at[n]]
              /\ \A m, n \in DOMAIN Without(rows, gone) : m < n => at[m] < at[n]
              /\ \A i \in DOMAIN rows \ gone : \E n \in DOMAIN Without(rows, gone) : at[n] = i
<1> DEFINE kept == DOMAIN rows \ gone
           size == Cardinality(kept)
           at == [n \in 1 .. size |-> CHOOSE i \in kept : Rank(kept, i) = n]
           left == Without(rows, gone)
<1>1. IsFiniteSet(DOMAIN rows) /\ Cardinality(DOMAIN rows) = Len(rows) /\ DOMAIN rows \in SUBSET Int
      /\ Len(rows) \in Nat
  BY PositionsAreFinite
<1>2. kept \in SUBSET Int /\ IsFiniteSet(kept) /\ IsFiniteSet(gone)
  <2>1. kept \in SUBSET DOMAIN rows /\ gone \in SUBSET DOMAIN rows
    OBVIOUS
  <2> QED
    BY <1>1, <2>1, FS_Subset
<1>3. size = Len(rows) - Cardinality(gone) /\ Cardinality(gone) \in Nat
  <2>1. Cardinality(gone) \in Nat
    BY <1>2, FS_CardinalityType
  <2>2. Cardinality(DOMAIN rows \ gone) = Cardinality(DOMAIN rows) - Cardinality(DOMAIN rows \cap gone)
    BY <1>1, FS_Difference
  <2>3. DOMAIN rows \cap gone = gone
    OBVIOUS
  <2> QED
    BY <1>1, <2>1, <2>2, <2>3
<1>4. /\ size \in Nat
      /\ \A i \in kept : Rank(kept, i) \in 1 .. size
      /\ \A i, j \in kept : Rank(kept, i) = Rank(kept, j) => i = j
      /\ \A i, j \in kept : Rank(kept, i) <= Rank(kept, j) => i <= j
      /\ \A n \in 1 .. size : \E i \in kept : Rank(kept, i) = n
  BY <1>2, RankIsBijective
<1>5. left = [n \in 1 .. size |-> rows[at[n]]]
  BY DEF Without
<1>6. \A n \in 1 .. size : at[n] \in kept /\ Rank(kept, at[n]) = n
  BY <1>4
<1> HIDE DEF at, size, left
<1>8. \A n \in 1 .. size : rows[at[n]] \in S
  BY <1>6
<1>9. left \in Seq(S) /\ Len(left) = size /\ DOMAIN left = 1 .. size
  BY <1>4, <1>5, <1>8
<1>10. ASSUME NEW i \in kept PROVE \E n \in DOMAIN left : at[n] = i
  <2>1. Rank(kept, i) \in 1 .. size /\ at[Rank(kept, i)] = i
    BY <1>4, <1>6
  <2> QED
    BY <1>9, <2>1
<1>11. ASSUME NEW m \in DOMAIN left, NEW n \in DOMAIN left, m < n PROVE at[m] < at[n]
  <2> DEFINE i == at[m]
             j == at[n]
  <2>1. i \in kept /\ j \in kept /\ Rank(kept, i) = m /\ Rank(kept, j) = n
    BY <1>6, <1>9
  <2>2. m \in Int /\ n \in Int
    BY <1>9
  <2> HIDE DEF i, j
  <2>3. i \in Int /\ j \in Int
    BY <1>2, <2>1
  <2>4. i <= j /\ i # j
    <3> HIDE DEF kept
    <3> QED
      BY <1>4, <1>11, <2>1, <2>2
  <2>5. i < j
    BY <2>3, <2>4
  <2> QED
    BY <2>5 DEF i, j
<1>12. \A n \in DOMAIN left : at[n] \in kept /\ left[n] = rows[at[n]]
  BY <1>5, <1>6, <1>9
<1> QED
  BY <1>3, <1>9, <1>10, <1>11, <1>12 DEF left

(* retain() keeps what it should keep, adds nothing, and the lengths add   *)
(* up.                                                                     *)
LEMMA WithoutKeeps ==
  ASSUME NEW S, NEW rows \in Seq(S), NEW gone \in SUBSET DOMAIN rows
  PROVE  /\ Without(rows, gone) \in Seq(S)
         /\ Cardinality(gone) \in Nat
         /\ Len(Without(rows, gone)) = Len(rows) - Cardinality(gone)
         /\ \A i \in DOMAIN rows \ gone :
              \E j \in DOMAIN Without(rows, gone) : Without(rows, gone)[j] = rows[i]
         /\ \A j \in DOMAIN Without(rows, gone) :
              \E i \in DOMAIN rows \ gone : Without(rows, gone)[j] = rows[i]
<1> DEFINE left == Without(rows, gone)
<1>1. left \in Seq(S) /\ Cardinality(gone) \in Nat /\ Len(left) = Len(rows) - Cardinality(gone)
  BY WithoutIs
<1>2. PICK at :
        /\ \A n \in DOMAIN left : at[n] \in DOMAIN rows \ gone /\ left[n] = rows[at[n]]
        /\ \A m, n \in DOMAIN left : m < n => at[m] < at[n]
        /\ \A i \in DOMAIN rows \ gone : \E n \in DOMAIN left : at[n] = i
  BY WithoutIs
<1> HIDE DEF left
<1> QED
  BY SMTT(30), ZenonT(30), <1>1, <1>2 DEF left
=============================================================================
