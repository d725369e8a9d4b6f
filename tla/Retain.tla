--------------------------------- MODULE Retain ---------------------------------
(***************************************************************************)
(* What Vec::retain() and the filters of an iterator leave of a sequence,  *)
(* what find() finds in it and what a sort makes of it, without recursion. *)
(***************************************************************************)
EXTENDS Integers, Sequences, FiniteSets

(* The position an iterator comes to first.                                *)
First(places) == CHOOSE i \in places : \A j \in places : i <= j

(* How many of a set of positions are not after i.                         *)
Rank(set, i) == Cardinality({j \in set : j <= i})

(* The elements that stay when those at some positions go, in their order. *)
Without(seq, gone) ==
  LET kept == DOMAIN seq \ gone IN
  [n \in 1 .. Cardinality(kept) |-> seq[CHOOSE i \in kept : Rank(kept, i) = n]]

(* A sequence sorted: upTo[i] is the set of the positions whose elements   *)
(* come no later than the one at i.                                        *)
Arranged(seq, upTo) ==
  [n \in DOMAIN seq |-> seq[CHOOSE i \in DOMAIN seq : Cardinality(upTo[i]) = n]]
=============================================================================
