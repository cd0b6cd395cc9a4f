------------------------------ MODULE Selection ------------------------------
(***************************************************************************)
(* What is left of a list when only some of its places are kept: the list  *)
(* comprehensions and filters of the code, and a dictionary after a pop.   *)
(***************************************************************************)
EXTENDS Naturals, Sequences, FiniteSets

(* What s holds at the places in kept, in its order.                       *)
Pick(s, kept) ==
    [n \in 1..Cardinality(kept) |->
        s[CHOOSE i \in kept : Cardinality({j \in kept : j <= i}) = n]]
=============================================================================
