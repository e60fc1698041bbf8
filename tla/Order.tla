-------------------------------- MODULE Order --------------------------------
(***************************************************************************)
(* A set of numbers in ascending order: a slice that is walked from its    *)
(* first entry to its last, as the code's loops do, with some entries left *)
(* out.                                                                    *)
(***************************************************************************)
EXTENDS Integers, FiniteSets

(* The i-th smallest. *)
Nth(S, i) == CHOOSE r \in S : Cardinality({s \in S : s <= r}) = i

InOrder(S) == [i \in 1..Cardinality(S) |-> Nth(S, i)]
=============================================================================
