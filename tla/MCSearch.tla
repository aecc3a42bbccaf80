------------------------------ MODULE MCSearch ------------------------------
(* A small instance of Search for TLC: two articles of two laws. *)
EXTENDS Search

CONSTANTS a1, a2, l1, l2

MCLawOf == [a \in {a1, a2} |-> IF a = a1 THEN l1 ELSE l2]

=============================================================================
