-------------------------- MODULE MCIncidentGraph --------------------------
(* A small instance of IncidentGraph for TLC. *)
EXTENDS IncidentGraph, TLC

\* Threads and articles are interchangeable.
Interchangeable == Permutations(Threads) \cup Permutations(Articles)

=============================================================================
