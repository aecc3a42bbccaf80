------------------------- MODULE MCIncidentWorkflow -------------------------
(* A small instance of IncidentWorkflow for TLC. *)
EXTENDS IncidentWorkflow, TLC

\* Accounts, threads and report contents are interchangeable.
Interchangeable == Permutations(Users) \cup Permutations(Threads) \cup Permutations(Statements)

=============================================================================
