---------------------------- MODULE MCLawIngest ----------------------------
(* A small instance of LawIngest for TLC. *)
EXTENDS LawIngest, TLC

\* Laws, article numbers and texts are interchangeable.
Interchangeable == Permutations(Laws) \cup Permutations(ArticleNos) \cup Permutations(Texts)

=============================================================================
