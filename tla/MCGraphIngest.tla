--------------------------- MODULE MCGraphIngest ---------------------------
(* A small instance of GraphIngest for TLC. *)
EXTENDS GraphIngest, TLC

\* Laws, article numbers and texts are interchangeable.
Interchangeable == Permutations(Laws) \cup Permutations(ArticleNos) \cup Permutations(Texts)

=============================================================================
