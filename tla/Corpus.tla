------------------------------ MODULE Corpus ------------------------------
(***************************************************************************)
(* What the collection of laws (app/ingest.py) promises to the searches    *)
(* (app/retrieval.py), without its pages, comparisons, transactions and    *)
(* failures: in one step, one version of a law, never an older one than    *)
(* before, is laid over what was found of it, or all of it is gone.  What  *)
(* is found is thus of published versions, but need not be any one of      *)
(* them: an article a version no longer has stays.  LawIngest implements   *)
(* it.                                                                     *)
(***************************************************************************)
EXTENDS Integers, Sequences

CONSTANTS Laws, ArticleNos, Texts, Null

VARIABLES
  published,   \* law -> its versions so far
  rows,        \* law -> [mst, repealed], or Null when it was never collected
  found        \* law -> article number -> the text searches find, or Null

vars == <<published, rows, found>>

-----------------------------------------------------------------------------

Version == [ArticleNos -> Texts \cup {Null}]
Nothing == [a \in ArticleNos |-> Null]

InForce == {l \in Laws : rows[l] # Null /\ ~rows[l].repealed}

\* A law is enacted or amended.
Publish(l, v) ==
  /\ published' = [published EXCEPT ![l] = Append(@, v)]
  /\ UNCHANGED <<rows, found>>

\* All the articles that a version has are found at once; an article that
\* it no longer has is still found as it was.  No version comes after a
\* later one.
Collect(l, k) ==
  /\ k \in DOMAIN published[l]
  /\ rows[l] # Null => rows[l].mst <= k
  /\ rows' = [rows EXCEPT ![l] = [mst |-> k, repealed |-> FALSE]]
  /\ found' = [found EXCEPT ![l] =
                 [a \in ArticleNos |-> IF published[l][k][a] # Null THEN published[l][k][a] ELSE @[a]]]
  /\ UNCHANGED published

\* Laws that left the list keep their rows; nothing of them is found.
Repeal(S) ==
  /\ S \subseteq InForce
  /\ rows' = [l \in Laws |-> IF l \in S THEN [rows[l] EXCEPT !.repealed = TRUE] ELSE rows[l]]
  /\ found' = [l \in Laws |-> IF l \in S THEN Nothing ELSE found[l]]
  /\ UNCHANGED published

Init ==
  /\ published = [l \in Laws |-> <<>>]
  /\ rows = [l \in Laws |-> Null]
  /\ found = [l \in Laws |-> Nothing]

Next ==
  \/ \E l \in Laws, v \in Version : Publish(l, v)
  \/ \E l \in Laws : \E k \in DOMAIN published[l] : Collect(l, k)
  \/ \E S \in SUBSET Laws : Repeal(S)

Spec == Init /\ [][Next]_vars

=============================================================================
