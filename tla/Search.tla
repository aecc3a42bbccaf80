------------------------------- MODULE Search -------------------------------
(***************************************************************************)
(* One user's searches: hybrid_search of src/app/retrieval.py, with        *)
(* rerank_order of rerank.py and graph_expand of graph_retrieval.py.  A    *)
(* search is a sequence of statements under READ COMMITTED and of queries  *)
(* to Neo4j; between any two of them the collector commits or empties a    *)
(* law, the user saves another choice of laws, and Neo4j comes and goes.   *)
(* Whether the graph has articles is cached in variables of the process    *)
(* that the searches of all threads share.                                 *)
(*                                                                         *)
(* Distances and scores are left out: any chunks of the chosen laws may be *)
(* the nearest, and the reranker may return any order.                     *)
(***************************************************************************)
EXTENDS Integers, Sequences, FiniteSetsExt, SequencesExt

CONSTANTS
  Threads,       \* the threads that search
  Articles,      \* articles, by the number of their law and their own
  LawOf,         \* article -> its law
  Parts,         \* the chunks an article is cut into
  CandidatePool, \* DEFAULT_CANDIDATE_POOL
  TopK,          \* top_k
  SeedCount,     \* GRAPH_SEED_COUNT
  MaxChanges     \* bound: commits of the collector and of the user

Laws == {LawOf[a] : a \in Articles}

ASSUME SearchAssumption ==
  /\ IsFiniteSet(Articles) /\ LawOf \in [Articles -> Laws]
  /\ CandidatePool \in Nat \ {0} /\ TopK \in Nat \ {0} /\ SeedCount \in Nat \ {0}
  /\ MaxChanges \in Nat

VARIABLES
  chunks,     \* rows of article_chunks: <<article, commit, part>>
  selected,   \* the laws in user_law_selections
  nodes,      \* Neo4j: the articles that have a node
  up,         \* Neo4j answers
  populated,  \* _graph_populated: "unknown" (None), "yes" or "no"
  recent,     \* less than _EMPTY_RECHECK_SECONDS since _last_checked_at
  search,     \* what each thread is doing
  changes     \* number of commits

world == <<chunks, selected, nodes, up, changes>>
cache == <<populated, recent>>
vars == <<chunks, selected, nodes, up, populated, recent, search, changes>>

Stored == {c[1] : c \in chunks}
ChunksOf(a, n) == {<<a, n, p>> : p \in Parts}

(***************************************************************************)
(* hits: the chunks found, then those still there.  ranked: the articles   *)
(* of the result so far.  peeked: what Neo4j said of the graph.  related:  *)
(* what it returned, then the rows there are of it.  gone: the articles    *)
(* whose rows were deleted since their chunks were loaded.  chosen, for    *)
(* the properties: the laws that were selected since the search began.     *)
(***************************************************************************)
Idle == [phase |-> "idle", hits |-> {}, ranked |-> <<>>, peeked |-> FALSE,
         related |-> {}, gone |-> {}, chosen |-> {}]

Phases == {"idle", "begun", "hits", "loaded", "ranked", "peek", "note", "expand",
           "related", "rows", "done", "failed"}
In(t, phase) == search[t].phase = phase
Busy(t) == search[t].phase \notin {"idle", "done", "failed"}

TypeOK ==
  /\ chunks \subseteq Articles \X (0 .. MaxChanges) \X Parts
  /\ selected \subseteq Laws /\ nodes \subseteq Articles
  /\ populated \in {"unknown", "yes", "no"}
  /\ {up, recent} \subseteq BOOLEAN
  /\ search \in [Threads -> [phase: Phases, hits: SUBSET (Articles \X (0 .. MaxChanges) \X Parts),
                             ranked: Seq(Articles), peeked: BOOLEAN, related: SUBSET Articles,
                             gone: SUBSET Articles, chosen: SUBSET Laws]]
  /\ changes \in 0 .. MaxChanges

\* The state after earlier runs of the collector; the graph is still empty.
Init ==
  /\ chunks = UNION {ChunksOf(a, 0) : a \in Articles}
  /\ selected \in SUBSET Laws
  /\ nodes = {} /\ up \in BOOLEAN
  /\ populated = "unknown" /\ recent = FALSE
  /\ search = [t \in Threads |-> Idle]
  /\ changes = 0

-----------------------------------------------------------------------------
(* What happens beside the searches *)

\* The collector commits a law: the chunks of its changed articles are replaced.
Collect(l) ==
  /\ changes < MaxChanges
  /\ \E S \in SUBSET {a \in Articles : LawOf[a] = l} \ {{}} :
       chunks' = {c \in chunks : c[1] \notin S} \cup UNION {ChunksOf(a, changes + 1) : a \in S}
  /\ changes' = changes + 1
  /\ UNCHANGED <<selected, nodes, up, cache, search>>

\* A law that is repealed loses its articles with their chunks.
Repeal(l) ==
  LET lost == {a \in Stored : LawOf[a] = l} IN
  /\ changes < MaxChanges /\ lost # {}
  /\ chunks' = {c \in chunks : c[1] \notin lost}
  /\ search' = [t \in Threads |-> IF In(t, "loaded") THEN [search[t] EXCEPT !.gone = @ \cup lost]
                                  ELSE search[t]]
  /\ changes' = changes + 1
  /\ UNCHANGED <<selected, nodes, up, cache>>

\* Another request of the user replaces the choice of laws.
Choose(S) ==
  /\ changes < MaxChanges /\ S # selected
  /\ selected' = S
  /\ search' = [t \in Threads |-> IF Busy(t) THEN [search[t] EXCEPT !.chosen = @ \cup S]
                                  ELSE search[t]]
  /\ changes' = changes + 1
  /\ UNCHANGED <<chunks, nodes, up, cache>>

\* graph_ingest draws an article; nodes are never removed.
AddNode(a) ==
  /\ up /\ a \notin nodes
  /\ nodes' = nodes \cup {a}
  /\ UNCHANGED <<chunks, selected, up, cache, search, changes>>

Neo4jSwitches ==
  /\ up' = ~up
  /\ UNCHANGED <<chunks, selected, nodes, cache, search, changes>>

\* Five minutes have passed since the graph was found empty.
RecheckIsDue ==
  /\ populated = "no" /\ recent
  /\ recent' = FALSE
  /\ UNCHANGED <<world, populated, search>>

-----------------------------------------------------------------------------
(* hybrid_search *)

Goes(t, s) == search' = [search EXCEPT ![t] = s] /\ UNCHANGED world
Ends(t) == [Idle EXCEPT !.phase = "done", !.ranked = search[t].ranked, !.chosen = search[t].chosen]

\* The query is embedded.
Begin(t) ==
  /\ ~Busy(t)
  /\ Goes(t, [Idle EXCEPT !.phase = "begun", !.chosen = selected])
  /\ UNCHANGED cache

\* _vector_candidates: the nearest chunks of the laws that are selected.
VectorCandidates(t) ==
  LET near == {c \in chunks : LawOf[c[1]] \in selected}
      n == Min({CandidatePool, Cardinality(near)})
  IN /\ In(t, "begun")
     /\ \E hits \in kSubset(n, near) :
          Goes(t, IF hits = {} THEN Ends(t) ELSE [search[t] EXCEPT !.phase = "hits", !.hits = hits])
     /\ UNCHANGED cache

\* The rows of those chunks that are still there.
LoadChunks(t) ==
  /\ In(t, "hits")
  /\ Goes(t, [search[t] EXCEPT !.phase = "loaded", !.hits = @ \cap chunks])
  /\ UNCHANGED cache

\* Variant: an article comes once for each of its chunks.
BestByArticle_PerChunk(hits) ==
  {[i \in DOMAIN q |-> q[i][1]] : q \in SetToSeqs(hits)}

\* One chunk per article, in the order of their scores, then of the reranker.
BestByArticle(hits) == SetToSeqs({c[1] : c \in hits})

\* rerank_order takes seconds; then the article and the law of each chunk
\* that is kept are loaded.
Rank(t) ==
  /\ In(t, "loaded")
  /\ \E order \in BestByArticle(search[t].hits) :
       LET top == SubSeq(order, 1, Min({TopK, Len(order)})) IN
       Goes(t, IF ToSet(top) \cap search[t].gone # {} THEN [Idle EXCEPT !.phase = "failed"]
               ELSE IF top = <<>> THEN Ends(t)
               ELSE [search[t] EXCEPT !.phase = "ranked", !.hits = {}, !.gone = {}, !.ranked = top])
  /\ UNCHANGED cache

-----------------------------------------------------------------------------
(* graph_expand *)

\* Variant: what was found once is never looked at again.
MustLook_Once == populated = "unknown"

\* A populated graph stays so; an empty one is looked at after a while.
MustLook == populated = "unknown" \/ (populated = "no" /\ ~recent)

\* _graph_has_articles, before it asks Neo4j.
AskCache(t) ==
  /\ In(t, "ranked")
  /\ Goes(t, IF populated = "yes" THEN [search[t] EXCEPT !.phase = "expand"]
             ELSE IF MustLook THEN [search[t] EXCEPT !.phase = "peek"]
             ELSE Ends(t))
  /\ UNCHANGED cache

\* Neo4j is asked for one node; a failure counts as an empty graph.
Peek(t) ==
  /\ In(t, "peek")
  /\ Goes(t, [search[t] EXCEPT !.phase = "note", !.peeked = up /\ nodes # {}])
  /\ UNCHANGED cache

\* The verdict is cached, whatever other threads cached meanwhile.
Note(t) ==
  /\ In(t, "note")
  /\ populated' = IF search[t].peeked THEN "yes" ELSE "no"
  /\ recent' = TRUE
  /\ Goes(t, IF search[t].peeked THEN [search[t] EXCEPT !.phase = "expand", !.peeked = FALSE] ELSE Ends(t))

\* Neo4j returns articles near the seeds, or fails.
Expand(t) ==
  LET seeds == ToSet(SubSeq(search[t].ranked, 1, Min({SeedCount, Len(search[t].ranked)})))
      near == IF seeds \cap nodes = {} THEN {}
              ELSE {a \in nodes : \E s \in seeds \cap nodes : s # a}
  IN /\ In(t, "expand")
     /\ \E S \in IF up THEN SUBSET near ELSE {{}} :
          Goes(t, IF S = {} THEN Ends(t)
                  ELSE [search[t] EXCEPT !.phase = "related", !.related = S])
     /\ UNCHANGED cache

\* The rows of these articles, for not every node has one.
ReadRelated(t) ==
  /\ In(t, "related")
  /\ Goes(t, [search[t] EXCEPT !.phase = "rows", !.related = @ \cap Stored])
  /\ UNCHANGED cache

\* Variant: laws that are not selected come through the graph.
Extra_AnyLaw(t) == search[t].related \ ToSet(search[t].ranked)

\* What the graph adds: new articles, of the laws selected by now.
Extra(t) ==
  {a \in search[t].related : a \notin ToSet(search[t].ranked) /\ LawOf[a] \in selected}

\* _graph_expanded_results: below all that the vectors found.
Finish(t) ==
  /\ In(t, "rows")
  /\ \E extra \in SetToSeqs(Extra(t)) :
       Goes(t, [Ends(t) EXCEPT !.ranked = @ \o extra])
  /\ UNCHANGED cache

Step(t) ==
  \/ VectorCandidates(t) \/ LoadChunks(t) \/ Rank(t)
  \/ AskCache(t) \/ Peek(t) \/ Note(t)
  \/ Expand(t) \/ ReadRelated(t) \/ Finish(t)

Next ==
  \/ \E l \in Laws : Collect(l) \/ Repeal(l)
  \/ \E S \in SUBSET Laws : Choose(S)
  \/ \E a \in Articles : AddNode(a)
  \/ Neo4jSwitches
  \/ RecheckIsDue
  \/ \E t \in Threads : Begin(t) \/ Step(t)

\* Every statement and query returns or raises, and time passes.
Fairness ==
  /\ \A t \in Threads : WF_vars(Step(t))
  /\ WF_vars(RecheckIsDue)

Spec == Init /\ [][Next]_vars /\ Fairness

-----------------------------------------------------------------------------

(***************************************************************************)
(* A search only returns articles of laws its user had selected at some    *)
(* time while it ran (retrieval.py:132-134): not through the graph, which  *)
(* knows nothing of users, and not from a copy of an earlier choice.       *)
(***************************************************************************)
ResultsWereChosen ==
  \A t \in Threads : In(t, "done") => \A a \in ToSet(search[t].ranked) : LawOf[a] \in search[t].chosen

(***************************************************************************)
(* No article stands twice in a result, although it has several chunks,    *)
(* some of them replaced while the search ran, and the graph returns       *)
(* articles that the vectors found.                                        *)
(***************************************************************************)
NoArticleTwice == \A t \in Threads : IsInjective(search[t].ranked)

(***************************************************************************)
(* A graph that has been filled is used without a restart                  *)
(* (graph_retrieval.py:43-44): when Neo4j stays up and searches keep       *)
(* coming, in the end every search expands, although a search that looked  *)
(* before may cache its verdict after one that looked later.               *)
(***************************************************************************)
GraphComesAlive ==
  \/ []<>~up
  \/ [](nodes = {})
  \/ <>[](\A t \in Threads : ~In(t, "ranked"))
  \/ <>[](populated = "yes")

=============================================================================
