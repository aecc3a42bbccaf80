---------------------------- MODULE GraphIngest ----------------------------
(***************************************************************************)
(* Filling the graph of articles: app/graph_ingest.py, run beside          *)
(* LawIngest on the same tables.  For every article without a mark it asks *)
(* an LLM for the article's references and concepts, merges them into      *)
(* Neo4j and then sets the mark, one commit per article; a failed article  *)
(* is left for the next run, and an exhausted quota or a kill ends this    *)
(* one.                                                                    *)
(*                                                                         *)
(* Abstractions: what is extracted from a text is the text; the nodes are  *)
(* left out.  SQLAlchemy keeps an article as it was loaded until the next  *)
(* commit, and reads it again after that.                                  *)
(***************************************************************************)
EXTENDS LawIngest

VARIABLES
  edges,       \* Neo4j: law -> article number -> the texts whose edges it has
  worker       \* the run of the command

graphVars == <<edges, worker>>

-----------------------------------------------------------------------------

Articles == Laws \X ArticleNos

ASSUME NoArticleAssumption == Null \notin Articles

(***************************************************************************)
(* loaded: the texts the session holds, Null when expired.  article: the   *)
(* one in hand with its text; merged: its edges are in the graph.  gone is *)
(* the rows deleted since the run loaded them.                             *)
(***************************************************************************)
Worker == [on: BOOLEAN, todo: SUBSET Articles, loaded: [Laws -> Version],
           article: Articles \cup {Null}, text: Texts \cup {Null}, merged: BOOLEAN,
           gone: SUBSET Articles]

Off == [on |-> FALSE, todo |-> {}, loaded |-> [l \in Laws |-> NoArticles],
        article |-> Null, text |-> Null, merged |-> FALSE, gone |-> {}]

GraphTypeOK ==
  /\ TypeOK
  /\ edges \in [Laws -> [ArticleNos -> SUBSET Texts]]
  /\ worker \in Worker
  /\ worker.article # Null => worker.article \in worker.todo /\ worker.text # Null

Stored == {x \in Articles : articles[x[1]][x[2]] # Null}

\* Variant: the mark is not looked at.
PendingAll(S) == {x \in Stored : x[1] \in S}

Pending(S) == {x \in Stored : x[1] \in S /\ x \notin marked}

\* graph_ingest_all for all laws, or for those named by --law.
StartGraph(S) ==
  /\ ~worker.on /\ Pending(S) # {}
  /\ worker' = [Off EXCEPT !.on = TRUE, !.todo = Pending(S), !.loaded = articles]
  /\ UNCHANGED <<lawVars, edges>>

\* The text of an article as the session sees it.
TextOf(x) ==
  IF worker.loaded[x[1]][x[2]] # Null THEN worker.loaded[x[1]][x[2]] ELSE articles[x[1]][x[2]]

Expired(x) == worker.loaded[x[1]][x[2]] = Null

\* _merge_article_node, and the call of the LLM begins.
TakeArticle(x) ==
  /\ worker.on /\ worker.article = Null /\ x \in worker.todo
  /\ ~(Expired(x) /\ x \in worker.gone)
  /\ worker' = [worker EXCEPT !.article = x, !.text = TextOf(x)]
  /\ UNCHANGED <<lawVars, edges>>

\* _merge_graph_data: MERGE only adds; edges of an earlier text remain.
MergeGraphData ==
  LET x == worker.article
  IN  /\ x # Null /\ ~worker.merged
      /\ edges' = [edges EXCEPT ![x[1]][x[2]] = @ \cup {worker.text}]
      /\ worker' = [worker EXCEPT !.merged = TRUE]
      /\ UNCHANGED lawVars

\* Variant: a failed article is marked like any other.
ExtractionFailsMarked ==
  /\ worker.article # Null /\ ~worker.merged
  /\ worker' = [worker EXCEPT !.merged = TRUE]
  /\ UNCHANGED <<lawVars, edges>>

\* The LLM or Neo4j fails: the article is left for the next run.
ExtractionFails ==
  /\ worker.article # Null /\ ~worker.merged
  /\ worker' = [worker EXCEPT !.article = Null, !.text = Null, !.todo = @ \ {worker.article}]
  /\ UNCHANGED <<lawVars, edges>>

\* The row lock that an open transaction of the other command holds.
Locked(x) == run.law = x[1] /\ x[2] \in run.changed

\* graph_synced_at and its commit, after which everything loaded expires.
Mark ==
  LET x == worker.article
  IN  /\ worker.merged /\ ~Locked(x) /\ x \notin worker.gone
      /\ marked' = marked \cup {x}
      /\ worker' = [worker EXCEPT !.article = Null, !.text = Null, !.merged = FALSE,
                      !.todo = @ \ {x}, !.loaded = [l \in Laws |-> NoArticles]]
      /\ UNCHANGED <<site, laws, articles, chunks, run, edges>>

\* The row of the next article, or of the one to mark, was deleted: the
\* exception leaves the loop and ends the command.
RowIsGone(x) ==
  /\ x \in worker.gone
  /\ \/ worker.article = Null /\ x \in worker.todo /\ Expired(x)
     \/ worker.article = x /\ worker.merged
  /\ worker' = Off
  /\ UNCHANGED <<lawVars, edges>>

\* No article is left, --limit or the quota is reached, or a kill.
StopGraph ==
  /\ worker.on
  /\ worker' = Off
  /\ UNCHANGED <<lawVars, edges>>

GraphNext ==
  \/ \E S \in SUBSET Laws : StartGraph(S)
  \/ \E x \in Articles : TakeArticle(x)
  \/ MergeGraphData
  \/ ExtractionFails
  \/ Mark
  \/ \E x \in Articles : RowIsGone(x)
  \/ StopGraph

\* A step of the other command or of the site; it may delete rows.
LawNext ==
  /\ Next
  /\ worker' = [worker EXCEPT !.gone =
                  @ \cup {x \in worker.todo : articles'[x[1]][x[2]] = Null}]
  /\ UNCHANGED edges

GraphInit ==
  /\ Init
  /\ edges = [l \in Laws |-> [a \in ArticleNos |-> {}]]
  /\ worker = Off

GraphSpec == GraphInit /\ [][GraphNext \/ LawNext]_<<lawVars, graphVars>>

-----------------------------------------------------------------------------
(* Safety *)

\* No kill, failure or deletion between the steps of an article leaves it
\* marked, and so skipped for good, without its edges in the graph.
MarkedIsExtracted == \A x \in marked : edges[x[1]][x[2]] # {}

\* The quota is spent on what is not done yet: no call is made for an
\* article that is marked, in whatever run it was marked.
MarkedIsSkipped ==
  [][\A x \in Articles : worker.article = Null /\ worker'.article = x => x \notin marked]_<<lawVars, graphVars>>

-----------------------------------------------------------------------------
(* What a comment in the code says and the other command refutes *)

\* "The text changed, so the relations drawn from it hold no longer": an
\* article is marked only while the edges of its present text are there.
MarkedIsCurrent == \A x \in marked : articles[x[1]][x[2]] \in edges[x[1]][x[2]]

=============================================================================
