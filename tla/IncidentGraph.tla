--------------------------- MODULE IncidentGraph ---------------------------
(***************************************************************************)
(* The graph of reports: app/graph_incidents.py, called by the handlers of *)
(* app/routers/incidents.py that may change the citations of a report      *)
(* (create, edit, replace_citations) after their commit.  The handler      *)
(* refreshes the report and then draws it in Neo4j with one auto-committed *)
(* statement after the other: its node, the removal of its citations, and  *)
(* each citation anew.  A failure is only logged.  The handlers run in a   *)
(* thread pool, so the steps of two of them on one report interleave.      *)
(*                                                                         *)
(* Abstractions: a citation is the article it cites, and a list the set of *)
(* its articles (any order of linking is the order of some list); of the   *)
(* nodes only their existence is kept.  Saving a draft, messages and       *)
(* status changes touch neither the citations nor the graph.               *)
(***************************************************************************)
EXTENDS FiniteSets

CONSTANTS
  Incidents,   \* incident ids
  Placed,      \* those with a region; rows from before regions have none
  Threads,     \* worker threads with one request each
  Articles,    \* articles that may be cited
  Null         \* no report

ASSUME PlacedAssumption == Placed \subseteq Incidents
ASSUME NullAssumption == Null \notin Incidents

VARIABLES
  cites,       \* PostgreSQL: id -> the articles in incidents.citations
  nodes,       \* Neo4j: the articles that have a node
  reports,     \* Neo4j: the reports that have a node
  edges,       \* Neo4j: id -> the articles with a CITES edge from it
  sync,        \* thread -> the request it is finishing
  past         \* what happened to each report, for the properties only

vars == <<cites, nodes, reports, edges, sync, past>>

-----------------------------------------------------------------------------

(***************************************************************************)
(* list is the refreshed list, todo what is left to link.  For the         *)
(* properties: alone says that nothing else was saved or drawn for this    *)
(* report since the commit, had is the nodes when the old edges went.      *)
(***************************************************************************)
Sync == [step: {"idle", "refresh", "node", "clear", "link"},
         inc: Incidents \cup {Null}, list: SUBSET Articles, todo: SUBSET Articles,
         alone: BOOLEAN, had: SUBSET Articles]

Idle == [step |-> "idle", inc |-> Null, list |-> {}, todo |-> {}, alone |-> FALSE, had |-> {}]

\* Every article ever committed for the report; a sync of it once failed.
Past == [cited: SUBSET Articles, failed: BOOLEAN]

Proper(r) ==
  /\ (r.inc = Null) <=> (r.step = "idle")
  /\ IF r.step = "link" THEN r.todo \subseteq r.list ELSE r.todo = {}

TypeOK ==
  /\ cites \in [Incidents -> SUBSET Articles]
  /\ nodes \subseteq Articles
  /\ reports \subseteq Placed
  /\ edges \in [Incidents -> SUBSET nodes]
  /\ sync \in [Threads -> Sync]
  /\ past \in [Incidents -> Past]
  /\ \A t \in Threads : Proper(sync[t])
  /\ \A t \in Threads : sync[t].step \in {"clear", "link"} => sync[t].inc \in reports
  /\ \A i \in Incidents : edges[i] # {} => i \in reports

Busy(i) == {t \in Threads : sync[t].inc = i}

\* A thread takes up report i; whoever is busy with it is alone no more.
Joined(t, i) ==
  [x \in Threads |->
     IF x = t THEN [Idle EXCEPT !.step = "refresh", !.inc = i, !.alone = Busy(i) = {}]
     ELSE IF x \in Busy(i) THEN [sync[x] EXCEPT !.alone = FALSE] ELSE sync[x]]

\* Thread t goes on to r.
Goes(t, r) == sync' = [sync EXCEPT ![t] = r]

\* Variant: the graph is drawn before the commit, which may then fail.
SaveAfterSync(t, i, new) ==
  /\ sync[t].step = "idle"
  /\ sync' = [Joined(t, i) EXCEPT ![t].step = "node", ![t].list = new]
  /\ \/ /\ cites' = [cites EXCEPT ![i] = new]
        /\ past' = [past EXCEPT ![i].cited = @ \cup new]
     \/ UNCHANGED <<cites, past>>
  /\ UNCHANGED <<nodes, reports, edges>>

\* The commit of a handler that is not saving a draft.
Save(t, i, new) ==
  /\ sync[t].step = "idle"
  /\ cites' = [cites EXCEPT ![i] = new]
  /\ past' = [past EXCEPT ![i].cited = @ \cup new]
  /\ sync' = Joined(t, i)
  /\ UNCHANGED <<nodes, reports, edges>>

\* session.refresh: the list as it is committed by now.
Refresh(t) ==
  /\ sync[t].step = "refresh"
  /\ Goes(t, [sync[t] EXCEPT !.step = "node", !.list = cites[sync[t].inc]])
  /\ UNCHANGED <<cites, nodes, reports, edges, past>>

\* A report without a region is not drawn.
Unplaced(t) ==
  /\ sync[t].step = "node" /\ sync[t].inc \notin Placed
  /\ Goes(t, Idle)
  /\ UNCHANGED <<cites, nodes, reports, edges, past>>

\* _SYNC_QUERY.
MergeReport(t) ==
  /\ sync[t].step = "node" /\ sync[t].inc \in Placed
  /\ reports' = reports \cup {sync[t].inc}
  /\ Goes(t, [sync[t] EXCEPT !.step = "clear"])
  /\ UNCHANGED <<cites, nodes, edges, past>>

\* Variant: the old edges are kept, the new ones merged into them.
ClearNothing(t) ==
  /\ sync[t].step = "clear"
  /\ Goes(t, [sync[t] EXCEPT !.step = "link", !.todo = sync[t].list, !.had = nodes])
  /\ UNCHANGED <<cites, nodes, reports, edges, past>>

\* _CLEAR_CITES.
ClearCites(t) ==
  /\ sync[t].step = "clear"
  /\ edges' = [edges EXCEPT ![sync[t].inc] = {}]
  /\ Goes(t, [sync[t] EXCEPT !.step = "link", !.todo = sync[t].list, !.had = nodes])
  /\ UNCHANGED <<cites, nodes, reports, past>>

\* Variant: MERGE instead of MATCH, which makes the missing nodes up.
LinkAnyCitation(t, a) ==
  /\ sync[t].step = "link" /\ a \in sync[t].todo
  /\ edges' = [edges EXCEPT ![sync[t].inc] = @ \cup {a}]
  /\ Goes(t, [sync[t] EXCEPT !.todo = @ \ {a}])
  /\ UNCHANGED <<cites, nodes, reports, past>>

\* _LINK_CITATION: an article without a node, or without a number in its
\* label, gets no edge.
LinkCitation(t, a) ==
  /\ sync[t].step = "link" /\ a \in sync[t].todo
  /\ edges' = [edges EXCEPT ![sync[t].inc] = @ \cup ({a} \cap nodes)]
  /\ Goes(t, [sync[t] EXCEPT !.todo = @ \ {a}])
  /\ UNCHANGED <<cites, nodes, reports, past>>

EndSync(t) ==
  /\ sync[t].step = "link" /\ sync[t].todo = {}
  /\ Goes(t, Idle)
  /\ UNCHANGED <<cites, nodes, reports, edges, past>>

\* The refresh or a statement fails, or the process is killed.
SyncFails(t) ==
  /\ sync[t].step # "idle"
  /\ past' = [past EXCEPT ![sync[t].inc].failed = TRUE]
  /\ Goes(t, Idle)
  /\ UNCHANGED <<cites, nodes, reports, edges>>

\* The graph command adds the node of an article.
AddArticle(a) ==
  /\ nodes' = nodes \cup {a}
  /\ UNCHANGED <<cites, reports, edges, sync, past>>

-----------------------------------------------------------------------------

Init ==
  /\ cites = [i \in Incidents |-> {}]
  /\ nodes = {}
  /\ reports = {}
  /\ edges = [i \in Incidents |-> {}]
  /\ sync = [t \in Threads |-> Idle]
  /\ past = [i \in Incidents |-> [cited |-> {}, failed |-> FALSE]]

Step(t) ==
  \/ \E i \in Incidents, new \in SUBSET Articles : Save(t, i, new)
  \/ Refresh(t)
  \/ Unplaced(t)
  \/ MergeReport(t)
  \/ ClearCites(t)
  \/ \E a \in Articles : LinkCitation(t, a)
  \/ EndSync(t)
  \/ SyncFails(t)

Next ==
  \/ \E t \in Threads : Step(t)
  \/ \E a \in Articles : AddArticle(a)

Spec == Init /\ [][Next]_vars

-----------------------------------------------------------------------------
(* Safety *)

\* The graph never cites for a report what no commit of the report ever
\* cited, whichever syncs run through each other or fail half-way.
CitesWereCommitted == \A i \in Incidents : edges[i] \subseteq past[i].cited

\* A request that comes to its end with nothing else saved or drawn for its
\* report in between leaves in the graph exactly the committed citations,
\* whatever earlier failures left there: all whose article had a node when
\* it began to draw, and nothing that is not cited.
LoneSyncIsExact ==
  \A t \in Threads :
    sync[t].step = "link" /\ sync[t].todo = {} /\ sync[t].alone =>
      LET i == sync[t].inc
      IN  edges[i] \subseteq cites[i] /\ cites[i] \cap sync[t].had \subseteq edges[i]

-----------------------------------------------------------------------------
(* The inductive invariant behind both: the lists under way are committed   *)
(* ones, and a request that is alone has the graph of its report for itself.*)

ListsWereCommitted ==
  /\ \A i \in Incidents : cites[i] \subseteq past[i].cited
  /\ \A t \in Threads : sync[t].inc # Null => sync[t].list \subseteq past[sync[t].inc].cited

Undisturbed(t) ==
  LET r == sync[t]
  IN  /\ r.inc # Null /\ \A x \in Threads \ {t} : sync[x].inc # r.inc
      /\ r.step # "refresh" => r.list = cites[r.inc]
      /\ r.step = "link" => /\ edges[r.inc] \subseteq r.list
                            /\ (r.list \ r.todo) \cap r.had \subseteq edges[r.inc]

AloneIsUndisturbed == \A t \in Threads : sync[t].alone => Undisturbed(t)

HadIsThere == \A t \in Threads : sync[t].had \subseteq nodes

IInv ==
  /\ TypeOK
  /\ ListsWereCommitted
  /\ CitesWereCommitted
  /\ AloneIsUndisturbed
  /\ HadIsThere

-----------------------------------------------------------------------------
(* What a comment in the code says and overlapping syncs refute *)

\* "An administrator may remove articles; they are cleared, or removed
\* citations would remain in the graph": once no request is busy with a
\* report of which no sync failed, the graph has no citation it lacks.
RemovedIsForgotten ==
  \A i \in Incidents : Busy(i) = {} /\ ~past[i].failed => edges[i] \subseteq cites[i]

=============================================================================
