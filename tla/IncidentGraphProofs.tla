------------------------ MODULE IncidentGraphProofs ------------------------
(***************************************************************************)
(* Proofs about IncidentGraph, for every number of reports, threads and    *)
(* articles.                                                               *)
(***************************************************************************)
EXTENDS IncidentGraph, TLAPS

-----------------------------------------------------------------------------
(* Type correctness *)

LEMMA IdleType == Idle \in Sync
  BY DEF Idle, Sync

\* Taking up a report leaves every thread well typed.
LEMMA JoinedType ==
  ASSUME TypeOK, NEW t \in Threads, NEW i \in Incidents
  PROVE  /\ Joined(t, i) \in [Threads -> Sync]
         /\ \A x \in Threads : Proper(Joined(t, i)[x])
         /\ \A x \in Threads : Joined(t, i)[x].step \in {"clear", "link"} => Joined(t, i)[x].inc \in reports
  <1>1. (Busy(i) = {}) \in BOOLEAN
    OBVIOUS
  <1>2. [Idle EXCEPT !.step = "refresh", !.inc = i, !.alone = Busy(i) = {}] \in Sync
    BY <1>1, IdleType DEF Sync, Idle
  <1>3. ASSUME NEW x \in Threads
        PROVE [sync[x] EXCEPT !.alone = FALSE] \in Sync
    BY DEF TypeOK, Sync
  <1>4. Joined(t, i) \in [Threads -> Sync]
    BY <1>2, <1>3 DEF Joined, TypeOK
  <1>5. ASSUME NEW x \in Threads
        PROVE /\ Proper(Joined(t, i)[x])
              /\ Joined(t, i)[x].step \in {"clear", "link"} => Joined(t, i)[x].inc \in reports
    <2>1. CASE x = t
      BY <2>1, NullAssumption DEF Joined, Idle, Proper
    <2>2. CASE x # t
      BY <2>2 DEF Joined, TypeOK, Sync, Proper
    <2>3. QED
      BY <2>1, <2>2
  <1>6. QED
    BY <1>4, <1>5

\* A thread that goes on to a proper state leaves the thread table proper.
LEMMA GoesType ==
  ASSUME TypeOK, NEW t \in Threads, NEW r \in Sync, Goes(t, r), Proper(r),
         reports \subseteq reports', r.step \in {"clear", "link"} => r.inc \in reports'
  PROVE  /\ sync' \in [Threads -> Sync]
         /\ \A x \in Threads : Proper(sync'[x])
         /\ \A x \in Threads : sync'[x].step \in {"clear", "link"} => sync'[x].inc \in reports'
  BY DEF TypeOK, Goes, Proper

\* Ending a request, one way or the other, is well typed.
LEMMA AsleepType ==
  ASSUME TypeOK, NEW t \in Threads, Goes(t, Idle),
         UNCHANGED <<cites, nodes, reports, edges>>, past' \in [Incidents -> Past]
  PROVE  TypeOK'
  <1>1. Proper(Idle) /\ Idle.step = "idle"
    BY DEF Idle, Proper
  <1>2. QED
    BY <1>1, IdleType, GoesType DEF TypeOK

\* Every step keeps the types.
LEMMA TypeStep == TypeOK /\ [Next]_vars => TypeOK'
  <1> SUFFICES ASSUME TypeOK, [Next]_vars PROVE TypeOK'
    OBVIOUS
  <1>1. ASSUME NEW t \in Threads, NEW i \in Incidents, NEW new \in SUBSET Articles,
               Save(t, i, new)
        PROVE TypeOK'
    BY <1>1, JoinedType DEF Save, TypeOK, Past
  <1>2. ASSUME NEW t \in Threads, Refresh(t) PROVE TypeOK'
    <2> DEFINE r == [sync[t] EXCEPT !.step = "node", !.list = cites[sync[t].inc]]
    <2>1. sync[t] \in Sync /\ sync[t].inc \in Incidents /\ Proper(sync[t])
      BY <1>2 DEF Refresh, TypeOK, Sync, Proper
    <2>2. r \in Sync /\ Proper(r)
      BY <1>2, <2>1, NullAssumption DEF Refresh, TypeOK, Sync, Proper
    <2>3. Goes(t, r)
      BY <1>2 DEF Refresh
    <2>4. reports \subseteq reports' /\ (r.step \in {"clear", "link"} => r.inc \in reports')
      BY <1>2, <2>1 DEF Refresh, TypeOK, Sync
    <2> HIDE DEF r
    <2>5. QED
      BY <1>2, <2>1, <2>2, <2>3, <2>4, GoesType DEF Refresh, TypeOK
  <1>3. ASSUME NEW t \in Threads, Unplaced(t) PROVE TypeOK'
    BY <1>3, AsleepType DEF Unplaced, TypeOK
  <1>4. ASSUME NEW t \in Threads, MergeReport(t) PROVE TypeOK'
    <2> DEFINE r == [sync[t] EXCEPT !.step = "clear"]
    <2>1. sync[t] \in Sync /\ sync[t].inc \in Incidents /\ Proper(sync[t])
      BY <1>4 DEF MergeReport, TypeOK, Sync, Proper
    <2>2. r \in Sync /\ Proper(r)
      BY <1>4, <2>1, NullAssumption DEF MergeReport, TypeOK, Sync, Proper
    <2>3. Goes(t, r)
      BY <1>4 DEF MergeReport
    <2>4. reports \subseteq reports' /\ (r.step \in {"clear", "link"} => r.inc \in reports')
      BY <1>4, <2>1 DEF MergeReport, TypeOK, Sync
    <2> HIDE DEF r
    <2>5. QED
      BY <1>4, <2>1, <2>2, <2>3, <2>4, GoesType DEF MergeReport, TypeOK
  <1>5. ASSUME NEW t \in Threads, ClearCites(t) PROVE TypeOK'
    <2> DEFINE r == [sync[t] EXCEPT !.step = "link", !.todo = sync[t].list, !.had = nodes]
    <2>1. sync[t] \in Sync /\ sync[t].inc \in Incidents /\ Proper(sync[t])
      BY <1>5 DEF ClearCites, TypeOK, Sync, Proper
    <2>2. r \in Sync /\ Proper(r)
      BY <1>5, <2>1, NullAssumption DEF ClearCites, TypeOK, Sync, Proper
    <2>3. Goes(t, r)
      BY <1>5 DEF ClearCites
    <2>4. reports \subseteq reports' /\ (r.step \in {"clear", "link"} => r.inc \in reports')
      BY <1>5, <2>1 DEF ClearCites, TypeOK, Sync
    <2> HIDE DEF r
    <2>5. QED
      BY <1>5, <2>1, <2>2, <2>3, <2>4, GoesType DEF ClearCites, TypeOK
  <1>6. ASSUME NEW t \in Threads, NEW a \in Articles, LinkCitation(t, a) PROVE TypeOK'
    <2> DEFINE r == [sync[t] EXCEPT !.todo = @ \ {a}]
    <2>1. sync[t] \in Sync /\ sync[t].inc \in Incidents /\ Proper(sync[t])
      BY <1>6 DEF LinkCitation, TypeOK, Sync, Proper
    <2>2. r \in Sync /\ Proper(r)
      BY <1>6, <2>1, NullAssumption DEF LinkCitation, TypeOK, Sync, Proper
    <2>3. Goes(t, r)
      BY <1>6 DEF LinkCitation
    <2>4. reports \subseteq reports' /\ (r.step \in {"clear", "link"} => r.inc \in reports')
      BY <1>6, <2>1 DEF LinkCitation, TypeOK, Sync
    <2> HIDE DEF r
    <2>5. sync[t].inc \in reports
      BY <1>6 DEF LinkCitation, TypeOK
    <2>6. QED
      BY <1>6, <2>1, <2>2, <2>3, <2>4, <2>5, GoesType DEF LinkCitation, TypeOK
  <1>7. ASSUME NEW t \in Threads, EndSync(t) PROVE TypeOK'
    BY <1>7, AsleepType DEF EndSync, TypeOK
  <1>8. ASSUME NEW t \in Threads, SyncFails(t) PROVE TypeOK'
    BY <1>8, AsleepType DEF SyncFails, TypeOK, Past
  <1>9. ASSUME NEW a \in Articles, AddArticle(a) PROVE TypeOK'
    BY <1>9 DEF AddArticle, TypeOK
  <1>10. CASE UNCHANGED vars
    BY <1>10 DEF vars, TypeOK
  <1>11. QED
    BY <1>1, <1>2, <1>3, <1>4, <1>5, <1>6, <1>7, <1>8, <1>9, <1>10 DEF Next, Step

\* Every reachable state is well typed: the graph has edges only between
\* nodes it has.
THEOREM TypeCorrect == Spec => []TypeOK
  <1>1. Init => TypeOK
    BY IdleType DEF Init, TypeOK, Past, Idle, Proper
  <1>2. QED
    BY <1>1, TypeStep, PTL DEF Spec

-----------------------------------------------------------------------------
(* The graph cites only what was committed *)

\* No step makes a list, or an edge, of an article that was never committed
\* for the report: what was committed once stays so.
LEMMA CommittedStep ==
  ASSUME TypeOK, ListsWereCommitted, CitesWereCommitted, [Next]_vars
  PROVE  ListsWereCommitted' /\ CitesWereCommitted'
  <1> USE DEF ListsWereCommitted, CitesWereCommitted
  <1>0. \A t \in Threads : sync[t] \in Sync /\ Proper(sync[t])
    BY DEF TypeOK
  <1>1. ASSUME NEW t \in Threads, NEW i \in Incidents, NEW new \in SUBSET Articles,
               Save(t, i, new)
        PROVE ListsWereCommitted' /\ CitesWereCommitted'
    <2>1. ASSUME NEW x \in Threads
          PROVE \/ sync'[x].list = {}
                \/ sync'[x].list = sync[x].list /\ sync'[x].inc = sync[x].inc
      <3>1. CASE x = t
        BY <3>1, <1>1 DEF Save, Joined, Idle
      <3>2. CASE x # t
        BY <3>2, <1>1, <1>0 DEF Save, Joined, Sync
      <3>3. QED
        BY <3>1, <3>2
    <2>2. \A j \in Incidents : past[j].cited \subseteq past'[j].cited
      BY <1>1 DEF Save, TypeOK, Past
    <2>3. cites' = [cites EXCEPT ![i] = new] /\ new \subseteq past'[i].cited
      BY <1>1 DEF Save, TypeOK, Past
    <2>4. \A j \in Incidents : cites'[j] \subseteq past'[j].cited
      BY <2>2, <2>3 DEF TypeOK
    <2>5. ASSUME NEW x \in Threads, sync'[x].inc # Null
          PROVE sync'[x].list \subseteq past'[sync'[x].inc].cited
      <3>1. CASE sync'[x].list = {}
        BY <3>1
      <3>2. CASE sync'[x].list # {}
        <4>1. /\ sync'[x].inc = sync[x].inc
              /\ sync'[x].list = sync[x].list
          BY <3>2, <2>1
        <4>2. sync[x].inc \in Incidents
          BY <4>1, <2>5, <1>0 DEF Sync
        <4>3. sync[x].list \subseteq past[sync[x].inc].cited
          BY <4>2, NullAssumption
        <4>4. past[sync[x].inc].cited \subseteq past'[sync[x].inc].cited
          BY <4>2, <2>2
        <4>5. QED
          BY <4>1, <4>3, <4>4
      <3>3. QED
        BY <3>1, <3>2
    <2>6. edges' = edges
      BY <1>1 DEF Save
    <2>7. QED
      BY <2>2, <2>4, <2>5, <2>6
  <1>2. ASSUME NEW t \in Threads, Refresh(t)
        PROVE ListsWereCommitted' /\ CitesWereCommitted'
    BY <1>2, <1>0 DEF Refresh, Goes, TypeOK, Sync, Proper
  <1>3. ASSUME NEW t \in Threads, Unplaced(t) \/ EndSync(t)
        PROVE ListsWereCommitted' /\ CitesWereCommitted'
    BY <1>3, <1>0 DEF Unplaced, EndSync, Goes, Idle, TypeOK
  <1>4. ASSUME NEW t \in Threads, MergeReport(t)
        PROVE ListsWereCommitted' /\ CitesWereCommitted'
    BY <1>4, <1>0 DEF MergeReport, Goes, TypeOK, Sync
  <1>5. ASSUME NEW t \in Threads, ClearCites(t)
        PROVE ListsWereCommitted' /\ CitesWereCommitted'
    BY <1>5, <1>0 DEF ClearCites, Goes, TypeOK, Sync
  <1>6. ASSUME NEW t \in Threads, NEW a \in Articles, LinkCitation(t, a)
        PROVE ListsWereCommitted' /\ CitesWereCommitted'
    <2>1. sync[t].inc \in Incidents /\ a \in sync[t].list
      BY <1>6, <1>0 DEF LinkCitation, Sync, Proper
    <2>2. QED
      BY <1>6, <1>0, <2>1, NullAssumption DEF LinkCitation, Goes, TypeOK, Sync
  <1>7. ASSUME NEW t \in Threads, SyncFails(t)
        PROVE ListsWereCommitted' /\ CitesWereCommitted'
    BY <1>7, <1>0 DEF SyncFails, Goes, Idle, TypeOK, Past, Sync
  <1>8. ASSUME NEW a \in Articles, AddArticle(a)
        PROVE ListsWereCommitted' /\ CitesWereCommitted'
    BY <1>8 DEF AddArticle
  <1>9. CASE UNCHANGED vars
    BY <1>9 DEF vars
  <1>10. QED
    BY <1>1, <1>2, <1>3, <1>4, <1>5, <1>6, <1>7, <1>8, <1>9 DEF Next, Step

\* The graph never cites for a report what no commit of it ever cited.
THEOREM CitesAlwaysCommitted == Spec => []CitesWereCommitted
  <1>1. Init => ListsWereCommitted /\ CitesWereCommitted
    BY DEF Init, ListsWereCommitted, CitesWereCommitted, Idle
  <1>2. TypeOK /\ (ListsWereCommitted /\ CitesWereCommitted) /\ [Next]_vars
        => (ListsWereCommitted /\ CitesWereCommitted)'
    BY CommittedStep
  <1>3. QED
    BY <1>1, <1>2, TypeCorrect, PTL DEF Spec

-----------------------------------------------------------------------------
(* A request that is alone draws exactly what is committed *)

\* A step of one thread about its own report does not disturb another that
\* is alone with a report: theirs are two reports.
LEMMA OthersUndisturbed ==
  ASSUME TypeOK, AloneIsUndisturbed, NEW t \in Threads, NEW r, Goes(t, r),
         r.inc \in {sync[t].inc, Null}, cites' = cites,
         \A j \in Incidents : j # sync[t].inc => edges'[j] = edges[j],
         NEW x \in Threads, x # t, sync'[x].alone
  PROVE  Undisturbed(x)'
  <1>1. sync'[x] = sync[x] /\ sync'[t] = r
    BY DEF Goes, TypeOK
  <1>2. Undisturbed(x)
    BY <1>1 DEF AloneIsUndisturbed
  <1>3. sync[x].inc \in Incidents
    BY <1>2 DEF Undisturbed, TypeOK, Sync
  <1>4. edges'[sync[x].inc] = edges[sync[x].inc]
    BY <1>2, <1>3 DEF Undisturbed
  <1>5. \A y \in Threads \ {x} : sync'[y].inc # sync[x].inc
    BY <1>1, <1>2 DEF Undisturbed, Goes, TypeOK
  <1>6. QED
    BY <1>1, <1>2, <1>4, <1>5 DEF Undisturbed

\* The thread that steps, when it is alone and goes on with its report, is
\* still alone with it.
LEMMA StillAlone ==
  ASSUME TypeOK, NEW t \in Threads, Undisturbed(t), NEW r, Goes(t, r), r.inc = sync[t].inc
  PROVE  /\ sync'[t] = r /\ sync'[t].inc # Null
         /\ \A x \in Threads \ {t} : sync'[x].inc # sync'[t].inc
  BY DEF Undisturbed, Goes, TypeOK

\* Every step keeps requests that are alone undisturbed.
LEMMA AloneStep ==
  ASSUME TypeOK, HadIsThere, AloneIsUndisturbed, [Next]_vars
  PROVE  AloneIsUndisturbed'
  <1>0. \A t \in Threads : sync[t] \in Sync /\ Proper(sync[t])
    BY DEF TypeOK
  <1>1. ASSUME NEW t \in Threads, NEW i \in Incidents, NEW new \in SUBSET Articles,
               Save(t, i, new)
        PROVE AloneIsUndisturbed'
    <2> SUFFICES ASSUME NEW x \in Threads, sync'[x].alone PROVE Undisturbed(x)'
      BY DEF AloneIsUndisturbed
    <2>1. CASE x = t
      <3>1. sync'[t].inc = i /\ sync'[t].step = "refresh" /\ Busy(i) = {}
        BY <2>1, <1>1 DEF Save, Joined, Idle
      <3>2. ASSUME NEW y \in Threads \ {t} PROVE sync'[y].inc = sync[y].inc /\ sync[y].inc # i
        BY <3>1, <1>1, <1>0 DEF Save, Joined, Busy, Sync
      <3>3. QED
        BY <2>1, <3>1, <3>2, NullAssumption DEF Undisturbed
    <2>2. CASE x # t
      <3>1. sync'[x] = sync[x] /\ sync[x].inc # i
        BY <2>2, <1>1, <1>0 DEF Save, Joined, Busy, Sync
      <3>2. Undisturbed(x)
        BY <3>1 DEF AloneIsUndisturbed
      <3>3. ASSUME NEW y \in Threads \ {x} PROVE sync'[y].inc # sync[x].inc
        BY <3>1, <3>2, <1>1, <1>0 DEF Save, Joined, Idle, Sync, Undisturbed
      <3>4. edges' = edges /\ cites'[sync[x].inc] = cites[sync[x].inc]
        BY <3>1, <3>2, <1>1, <1>0 DEF Save, TypeOK, Sync, Undisturbed
      <3>5. QED
        BY <3>1, <3>2, <3>3, <3>4 DEF Undisturbed
    <2>3. QED
      BY <2>1, <2>2
  <1>2. ASSUME NEW t \in Threads, Refresh(t)
        PROVE AloneIsUndisturbed'
    <2> DEFINE r == [sync[t] EXCEPT !.step = "node", !.list = cites[sync[t].inc]]
    <2>1. Goes(t, r) /\ r.inc = sync[t].inc /\ cites' = cites
      BY <1>2, <1>0 DEF Refresh, Sync
    <2>2. \A j \in Incidents : j # sync[t].inc => edges'[j] = edges[j]
      BY <1>2 DEF Refresh, TypeOK
    <2>3. ASSUME sync'[t].alone PROVE Undisturbed(t)'
      <3>1. Undisturbed(t)
        BY <2>1, <2>3, <1>0 DEF AloneIsUndisturbed, Goes, TypeOK, Sync
      <3>2. /\ sync'[t] = r /\ sync'[t].inc # Null
            /\ \A x \in Threads \ {t} : sync'[x].inc # sync'[t].inc
        BY <2>1, <3>1, StillAlone
      <3>3. QED
        BY <3>1, <3>2, <2>1, <1>0 DEF Undisturbed, Sync
    <2> HIDE DEF r
    <2>4. ASSUME NEW x \in Threads, x # t, sync'[x].alone PROVE Undisturbed(x)'
      BY <2>1, <2>2, <2>4, OthersUndisturbed
    <2>5. QED
      BY <2>3, <2>4 DEF AloneIsUndisturbed
  <1>3. ASSUME NEW t \in Threads, MergeReport(t)
        PROVE AloneIsUndisturbed'
    <2> DEFINE r == [sync[t] EXCEPT !.step = "clear"]
    <2>1. Goes(t, r) /\ r.inc = sync[t].inc /\ cites' = cites
      BY <1>3, <1>0 DEF MergeReport, Sync
    <2>2. \A j \in Incidents : j # sync[t].inc => edges'[j] = edges[j]
      BY <1>3 DEF MergeReport, TypeOK
    <2>3. ASSUME sync'[t].alone PROVE Undisturbed(t)'
      <3>1. Undisturbed(t)
        BY <2>1, <2>3, <1>0 DEF AloneIsUndisturbed, Goes, TypeOK, Sync
      <3>2. /\ sync'[t] = r /\ sync'[t].inc # Null
            /\ \A x \in Threads \ {t} : sync'[x].inc # sync'[t].inc
        BY <2>1, <3>1, StillAlone
      <3>3. QED
        BY <3>1, <3>2, <2>1, <1>0, <1>3 DEF Undisturbed, MergeReport, Sync
    <2> HIDE DEF r
    <2>4. ASSUME NEW x \in Threads, x # t, sync'[x].alone PROVE Undisturbed(x)'
      BY <2>1, <2>2, <2>4, OthersUndisturbed
    <2>5. QED
      BY <2>3, <2>4 DEF AloneIsUndisturbed
  <1>4. ASSUME NEW t \in Threads, ClearCites(t)
        PROVE AloneIsUndisturbed'
    <2> DEFINE r == [sync[t] EXCEPT !.step = "link", !.todo = sync[t].list, !.had = nodes]
    <2>1. Goes(t, r) /\ r.inc = sync[t].inc /\ cites' = cites
      BY <1>4, <1>0 DEF ClearCites, Sync
    <2>2. \A j \in Incidents : j # sync[t].inc => edges'[j] = edges[j]
      BY <1>4 DEF ClearCites, TypeOK
    <2>3. ASSUME sync'[t].alone PROVE Undisturbed(t)'
      <3>1. Undisturbed(t)
        BY <2>1, <2>3, <1>0 DEF AloneIsUndisturbed, Goes, TypeOK, Sync
      <3>2. /\ sync'[t] = r /\ sync'[t].inc # Null
            /\ \A x \in Threads \ {t} : sync'[x].inc # sync'[t].inc
        BY <2>1, <3>1, StillAlone
      <3>3. edges'[sync[t].inc] = {}
        BY <3>1, <1>4, <1>0 DEF ClearCites, TypeOK, Sync, Undisturbed
      <3>4. QED
        BY <3>1, <3>2, <3>3, <2>1, <1>0, <1>4 DEF Undisturbed, ClearCites, Sync
    <2> HIDE DEF r
    <2>4. ASSUME NEW x \in Threads, x # t, sync'[x].alone PROVE Undisturbed(x)'
      BY <2>1, <2>2, <2>4, OthersUndisturbed
    <2>5. QED
      BY <2>3, <2>4 DEF AloneIsUndisturbed
  <1>5. ASSUME NEW t \in Threads, NEW a \in Articles, LinkCitation(t, a)
        PROVE AloneIsUndisturbed'
    <2> DEFINE r == [sync[t] EXCEPT !.todo = @ \ {a}]
    <2>1. Goes(t, r) /\ r.inc = sync[t].inc /\ cites' = cites
      BY <1>5, <1>0 DEF LinkCitation, Sync
    <2>2. \A j \in Incidents : j # sync[t].inc => edges'[j] = edges[j]
      BY <1>5 DEF LinkCitation, TypeOK
    <2>3. ASSUME sync'[t].alone PROVE Undisturbed(t)'
      <3>1. Undisturbed(t)
        BY <2>1, <2>3, <1>0 DEF AloneIsUndisturbed, Goes, TypeOK, Sync
      <3>2. /\ sync'[t] = r /\ sync'[t].inc # Null
            /\ \A x \in Threads \ {t} : sync'[x].inc # sync'[t].inc
        BY <2>1, <3>1, StillAlone
      <3>3. edges'[sync[t].inc] = edges[sync[t].inc] \cup ({a} \cap nodes)
        BY <3>1, <1>5, <1>0 DEF LinkCitation, TypeOK, Sync, Undisturbed
      <3>4. a \in sync[t].list /\ sync[t].had \subseteq nodes /\ sync[t].step = "link"
        BY <1>5, <1>0 DEF LinkCitation, HadIsThere, Proper
      <3>5. QED
        BY <3>1, <3>2, <3>3, <3>4, <2>1, <1>0 DEF Undisturbed, Sync
    <2> HIDE DEF r
    <2>4. ASSUME NEW x \in Threads, x # t, sync'[x].alone PROVE Undisturbed(x)'
      BY <2>1, <2>2, <2>4, OthersUndisturbed
    <2>5. QED
      BY <2>3, <2>4 DEF AloneIsUndisturbed
  <1>6. ASSUME NEW t \in Threads, Unplaced(t) \/ EndSync(t) \/ SyncFails(t)
        PROVE AloneIsUndisturbed'
    <2>1. Goes(t, Idle) /\ Idle.inc = Null /\ ~Idle.alone /\ cites' = cites /\ edges' = edges
      BY <1>6 DEF Unplaced, EndSync, SyncFails, Idle
    <2>2. ~sync'[t].alone
      BY <2>1 DEF Goes, TypeOK
    <2> HIDE DEF Idle
    <2>3. ASSUME NEW x \in Threads, x # t, sync'[x].alone PROVE Undisturbed(x)'
      BY <2>1, <2>3, OthersUndisturbed
    <2>4. QED
      BY <2>2, <2>3 DEF AloneIsUndisturbed
  <1>7. ASSUME NEW a \in Articles, AddArticle(a)
        PROVE AloneIsUndisturbed'
    BY <1>7 DEF AddArticle, AloneIsUndisturbed, Undisturbed
  <1>8. CASE UNCHANGED vars
    BY <1>8 DEF vars, AloneIsUndisturbed, Undisturbed
  <1>9. QED
    BY <1>1, <1>2, <1>3, <1>4, <1>5, <1>6, <1>7, <1>8 DEF Next, Step

\* The nodes that were there when a request began to draw are still there.
LEMMA HadStep ==
  ASSUME TypeOK, HadIsThere, [Next]_vars
  PROVE  HadIsThere'
  <1>0. \A t \in Threads : sync[t] \in Sync
    BY DEF TypeOK
  <1>1. ASSUME NEW t \in Threads, NEW i \in Incidents, NEW new \in SUBSET Articles,
               Save(t, i, new)
        PROVE HadIsThere'
    <2>1. ASSUME NEW x \in Threads PROVE sync'[x].had \in {{}, sync[x].had}
      BY <1>1, <1>0 DEF Save, Joined, Idle, Sync
    <2>2. QED
      BY <2>1, <1>1 DEF Save, HadIsThere
  <1>2. ASSUME NEW t \in Threads, NEW r \in Sync, Goes(t, r), r.had \subseteq nodes, nodes' = nodes
        PROVE HadIsThere'
    BY <1>2 DEF Goes, HadIsThere, TypeOK
  <1>3. ASSUME NEW t \in Threads, Refresh(t) PROVE HadIsThere'
    BY <1>3, <1>0 DEF Refresh, HadIsThere, Goes, TypeOK, Sync
  <1>4. ASSUME NEW t \in Threads, MergeReport(t) PROVE HadIsThere'
    BY <1>4, <1>0 DEF MergeReport, HadIsThere, Goes, TypeOK, Sync
  <1>5. ASSUME NEW t \in Threads, ClearCites(t) PROVE HadIsThere'
    BY <1>5, <1>0 DEF ClearCites, HadIsThere, Goes, TypeOK, Sync
  <1>6. ASSUME NEW t \in Threads, NEW a \in Articles, LinkCitation(t, a) PROVE HadIsThere'
    BY <1>6, <1>0 DEF LinkCitation, HadIsThere, Goes, TypeOK, Sync
  <1>7. ASSUME NEW t \in Threads, Unplaced(t) \/ EndSync(t) \/ SyncFails(t) PROVE HadIsThere'
    BY <1>7, <1>2, IdleType DEF Unplaced, EndSync, SyncFails, Idle
  <1>8. ASSUME NEW a \in Articles, AddArticle(a) PROVE HadIsThere'
    BY <1>8 DEF AddArticle, HadIsThere
  <1>9. CASE UNCHANGED vars
    BY <1>9 DEF vars, HadIsThere
  <1>10. QED
    BY <1>1, <1>3, <1>4, <1>5, <1>6, <1>7, <1>8, <1>9 DEF Next, Step

\* The inductive invariant holds.
THEOREM Inductive == Spec => []IInv
  <1>1. Init => HadIsThere /\ AloneIsUndisturbed /\ ListsWereCommitted
    BY DEF Init, HadIsThere, AloneIsUndisturbed, ListsWereCommitted, Idle
  <1>2. TypeOK /\ HadIsThere /\ [Next]_vars => HadIsThere'
    BY HadStep
  <1>3. TypeOK /\ HadIsThere /\ AloneIsUndisturbed /\ [Next]_vars => AloneIsUndisturbed'
    BY AloneStep
  <1>4. TypeOK /\ CitesWereCommitted /\ ListsWereCommitted /\ [Next]_vars => ListsWereCommitted'
    BY CommittedStep
  <1>5. TypeOK /\ ListsWereCommitted /\ CitesWereCommitted /\ AloneIsUndisturbed /\ HadIsThere => IInv
    BY DEF IInv
  <1>6. QED
    BY <1>1, <1>2, <1>3, <1>4, <1>5, TypeCorrect, CitesAlwaysCommitted, PTL DEF Spec

\* A request with nothing else saved or drawn for its report since its
\* commit leaves exactly the committed citations in the graph.
THEOREM LoneSyncAlwaysExact == Spec => []LoneSyncIsExact
  <1>1. IInv => LoneSyncIsExact
    <2> SUFFICES ASSUME IInv, NEW t \in Threads,
                        sync[t].step = "link", sync[t].todo = {}, sync[t].alone
                 PROVE  /\ edges[sync[t].inc] \subseteq cites[sync[t].inc]
                        /\ cites[sync[t].inc] \cap sync[t].had \subseteq edges[sync[t].inc]
      BY DEF LoneSyncIsExact
    <2>1. Undisturbed(t)
      BY DEF IInv, AloneIsUndisturbed
    <2>2. QED
      BY <2>1 DEF Undisturbed
  <1>2. QED
    BY <1>1, Inductive, PTL

=============================================================================
